---------------------------- MODULE Mwan3Proofs ----------------------------
(***************************************************************************)
(* The tracker and the hotplug scripts of mwan3, for any number of flaps,  *)
(* reloads, crashes, hosts and thresholds.  Three parts, in this order:    *)
(*  - the hotplug scripts and the lock that serialises them: type          *)
(*    correctness, PolicyRoutable and PinsFollowPolicy;                    *)
(*  - SettledIsSound: who has the news of a change that the tracker or the *)
(*    policy has not followed yet;                                         *)
(*  - the hysteresis of the tracker's score.                               *)
(***************************************************************************)
EXTENDS Mwan3Track, SequenceTheorems, TLAPS

-----------------------------------------------------------------------------
(***************************************************************************)
(* Only the holder of procd_lock changes the interface's state, its rules  *)
(* and its place in the policy, so what holds of these between two steps   *)
(* is a matter of the steps the holder has left (StateOK).                 *)
(***************************************************************************)
\* What each script may have left to do.
ConnectedLeft ==
  {<<"online", "del_rules", "add_rules", "policies">>,
   <<"del_rules", "add_rules", "policies">>,
   <<"add_rules", "policies">>,
   <<"policies">>}
IfupLeft ==
  {<<"del_rules", "add_rules", "status", "policies_if_online", "USR2">>,
   <<"add_rules", "status", "policies_if_online", "USR2">>,
   <<"status", "policies_if_online", "USR2">>,
   <<"policies_if_online", "USR2">>,
   <<"USR2">>}
DisconnectedLeft ==
  {<<"offline", "policies_flush">>,
   <<"policies_flush">>}
IfdownLeft ==
  {<<"offline", "policies_flush", "del_rules", "USR1">>,
   <<"policies_flush", "del_rules", "USR1">>,
   <<"del_rules", "USR1">>,
   <<"USR1">>}
ReloadLeft ==
  {<<"policies", "if_up", "del_rules", "add_rules", "HUP">>,
   <<"if_up", "del_rules", "add_rules", "HUP">>,
   <<"del_rules", "add_rules", "HUP">>,
   <<"add_rules", "HUP">>,
   <<"HUP">>}

Left == ConnectedLeft \cup IfupLeft \cup DisconnectedLeft \cup IfdownLeft
          \cup ReloadLeft \cup {<<>>}

\* A script that has not obtained the lock has done nothing yet.
Full == {Arm[a] : a \in Actions}

\* The steps left of a script that has set the state and has yet to rebuild
\* the policies accordingly.
SetOnline ==
  {<<"del_rules", "add_rules", "policies">>, <<"add_rules", "policies">>,
   <<"policies">>}
SetOffline ==
  {<<"policies_flush">>, <<"policies_flush", "del_rules", "USR1">>}

\* The ones of a script that has just added the rules, is about to add them,
\* and has taken the interface out of the policy for good.
HasRules ==
  {<<"policies">>, <<"status", "policies_if_online", "USR2">>,
   <<"policies_if_online", "USR2">>, <<"USR2">>}
Adding ==
  {<<"add_rules", "policies">>,
   <<"add_rules", "status", "policies_if_online", "USR2">>,
   <<"add_rules", "HUP">>}
Dropped == {<<"del_rules", "USR1">>, <<"USR1">>}

\* An interface that is in the policy, or that the next rebuild puts there,
\* has its rules, unless the script at work has just set its state or is
\* about to add the rules it deleted.
StateOK(t) ==
  /\ t \in SetOnline => iface_state = "online"
  /\ t \in SetOffline => iface_state = "offline"
  /\ t \in Dropped => iface_state = "offline" /\ ~policy
  /\ t \in HasRules => rules
  /\ t \notin Adding => (policy => rules)
  /\ t \notin Adding \cup SetOnline => (iface_state = "online" => rules)

ScriptsOK ==
  /\ \A c \in Callers :
       /\ hp[c].todo \in Left
       /\ c # lock /\ ~Idle(c) => hp[c].todo \in Full
  /\ lock # "free" => ~Idle(lock)
  /\ pc \notin {"dead", "hotplug"} => Idle("tracker")
  /\ pc = "track" => STATUS \in {"online", "offline"}

HolderOK ==
  /\ lock = "free" => StateOK(<<>>)
  /\ lock # "free" => StateOK(hp[lock].todo)

ScriptInv == TypeOK /\ ScriptsOK /\ HolderOK

-----------------------------------------------------------------------------
\* Every step of every arm is a step.
LEMMA StepsAre ==
  {"online", "offline", "status", "policies", "policies_flush",
   "policies_if_online", "if_up", "del_rules", "add_rules", "HUP", "USR1",
   "USR2"} \subseteq Steps
<1>1. ASSUME NEW a \in Actions, NEW i \in 1..Len(Arm[a])
      PROVE  Arm[a][i] \in Steps
  BY <1>1 DEF Steps
<1>2. {"online", "del_rules", "add_rules", "policies"} \subseteq Steps
  <2>1. /\ Arm["connected"] = <<"online", "del_rules", "add_rules", "policies">>
        /\ "connected" \in Actions
    BY DEF Arm, Actions
  <2> QED BY <1>1, <2>1
<1>3. {"status", "policies_if_online", "USR2"} \subseteq Steps
  <2>1. /\ Arm["ifup"] = <<"del_rules", "add_rules", "status",
                           "policies_if_online", "USR2">>
        /\ "ifup" \in Actions
    BY DEF Arm, Actions
  <2> QED BY <1>1, <2>1
<1>4. {"offline", "policies_flush", "USR1"} \subseteq Steps
  <2>1. /\ Arm["ifdown"] = <<"offline", "policies_flush", "del_rules", "USR1">>
        /\ "ifdown" \in Actions
    BY DEF Arm, Actions
  <2> QED BY <1>1, <2>1
<1>5. {"if_up", "HUP"} \subseteq Steps
  <2>1. /\ Arm["reload"] = <<"policies", "if_up", "del_rules", "add_rules",
                             "HUP">>
        /\ "reload" \in Actions
    BY DEF Arm, Actions
  <2> QED BY <1>1, <2>1
<1> QED BY <1>2, <1>3, <1>4, <1>5

\* What is left of a script is a sequence of steps.
LEMMA LeftType == Left \subseteq Seq(Steps)
<1> HIDE DEF Steps
<1>1. ConnectedLeft \subseteq Seq(Steps)
  BY StepsAre DEF ConnectedLeft
<1>2. IfupLeft \subseteq Seq(Steps)
  BY StepsAre DEF IfupLeft
<1>3. DisconnectedLeft \cup IfdownLeft \subseteq Seq(Steps)
  BY StepsAre DEF DisconnectedLeft, IfdownLeft
<1>4. ReloadLeft \subseteq Seq(Steps)
  BY StepsAre DEF ReloadLeft
<1>5. <<>> \in Seq(Steps)
  OBVIOUS
<1> QED BY <1>1, <1>2, <1>3, <1>4, <1>5 DEF Left

\* A script starts with all of its steps left.
LEMMA ScriptType ==
  ASSUME NEW a \in Actions
  PROVE  /\ Script(a).action = a /\ a # "none"
         /\ Script(a).todo \in Full
         /\ Script(a).todo \in Left
         /\ Script(a) \in [action: Actions \cup {"none"},
                           status: {"online", "offline"}, todo: Seq(Steps)]
<1>1. Arm[a] \in Full /\ a # "none"
  BY DEF Full, Actions
<1>2. Arm[a] \in Left
  BY DEF Actions, Arm, Left, ConnectedLeft, IfupLeft, DisconnectedLeft,
         IfdownLeft, ReloadLeft
<1> QED BY <1>1, <1>2, LeftType DEF Script

\* mwan3_rebuild_iface_rules skips two steps for a down interface.
LEMMA SkipRules ==
  LET t == <<"if_up", "del_rules", "add_rules", "HUP">>
  IN  SubSeq(t, 4, Len(t)) = <<"HUP">>
<1> DEFINE t == <<"if_up", "del_rules", "add_rules", "HUP">>
           r == SubSeq(t, 4, 4)
<1>1. Len(t) = 4 /\ t[4] = "HUP"
  OBVIOUS
<1>2. \A i \in 4..4 : t[i] \in {"HUP"}
  BY <1>1
<1>3. r \in Seq({"HUP"}) /\ Len(r) = 1
  <2> HIDE DEF t
  <2> QED BY <1>2, SubSeqProperties
<1>4. r = <<"HUP">>
  <2> HIDE DEF r
  <2> QED BY <1>3
<1> QED BY <1>1, <1>4

\* What a step does to the state of the interface.
Effect(step, c) ==
  /\ iface_state' = CASE step = "online" -> "online"
                      [] step = "offline" -> "offline"
                      [] step = "status" -> hp[c].status
                      [] OTHER -> iface_state
  /\ rules' = CASE step = "add_rules" -> TRUE
                [] step = "del_rules" -> FALSE
                [] OTHER -> rules
  /\ step \in {"policies", "policies_flush"} =>
       policy' = (iface_state = "online")
  /\ step = "policies_if_online" =>
       policy' \in {policy, iface_state = "online"}
  /\ step \notin {"policies", "policies_flush", "policies_if_online"} =>
       policy' = policy

\* The functions of the script have no other effect on it.
LEMMA StepEffect ==
  ASSUME NEW c \in Callers, NEW step, rules \in BOOLEAN,
         \/ SetState(step, c)
         \/ SetPolicies(step, c)
         \/ SetRules(step)
         \/ SendSignal(step, pc # "dead")
  PROVE  Effect(step, c)
<1>1. CASE SetState(step, c)
  BY <1>1 DEF SetState, Effect
<1>2. CASE SetPolicies(step, c)
  BY <1>2 DEF SetPolicies, Effect
<1>3. CASE SetRules(step)
  BY <1>3 DEF SetRules, Effect
<1>4. CASE SendSignal(step, pc # "dead")
  BY <1>4 DEF SendSignal, Signals, Effect
<1> QED BY <1>1, <1>2, <1>3, <1>4

\* The holder of the lock takes its next step.
LEMMA StepOK ==
  ASSUME NEW c \in Callers, NEW t \in Left, t # <<>>,
         NEW r, r = Remaining(t),
         iface_state \in {"online", "offline"},
         hp[c].status \in {"online", "offline"},
         policy \in BOOLEAN, rules \in BOOLEAN,
         StateOK(t), Effect(Head(t), c)
  PROVE  r \in Left /\ StateOK(r)'
<1> USE DEF StateOK, SetOnline, SetOffline, Dropped, HasRules, Adding,
            Remaining, Effect
<1>1. CASE t \in ConnectedLeft
  <2>1. CASE t = <<"online", "del_rules", "add_rules", "policies">>
    BY <2>1 DEF Left, ConnectedLeft
  <2>2. CASE t = <<"del_rules", "add_rules", "policies">>
    BY <2>2 DEF Left, ConnectedLeft
  <2>3. CASE t = <<"add_rules", "policies">>
    BY <2>3 DEF Left, ConnectedLeft
  <2>4. CASE t = <<"policies">>
    BY <2>4 DEF Left, ConnectedLeft
  <2> QED BY <1>1, <2>1, <2>2, <2>3, <2>4 DEF ConnectedLeft
<1>2. CASE t \in IfupLeft
  <2>1. CASE t = <<"del_rules", "add_rules", "status", "policies_if_online", "USR2">>
    BY <2>1 DEF Left, IfupLeft
  <2>2. CASE t = <<"add_rules", "status", "policies_if_online", "USR2">>
    BY <2>2 DEF Left, IfupLeft
  <2>3. CASE t = <<"status", "policies_if_online", "USR2">>
    BY <2>3 DEF Left, IfupLeft
  <2>4. CASE t = <<"policies_if_online", "USR2">>
    BY <2>4 DEF Left, IfupLeft
  <2>5. CASE t = <<"USR2">>
    BY <2>5 DEF Left, IfupLeft
  <2> QED BY <1>2, <2>1, <2>2, <2>3, <2>4, <2>5 DEF IfupLeft
<1>3. CASE t \in DisconnectedLeft
  <2>1. CASE t = <<"offline", "policies_flush">>
    BY <2>1 DEF Left, DisconnectedLeft
  <2>2. CASE t = <<"policies_flush">>
    BY <2>2 DEF Left, DisconnectedLeft
  <2> QED BY <1>3, <2>1, <2>2 DEF DisconnectedLeft
<1>4. CASE t \in IfdownLeft
  <2>1. CASE t = <<"offline", "policies_flush", "del_rules", "USR1">>
    BY <2>1 DEF Left, IfdownLeft
  <2>2. CASE t = <<"policies_flush", "del_rules", "USR1">>
    <3>1. r = <<"del_rules", "USR1">> /\ iface_state = "offline"
      BY <2>2
    <3>2. policy' = (iface_state = "online") /\ iface_state' = iface_state
      BY <2>2
    <3>3. policy' = FALSE
      BY <3>1, <3>2
    <3>4. r \in Left
      BY <3>1 DEF Left, IfdownLeft
    <3> HIDE DEF Remaining, Effect
    <3>5. StateOK(r)'
      BY <3>1, <3>2, <3>3
    <3> QED BY <3>4, <3>5
  <2>3. CASE t = <<"del_rules", "USR1">>
    BY <2>3 DEF Left, IfdownLeft
  <2>4. CASE t = <<"USR1">>
    BY <2>4 DEF Left, IfdownLeft
  <2> QED BY <1>4, <2>1, <2>2, <2>3, <2>4 DEF IfdownLeft
<1>5. CASE t \in ReloadLeft
  <2>1. CASE t = <<"policies", "if_up", "del_rules", "add_rules", "HUP">>
    BY <2>1 DEF Left, ReloadLeft
  <2>2. CASE t = <<"if_up", "del_rules", "add_rules", "HUP">>
    <3>1. r \in {<<"del_rules", "add_rules", "HUP">>, <<"HUP">>}
      BY <2>2, SkipRules
    <3>2. r \in Left
      BY <3>1 DEF Left, ReloadLeft
    <3>3. UNCHANGED <<iface_state, policy, rules>>
      BY <2>2
    <3> HIDE DEF Remaining, Effect
    <3>4. /\ policy => rules
          /\ iface_state = "online" => rules
      BY <2>2
    <3>5. StateOK(r)'
      BY <3>1, <3>3, <3>4
    <3> QED BY <3>2, <3>5
  <2>3. CASE t = <<"del_rules", "add_rules", "HUP">>
    BY <2>3 DEF Left, ReloadLeft
  <2>4. CASE t = <<"add_rules", "HUP">>
    BY <2>4 DEF Left, ReloadLeft
  <2>5. CASE t = <<"HUP">>
    BY <2>5 DEF Left, ReloadLeft
  <2> QED BY <1>5, <2>1, <2>2, <2>3, <2>4, <2>5 DEF ReloadLeft
<1> QED BY <1>1, <1>2, <1>3, <1>4, <1>5 DEF Left

-----------------------------------------------------------------------------
\* The lock is free and no script runs when the service has started.
LEMMA ScriptInit == Init => ScriptInv
<1> SUFFICES ASSUME Init PROVE ScriptInv
  OBVIOUS
<1>1. /\ hp = [c \in Callers |-> NoScript] /\ lock = "free" /\ pc = "dead"
      /\ NoScript.todo = <<>> /\ NoScript.action = "none" /\ <<>> \in Left
  BY DEF Init, HotplugInit, NoScript, Left
<1>2. ScriptsOK
  BY <1>1 DEF ScriptsOK, Idle
<1>3. HotplugType
  <2>1. NoScript \in [action: Actions \cup {"none"},
                      status: {"online", "offline"}, todo: Seq(Steps)]
    BY <1>1, LeftType DEF NoScript
  <2>2. hp \in [Callers -> [action: Actions \cup {"none"},
                            status: {"online", "offline"}, todo: Seq(Steps)]]
    BY <1>1, <2>1
  <2>3. policy \in BOOLEAN
    BY DEF Init, HotplugInit
  <2>4. iface_state \in {"online", "offline"} /\ rules \in BOOLEAN
    BY HotplugAssumption DEF Init, HotplugInit
  <2>5. /\ ifUp \in BOOLEAN /\ event = "none" /\ flaps = 0
        /\ reloads = 0 /\ lock = "free"
        /\ status_file = "none" /\ pending = {}
    BY DEF Init, HotplugInit
  <2>6. pins \in BOOLEAN
    BY DEF Init, HotplugInit
  <2>7. 0 \in 0..MaxFlaps /\ 0 \in 0..MaxReloads
    BY HotplugAssumption
  <2> QED BY <2>2, <2>3, <2>4, <2>5, <2>6, <2>7 DEF HotplugType
<1>4. TypeOK
  <2>1. /\ FirstConfig \in Configs
        /\ 0 \in 0..Max(FirstConfig) /\ 0 \in 0..Hosts
        /\ 0 \in 0..Reliability /\ 0 \in 0..MaxCrashes
    BY TrackAssumption DEF Max
  <2> QED BY <1>3, <2>1 DEF Init, TypeOK
<1>5. StateOK(<<>>)
  BY DEF Init, HotplugInit, StateOK, SetOnline, SetOffline, Dropped, HasRules
<1> QED BY <1>1, <1>2, <1>4, <1>5 DEF ScriptInv, HolderOK

\* The type of what the tracker keeps: where it is, flags, and counters.
ControlType ==
  /\ pc \in {"dead", "firstconnect", "give_up", "track", "ifup_done", "loop",
             "fork_sleep", "asleep", "ifdown", "disable", "ifdown_done",
             "ifup", "reload", "reload_done", "round", "probe", "score",
             "rest", "nap", "hotplug"}
  /\ ret \in {"disable", "rest"}
  /\ site \in {"start", "top", "bottom"}
  /\ STATUS \in {"", "online", "offline", "connecting", "disconnecting",
                 "disabled"}
FlagType ==
  /\ STARTED \in BOOLEAN
  /\ IFDOWN_EVENT \in BOOLEAN
  /\ IFUP_EVENT \in BOOLEAN
  /\ RELOAD_EVENT \in BOOLEAN
  /\ orphan \in BOOLEAN
  /\ missed \in BOOLEAN
CountType ==
  /\ cfg \in Configs /\ uci \in Configs
  /\ score \in 0..Max(cfg)
  /\ left \in 0..Hosts
  /\ host_up_count \in 0..Reliability
  /\ crashes \in 0..MaxCrashes
TrackerType == ControlType /\ FlagType /\ CountType

\* The thresholds of any configuration are positive numbers.
LEMMA ThresholdsOf ==
  ASSUME NEW f \in Configs
  PROVE  /\ f.up \in Nat \ {0}
         /\ f.down \in Nat \ {0}
         /\ Max(f) = f.down + f.up
         /\ Max(f) \in Nat
BY TrackAssumption DEF Max

\* A command of the tracker, a trap or its end, as the scripts see it: it
\* leaves the interface alone, and it starts a script only when it has none.
TrackerMove ==
  /\ UNCHANGED <<ifUp, event, flaps, reloads, lock, iface_state, policy, pins,
                 rules>>
  /\ status_file' \in {"none", "online", "offline", "connecting",
                       "disconnecting", "disabled"}
  /\ pending' \in {pending, {}}
  /\ \/ /\ UNCHANGED hp
        /\ pc' \notin {"dead", "hotplug"} => Idle("tracker")
     \/ \E a \in {"connected", "disconnected"} :
          /\ hp' = [hp EXCEPT !["tracker"] = Script(a)]
          /\ Idle("tracker")
          /\ pc' = "hotplug"
  /\ pc' = "track" => STATUS' \in {"online", "offline"}

\* The facts about the tracker that its steps start from.
TrackerReady ==
  /\ TrackerType
  /\ status_file \in {"none", "online", "offline", "connecting",
                      "disconnecting", "disabled"}
  /\ pc \notin {"dead", "hotplug"} => Idle("tracker")
  /\ pc = "track" => STATUS \in {"online", "offline"}

LEMMA ReadyFromInv == ScriptInv => TrackerReady
BY DEF ScriptInv, TypeOK, HotplugType, ScriptsOK, TrackerReady, TrackerType,
       ControlType, FlagType, CountType

\* main() and the commands that only move on or set flags.
LEMMA PlainCommand ==
  ASSUME TrackerReady,
         \/ firstconnect \/ IfupDone \/ Loop \/ ForkSleep \/ IfdownDone
         \/ CheckIfup \/ ReloadDone \/ StartRound \/ EndRound \/ Rest \/ Nap
  PROVE  TrackerType' /\ TrackerMove
<1> USE DEF Goto, shell, round, env, hotplugVars
<1>1. /\ UNCHANGED hotplugVars
      /\ UNCHANGED <<orphan, uci, crashes, cfg, score, STARTED, ret>>
  BY DEF firstconnect, IfupDone, Loop, ForkSleep, IfdownDone, CheckIfup, ReloadDone, StartRound, EndRound, Rest, Nap
<1>2. pc \notin {"dead", "hotplug"}
  BY DEF firstconnect, IfupDone, Loop, ForkSleep, IfdownDone, CheckIfup, ReloadDone, StartRound, EndRound, Rest, Nap
<1>3. TrackerMove
  <2>1. pc' = "track" => STATUS' \in {"online", "offline"}
    BY HotplugAssumption DEF firstconnect, IfupDone, Loop, ForkSleep, IfdownDone, CheckIfup, ReloadDone, StartRound, EndRound, Rest, Nap
  <2> QED
    BY <1>1, <1>2, <2>1 DEF TrackerReady, TrackerMove
<1>4. ControlType'
  BY HotplugAssumption DEF TrackerReady, TrackerType, ControlType, firstconnect, IfupDone, Loop, ForkSleep, IfdownDone, CheckIfup, ReloadDone, StartRound, EndRound, Rest, Nap
<1>5. FlagType'
  <2>1. /\ IFDOWN_EVENT' \in {IFDOWN_EVENT, FALSE}
        /\ IFUP_EVENT' \in {IFUP_EVENT, FALSE}
        /\ RELOAD_EVENT' \in {RELOAD_EVENT, FALSE}
        /\ missed' \in {missed, FALSE}
    BY DEF TrackerReady, TrackerType, FlagType, firstconnect, IfupDone, Loop, ForkSleep, IfdownDone, CheckIfup, ReloadDone, StartRound, EndRound, Rest, Nap
  <2> QED
    BY <1>1, <2>1 DEF TrackerReady, TrackerType, FlagType
<1>6. CountType'
  <2>1. left' \in {left, 0, Hosts} /\ host_up_count' \in {host_up_count, 0}
    BY DEF firstconnect, IfupDone, Loop, ForkSleep, IfdownDone, CheckIfup, ReloadDone, StartRound, EndRound, Rest, Nap
  <2> QED
    BY <1>1, <2>1, TrackAssumption
    DEF TrackerReady, TrackerType, CountType, Max
<1> QED
  BY <1>3, <1>4, <1>5, <1>6 DEF TrackerType

\* The commands that set the status, the score or both.
LEMMA StatusCommand ==
  ASSUME TrackerReady,
         \/ GiveUp \/ Disable \/ Track \/ CheckIfdown \/ ScoreDown \/ ScoreUp
  PROVE  TrackerType' /\ TrackerMove
<1> USE DEF Goto, shell, round, env, hotplugRest
<1>1. /\ UNCHANGED hotplugRest /\ UNCHANGED <<pending, site>>
      /\ UNCHANGED <<orphan, missed, uci, crashes, cfg, left, host_up_count>>
      /\ UNCHANGED <<IFDOWN_EVENT, IFUP_EVENT, RELOAD_EVENT>>
  BY DEF GiveUp, Disable, disabled, Track, CheckIfdown, disconnected,
         hotplug_call, ScoreDown, StayDown, LoseLink, Weaken, ScoreUp,
         StillConnecting, RegainLink, Confirm, connected
<1>2. pc \notin {"dead", "hotplug"} /\ Idle("tracker")
  BY DEF GiveUp, Disable, Track, CheckIfdown, ScoreDown, ScoreUp, TrackerReady
<1>3. /\ STARTED' \in {STARTED, FALSE, TRUE}
      /\ ret' \in {ret, "disable", "rest"}
      /\ pc' \in {"ifup_done", "ifdown_done", "ifup", "disable", "rest",
                  "hotplug"}
  BY DEF GiveUp, Disable, disabled, Track, CheckIfdown, disconnected,
         hotplug_call, ScoreDown, StayDown, LoseLink, Weaken, ScoreUp,
         StillConnecting, RegainLink, Confirm, connected
<1>4. \/ UNCHANGED hp
      \/ \E a \in {"connected", "disconnected"} :
           hp' = [hp EXCEPT !["tracker"] = Script(a)] /\ pc' = "hotplug"
  BY DEF GiveUp, Disable, disabled, Track, CheckIfdown, disconnected,
         hotplug_call, ScoreDown, StayDown, LoseLink, Weaken, ScoreUp,
         StillConnecting, RegainLink, Confirm, connected
<1>5. /\ STATUS' \in {STATUS, "online", "offline", "connecting",
                      "disconnecting", "disabled"}
      /\ status_file' \in {status_file, "online", "offline", "connecting",
                           "disconnecting", "disabled"}
  BY DEF GiveUp, Disable, disabled, Track, CheckIfdown, disconnected,
         ScoreDown, StayDown, LoseLink, Weaken, ScoreUp, SetStatus,
         StillConnecting, RegainLink, Confirm, connected, TrackerReady
<1>6. score' \in 0..Max(cfg)
  <2>1. /\ score \in 0..Max(cfg) /\ Max(cfg) \in Nat /\ Max(cfg) >= cfg.up
        /\ cfg.up \in Nat
    BY ThresholdsOf DEF TrackerReady, TrackerType, CountType
  <2>2. CASE GiveUp \/ Disable \/ Track \/ CheckIfdown
    BY <2>1, <2>2 DEF GiveUp, Disable, disabled, Track, CheckIfdown, disconnected
  <2>3. CASE ScoreDown
    BY <2>1, <2>3 DEF ScoreDown, StayDown, LoseLink, Weaken, disconnected
  <2>4. CASE ScoreUp
    BY <2>1, <2>4 DEF ScoreUp, StillConnecting, RegainLink, Confirm, connected
  <2> QED
    BY <2>2, <2>3, <2>4
<1>7. TrackerMove
  BY <1>1, <1>2, <1>3, <1>4, <1>5 DEF TrackerReady, TrackerMove
<1>8. ControlType'
  BY <1>1, <1>3, <1>5 DEF TrackerReady, TrackerType, ControlType
<1>9. FlagType'
  BY <1>1, <1>3 DEF TrackerReady, TrackerType, FlagType
<1>10. CountType'
  BY <1>1, <1>6 DEF TrackerReady, TrackerType, CountType, Max
<1> QED
  BY <1>7, <1>8, <1>9, <1>10 DEF TrackerType

\* load_tracking_config and one probe.
LEMMA CountCommand ==
  ASSUME TrackerReady,
         CheckReload \/ \E answers \in BOOLEAN : Probe(answers)
  PROVE  TrackerType' /\ TrackerMove
<1> USE DEF Goto, shell, round, env, hotplugVars
<1>1. /\ UNCHANGED hotplugVars
      /\ UNCHANGED <<shell, env, ret, site>>
      /\ pc' \in {pc, "reload_done", "round", "loop"}
      /\ pc \notin {"dead", "hotplug", "track"}
  BY DEF CheckReload, Probe
<1>2. TrackerMove
  BY <1>1 DEF TrackerReady, TrackerMove
<1>3. ControlType'
  BY <1>1 DEF TrackerReady, TrackerType, ControlType
<1>4. FlagType'
  BY <1>1 DEF TrackerReady, TrackerType, FlagType
<1>5. CASE CheckReload
  <2>1. \/ cfg' = uci /\ score' = Clamp(score, uci)
        \/ UNCHANGED <<cfg, score>>
    BY <1>5 DEF CheckReload
  <2>2. score' \in 0..Max(cfg')
    <3>1. CASE cfg' = uci /\ score' = Clamp(score, uci)
      <4>1. score \in Nat /\ Max(uci) \in Nat
        BY ThresholdsOf DEF TrackerReady, TrackerType, CountType
      <4>2. score' \in 0..Max(uci)
        BY <3>1, <4>1 DEF Clamp
      <4> QED
        BY <3>1, <4>2
    <3>2. CASE UNCHANGED <<cfg, score>>
      BY <3>2 DEF TrackerReady, TrackerType, CountType
    <3> QED
      BY <2>1, <3>1, <3>2
  <2>3. cfg' \in Configs /\ UNCHANGED <<uci, left, host_up_count, crashes>>
    BY <1>5, <2>1 DEF CheckReload, TrackerReady, TrackerType, CountType
  <2>4. CountType'
    BY <2>2, <2>3 DEF TrackerReady, TrackerType, CountType, Max
  <2> QED
    BY <1>2, <1>3, <1>4, <2>4 DEF TrackerType
<1>6. CASE \E answers \in BOOLEAN : Probe(answers)
  <2>1. PICK answers \in BOOLEAN : Probe(answers)
    BY <1>6
  <2>2. /\ left' \in 0..Hosts
        /\ host_up_count' \in 0..Reliability
    BY <2>1, TrackAssumption DEF Probe, TrackerReady, TrackerType, CountType
  <2>3. UNCHANGED <<cfg, uci, score, crashes>>
    BY <2>1 DEF Probe
  <2>4. CountType'
    BY <2>2, <2>3 DEF TrackerReady, TrackerType, CountType, Max
  <2> QED
    BY <1>2, <1>3, <1>4, <2>4 DEF TrackerType
<1> QED
  BY <1>5, <1>6

\* Where a tracker begins and ends, the end of a script and a trap.
LEMMA ProcessStep ==
  ASSUME TrackerReady, Main \/ HotplugReturn \/ Trap \/ Crash
  PROVE  TrackerType' /\ TrackerMove
<1> USE DEF shell, round, env, hotplugVars, hotplugRest
<1>1. /\ UNCHANGED hotplugRest /\ UNCHANGED <<hp, status_file, uci, ret>>
      /\ pending' \in {pending, {}}
      /\ pc' \notin {"dead", "hotplug"} => Idle("tracker")
  BY DEF Main, HotplugReturn, Trap, Crash, TrackerReady, TrackerType,
         ControlType
<1>2. pc' = "track" => STATUS' \in {"online", "offline"}
  BY DEF Main, HotplugReturn, Trap, Crash, TrackerReady, TrackerType,
         ControlType
<1>3. TrackerMove
  BY <1>1, <1>2 DEF TrackerReady, TrackerMove
<1>4. ControlType'
  BY DEF Main, HotplugReturn, Trap, Crash, TrackerReady, TrackerType,
         ControlType
<1>5. FlagType'
  <2>1. CASE Main \/ HotplugReturn
    BY <2>1 DEF Main, HotplugReturn, TrackerReady, TrackerType, FlagType
  <2>2. CASE Trap
    BY <2>2 DEF Trap, TrackerReady, TrackerType, FlagType
  <2>3. CASE Crash
    BY <2>3 DEF Crash, TrackerReady, TrackerType, FlagType
  <2> QED
    BY <2>1, <2>2, <2>3
<1>6. CountType'
  <2>1. CASE Main
    <3>1. Max(uci) \in Nat
      BY ThresholdsOf DEF TrackerReady, TrackerType, CountType
    <3>2. /\ cfg' = uci /\ score' = Max(uci) /\ left' = 0
          /\ host_up_count' = 0 /\ UNCHANGED <<uci, crashes>>
      BY <2>1 DEF Main
    <3>3. /\ Max(uci) \in 0..Max(uci)
          /\ 0 \in 0..Hosts /\ 0 \in 0..Reliability
      BY <3>1, TrackAssumption
    <3> QED
      BY <3>2, <3>3 DEF TrackerReady, TrackerType, CountType, Max
  <2>2. CASE HotplugReturn \/ Trap
    BY <2>2 DEF HotplugReturn, Trap, TrackerReady, TrackerType, CountType, Max
  <2>3. CASE Crash
    BY <2>3, TrackAssumption
    DEF Crash, TrackerReady, TrackerType, CountType, Max
  <2> QED
    BY <2>1, <2>2, <2>3
<1> QED
  BY <1>3, <1>4, <1>5, <1>6 DEF TrackerType

\* A command of the tracker.
LEMMA TrackerStep ==
  ASSUME ScriptInv, Main \/ Command \/ HotplugReturn \/ Trap \/ Crash
  PROVE  TrackerType' /\ TrackerMove
BY ReadyFromInv, PlainCommand, StatusCommand, CountCommand, ProcessStep
DEF Command

\* The lock's holder keeps its guarantees as long as nobody else changes the
\* state.
LEMMA HolderStays ==
  ASSUME HolderOK, UNCHANGED <<lock, iface_state, policy, rules>>,
         lock # "free" => hp'[lock].todo = hp[lock].todo
  PROVE  HolderOK'
<1> USE DEF HolderOK
<1>1. CASE lock = "free"
  BY <1>1 DEF StateOK
<1>2. CASE lock # "free"
  <2>1. StateOK(hp[lock].todo)
    BY <1>2
  <2>2. PICK t : t = hp[lock].todo
    OBVIOUS
  <2>3. t = hp'[lock'].todo
    BY <1>2, <2>2
  <2> QED
    BY <1>2, <2>1, <2>2, <2>3 DEF StateOK
<1> QED
  BY <1>1, <1>2

\* A process that is idle starts a script.
LEMMA StartScript ==
  ASSUME ScriptsOK, HolderOK, HotplugType, NEW c \in Callers, Idle(c),
         NEW a \in Actions,
         hp' = [hp EXCEPT ![c] = Script(a)],
         UNCHANGED <<lock, iface_state, policy, rules>>,
         pc' \notin {"dead", "hotplug"} => Idle("tracker") /\ c # "tracker",
         pc' = "track" => STATUS' \in {"online", "offline"}
  PROVE  /\ ScriptsOK' /\ HolderOK'
         /\ hp' \in [Callers -> [action: Actions \cup {"none"},
                                 status: {"online", "offline"},
                                 todo: Seq(Steps)]]
<1>1. lock # c /\ c # "free"
  BY DEF ScriptsOK, Callers
<1>2. /\ hp'[c] = Script(a)
      /\ \A d \in Callers \ {c} : hp'[d] = hp[d]
      /\ DOMAIN hp' = Callers
  BY DEF HotplugType
<1>3. HolderOK'
  BY <1>1, <1>2, HolderStays DEF HotplugType
<1>4. /\ hp'[c].todo \in Left /\ hp'[c].todo \in Full /\ hp'[c].action # "none"
      /\ hp'[c] \in [action: Actions \cup {"none"},
                     status: {"online", "offline"}, todo: Seq(Steps)]
  BY <1>2, ScriptType
<1>5. \A d \in Callers : /\ hp'[d].todo \in Left
                         /\ d # lock' /\ ~Idle(d)' => hp'[d].todo \in Full
  BY <1>2, <1>4 DEF ScriptsOK, Idle
<1>6. lock' # "free" => ~Idle(lock)'
  BY <1>1, <1>2 DEF ScriptsOK, Idle, HotplugType
<1>7. pc' \notin {"dead", "hotplug"} => Idle("tracker")'
  BY <1>2 DEF Idle, Callers
<1>8. ScriptsOK'
  BY <1>5, <1>6, <1>7 DEF ScriptsOK, Full, Idle
<1> QED
  BY <1>3, <1>4, <1>8 DEF HotplugType

\* TypeOK in its two halves.
LEMMA TypeParts == TypeOK <=> HotplugType /\ TrackerType
BY DEF TypeOK, TrackerType, ControlType, FlagType, CountType

\* A command of the tracker keeps the invariant.
LEMMA TrackerKeeps ==
  ASSUME ScriptInv, TrackerType', TrackerMove
  PROVE  ScriptInv'
<1> USE DEF ScriptInv
<1>1. HotplugType
  BY TypeParts
<1>2. CASE UNCHANGED hp /\ (pc' \notin {"dead", "hotplug"} => Idle("tracker"))
  <2>1. HolderOK'
    BY <1>2, HolderStays DEF TrackerMove
  <2>2. ScriptsOK'
    BY <1>2 DEF ScriptsOK, TrackerMove, Idle, Full
  <2>3. HotplugType'
    BY <1>1, <1>2 DEF HotplugType, TrackerMove
  <2> QED
    BY <2>1, <2>2, <2>3, TypeParts DEF TypeOK, TrackerType, ControlType, FlagType, CountType
<1>3. CASE \E a \in {"connected", "disconnected"} :
             /\ hp' = [hp EXCEPT !["tracker"] = Script(a)]
             /\ Idle("tracker")
             /\ pc' = "hotplug"
  <2>1. PICK a \in Actions : /\ hp' = [hp EXCEPT !["tracker"] = Script(a)]
                             /\ Idle("tracker")
                             /\ pc' = "hotplug"
    BY <1>3 DEF Actions
  <2>2. "tracker" \in Callers
    BY DEF Callers
  <2>3. /\ ScriptsOK' /\ HolderOK'
        /\ hp' \in [Callers -> [action: Actions \cup {"none"},
                                status: {"online", "offline"},
                                todo: Seq(Steps)]]
    BY <1>1, <2>1, <2>2, StartScript DEF TrackerMove
  <2>4. HotplugType'
    BY <1>1, <2>3 DEF HotplugType, TrackerMove
  <2> QED
    BY <2>3, <2>4 DEF TypeOK, TrackerType, ControlType, FlagType, CountType
<1> QED
  BY <1>2, <1>3 DEF TrackerMove

\* What is not the tracker's step changes no more than the configuration.
LEMMA TrackerStays ==
  ASSUME TrackerType, uci' \in Configs,
         UNCHANGED <<pc, ret, site, shell, score, cfg, round, orphan, crashes,
                     missed>>
  PROVE  TrackerType'
<1>1. ControlType'
  BY DEF TrackerType, ControlType, shell
<1>2. FlagType'
  BY DEF TrackerType, FlagType, shell
<1>3. CountType'
  BY DEF TrackerType, CountType, Max, round
<1> QED
  BY <1>1, <1>2, <1>3 DEF TrackerType

\* netifd or procd starts a script.
LEMMA StartKeeps ==
  ASSUME ScriptInv, Commit \/ (Dispatch /\ UNCHANGED trackVars)
  PROVE  ScriptInv'
<1> USE DEF ScriptInv
<1>1. HotplugType /\ TrackerType
  BY TypeParts
<1>2. PICK c \in {"netifd", "init"}, a \in Actions :
        /\ Idle(c) /\ hp' = [hp EXCEPT ![c] = Script(a)]
        /\ UNCHANGED <<ifUp, flaps, lock, iface_state, policy, pins, rules,
                       status_file, pending, pc, STATUS>>
        /\ event' \in {event, "none"}
  <2>1. CASE Commit
    BY <2>1 DEF Commit, Reload, Actions, shell
  <2>2. CASE Dispatch /\ UNCHANGED trackVars
    BY <1>1, <2>2 DEF Dispatch, trackVars, shell, HotplugType, Actions
  <2> QED
    BY <2>1, <2>2
<1>3. reloads' \in 0..MaxReloads
  <2>1. CASE Commit
    BY <1>1, <2>1, HotplugAssumption DEF Commit, Reload, HotplugType
  <2>2. CASE Dispatch
    BY <1>1, <2>2 DEF Dispatch, HotplugType
  <2> QED
    BY <2>1, <2>2
<1>4. c \in Callers /\ c # "tracker"
  BY DEF Callers
<1>5. /\ ScriptsOK' /\ HolderOK'
      /\ hp' \in [Callers -> [action: Actions \cup {"none"},
                              status: {"online", "offline"},
                              todo: Seq(Steps)]]
  <2>1. /\ pc' \notin {"dead", "hotplug"} => Idle("tracker") /\ c # "tracker"
        /\ pc' = "track" => STATUS' \in {"online", "offline"}
    BY <1>2, <1>4 DEF ScriptsOK
  <2> QED
    BY <1>1, <1>2, <1>4, <2>1, StartScript
<1>6. HotplugType'
  BY <1>1, <1>2, <1>3, <1>5 DEF HotplugType
<1>7. TrackerType'
  <2>1. /\ UNCHANGED <<pc, ret, site, shell, score, cfg, round, orphan, crashes,
                     missed>>
        /\ uci' \in Configs
    BY <1>1 DEF Commit, trackVars, env, TrackerType, CountType
  <2> QED
    BY <1>1, <2>1, TrackerStays
<1> QED
  BY <1>5, <1>6, <1>7 DEF TypeOK, TrackerType, ControlType, FlagType, CountType

\* A script of the three that wait obtains the lock.
LEMMA LockKeeps ==
  ASSUME ScriptInv, NEW c \in Callers, procd_lock(c), UNCHANGED trackVars
  PROVE  ScriptInv'
<1> USE DEF ScriptInv
<1>1. HotplugType /\ TrackerType
  BY TypeParts
<1>2. /\ ~Idle(c) /\ lock = "free" /\ lock' = c
      /\ UNCHANGED <<ifUp, event, flaps, reloads, iface_state, policy, pins,
                     rules, status_file, pending>>
  BY DEF procd_lock
<1>3. /\ hp'[c].todo = hp[c].todo /\ hp'[c].action = hp[c].action
      /\ \A d \in Callers \ {c} : hp'[d] = hp[d]
      /\ hp'[c].status \in {"online", "offline"}
  BY <1>1 DEF procd_lock, HotplugType, InitialStatus
<1>4. hp' \in [Callers -> [action: Actions \cup {"none"},
                           status: {"online", "offline"}, todo: Seq(Steps)]]
  BY <1>1 DEF procd_lock, HotplugType, InitialStatus
<1>5. HotplugType'
  BY <1>1, <1>2, <1>4 DEF HotplugType
<1>6. UNCHANGED <<pc, STATUS>>
  BY DEF trackVars, shell
<1>7. ScriptsOK'
  <2>1. /\ hp[c].todo \in Full /\ c # "free"
    BY <1>2 DEF ScriptsOK, Callers
  <2>2. \A d \in Callers : hp'[d].todo = hp[d].todo /\ (Idle(d)' <=> Idle(d))
    BY <1>3 DEF Idle
  <2>3. \A d \in Callers : /\ hp'[d].todo \in Left
                           /\ d # lock' /\ ~Idle(d)' => hp'[d].todo \in Full
    BY <1>2, <2>2 DEF ScriptsOK, Callers
  <2>4. hp'[lock'].action # "none"
    <3>1. hp[c].action # "none"
      BY <1>2 DEF Idle
    <3> QED
      BY <1>2, <1>3, <3>1
  <2>5. pc' \notin {"dead", "hotplug"} => Idle("tracker")'
    BY <1>6, <2>2 DEF ScriptsOK, Callers
  <2> QED
    BY <1>6, <2>3, <2>4, <2>5 DEF ScriptsOK, Full, Idle
<1>8. HolderOK'
  <2>1. PICK t : t = hp[c].todo
    OBVIOUS
  <2>2. t \in Full
    BY <1>2, <2>1 DEF ScriptsOK, Callers
  <2>3. t \notin SetOnline \cup SetOffline \cup HasRules \cup Dropped
                   \cup Adding
    <3>1. t \in {<<"online", "del_rules", "add_rules", "policies">>,
                 <<"del_rules", "add_rules", "status", "policies_if_online",
                   "USR2">>,
                 <<"offline", "policies_flush">>,
                 <<"offline", "policies_flush", "del_rules", "USR1">>,
                 <<"policies", "if_up", "del_rules", "add_rules", "HUP">>}
      BY <2>2 DEF Full, Arm, Actions
    <3>2. CASE t = <<"online", "del_rules", "add_rules", "policies">>
      BY <3>2 DEF SetOnline, SetOffline, HasRules, Dropped, Adding
    <3>3. CASE t = <<"del_rules", "add_rules", "status", "policies_if_online",
                     "USR2">>
      BY <3>3 DEF SetOnline, SetOffline, HasRules, Dropped, Adding
    <3>4. CASE t = <<"offline", "policies_flush">>
      BY <3>4 DEF SetOnline, SetOffline, HasRules, Dropped, Adding
    <3>5. CASE t = <<"offline", "policies_flush", "del_rules", "USR1">>
      BY <3>5 DEF SetOnline, SetOffline, HasRules, Dropped, Adding
    <3>6. CASE t = <<"policies", "if_up", "del_rules", "add_rules", "HUP">>
      BY <3>6 DEF SetOnline, SetOffline, HasRules, Dropped, Adding
    <3> QED
      BY <3>1, <3>2, <3>3, <3>4, <3>5, <3>6
  <2>4. /\ policy => rules
        /\ iface_state = "online" => rules
    BY <1>2 DEF HolderOK, StateOK, Adding, SetOnline
  <2>5. StateOK(t)'
    BY <1>2, <2>3, <2>4 DEF StateOK
  <2>6. hp'[lock'].todo = t /\ lock' # "free"
    BY <1>2, <1>3, <2>1 DEF Callers
  <2> QED
    BY <2>5, <2>6 DEF HolderOK, StateOK
<1>9. TrackerType'
  BY <1>1, TrackerStays DEF trackVars, env, TrackerType, CountType
<1> QED
  BY <1>5, <1>7, <1>8, <1>9 DEF TypeOK, TrackerType, ControlType, FlagType,
                                CountType

\* The holder of the lock takes a step.
LEMMA HandlerKeeps ==
  ASSUME ScriptInv, NEW c \in Callers, HandlerStep(c, pc # "dead"),
         UNCHANGED trackVars
  PROVE  ScriptInv'
<1> USE DEF ScriptInv
<1>1. HotplugType /\ TrackerType
  BY TypeParts
<1>2. /\ lock = c /\ c # "free" /\ hp[c].todo # <<>> /\ lock' = lock
      /\ UNCHANGED <<ifUp, event, flaps, reloads, status_file>>
  BY DEF HandlerStep, Callers
<1>3. PICK t, r : t = hp[c].todo /\ r = Remaining(t)
  OBVIOUS
<1>4. /\ t \in Left /\ t # <<>> /\ StateOK(t)
  BY <1>2, <1>3 DEF ScriptsOK, HolderOK, StateOK
<1>5. /\ iface_state \in {"online", "offline"} /\ policy \in BOOLEAN
      /\ rules \in BOOLEAN /\ hp[c].status \in {"online", "offline"}
      /\ hp \in [Callers -> [action: Actions \cup {"none"},
                             status: {"online", "offline"}, todo: Seq(Steps)]]
  BY <1>1 DEF HotplugType
<1>6. \/ SetState(Head(t), c)
      \/ SetPolicies(Head(t), c)
      \/ SetRules(Head(t))
      \/ SendSignal(Head(t), pc # "dead")
  BY <1>3 DEF HandlerStep
<1>7. Effect(Head(t), c)
  BY <1>5, <1>6, StepEffect
<1>8. r \in Left /\ StateOK(r)'
  BY <1>3, <1>4, <1>5, <1>7, StepOK
<1>9. hp' = [hp EXCEPT ![c].todo = r]
  BY <1>3 DEF HandlerStep
<1>10. /\ hp'[c].todo = r /\ hp'[c].action = hp[c].action
       /\ \A d \in Callers \ {c} : hp'[d] = hp[d]
  BY <1>5, <1>9
<1>11. hp' \in [Callers -> [action: Actions \cup {"none"},
                            status: {"online", "offline"}, todo: Seq(Steps)]]
  <2>1. r \in Seq(Steps)
    BY <1>8, LeftType
  <2> QED
    BY <1>5, <1>9, <2>1
<1>12. HolderOK'
  <2>1. hp'[lock'].todo = r /\ lock' # "free"
    BY <1>2, <1>10
  <2> QED
    BY <1>8, <2>1 DEF HolderOK, StateOK
<1>13. UNCHANGED <<pc, STATUS>>
  BY DEF trackVars, shell
<1>14. ScriptsOK'
  <2>1. \A d \in Callers : Idle(d)' <=> Idle(d)
    BY <1>10 DEF Idle
  <2>2. \A d \in Callers : /\ hp'[d].todo \in Left
                           /\ d # lock' /\ ~Idle(d)' => hp'[d].todo \in Full
    BY <1>2, <1>8, <1>10, <2>1 DEF ScriptsOK
  <2>3. hp'[lock'].action # "none"
    <3>1. hp[c].action # "none"
      BY <1>2 DEF ScriptsOK, Idle
    <3> QED
      BY <1>2, <1>10, <3>1
  <2>4. pc' \notin {"dead", "hotplug"} => Idle("tracker")'
    BY <1>13, <2>1 DEF ScriptsOK, Callers
  <2> QED
    BY <1>13, <2>2, <2>3, <2>4 DEF ScriptsOK, Full, Idle
<1>15. HotplugType'
  <2>1. iface_state' \in {"online", "offline"}
    BY <1>5, <1>7 DEF Effect
  <2>2. policy' \in BOOLEAN
    <3>1. CASE policy' = policy
      BY <1>5, <3>1
    <3>2. CASE policy' = (iface_state = "online")
      BY <3>2
    <3> QED
      BY <1>7, <3>1, <3>2 DEF Effect
  <2>3. rules' \in BOOLEAN
    BY <1>5, <1>7 DEF Effect
  <2>4. pins' \in BOOLEAN
    <3>1. pins' = pins \/ pins' = (pins /\ Head(t) # "policies_flush")
      BY <1>6 DEF SetState, SetPolicies, SetRules, SendSignal
    <3> QED
      BY <1>1, <3>1 DEF HotplugType
  <2>5. pending' \subseteq Signals
    BY <1>1, <1>6 DEF SetState, SetPolicies, SetRules, SendSignal, HotplugType
  <2> QED
    BY <1>1, <1>2, <1>11, <2>1, <2>2, <2>3, <2>4, <2>5 DEF HotplugType
<1>16. TrackerType'
  BY <1>1, TrackerStays DEF trackVars, env, TrackerType, CountType
<1> QED
  BY <1>12, <1>14, <1>15, <1>16
  DEF TypeOK, TrackerType, ControlType, FlagType, CountType

\* The script ends and releases the lock.
LEMMA ExitKeeps ==
  ASSUME ScriptInv, NEW c \in Callers, HandlerExit(c), UNCHANGED trackVars
  PROVE  ScriptInv'
<1> USE DEF ScriptInv
<1>1. HotplugType /\ TrackerType
  BY TypeParts
<1>2. /\ lock = c /\ c # "free" /\ hp[c].todo = <<>> /\ lock' = "free"
      /\ hp' = [hp EXCEPT ![c] = NoScript]
      /\ UNCHANGED <<ifUp, event, flaps, reloads, iface_state, policy, pins,
                     rules, status_file, pending>>
  BY DEF HandlerExit, Callers
<1>3. /\ NoScript.todo = <<>> /\ NoScript.action = "none" /\ <<>> \in Left
      /\ NoScript \in [action: Actions \cup {"none"},
                       status: {"online", "offline"}, todo: Seq(Steps)]
  BY LeftType DEF NoScript, Left
<1>4. /\ hp'[c] = NoScript
      /\ \A d \in Callers \ {c} : hp'[d] = hp[d]
      /\ hp' \in [Callers -> [action: Actions \cup {"none"},
                              status: {"online", "offline"}, todo: Seq(Steps)]]
  BY <1>1, <1>2, <1>3 DEF HotplugType
<1>5. HotplugType'
  BY <1>1, <1>2, <1>4 DEF HotplugType
<1>6. HolderOK'
  BY <1>2 DEF HolderOK, StateOK
<1>7. UNCHANGED <<pc, STATUS>>
  BY DEF trackVars, shell
<1>8. ScriptsOK'
  <2>1. \A d \in Callers : /\ hp'[d].todo \in Left
                           /\ d # lock' /\ ~Idle(d)' => hp'[d].todo \in Full
    BY <1>2, <1>3, <1>4 DEF ScriptsOK, Idle
  <2>2. pc' \notin {"dead", "hotplug"} => Idle("tracker")'
    BY <1>3, <1>4, <1>7 DEF ScriptsOK, Callers, Idle
  <2> QED
    BY <1>2, <1>7, <2>1, <2>2 DEF ScriptsOK, Full, Idle
<1>9. TrackerType'
  BY <1>1, TrackerStays DEF trackVars, env, TrackerType, CountType
<1> QED
  BY <1>5, <1>6, <1>8, <1>9
  DEF TypeOK, TrackerType, ControlType, FlagType, CountType

\* netifd, the scripts of other interfaces, and traffic.
LEMMA EnvironmentKeeps ==
  ASSUME ScriptInv, Environment
  PROVE  ScriptInv'
<1> USE DEF ScriptInv
<1>1. HotplugType /\ TrackerType
  BY TypeParts
<1>2. UNCHANGED <<reloads, hp, lock, iface_state, rules, status_file, pending,
                  pc, STATUS>>
  BY DEF Environment, Flap, OtherInterface, Traffic, trackVars, shell
<1>3. ScriptsOK'
  BY <1>2 DEF ScriptsOK, Full, Idle
<1>4. HolderOK'
  <2>1. CASE Flap \/ Traffic
    BY <1>2, <2>1, HolderStays DEF Flap, Traffic
  <2>2. CASE OtherInterface
    <3>1. lock = "free" /\ policy' = (iface_state = "online")
      BY <2>2 DEF OtherInterface
    <3>2. iface_state = "online" => rules
      BY <3>1 DEF HolderOK, StateOK, Adding, SetOnline
    <3>3. policy' => iface_state = "online"
      BY <3>1
    <3>4. policy' => rules
      BY <3>2, <3>3
    <3>5. StateOK(<<>>)'
      BY <1>2, <3>2, <3>4 DEF StateOK, SetOnline, SetOffline, Dropped, HasRules
    <3> QED
      BY <1>2, <3>1, <3>5 DEF HolderOK
  <2> QED
    BY <2>1, <2>2 DEF Environment
<1>5. HotplugType'
  <2>1. policy' \in BOOLEAN
    BY <1>1 DEF Environment, Flap, OtherInterface, Traffic, HotplugType
  <2>2. pins' \in BOOLEAN
    BY <1>1 DEF Environment, Flap, OtherInterface, Traffic, HotplugType
  <2>3. ifUp' \in BOOLEAN
    BY <1>1 DEF Environment, Flap, OtherInterface, Traffic, HotplugType
  <2>4. event' \in {"none", "ifup", "ifdown"} /\ flaps' \in 0..MaxFlaps
    BY <1>1, HotplugAssumption
    DEF Environment, Flap, OtherInterface, Traffic, HotplugType
  <2> QED
    BY <1>1, <1>2, <2>1, <2>2, <2>3, <2>4 DEF HotplugType
<1>6. TrackerType'
  BY <1>1, TrackerStays DEF Environment, trackVars, env, TrackerType, CountType
<1> QED
  BY <1>3, <1>4, <1>5, <1>6
  DEF TypeOK, TrackerType, ControlType, FlagType, CountType

\* A step, or none.
LEMMA ScriptNext == ScriptInv /\ [Next]_vars => ScriptInv'
<1> SUFFICES ASSUME ScriptInv, [Next]_vars PROVE ScriptInv'
  OBVIOUS
<1>1. CASE Main \/ Command \/ HotplugReturn \/ Trap \/ Crash
  BY <1>1, TrackerStep, TrackerKeeps
<1>2. CASE Commit
  BY <1>2, StartKeeps
<1>3. CASE Scripts
  BY <1>3, StartKeeps, LockKeeps, HandlerKeeps, ExitKeeps DEF Scripts
<1>4. CASE Environment
  BY <1>4, EnvironmentKeeps
<1>5. CASE UNCHANGED vars
  <2>1. TrackerMove
    BY <1>5, ReadyFromInv
    DEF vars, hotplugVars, trackVars, shell, TrackerReady, TrackerMove
  <2>2. TrackerType'
    BY <1>5, ReadyFromInv, TrackerStays
    DEF vars, trackVars, env, TrackerReady, TrackerType, CountType
  <2> QED
    BY <2>1, <2>2, TrackerKeeps
<1> QED
  BY <1>1, <1>2, <1>3, <1>4, <1>5 DEF Next

\* In every state the scripts have done a prefix of what they do, only the
\* holder of the lock has begun, and the state is what its next step expects.
THEOREM ScriptInvariant == Spec => []ScriptInv
BY ScriptInit, ScriptNext, PTL DEF Spec

\* Types and ranges of tracker, scripts and netifd, for all thresholds: the
\* score stays between 0 and up + down whatever reload changes them.
THEOREM TrackTypeCorrect == Spec => []TypeOK
<1>1. ScriptInv => TypeOK
  BY DEF ScriptInv
<1> QED
  BY ScriptInvariant, <1>1, PTL

\* Packets are marked for the interface only while its ip rules are there, or
\* while the holder of the lock is about to add them: for all numbers of
\* flaps, reloads and crashes, and for both initial states.
THEOREM PolicyAlwaysRoutable == Spec => []PolicyRoutable
<1>1. ScriptInv => PolicyRoutable
  <2> SUFFICES ASSUME ScriptInv, policy, ~rules
               PROVE  \E c \in Callers : /\ lock = c
                                         /\ hp[c].todo # <<>>
                                         /\ Head(hp[c].todo) = "add_rules"
    BY DEF PolicyRoutable
  <2>1. lock # "free"
    BY DEF ScriptInv, HolderOK, StateOK, Adding
  <2>2. PICK t : t = hp[lock].todo
    OBVIOUS
  <2>3. t \in Adding
    BY <2>1, <2>2 DEF ScriptInv, HolderOK, StateOK
  <2>4. t # <<>> /\ Head(t) = "add_rules"
    BY <2>3 DEF Adding
  <2>5. lock \in Callers
    BY <2>1 DEF ScriptInv, TypeOK, HotplugType
  <2> QED
    BY <2>2, <2>4, <2>5
<1> QED
  BY ScriptInvariant, <1>1, PTL

-----------------------------------------------------------------------------
(***************************************************************************)
(* Where initial_state is online, every script that changes the state also *)
(* rebuilds the policies before it ends, so that between two scripts the   *)
(* policy holds the interface exactly when its state is online.            *)
(***************************************************************************)
UpStatus == SetOnline \cup {<<"policies_if_online", "USR2">>}

SyncOK(t) ==
  /\ t \in UpStatus => iface_state = "online"
  /\ t \in SetOffline => iface_state = "offline"
  /\ t \notin UpStatus \cup SetOffline => (policy <=> iface_state = "online")
  /\ pins => policy

SyncInv ==
  /\ \A c \in Callers : hp[c].status = "online"
  /\ lock = "free" => SyncOK(<<>>)
  /\ lock # "free" => SyncOK(hp[lock].todo)

\* The same for the service as start_service leaves it.
LEMMA SyncInit == Init => SyncInv
<1> SUFFICES ASSUME Init PROVE SyncInv
  OBVIOUS
<1>1. /\ hp = [c \in Callers |-> NoScript] /\ lock = "free" /\ ~pins
      /\ NoScript.status = "online"
  BY DEF Init, HotplugInit, NoScript
<1>2. policy <=> iface_state = "online"
  BY DEF Init, HotplugInit
<1>3. SyncOK(<<>>)
  BY <1>1, <1>2 DEF SyncOK, UpStatus, SetOnline, SetOffline
<1> QED
  BY <1>1, <1>3 DEF SyncInv

\* What a step does to the policy and to the pins.
SyncEffect(step) ==
  /\ iface_state' = CASE step = "online" -> "online"
                      [] step = "offline" -> "offline"
                      [] step = "status" -> "online"
                      [] OTHER -> iface_state
  /\ step \in {"policies", "policies_flush", "policies_if_online"} =>
       (policy' <=> iface_state = "online")
  /\ step \notin {"policies", "policies_flush", "policies_if_online"} =>
       (policy' <=> policy)
  /\ pins' => pins /\ step # "policies_flush"

LEMMA StepSyncEffect ==
  ASSUME NEW c \in Callers, NEW step, hp[c].status = "online",
         \/ SetState(step, c)
         \/ SetPolicies(step, c)
         \/ SetRules(step)
         \/ SendSignal(step, pc # "dead")
  PROVE  SyncEffect(step)
<1>1. CASE SetState(step, c)
  BY <1>1 DEF SetState, SyncEffect
<1>2. CASE SetPolicies(step, c)
  BY <1>2 DEF SetPolicies, SyncEffect
<1>3. CASE SetRules(step)
  BY <1>3 DEF SetRules, SyncEffect
<1>4. CASE SendSignal(step, pc # "dead")
  BY <1>4 DEF SendSignal, Signals, SyncEffect
<1> QED BY <1>1, <1>2, <1>3, <1>4

\* The holder of the lock takes its next step.
LEMMA StepSync ==
  ASSUME NEW t \in Left, t # <<>>, NEW r, r = Remaining(t),
         iface_state \in {"online", "offline"},
         SyncOK(t), SyncEffect(Head(t))
  PROVE  SyncOK(r)'
<1> USE DEF SyncOK, SetOnline, SetOffline, UpStatus, Remaining, SyncEffect
<1>1. CASE t \in ConnectedLeft
  <2>1. CASE t = <<"online", "del_rules", "add_rules", "policies">>
    BY <2>1
  <2>2. CASE t = <<"del_rules", "add_rules", "policies">>
    BY <2>2
  <2>3. CASE t = <<"add_rules", "policies">>
    BY <2>3
  <2>4. CASE t = <<"policies">>
    BY <2>4
  <2> QED BY <1>1, <2>1, <2>2, <2>3, <2>4 DEF ConnectedLeft
<1>2. CASE t \in IfupLeft
  <2>1. CASE t = <<"del_rules", "add_rules", "status", "policies_if_online", "USR2">>
    BY <2>1
  <2>2. CASE t = <<"add_rules", "status", "policies_if_online", "USR2">>
    BY <2>2
  <2>3. CASE t = <<"status", "policies_if_online", "USR2">>
    BY <2>3
  <2>4. CASE t = <<"policies_if_online", "USR2">>
    BY <2>4
  <2>5. CASE t = <<"USR2">>
    BY <2>5
  <2> QED BY <1>2, <2>1, <2>2, <2>3, <2>4, <2>5 DEF IfupLeft
<1>3. CASE t \in DisconnectedLeft
  <2>1. CASE t = <<"offline", "policies_flush">>
    BY <2>1
  <2>2. CASE t = <<"policies_flush">>
    BY <2>2
  <2> QED BY <1>3, <2>1, <2>2 DEF DisconnectedLeft
<1>4. CASE t \in IfdownLeft
  <2>1. CASE t = <<"offline", "policies_flush", "del_rules", "USR1">>
    BY <2>1
  <2>2. CASE t = <<"policies_flush", "del_rules", "USR1">>
    BY <2>2
  <2>3. CASE t = <<"del_rules", "USR1">>
    BY <2>3
  <2>4. CASE t = <<"USR1">>
    BY <2>4
  <2> QED BY <1>4, <2>1, <2>2, <2>3, <2>4 DEF IfdownLeft
<1>5. CASE t \in ReloadLeft
  <2>1. CASE t = <<"policies", "if_up", "del_rules", "add_rules", "HUP">>
    BY <2>1
  <2>2. CASE t = <<"if_up", "del_rules", "add_rules", "HUP">>
    <3>1. r \in {<<"del_rules", "add_rules", "HUP">>, <<"HUP">>}
      BY <2>2, SkipRules
    <3>2. /\ UNCHANGED iface_state /\ (policy' <=> policy) /\ (pins' => pins)
          /\ policy <=> iface_state = "online"
      BY <2>2
    <3> HIDE DEF Remaining, SyncEffect
    <3> QED
      BY <3>1, <3>2
  <2>3. CASE t = <<"del_rules", "add_rules", "HUP">>
    BY <2>3
  <2>4. CASE t = <<"add_rules", "HUP">>
    BY <2>4
  <2>5. CASE t = <<"HUP">>
    BY <2>5
  <2> QED BY <1>5, <2>1, <2>2, <2>3, <2>4, <2>5 DEF ReloadLeft
<1> QED BY <1>1, <1>2, <1>3, <1>4, <1>5 DEF Left

\* The policy, the state and the pins stay as they are.
LEMMA SyncStays ==
  ASSUME SyncInv, UNCHANGED <<lock, iface_state, policy, pins>>,
         lock # "free" => hp'[lock].todo = hp[lock].todo,
         \A c \in Callers : hp'[c].status = "online"
  PROVE  SyncInv'
<1>1. CASE lock = "free"
  BY <1>1 DEF SyncInv, SyncOK
<1>2. CASE lock # "free"
  <2>1. PICK t : t = hp[lock].todo
    OBVIOUS
  <2>2. t = hp'[lock'].todo /\ SyncOK(t)
    BY <1>2, <2>1 DEF SyncInv, SyncOK
  <2>3. SyncOK(t)'
    BY <2>2 DEF SyncOK
  <2> QED
    BY <1>2, <2>2, <2>3 DEF SyncInv, SyncOK
<1> QED
  BY <1>1, <1>2

\* Starting a script brings in a status of online and leaves the holder alone.
LEMMA SyncStart ==
  ASSUME ScriptInv, SyncInv, NEW c \in Callers, Idle(c), NEW a \in Actions,
         hp' = [hp EXCEPT ![c] = Script(a)],
         UNCHANGED <<lock, iface_state, policy, pins>>
  PROVE  SyncInv'
<1>1. lock # c
  BY DEF ScriptInv, ScriptsOK, Callers
<1>2. /\ hp'[c] = Script(a)
      /\ \A d \in Callers \ {c} : hp'[d] = hp[d]
      /\ lock \in Callers \cup {"free"}
  BY DEF ScriptInv, TypeOK, HotplugType
<1>3. \A d \in Callers : hp'[d].status = "online"
  BY <1>2 DEF SyncInv, Script
<1> QED
  BY <1>1, <1>2, <1>3, SyncStays

\* A step, or none.
LEMMA SyncNext ==
  ASSUME initial_state = "online", ScriptInv, SyncInv, [Next]_vars
  PROVE  SyncInv'
<1> USE DEF shell, round, env
<1>1. CASE TrackerMove
  <2>1. CASE UNCHANGED hp
    <3>1. \A c \in Callers : hp'[c].status = "online"
      BY <2>1 DEF SyncInv
    <3> QED
      BY <1>1, <2>1, <3>1, SyncStays DEF TrackerMove
  <2>2. CASE \E a \in {"connected", "disconnected"} :
               hp' = [hp EXCEPT !["tracker"] = Script(a)] /\ Idle("tracker")
    <3>1. PICK a \in Actions : /\ hp' = [hp EXCEPT !["tracker"] = Script(a)]
                               /\ Idle("tracker")
      BY <2>2 DEF Actions
    <3>2. "tracker" \in Callers
      BY DEF Callers
    <3> QED
      BY <1>1, <3>1, <3>2, SyncStart DEF TrackerMove
  <2> QED
    BY <1>1, <2>1, <2>2 DEF TrackerMove
<1>2. CASE Commit
  <2>1. "init" \in Callers /\ "reload" \in Actions
    BY DEF Callers, Actions
  <2> QED
    BY <1>2, <2>1, SyncStart DEF Commit, Reload
<1>3. CASE Dispatch
  <2>1. "netifd" \in Callers /\ event \in Actions
    BY <1>3 DEF Callers, Actions, Dispatch, ScriptInv, TypeOK, HotplugType
  <2> QED
    BY <1>3, <2>1, SyncStart DEF Dispatch
<1>4. ASSUME NEW c \in Callers, procd_lock(c)
      PROVE  SyncInv'
  <2>1. /\ lock = "free" /\ lock' = c /\ c # "free"
        /\ UNCHANGED <<iface_state, policy, pins>>
    BY <1>4 DEF procd_lock, Callers
  <2>2. hp' = [hp EXCEPT ![c].status = "online"]
    BY <1>4 DEF procd_lock, InitialStatus
  <2>3. /\ \A d \in Callers : hp'[d].status = "online"
        /\ hp'[c].todo = hp[c].todo
    BY <2>2 DEF ScriptInv, TypeOK, HotplugType, SyncInv
  <2>4. PICK t : t = hp[c].todo
    OBVIOUS
  <2>5. t \notin UpStatus \cup SetOffline
    <3>1. t \in Full
      BY <1>4, <2>1, <2>4 DEF ScriptInv, ScriptsOK, procd_lock
    <3>2. t \in {<<"online", "del_rules", "add_rules", "policies">>,
                 <<"del_rules", "add_rules", "status", "policies_if_online",
                   "USR2">>,
                 <<"offline", "policies_flush">>,
                 <<"offline", "policies_flush", "del_rules", "USR1">>,
                 <<"policies", "if_up", "del_rules", "add_rules", "HUP">>}
      BY <3>1 DEF Full, Arm, Actions
    <3> QED
      BY <3>2 DEF UpStatus, SetOnline, SetOffline
  <2>6. (policy <=> iface_state = "online") /\ (pins => policy)
    BY <2>1 DEF SyncInv, SyncOK, UpStatus, SetOnline, SetOffline
  <2>7. SyncOK(t)'
    BY <2>1, <2>5, <2>6 DEF SyncOK
  <2>8. hp'[lock'].todo = t /\ lock' # "free"
    BY <2>1, <2>3, <2>4
  <2> QED
    BY <2>3, <2>7, <2>8 DEF SyncInv, SyncOK
<1>5. ASSUME NEW c \in Callers, HandlerStep(c, pc # "dead")
      PROVE  SyncInv'
  <2>1. /\ lock = c /\ c # "free" /\ lock' = lock /\ hp[c].todo # <<>>
    BY <1>5 DEF HandlerStep, Callers
  <2>2. PICK t, r : t = hp[c].todo /\ r = Remaining(t)
    OBVIOUS
  <2>3. SyncEffect(Head(t))
    BY <1>5, <2>2, StepSyncEffect DEF HandlerStep, SyncInv
  <2>4. t \in Left /\ t # <<>> /\ SyncOK(t)
    BY <2>1, <2>2 DEF ScriptInv, ScriptsOK, SyncInv, SyncOK
  <2>5. SyncOK(r)'
    BY <2>2, <2>3, <2>4, StepSync DEF ScriptInv, TypeOK, HotplugType
  <2>6. hp' = [hp EXCEPT ![c].todo = r]
    BY <1>5, <2>2 DEF HandlerStep
  <2>7. /\ \A d \in Callers : hp'[d].status = "online"
        /\ hp'[c].todo = r
    BY <2>6 DEF ScriptInv, TypeOK, HotplugType, SyncInv
  <2>8. hp'[lock'].todo = r /\ lock' # "free"
    BY <2>1, <2>7
  <2> QED
    BY <2>5, <2>7, <2>8 DEF SyncInv, SyncOK
<1>6. ASSUME NEW c \in Callers, HandlerExit(c)
      PROVE  SyncInv'
  <2>1. /\ lock = c /\ c # "free" /\ hp[c].todo = <<>> /\ lock' = "free"
        /\ hp' = [hp EXCEPT ![c] = NoScript]
        /\ UNCHANGED <<iface_state, policy, pins>>
    BY <1>6 DEF HandlerExit, Callers
  <2>2. \A d \in Callers : hp'[d].status = "online"
    BY <2>1 DEF ScriptInv, TypeOK, HotplugType, SyncInv, NoScript
  <2>3. SyncOK(<<>>)
    BY <2>1 DEF SyncInv, SyncOK
  <2> QED
    BY <2>1, <2>2, <2>3 DEF SyncInv, SyncOK
<1>7. CASE Flap
  <2>1. \A c \in Callers : hp'[c].status = "online"
    BY <1>7 DEF SyncInv, Flap
  <2> QED
    BY <1>7, <2>1, SyncStays DEF Flap
<1>8. CASE OtherInterface
  <2>1. lock = "free" /\ UNCHANGED <<hp, lock, iface_state, pins>>
    BY <1>8 DEF OtherInterface
  <2>2. policy' <=> iface_state = "online"
    BY <1>8 DEF OtherInterface
  <2>3. SyncOK(<<>>)
    BY <2>1 DEF SyncInv
  <2>4. SyncOK(<<>>)'
    BY <2>1, <2>2, <2>3 DEF SyncOK, UpStatus, SetOnline, SetOffline
  <2> QED
    BY <2>1, <2>4 DEF SyncInv
<1>9. CASE Traffic
  <2>1. /\ policy /\ UNCHANGED <<hp, lock, iface_state, policy>>
    BY <1>9 DEF Traffic
  <2>2. CASE lock = "free"
    BY <2>1, <2>2 DEF SyncInv, SyncOK
  <2>3. CASE lock # "free"
    <3>1. PICK t : t = hp[lock].todo
      OBVIOUS
    <3>2. t = hp'[lock'].todo /\ SyncOK(t)
      BY <2>1, <2>3, <3>1 DEF SyncInv, SyncOK
    <3>3. SyncOK(t)'
      BY <2>1, <3>2 DEF SyncOK
    <3> QED
      BY <2>1, <2>3, <3>2, <3>3 DEF SyncInv, SyncOK
  <2> QED
    BY <2>2, <2>3
<1>10. CASE UNCHANGED vars
  <2>1. \A c \in Callers : hp'[c].status = "online"
    BY <1>10 DEF SyncInv, vars, hotplugVars
  <2> QED
    BY <1>10, <2>1, SyncStays DEF vars, hotplugVars
<1> QED
  BY <1>1, <1>2, <1>3, <1>4, <1>5, <1>6, <1>7, <1>8, <1>9, <1>10, TrackerStep
  DEF Next, Scripts, Environment

\* No source stays pinned to an interface the policy has dropped, where the
\* interface starts online, for all numbers of flaps, reloads and crashes.
THEOREM PinsAlwaysFollow ==
  ASSUME initial_state = "online"
  PROVE  Spec => []PinsFollowPolicy
<1>1. ScriptInv /\ SyncInv /\ [Next]_vars => SyncInv'
  BY SyncNext
<1>2. SyncInv => PinsFollowPolicy
  BY DEF SyncInv, SyncOK, PinsFollowPolicy
<1> QED
  BY SyncInit, ScriptInvariant, <1>1, <1>2, PTL DEF Spec

-----------------------------------------------------------------------------
(***************************************************************************)
(* SettledIsSound.  netifd, the scripts and the tracker tell each other    *)
(* about a change in turn; the invariant says, for a change that one of    *)
(* them has not reacted to yet, who has the news: netifd's newest event,   *)
(* its script, a signal under way, a flag of the tracker, or the command   *)
(* the tracker is at.                                                      *)
(***************************************************************************)
\* The interface has no rules, and no script is about to add them again.
NoRules == ~rules /\ (lock # "free" => hp[lock].todo \notin Adding)

\* netifd's script has steps left, and the last of them tells the tracker.
Busy == hp["netifd"].todo # <<>>
Signalling == lock = "netifd" /\ hp["netifd"].todo = <<"USR1">>

\* netifd's ifup, and the tracker's disconnected, are under way.
Raising == lock = "netifd" /\ hp["netifd"].action = "ifup" /\ Busy
Lowering == hp["tracker"].action = "disconnected" /\ hp["tracker"].todo # <<>>

\* The steps left are steps of the script the caller runs.
LeftBy(a, t) ==
  \/ t = <<>>
  \/ a = "connected" /\ t \in ConnectedLeft
  \/ a = "ifup" /\ t \in IfupLeft
  \/ a = "disconnected" /\ t \in DisconnectedLeft
  \/ a = "ifdown" /\ t \in IfdownLeft
  \/ a = "reload" /\ t \in ReloadLeft
CallersOK ==
  /\ hp["netifd"].action \in {"none", "ifup", "ifdown"}
  /\ hp["tracker"].action \in {"none", "connected", "disconnected"}
  /\ hp["init"].action \in {"none", "reload"}
  /\ \A c \in Callers : LeftBy(hp[c].action, hp[c].todo)

\* netifd's newest event, or the script it runs for it, is about the state the
\* interface is in; once an ifup is through, the rules are there.
NetifdOK ==
  /\ event # "none" => event = IF ifUp THEN "ifup" ELSE "ifdown"
  /\ event = "none" /\ ~Idle("netifd") =>
       hp["netifd"].action = IF ifUp THEN "ifup" ELSE "ifdown"
  /\ ~(event = "none" /\ ifUp /\ ~Busy /\ NoRules)

\* A dead tracker has no signals, and the signal of an ifup is not the last one
\* when the interface has lost its rules since.
SignalsOK ==
  /\ pc = "dead" => pending = {}
  /\ "USR2" \in pending /\ NoRules => "USR1" \in pending \/ Signalling

\* Which commands a tracker reaches only when it is started or has an event.
ControlOK ==
  /\ pc \in {"round", "probe", "score", "rest", "nap"} => STARTED
  /\ pc = "hotplug" /\ ret = "rest" => STARTED
  /\ ~STARTED /\ site # "bottom" =>
       /\ pc = "ifdown" => Events
       /\ pc = "ifup" => IFUP_EVENT \/ RELOAD_EVENT
       /\ pc = "reload" => RELOAD_EVENT
  /\ site = "start" => pc \in {"dead", "firstconnect", "give_up", "track",
                               "ifup_done", "loop"}
  /\ pc = "ifdown_done" => ~STARTED \/ IFUP_EVENT

\* What it has published by then.
PublishedOK ==
  /\ ~STARTED /\ pc \notin {"dead", "firstconnect", "give_up", "track"} =>
       status_file # "online"
  /\ ~STARTED /\ pc \notin {"dead", "firstconnect", "give_up", "track",
                            "disable", "hotplug"} => STATUS = "disabled"
  /\ pc \in {"fork_sleep", "asleep"} =>
       status_file # "online" /\ STATUS = "disabled"

\* Who has the news that the interface has lost its rules.
DownNews ==
  NoRules /\ ~missed =>
    \/ event # "none" \/ Busy
    \/ "USR1" \in pending
    \/ IFDOWN_EVENT
    \/ IFUP_EVENT /\ (pc \notin {"track", "ifup_done"} \/ site = "start")
    \/ pc \in {"dead", "firstconnect", "give_up", "disable"}
    \/ pc = "hotplug" /\ ret = "disable"
    \/ ~STARTED /\ pc # "track"

SettledInv == CallersOK /\ NetifdOK /\ SignalsOK /\ ControlOK /\ PublishedOK
                /\ DownNews

-----------------------------------------------------------------------------
\* What a step of a script does to the signals.
SignalEffect(step) ==
  /\ step \in Signals /\ pc # "dead" => pending' = pending \cup {step}
  /\ ~(step \in Signals /\ pc # "dead") => pending' = pending

LEMMA StepSignal ==
  ASSUME NEW c \in Callers, NEW step,
         \/ SetState(step, c)
         \/ SetPolicies(step, c)
         \/ SetRules(step)
         \/ SendSignal(step, pc # "dead")
  PROVE  SignalEffect(step)
<1>1. CASE SetState(step, c)
  BY <1>1 DEF SetState, SignalEffect, Signals
<1>2. CASE SetPolicies(step, c)
  BY <1>2 DEF SetPolicies, SignalEffect, Signals
<1>3. CASE SetRules(step)
  BY <1>3 DEF SetRules, SignalEffect, Signals
<1>4. CASE SendSignal(step, pc # "dead")
  BY <1>4 DEF SendSignal, SignalEffect
<1> QED BY <1>1, <1>2, <1>3, <1>4

\* What the holder of the lock has left after a step, as far as the rules and
\* the signals are concerned.
StepLeaves(a, t, r) ==
  /\ LeftBy(a, r)
  /\ \/ rules' \/ r \in Adding \/ (~rules /\ t \notin Adding)
     \/ a = "ifdown" /\ r = <<"USR1">>
  /\ Head(t) = "USR2" => rules
  /\ Head(t) = "USR1" => t = <<"USR1">>
  /\ r = <<>> /\ a = "ifup" => Head(t) = "USR2"
  /\ r = <<>> /\ a = "ifdown" => Head(t) = "USR1"

LEMMA StepLeft ==
  ASSUME NEW c \in Callers, NEW a, NEW t, LeftBy(a, t), t # <<>>,
         NEW r, r = Remaining(t),
         rules \in BOOLEAN, StateOK(t), Effect(Head(t), c)
  PROVE  StepLeaves(a, t, r)
<1> USE DEF StateOK, HasRules, Adding, Remaining, Effect, StepLeaves, LeftBy
<1>1. CASE a = "connected" /\ t \in ConnectedLeft
  <2>1. CASE t = <<"online", "del_rules", "add_rules", "policies">>
    BY <1>1, <2>1 DEF ConnectedLeft
  <2>2. CASE t = <<"del_rules", "add_rules", "policies">>
    BY <1>1, <2>2 DEF ConnectedLeft
  <2>3. CASE t = <<"add_rules", "policies">>
    BY <1>1, <2>3 DEF ConnectedLeft
  <2>4. CASE t = <<"policies">>
    BY <1>1, <2>4 DEF ConnectedLeft
  <2> QED BY <1>1, <2>1, <2>2, <2>3, <2>4 DEF ConnectedLeft
<1>2. CASE a = "ifup" /\ t \in IfupLeft
  <2>1. CASE t = <<"del_rules", "add_rules", "status", "policies_if_online", "USR2">>
    BY <1>2, <2>1 DEF IfupLeft
  <2>2. CASE t = <<"add_rules", "status", "policies_if_online", "USR2">>
    BY <1>2, <2>2 DEF IfupLeft
  <2>3. CASE t = <<"status", "policies_if_online", "USR2">>
    BY <1>2, <2>3 DEF IfupLeft
  <2>4. CASE t = <<"policies_if_online", "USR2">>
    BY <1>2, <2>4 DEF IfupLeft
  <2>5. CASE t = <<"USR2">>
    BY <1>2, <2>5 DEF IfupLeft
  <2> QED BY <1>2, <2>1, <2>2, <2>3, <2>4, <2>5 DEF IfupLeft
<1>3. CASE a = "disconnected" /\ t \in DisconnectedLeft
  <2>1. CASE t = <<"offline", "policies_flush">>
    BY <1>3, <2>1 DEF DisconnectedLeft
  <2>2. CASE t = <<"policies_flush">>
    BY <1>3, <2>2 DEF DisconnectedLeft
  <2> QED BY <1>3, <2>1, <2>2 DEF DisconnectedLeft
<1>4. CASE a = "ifdown" /\ t \in IfdownLeft
  <2>1. CASE t = <<"offline", "policies_flush", "del_rules", "USR1">>
    BY <1>4, <2>1 DEF IfdownLeft
  <2>2. CASE t = <<"policies_flush", "del_rules", "USR1">>
    BY <1>4, <2>2 DEF IfdownLeft
  <2>3. CASE t = <<"del_rules", "USR1">>
    BY <1>4, <2>3 DEF IfdownLeft
  <2>4. CASE t = <<"USR1">>
    BY <1>4, <2>4 DEF IfdownLeft
  <2> QED BY <1>4, <2>1, <2>2, <2>3, <2>4 DEF IfdownLeft
<1>5. CASE a = "reload" /\ t \in ReloadLeft
  <2>1. CASE t = <<"policies", "if_up", "del_rules", "add_rules", "HUP">>
    BY <1>5, <2>1 DEF ReloadLeft
  <2>2. CASE t = <<"if_up", "del_rules", "add_rules", "HUP">>
    <3>1. r \in {<<"del_rules", "add_rules", "HUP">>, <<"HUP">>}
      BY <2>2, SkipRules
    <3>2. UNCHANGED rules /\ t \notin Adding /\ Head(t) = "if_up"
      BY <2>2
    <3> HIDE DEF Remaining, Effect
    <3> QED
      BY <1>5, <3>1, <3>2 DEF ReloadLeft
  <2>3. CASE t = <<"del_rules", "add_rules", "HUP">>
    BY <1>5, <2>3 DEF ReloadLeft
  <2>4. CASE t = <<"add_rules", "HUP">>
    BY <1>5, <2>4 DEF ReloadLeft
  <2>5. CASE t = <<"HUP">>
    BY <1>5, <2>5 DEF ReloadLeft
  <2> QED BY <1>5, <2>1, <2>2, <2>3, <2>4, <2>5 DEF ReloadLeft
<1> QED BY <1>1, <1>2, <1>3, <1>4, <1>5 DEF LeftBy

\* Where every script, and who holds the lock, is as it was.
LEMMA NewsFrame ==
  ASSUME UNCHANGED <<rules, lock>>, lock # "free" => hp'[lock].todo = hp[lock].todo
  PROVE  NoRules' <=> NoRules
<1>1. CASE lock = "free"
  BY <1>1 DEF NoRules
<1>2. CASE lock # "free"
  <2>1. hp'[lock'].todo = hp[lock].todo
    BY <1>2
  <2>2. PICK t : t = hp[lock].todo
    OBVIOUS
  <2>3. hp'[lock'].todo = t
    BY <2>1, <2>2
  <2> QED
    BY <1>2, <2>2, <2>3 DEF NoRules, Adding
<1> QED
  BY <1>1, <1>2

\* The tracker leaves what its own variables say.
TrackerStill ==
  /\ UNCHANGED <<pc, ret, site, STATUS, STARTED, IFDOWN_EVENT, IFUP_EVENT>>
  /\ UNCHANGED <<RELOAD_EVENT, missed, status_file>>

\* Steps of the scripts and of netifd that bring no news to the tracker.
LEMMA NewsStays ==
  ASSUME SignalsOK, ControlOK, PublishedOK, DownNews, TrackerStill,
         UNCHANGED pending,
         NoRules' => NoRules,
         Signalling => Signalling',
         event # "none" \/ Busy => event' # "none" \/ Busy'
  PROVE  SignalsOK' /\ ControlOK' /\ PublishedOK' /\ DownNews'
<1> USE DEF TrackerStill
<1>1. SignalsOK'
  BY DEF SignalsOK
<1>2. ControlOK'
  BY DEF ControlOK, Events
<1>3. PublishedOK'
  BY DEF PublishedOK
<1>4. DownNews'
  BY DEF DownNews
<1> QED
  BY <1>1, <1>2, <1>3, <1>4

\* A process that is idle starts a script of the kind it runs.
LEMMA StartCallers ==
  ASSUME ScriptInv, CallersOK, NEW c \in Callers, Idle(c), NEW a \in Actions,
         \/ c = "netifd" /\ a \in {"ifup", "ifdown"}
         \/ c = "tracker" /\ a \in {"connected", "disconnected"}
         \/ c = "init" /\ a = "reload",
         hp' = [hp EXCEPT ![c] = Script(a)], UNCHANGED <<lock, rules>>
  PROVE  /\ CallersOK'
         /\ hp'[c].action = a /\ hp'[c].todo # <<>>
         /\ \A d \in Callers \ {c} : hp'[d] = hp[d]
         /\ NoRules' <=> NoRules
<1>1. /\ hp'[c] = Script(a)
      /\ \A d \in Callers \ {c} : hp'[d] = hp[d]
      /\ lock \in Callers \cup {"free"}
  BY DEF ScriptInv, TypeOK, HotplugType
<1>2. lock # c
  BY DEF ScriptInv, ScriptsOK, Callers
<1>3. Script(a).action = a /\ Script(a).todo = Arm[a]
  BY DEF Script
<1>4. LeftBy(a, Arm[a]) /\ Arm[a] # <<>>
  BY DEF LeftBy, Arm, Actions, ConnectedLeft, IfupLeft, DisconnectedLeft,
         IfdownLeft, ReloadLeft
<1>5. \A d \in Callers : LeftBy(hp'[d].action, hp'[d].todo)
  BY <1>1, <1>3, <1>4 DEF CallersOK
<1>6. CallersOK'
  <2>1. /\ hp'["netifd"].action \in {"none", "ifup", "ifdown"}
        /\ hp'["tracker"].action \in {"none", "connected", "disconnected"}
        /\ hp'["init"].action \in {"none", "reload"}
    BY <1>1, <1>3 DEF CallersOK, Callers
  <2> QED
    BY <1>5, <2>1 DEF CallersOK, LeftBy
<1>7. NoRules' <=> NoRules
  BY <1>1, <1>2, NewsFrame
<1> QED
  BY <1>1, <1>3, <1>4, <1>6, <1>7

\* reload_service and netifd start a script.
LEMMA SettledStart ==
  ASSUME ScriptInv, SettledInv, Commit \/ (Dispatch /\ UNCHANGED trackVars)
  PROVE  SettledInv'
<1> USE DEF SettledInv
<1>1. TrackerStill /\ UNCHANGED <<pending, lock, rules, ifUp>>
  BY DEF Commit, Reload, Dispatch, trackVars, shell, env, TrackerStill
<1>2. CASE Commit
  <2>1. "init" \in Callers /\ "reload" \in Actions
    BY DEF Callers, Actions
  <2>2. /\ Idle("init") /\ hp' = [hp EXCEPT !["init"] = Script("reload")]
        /\ UNCHANGED event
    BY <1>2 DEF Commit, Reload
  <2>3. /\ CallersOK' /\ hp'["netifd"] = hp["netifd"]
        /\ NoRules' <=> NoRules
    BY <1>1, <2>1, <2>2, StartCallers DEF Callers
  <2>4. (Busy' <=> Busy) /\ (Signalling' <=> Signalling)
    BY <1>1, <2>3 DEF Busy, Signalling
  <2>5. NetifdOK'
    BY <1>1, <2>2, <2>3, <2>4 DEF NetifdOK, Idle
  <2> QED
    BY <1>1, <2>2, <2>3, <2>4, <2>5, NewsStays
<1>3. CASE Dispatch
  <2>1. "netifd" \in Callers /\ event \in Actions /\ event \in {"ifup", "ifdown"}
    BY <1>3 DEF Callers, Actions, Dispatch, ScriptInv, TypeOK, HotplugType
  <2>2. /\ Idle("netifd") /\ hp' = [hp EXCEPT !["netifd"] = Script(event)]
        /\ event # "none" /\ event' = "none"
    BY <1>3 DEF Dispatch
  <2>3. /\ CallersOK' /\ hp'["netifd"].action = event
        /\ hp'["netifd"].todo # <<>>
        /\ NoRules' <=> NoRules
    BY <1>1, <2>1, <2>2, StartCallers
  <2>4. Busy' /\ ~Signalling
    <3>1. lock # "netifd"
      BY <2>1, <2>2 DEF ScriptInv, ScriptsOK
    <3> QED
      BY <2>3, <3>1 DEF Busy, Signalling
  <2>5. NetifdOK'
    BY <1>1, <2>2, <2>3, <2>4 DEF NetifdOK
  <2> QED
    BY <1>1, <2>3, <2>4, <2>5, NewsStays
<1> QED
  BY <1>2, <1>3

\* A script obtains the lock.
LEMMA SettledLock ==
  ASSUME ScriptInv, SettledInv, NEW c \in Callers, procd_lock(c),
         UNCHANGED trackVars
  PROVE  SettledInv'
<1> USE DEF SettledInv
<1>1. TrackerStill /\ UNCHANGED <<pending, rules, ifUp, event>>
  BY DEF procd_lock, trackVars, shell, env, TrackerStill
<1>2. /\ lock = "free"
      /\ \A d \in Callers : hp'[d].todo = hp[d].todo /\ hp'[d].action = hp[d].action
  BY DEF procd_lock, ScriptInv, TypeOK, HotplugType
<1>3. CallersOK'
  BY <1>2 DEF CallersOK, LeftBy, Callers
<1>4. (NoRules' => NoRules) /\ ~Signalling
  BY <1>1, <1>2 DEF NoRules, Signalling
<1>5. Busy' <=> Busy
  BY <1>2 DEF Busy, Callers
<1>6. NetifdOK'
  <2>1. Idle("netifd")' <=> Idle("netifd")
    BY <1>2 DEF Idle, Callers
  <2> QED
    BY <1>1, <1>2, <1>4, <1>5, <2>1 DEF NetifdOK, Callers
<1> QED
  BY <1>1, <1>3, <1>4, <1>5, <1>6, NewsStays

\* The holder of the lock ends.
LEMMA SettledExit ==
  ASSUME ScriptInv, SettledInv, NEW c \in Callers, HandlerExit(c),
         UNCHANGED trackVars
  PROVE  SettledInv'
<1> USE DEF SettledInv
<1>1. TrackerStill /\ UNCHANGED <<pending, rules, ifUp, event>>
  BY DEF HandlerExit, trackVars, shell, env, TrackerStill
<1>2. /\ lock = c /\ hp[c].todo = <<>> /\ lock' = "free"
      /\ hp'[c] = NoScript /\ NoScript.action = "none" /\ NoScript.todo = <<>>
      /\ \A d \in Callers \ {c} : hp'[d] = hp[d]
  BY DEF HandlerExit, ScriptInv, TypeOK, HotplugType, NoScript
<1>3. CallersOK'
  <2>1. \A d \in Callers : LeftBy(hp'[d].action, hp'[d].todo)
    BY <1>2 DEF CallersOK, LeftBy
  <2>2. /\ hp'["netifd"].action \in {"none", "ifup", "ifdown"}
        /\ hp'["tracker"].action \in {"none", "connected", "disconnected"}
        /\ hp'["init"].action \in {"none", "reload"}
    BY <1>2 DEF CallersOK, Callers
  <2> QED
    BY <2>1, <2>2 DEF CallersOK, LeftBy
<1>4. NoRules' => NoRules
  <2>1. <<>> \notin Adding
    BY DEF Adding
  <2> QED
    BY <1>1, <1>2, <2>1 DEF NoRules
<1>5. Busy' <=> Busy
  BY <1>2 DEF Busy, Callers
<1>6. ~Signalling
  BY <1>2 DEF Signalling
<1>7. NetifdOK'
  <2>1. Idle("netifd")' \/ hp'["netifd"] = hp["netifd"]
    BY <1>2 DEF Idle, Callers
  <2> QED
    BY <1>1, <1>4, <1>5, <2>1 DEF NetifdOK, Idle
<1> QED
  BY <1>1, <1>3, <1>4, <1>5, <1>6, <1>7, NewsStays

\* netifd changes the state of the interface; other interfaces and traffic.
LEMMA SettledEnvironment ==
  ASSUME ScriptInv, SettledInv, Environment
  PROVE  SettledInv'
<1> USE DEF SettledInv
<1>1. TrackerStill /\ UNCHANGED <<pending, rules, lock, hp>>
  BY DEF Environment, Flap, OtherInterface, Traffic, trackVars, shell, env,
         TrackerStill
<1>2. CallersOK'
  BY <1>1 DEF CallersOK, LeftBy
<1>3. /\ NoRules' <=> NoRules
      /\ Busy' <=> Busy
      /\ Signalling' <=> Signalling
  BY <1>1 DEF NoRules, Busy, Signalling, Adding
<1>4. NetifdOK' /\ (event # "none" => event' # "none")
  <2>1. CASE Flap
    <3>1. event' = (IF ifUp THEN "ifdown" ELSE "ifup") /\ ifUp' = ~ifUp
      BY <2>1 DEF Flap
    <3>2. ifUp \in BOOLEAN
      BY DEF ScriptInv, TypeOK, HotplugType
    <3> QED
      BY <3>1, <3>2 DEF NetifdOK
  <2>2. CASE OtherInterface \/ Traffic
    <3>1. UNCHANGED <<event, ifUp>>
      BY <2>2 DEF OtherInterface, Traffic
    <3> QED
      BY <1>1, <1>3, <3>1 DEF NetifdOK, Idle
  <2> QED
    BY <2>1, <2>2 DEF Environment
<1> QED
  BY <1>1, <1>2, <1>3, <1>4, NewsStays

\* The holder of the lock takes a step.
LEMMA SettledHandler ==
  ASSUME ScriptInv, SettledInv, NEW c \in Callers,
         HandlerStep(c, pc # "dead"), UNCHANGED trackVars
  PROVE  SettledInv'
<1> USE DEF SettledInv
<1>1. /\ TrackerStill /\ UNCHANGED <<ifUp, event, lock>>
      /\ lock = c /\ c # "free" /\ hp[c].todo # <<>>
  BY DEF HandlerStep, trackVars, shell, env, TrackerStill, Callers
<1>2. PICK a, t, r : a = hp[c].action /\ t = hp[c].todo /\ r = Remaining(t)
  OBVIOUS
<1>3. /\ LeftBy(a, t) /\ t # <<>> /\ StateOK(t) /\ rules \in BOOLEAN
  BY <1>1, <1>2
  DEF CallersOK, ScriptInv, HolderOK, StateOK, TypeOK, HotplugType, LeftBy
<1>4. \/ SetState(Head(t), c)
      \/ SetPolicies(Head(t), c)
      \/ SetRules(Head(t))
      \/ SendSignal(Head(t), pc # "dead")
  BY <1>2 DEF HandlerStep
<1>5. Effect(Head(t), c) /\ SignalEffect(Head(t))
  BY <1>3, <1>4, StepEffect, StepSignal
<1>6. StepLeaves(a, t, r)
  BY <1>2, <1>3, <1>5, StepLeft
<1>7. /\ hp'[c].todo = r /\ hp'[c].action = a
      /\ \A d \in Callers \ {c} : hp'[d] = hp[d]
  <2>1. hp' = [hp EXCEPT ![c].todo = r]
    BY <1>2 DEF HandlerStep
  <2> QED
    BY <1>2, <2>1 DEF ScriptInv, TypeOK, HotplugType
<1>8. CallersOK'
  <2>1. \A d \in Callers : LeftBy(hp'[d].action, hp'[d].todo)
    BY <1>6, <1>7 DEF CallersOK, StepLeaves
  <2>2. \A d \in Callers : hp'[d].action = hp[d].action
    BY <1>2, <1>7
  <2> QED
    BY <2>1, <2>2 DEF CallersOK, LeftBy, Callers
<1>9. a = "ifdown" \/ a = "ifup" => c = "netifd"
  BY <1>2 DEF CallersOK, Callers
<1>10. NoRules <=> ~rules /\ t \notin Adding
  BY <1>1, <1>2 DEF NoRules
<1>11. NoRules' <=> ~rules' /\ r \notin Adding
  <2>1. hp'[lock'].todo = r /\ lock' # "free"
    BY <1>1, <1>7
  <2> QED
    BY <2>1 DEF NoRules, Adding
<1>12. NoRules' => NoRules \/ (c = "netifd" /\ a = "ifdown" /\ r = <<"USR1">>)
  BY <1>6, <1>9, <1>10, <1>11 DEF StepLeaves
<1>13. \/ Busy' <=> Busy
       \/ c = "netifd" /\ Busy /\ ~Busy' /\ r = <<>>
  BY <1>1, <1>7 DEF Busy, Callers
<1>14. c = "netifd" /\ r = <<>> =>
         \/ a = "ifup" /\ Head(t) = "USR2" /\ ~NoRules'
         \/ a = "ifdown" /\ Head(t) = "USR1"
  <2> SUFFICES ASSUME c = "netifd", r = <<>>
               PROVE  \/ a = "ifup" /\ Head(t) = "USR2" /\ ~NoRules'
                      \/ a = "ifdown" /\ Head(t) = "USR1"
    OBVIOUS
  <2>1. a \in {"ifup", "ifdown"}
    BY <1>2, <1>3 DEF CallersOK, LeftBy
  <2>2. Head(t) = "USR2" => ~NoRules'
    BY <1>5, <1>6, <1>11 DEF StepLeaves, Effect
  <2> QED
    BY <1>6, <2>1, <2>2 DEF StepLeaves
<1>15. Signalling' <=> c = "netifd" /\ r = <<"USR1">>
  BY <1>1, <1>7 DEF Signalling
<1>16. NetifdOK'
  <2>1. hp'["netifd"].action = hp["netifd"].action
    BY <1>2, <1>7 DEF Callers
  <2>2. /\ event' # "none" => event' = IF ifUp' THEN "ifup" ELSE "ifdown"
        /\ event' = "none" /\ ~Idle("netifd")' =>
             hp'["netifd"].action = IF ifUp' THEN "ifup" ELSE "ifdown"
    BY <1>1, <2>1 DEF NetifdOK, Idle
  <2>3. ~(event' = "none" /\ ifUp' /\ ~Busy' /\ NoRules')
    <3> SUFFICES ASSUME event = "none", ifUp, ~Busy', NoRules' PROVE FALSE
      BY <1>1
    <3>1. c # "netifd" \/ a # "ifdown"
      BY <1>1, <1>2 DEF NetifdOK, ScriptInv, ScriptsOK
    <3>2. NoRules
      BY <1>12, <3>1
    <3>3. Busy
      BY <3>2 DEF NetifdOK
    <3>4. c = "netifd" /\ r = <<>>
      BY <1>13, <3>3
    <3> QED
      BY <1>14, <3>1, <3>4
  <2> QED
    BY <2>2, <2>3 DEF NetifdOK
<1>17. SignalsOK'
  <2>1. pc' = "dead" => pending' = {}
    BY <1>1, <1>5 DEF SignalEffect, SignalsOK, TrackerStill
  <2>2. ASSUME "USR2" \in pending', NoRules'
        PROVE  "USR1" \in pending' \/ Signalling'
    <3>1. Head(t) # "USR2"
      BY <1>5, <1>6, <1>11, <2>2 DEF StepLeaves, Effect
    <3>2. "USR2" \in pending
      BY <1>5, <2>2, <3>1 DEF SignalEffect
    <3>3. CASE NoRules
      <4>1. "USR1" \in pending \/ Signalling
        BY <3>2, <3>3 DEF SignalsOK
      <4>2. CASE "USR1" \in pending
        BY <1>5, <4>2 DEF SignalEffect
      <4>3. CASE Signalling
        <5>1. Head(t) = "USR1" /\ "USR1" \in Signals
          BY <1>1, <1>2, <4>3 DEF Signalling, Signals
        <5>2. pc # "dead"
          BY <3>2 DEF SignalsOK
        <5> QED
          BY <1>5, <5>1, <5>2 DEF SignalEffect
      <4> QED
        BY <4>1, <4>2, <4>3
    <3>4. CASE ~NoRules
      BY <1>12, <1>15, <2>2, <3>4
    <3> QED
      BY <3>3, <3>4
  <2> QED
    BY <2>1, <2>2 DEF SignalsOK
<1>18. ControlOK' /\ PublishedOK'
  BY <1>1 DEF ControlOK, PublishedOK, Events, TrackerStill
<1>19. DownNews'
  <2>1. CASE Busy'
    BY <2>1 DEF DownNews
  <2>2. CASE ~Busy' /\ Busy
    <3>1. ~NoRules' \/ Head(t) = "USR1"
      BY <1>13, <1>14, <2>2
    <3>2. CASE Head(t) = "USR1"
      <4>1. pc = "dead" \/ "USR1" \in pending'
        BY <1>5, <3>2 DEF SignalEffect, Signals
      <4> QED
        BY <1>1, <4>1 DEF DownNews, TrackerStill
    <3>3. CASE ~NoRules'
      BY <3>3 DEF DownNews
    <3> QED
      BY <3>1, <3>2, <3>3
  <2>3. CASE ~Busy' /\ ~Busy
    <3>1. c # "netifd"
      BY <1>1, <2>3 DEF Busy
    <3>2. NoRules' => NoRules
      BY <1>12, <3>1
    <3>3. "USR1" \in pending => "USR1" \in pending'
      BY <1>5 DEF SignalEffect
    <3> QED
      BY <1>1, <2>3, <3>2, <3>3 DEF DownNews, TrackerStill
  <2> QED
    BY <2>1, <2>2, <2>3
<1> QED
  BY <1>8, <1>16, <1>17, <1>18, <1>19

-----------------------------------------------------------------------------
\* A script without steps left does not signal.
LEMMA IdleSignalsNothing == ~Busy => ~Signalling
<1>1. <<"USR1">> # <<>>
  OBVIOUS
<1> QED
  BY <1>1 DEF Busy, Signalling

\* What the scripts and netifd see of a step of the tracker.
LEMMA TrackerFrame ==
  ASSUME ScriptInv, CallersOK, NetifdOK, TrackerMove
  PROVE  /\ CallersOK' /\ NetifdOK'
         /\ NoRules' <=> NoRules
         /\ Busy' <=> Busy
         /\ Signalling' <=> Signalling
         /\ UNCHANGED <<event, ifUp>>
<1>1. UNCHANGED <<event, ifUp, lock, rules>>
  BY DEF TrackerMove
<1>2. CASE UNCHANGED hp
  <2>1. CallersOK'
    BY <1>2 DEF CallersOK, LeftBy
  <2>2. /\ NoRules' <=> NoRules
        /\ Busy' <=> Busy
        /\ Signalling' <=> Signalling
    BY <1>1, <1>2 DEF NoRules, Busy, Signalling, Adding
  <2> QED
    BY <1>1, <1>2, <2>1, <2>2 DEF NetifdOK, Idle
<1>3. CASE \E a \in {"connected", "disconnected"} :
             /\ hp' = [hp EXCEPT !["tracker"] = Script(a)]
             /\ Idle("tracker")
  <2>1. PICK a \in {"connected", "disconnected"} :
          /\ hp' = [hp EXCEPT !["tracker"] = Script(a)]
          /\ Idle("tracker")
    BY <1>3
  <2>2. a \in Actions /\ "tracker" \in Callers
    BY DEF Actions, Callers
  <2>3. /\ CallersOK' /\ hp'["netifd"] = hp["netifd"]
        /\ NoRules' <=> NoRules
    BY <1>1, <2>1, <2>2, StartCallers DEF Callers
  <2>4. (Busy' <=> Busy) /\ (Signalling' <=> Signalling)
    BY <1>1, <2>3 DEF Busy, Signalling
  <2> QED
    BY <1>1, <2>3, <2>4 DEF NetifdOK, Idle
<1> QED
  BY <1>2, <1>3 DEF TrackerMove

\* The commands that only move on, or clear a flag.
LEMMA SettledPlain ==
  ASSUME TrackerReady, ControlOK, PublishedOK, DownNews, NetifdOK,
         \/ firstconnect \/ IfupDone \/ Loop \/ ForkSleep \/ IfdownDone
         \/ CheckIfup \/ ReloadDone \/ StartRound \/ EndRound \/ Rest \/ Nap
         \/ CheckReload \/ \E answers \in BOOLEAN : Probe(answers),
         NoRules' <=> NoRules, Busy' <=> Busy
  PROVE  ControlOK' /\ PublishedOK' /\ DownNews'
<1> USE DEF Goto, shell, round, env, hotplugVars, Events
<1>1. FlagType /\ site \in {"start", "top", "bottom"}
  BY DEF TrackerReady, TrackerType, ControlType
<1>2. CASE firstconnect
  <2>1. /\ pc = "firstconnect"
        /\ UNCHANGED <<STARTED, IFDOWN_EVENT, IFUP_EVENT, RELOAD_EVENT, site,
                       status_file, pending, event, ifUp>>
        /\ pc' = IF ifUp THEN "track" ELSE "give_up"
    BY <1>2 DEF firstconnect
  <2>2. ControlOK' /\ PublishedOK'
    BY <2>1 DEF ControlOK, PublishedOK
  <2>3. DownNews'
    BY <2>1 DEF DownNews, NetifdOK
  <2> QED
    BY <2>2, <2>3
<1>3. CASE IfupDone
  BY <1>1, <1>3 DEF IfupDone, ControlOK, PublishedOK, DownNews, FlagType
<1>4. CASE Loop
  BY <1>1, <1>4 DEF Loop, ControlOK, PublishedOK, DownNews, FlagType
<1>5. CASE ForkSleep
  BY <1>1, <1>5 DEF ForkSleep, ControlOK, PublishedOK, DownNews, FlagType
<1>6. CASE IfdownDone
  BY <1>1, <1>6 DEF IfdownDone, ControlOK, PublishedOK, DownNews, FlagType
<1>7. CASE CheckIfup
  BY <1>1, <1>7 DEF CheckIfup, ControlOK, PublishedOK, DownNews, FlagType
<1>8. CASE ReloadDone
  BY <1>1, <1>8 DEF ReloadDone, ControlOK, PublishedOK, DownNews, FlagType
<1>9. CASE StartRound
  BY <1>1, <1>9 DEF StartRound, ControlOK, PublishedOK, DownNews, FlagType
<1>10. CASE EndRound
  BY <1>1, <1>10 DEF EndRound, ControlOK, PublishedOK, DownNews, FlagType
<1>11. CASE Rest
  BY <1>1, <1>11 DEF Rest, ControlOK, PublishedOK, DownNews, FlagType
<1>12. CASE Nap
  BY <1>1, <1>12 DEF Nap, ControlOK, PublishedOK, DownNews, FlagType
<1>13. CASE CheckReload
  BY <1>1, <1>13 DEF CheckReload, ControlOK, PublishedOK, DownNews, FlagType
<1>14. CASE \E answers \in BOOLEAN : Probe(answers)
  <2>1. UNCHANGED <<pc, ret, site, shell, status_file, pending, event, missed>>
    BY <1>14 DEF Probe
  <2> QED
    BY <1>1, <2>1 DEF ControlOK, PublishedOK, DownNews, FlagType
<1> QED
  BY <1>2, <1>3, <1>4, <1>5, <1>6, <1>7, <1>8, <1>9, <1>10, <1>11, <1>12,
     <1>13, <1>14

\* The commands that set the status.
LEMMA SettledStatus ==
  ASSUME TrackerReady, ControlOK, PublishedOK, DownNews,
         \/ GiveUp \/ Disable \/ Track \/ CheckIfdown \/ ScoreDown \/ ScoreUp,
         NoRules' <=> NoRules, Busy' <=> Busy
  PROVE  ControlOK' /\ PublishedOK' /\ DownNews'
<1> USE DEF Goto, shell, round, env, hotplugRest, Events
<1>1. FlagType /\ site \in {"start", "top", "bottom"}
  BY DEF TrackerReady, TrackerType, ControlType
<1>2. CASE GiveUp
  BY <1>1, <1>2 DEF GiveUp, disabled, SetStatus, ControlOK, PublishedOK,
                    DownNews, FlagType
<1>3. CASE Disable
  BY <1>1, <1>3 DEF Disable, disabled, SetStatus, ControlOK, PublishedOK,
                    DownNews, FlagType
<1>4. CASE Track
  BY <1>1, <1>4 DEF Track, SetStatus, ControlOK, PublishedOK, DownNews,
                    FlagType
<1>5. CASE CheckIfdown
  <2>1. CASE IFDOWN_EVENT
    <3>1. /\ pc = "ifdown" /\ UNCHANGED <<site, STARTED, IFDOWN_EVENT,
                                           IFUP_EVENT, RELOAD_EVENT, pending,
                                           missed, event>>
          /\ status_file' = "offline"
          /\ pc' = "disable" \/ (pc' = "hotplug" /\ ret' = "disable")
      BY <1>5, <2>1 DEF CheckIfdown, disconnected, SetStatus, hotplug_call
    <3> QED
      BY <1>1, <2>1, <3>1 DEF ControlOK, PublishedOK, DownNews
  <2>2. CASE ~IFDOWN_EVENT
    BY <1>1, <1>5, <2>2 DEF CheckIfdown, ControlOK, PublishedOK, DownNews,
                            FlagType
  <2> QED
    BY <2>1, <2>2
<1>6. CASE ScoreDown \/ ScoreUp
  <2>1. /\ pc = "score"
        /\ UNCHANGED <<site, STARTED, IFDOWN_EVENT, IFUP_EVENT, RELOAD_EVENT,
                       pending, missed, event>>
        /\ pc' = "rest" \/ (pc' = "hotplug" /\ ret' = "rest")
    BY <1>6 DEF ScoreDown, StayDown, LoseLink, Weaken, ScoreUp, disconnected,
                StillConnecting, RegainLink, Confirm, connected, hotplug_call
  <2>2. STARTED
    BY <2>1 DEF ControlOK
  <2> QED
    BY <1>1, <2>1, <2>2 DEF ControlOK, PublishedOK, DownNews
<1> QED
  BY <1>2, <1>3, <1>4, <1>5, <1>6

\* Where a tracker begins and ends, the end of a script and a trap.
LEMMA SettledProcess ==
  ASSUME TrackerReady, ControlOK, PublishedOK, DownNews, SignalsOK,
         pending \subseteq Signals,
         Main \/ HotplugReturn \/ Trap \/ Crash,
         NoRules' <=> NoRules, Busy' <=> Busy
  PROVE  ControlOK' /\ PublishedOK' /\ DownNews'
<1> USE DEF shell, round, env, hotplugVars, hotplugRest, Events
<1>1. FlagType /\ site \in {"start", "top", "bottom"} /\ ret \in {"disable", "rest"}
  BY DEF TrackerReady, TrackerType, ControlType
<1>2. CASE Main
  BY <1>2 DEF Main, ControlOK, PublishedOK, DownNews
<1>3. CASE HotplugReturn
  BY <1>1, <1>3 DEF HotplugReturn, ControlOK, PublishedOK, DownNews, FlagType
<1>4. CASE Crash
  BY <1>1, <1>4 DEF Crash, ControlOK, PublishedOK, DownNews, FlagType
<1>5. CASE Trap
  <2>1. /\ pc \notin {"dead", "hotplug"} /\ pending # {} /\ pending' = {}
        /\ RELOAD_EVENT' <=> RELOAD_EVENT \/ "HUP" \in pending
        /\ IFDOWN_EVENT' <=> /\ IFDOWN_EVENT \/ "USR1" \in pending
                             /\ "USR2" \notin pending
        /\ IFUP_EVENT' <=> IFUP_EVENT \/ "USR2" \in pending
        /\ STARTED' <=> STARTED \/ "USR2" \in pending
        /\ pc' = IF pc \in {"asleep", "nap"} THEN "ifdown" ELSE pc
        /\ missed' <=> \/ missed
                       \/ /\ {"USR1", "USR2"} \subseteq pending
                          /\ pc \in {"track", "ifup_done"} /\ site # "start"
        /\ UNCHANGED <<ret, site, STATUS, status_file, event>>
    BY <1>5 DEF Trap
  <2>2. "HUP" \in pending \/ "USR1" \in pending \/ "USR2" \in pending
    BY <2>1 DEF Signals
  <2>3. ControlOK'
    BY <1>1, <2>1, <2>2 DEF ControlOK
  <2>4. PublishedOK'
    BY <2>1, <2>2 DEF ControlOK, PublishedOK
  <2>5. DownNews'
    <3> SUFFICES ASSUME NoRules, ~missed', event = "none", ~Busy
                 PROVE  DownNews'
      BY <2>1 DEF DownNews
    <3>1. ~Signalling
      BY IdleSignalsNothing
    <3>2. "USR2" \in pending => "USR1" \in pending
      BY <3>1 DEF SignalsOK
    <3>3. CASE "USR2" \in pending
      BY <2>1, <3>2, <3>3 DEF DownNews
    <3>4. CASE "USR2" \notin pending
      BY <2>1, <3>4 DEF DownNews
    <3> QED
      BY <3>3, <3>4
  <2> QED
    BY <2>3, <2>4, <2>5
<1> QED
  BY <1>2, <1>3, <1>4, <1>5

\* A step of the tracker.
LEMMA SettledTracker ==
  ASSUME ScriptInv, SettledInv, Main \/ Command \/ HotplugReturn \/ Trap \/ Crash
  PROVE  SettledInv'
<1> USE DEF SettledInv
<1>1. TrackerReady /\ TrackerMove /\ pending \subseteq Signals
  BY ReadyFromInv, TrackerStep DEF ScriptInv, TypeOK, HotplugType
<1>2. /\ CallersOK' /\ NetifdOK'
      /\ NoRules' <=> NoRules
      /\ Busy' <=> Busy
      /\ Signalling' <=> Signalling
  BY <1>1, TrackerFrame
<1>3. SignalsOK'
  <2>1. pc' = "dead" => pending' = {}
    <3>1. CASE Main \/ Trap \/ Crash
      BY <3>1 DEF Main, Trap, Crash, SignalsOK
    <3>2. CASE Command
      <4>1. pending = {} /\ pending' = {}
        BY <1>1, <3>2 DEF Command, TrackerMove
      <4> QED
        BY <4>1
    <3>3. CASE HotplugReturn
      BY <1>1, <3>3 DEF HotplugReturn, TrackerReady, TrackerType, ControlType
    <3> QED
      BY <3>1, <3>2, <3>3
  <2> QED
    BY <1>1, <1>2, <2>1 DEF SignalsOK, TrackerMove
<1>4. ControlOK' /\ PublishedOK' /\ DownNews'
  <2>1. CASE Main \/ HotplugReturn \/ Trap \/ Crash
    BY <1>1, <1>2, <2>1, SettledProcess
  <2>2. CASE Command
    BY <1>1, <1>2, <2>2, SettledPlain, SettledStatus DEF Command
  <2> QED
    BY <2>1, <2>2
<1> QED
  BY <1>2, <1>3, <1>4

\* Nothing is under way when the service has started, and an interface that is
\* up has its rules.
LEMMA SettledInit == Init => SettledInv
<1> SUFFICES ASSUME Init PROVE SettledInv
  OBVIOUS
<1>1. /\ hp = [c \in Callers |-> NoScript] /\ lock = "free" /\ pc = "dead"
      /\ event = "none" /\ pending = {} /\ rules = ifUp /\ ifUp \in BOOLEAN
      /\ NoScript.action = "none" /\ NoScript.todo = <<>> /\ STARTED = FALSE
  BY DEF Init, HotplugInit, NoScript
<1>2. CallersOK
  BY <1>1 DEF CallersOK, LeftBy, Callers
<1>3. NetifdOK
  BY <1>1 DEF NetifdOK, Idle, Callers, NoRules
<1>4. SignalsOK /\ ControlOK /\ PublishedOK /\ DownNews
  BY <1>1 DEF SignalsOK, ControlOK, PublishedOK, DownNews
<1> QED
  BY <1>2, <1>3, <1>4 DEF SettledInv

\* A step, or none.
LEMMA SettledNext == ScriptInv /\ SettledInv /\ [Next]_vars => SettledInv'
<1> SUFFICES ASSUME ScriptInv, SettledInv, [Next]_vars PROVE SettledInv'
  OBVIOUS
<1>1. CASE Main \/ Command \/ HotplugReturn \/ Trap \/ Crash
  BY <1>1, SettledTracker
<1>2. CASE Commit
  BY <1>2, SettledStart
<1>3. CASE Scripts
  BY <1>3, SettledStart, SettledLock, SettledHandler, SettledExit DEF Scripts
<1>4. CASE Environment
  BY <1>4, SettledEnvironment
<1>5. CASE UNCHANGED vars
  <2>1. UNCHANGED <<hotplugVars, pc, ret, site, shell, env>>
    BY <1>5 DEF vars, trackVars
  <2> USE DEF hotplugVars, shell, env
  <2>2. CallersOK' /\ NetifdOK'
    BY <2>1 DEF SettledInv, CallersOK, NetifdOK, LeftBy, Busy, NoRules, Idle, Adding
  <2>3. SignalsOK' /\ ControlOK' /\ PublishedOK'
    BY <2>1 DEF SettledInv, SignalsOK, ControlOK, PublishedOK, NoRules,
                Signalling, Events, Adding
  <2>4. DownNews'
    BY <2>1 DEF SettledInv, DownNews, NoRules, Busy, Adding
  <2> QED
    BY <2>2, <2>3, <2>4 DEF SettledInv
<1> QED
  BY <1>1, <1>2, <1>3, <1>4, <1>5 DEF Next

\* Who has the news of a loss of rules is known in every state.
THEOREM SettledInvariant == Spec => [](ScriptInv /\ SettledInv)
BY ScriptInvariant, SettledInit, SettledNext, PTL DEF Spec

\* For both initial states: when nothing is under way and the tracker sleeps,
\* an interface that the STATUS file calls online has its rules, unless it is
\* down and if_up has made the tracker put the ifdown off.
THEOREM SettledOnlineHasRules ==
  Spec => [](Settled /\ status_file = "online" /\ (ifUp \/ ~missed) => rules)
<1>1. ScriptInv /\ SettledInv =>
        (Settled /\ status_file = "online" /\ (ifUp \/ ~missed) => rules)
  <2> SUFFICES ASSUME ScriptInv, SettledInv, Settled, status_file = "online",
                      ifUp \/ ~missed, ~rules
               PROVE  FALSE
    OBVIOUS
  <2>1. /\ event = "none" /\ pending = {} /\ \A c \in Callers : Idle(c)
        /\ pc = "asleep" \/ (pc = "nap" /\ ~Events)
    BY DEF Settled
  <2>2. pc = "nap" /\ ~Events /\ STARTED
    BY <2>1 DEF SettledInv, PublishedOK, ControlOK
  <2>3. lock = "free"
    BY <2>1 DEF ScriptInv, ScriptsOK, TypeOK, HotplugType
  <2>4. NoRules
    BY <2>3 DEF NoRules
  <2>5. ~Busy
    BY <2>1 DEF SettledInv, CallersOK, LeftBy, Idle, Callers, Busy
  <2>6. ~ifUp
    BY <2>1, <2>4, <2>5 DEF SettledInv, NetifdOK
  <2> QED
    BY <2>1, <2>2, <2>4, <2>5, <2>6 DEF SettledInv, DownNews, Events
<1> QED
  BY <1>1, SettledInvariant, PTL

-----------------------------------------------------------------------------
(***************************************************************************)
(* Where initial_state is online, a tracker that holds its interface       *)
(* offline has either taken it out of the policy, or is about to, or an    *)
(* ifup has put it back and the tracker is to learn of it.                 *)
(***************************************************************************)
OnlineStart ==
  /\ pc \in {"give_up", "track"} => STATUS = "online"
  /\ pc = "ifup_done" => STATUS \in {"online", "disabled"}
  /\ pc = "hotplug" /\ STATUS = "offline" =>
       hp["tracker"].action \in {"none", "disconnected"}

\* Who has the news that an interface held offline is in use.
UpNews ==
  STATUS = "offline" /\ (iface_state = "online" \/ policy) =>
    \/ Lowering \/ Raising
    \/ "USR2" \in pending
    \/ IFUP_EVENT
    \/ pc \in {"dead", "disable", "firstconnect"}
    \/ pc = "hotplug" /\ ret = "disable"

OfflineInv == OnlineStart /\ UpNews

\* What a step of the holder does to the policy, as far as a tracker is
\* concerned that holds its interface offline.
StepUses(a, t, r) ==
  /\ iface_state' = "online" \/ policy' =>
       \/ iface_state = "online" \/ policy
       \/ a = "connected"
       \/ a = "ifup" /\ r # <<>>
  /\ a = "disconnected" /\ r = <<>> => iface_state' = "offline" /\ ~policy'
  /\ a = "ifup" /\ r = <<>> => Head(t) = "USR2"

LEMMA StepPolicy ==
  ASSUME NEW a, NEW t, LeftBy(a, t), t # <<>>, NEW r, r = Remaining(t),
         iface_state \in {"online", "offline"},
         SyncOK(t), SyncEffect(Head(t))
  PROVE  StepUses(a, t, r)
<1> USE DEF SyncOK, SetOffline, Remaining, SyncEffect, StepUses
<1>1. CASE a = "connected" /\ t \in ConnectedLeft
  BY <1>1 DEF ConnectedLeft
<1>2. CASE a = "ifup" /\ t \in IfupLeft
  <2>1. CASE t = <<"del_rules", "add_rules", "status", "policies_if_online", "USR2">>
    BY <1>2, <2>1
  <2>2. CASE t = <<"add_rules", "status", "policies_if_online", "USR2">>
    BY <1>2, <2>2
  <2>3. CASE t = <<"status", "policies_if_online", "USR2">>
    BY <1>2, <2>3
  <2>4. CASE t = <<"policies_if_online", "USR2">>
    BY <1>2, <2>4
  <2>5. CASE t = <<"USR2">>
    BY <1>2, <2>5
  <2> QED BY <1>2, <2>1, <2>2, <2>3, <2>4, <2>5 DEF IfupLeft
<1>3. CASE a = "disconnected" /\ t \in DisconnectedLeft
  <2>1. CASE t = <<"offline", "policies_flush">>
    BY <1>3, <2>1
  <2>2. CASE t = <<"policies_flush">>
    BY <1>3, <2>2
  <2> QED BY <1>3, <2>1, <2>2 DEF DisconnectedLeft
<1>4. CASE a = "ifdown" /\ t \in IfdownLeft
  <2>1. CASE t = <<"offline", "policies_flush", "del_rules", "USR1">>
    BY <1>4, <2>1
  <2>2. CASE t = <<"policies_flush", "del_rules", "USR1">>
    BY <1>4, <2>2
  <2>3. CASE t = <<"del_rules", "USR1">>
    BY <1>4, <2>3
  <2>4. CASE t = <<"USR1">>
    BY <1>4, <2>4
  <2> QED BY <1>4, <2>1, <2>2, <2>3, <2>4 DEF IfdownLeft
<1>5. CASE a = "reload" /\ t \in ReloadLeft
  <2>1. Head(t) \in {"policies", "if_up", "del_rules", "add_rules", "HUP"}
    BY <1>5 DEF ReloadLeft
  <2>2. /\ iface_state' = iface_state
        /\ policy' => policy \/ iface_state = "online"
    BY <2>1
  <2> QED
    BY <1>5, <2>2
<1> QED BY <1>1, <1>2, <1>3, <1>4, <1>5 DEF LeftBy

\* The tracker's variables stay, and so does whoever has the news.
LEMMA UpNewsStays ==
  ASSUME OnlineStart, UpNews, TrackerStill, UNCHANGED pending,
         pc = "hotplug" => hp'["tracker"].action \in {"none", hp["tracker"].action},
         Lowering => Lowering', Raising => Raising',
         iface_state' = "online" \/ policy' => iface_state = "online" \/ policy
  PROVE  OfflineInv'
<1> USE DEF TrackerStill
<1>1. OnlineStart'
  BY DEF OnlineStart
<1>2. UpNews'
  BY DEF UpNews
<1> QED
  BY <1>1, <1>2 DEF OfflineInv

\* Everything but the tracker's own steps.
LEMMA OfflineOthers ==
  ASSUME ScriptInv, SettledInv, SyncInv, OfflineInv,
         Commit \/ Scripts \/ Environment
  PROVE  OfflineInv'
<1> USE DEF OfflineInv
<1>1. TrackerStill
  BY DEF Commit, Reload, Scripts, Dispatch, procd_lock, HandlerStep,
         HandlerExit, Environment, Flap, OtherInterface, Traffic, trackVars,
         shell, env, TrackerStill
<1>2. /\ hp \in [Callers -> [action: Actions \cup {"none"},
                             status: {"online", "offline"}, todo: Seq(Steps)]]
      /\ iface_state \in {"online", "offline"}
  BY DEF ScriptInv, TypeOK, HotplugType
<1>3. CASE Commit
  <2>1. /\ UNCHANGED <<lock, iface_state, policy, pending>>
        /\ hp'["netifd"] = hp["netifd"] /\ hp'["tracker"] = hp["tracker"]
    BY <1>2, <1>3 DEF Commit, Reload, Callers
  <2> QED
    BY <1>1, <2>1, UpNewsStays DEF Lowering, Raising, Busy
<1>4. CASE Dispatch
  <2>1. /\ UNCHANGED <<lock, iface_state, policy, pending>> /\ Idle("netifd")
        /\ hp'["tracker"] = hp["tracker"]
    BY <1>2, <1>4 DEF Dispatch, Callers
  <2>2. ~Raising
    BY <2>1 DEF Raising, Idle
  <2> QED
    BY <1>1, <2>1, <2>2, UpNewsStays DEF Lowering
<1>5. ASSUME NEW c \in Callers, procd_lock(c)
      PROVE  OfflineInv'
  <2>1. /\ UNCHANGED <<iface_state, policy, pending>> /\ lock = "free"
        /\ hp'["tracker"].action = hp["tracker"].action
        /\ hp'["tracker"].todo = hp["tracker"].todo
    BY <1>2, <1>5 DEF procd_lock, Callers
  <2>2. ~Raising
    BY <2>1 DEF Raising
  <2> QED
    BY <1>1, <2>1, <2>2, UpNewsStays DEF Lowering
<1>6. ASSUME NEW c \in Callers, HandlerExit(c)
      PROVE  OfflineInv'
  <2>1. /\ UNCHANGED <<iface_state, policy, pending>>
        /\ lock = c /\ hp[c].todo = <<>> /\ hp'[c] = NoScript
        /\ \A d \in Callers \ {c} : hp'[d] = hp[d]
        /\ NoScript.action = "none"
    BY <1>2, <1>6 DEF HandlerExit, NoScript
  <2>2. ~Raising /\ (Lowering => Lowering')
    BY <2>1 DEF Raising, Lowering, Busy, Callers
  <2>3. hp'["tracker"].action \in {"none", hp["tracker"].action}
    BY <2>1 DEF Callers
  <2> QED
    BY <1>1, <2>1, <2>2, <2>3, UpNewsStays
<1>7. ASSUME NEW c \in Callers, HandlerStep(c, pc # "dead")
      PROVE  OfflineInv'
  <2>1. /\ UNCHANGED lock /\ lock = c /\ c # "free" /\ hp[c].todo # <<>>
    BY <1>7 DEF HandlerStep, Callers
  <2>2. PICK a, t, r : a = hp[c].action /\ t = hp[c].todo /\ r = Remaining(t)
    OBVIOUS
  <2>3. /\ LeftBy(a, t) /\ t # <<>> /\ SyncOK(t) /\ hp[c].status = "online"
    BY <2>1, <2>2 DEF SettledInv, CallersOK, SyncInv, SyncOK, LeftBy
  <2>4. \/ SetState(Head(t), c)
        \/ SetPolicies(Head(t), c)
        \/ SetRules(Head(t))
        \/ SendSignal(Head(t), pc # "dead")
    BY <1>7, <2>2 DEF HandlerStep
  <2>5. SyncEffect(Head(t)) /\ SignalEffect(Head(t))
    BY <2>3, <2>4, StepSyncEffect, StepSignal
  <2>6. StepUses(a, t, r)
    BY <1>2, <2>2, <2>3, <2>5, StepPolicy
  <2>7. /\ hp'[c].todo = r /\ hp'[c].action = a
        /\ \A d \in Callers \ {c} : hp'[d] = hp[d]
    <3>1. hp' = [hp EXCEPT ![c].todo = r]
      BY <1>7, <2>2 DEF HandlerStep
    <3> QED
      BY <1>2, <2>2, <3>1
  <2>8. /\ a \in {"connected", "disconnected"} => c = "tracker"
        /\ a = "ifup" => c = "netifd"
    BY <2>2 DEF SettledInv, CallersOK, Callers
  <2>9. OnlineStart'
    <3>1. hp'["tracker"].action = hp["tracker"].action
      BY <2>2, <2>7 DEF Callers
    <3> QED
      BY <1>1, <3>1 DEF OnlineStart, TrackerStill
  <2>10. UpNews'
    <3> SUFFICES ASSUME STATUS = "offline", iface_state' = "online" \/ policy',
                        pc \notin {"dead", "disable", "firstconnect"},
                        ~(pc = "hotplug" /\ ret = "disable"), ~IFUP_EVENT
                 PROVE  Lowering' \/ Raising' \/ "USR2" \in pending'
      BY <1>1 DEF UpNews, TrackerStill
    <3>1. a # "connected"
      <4>1. c = "tracker" => pc = "hotplug"
        BY <2>1 DEF ScriptInv, ScriptsOK
      <4> QED
        BY <2>2, <2>8, <4>1 DEF OnlineStart
    <3>2. CASE a = "ifup" /\ r # <<>>
      BY <2>1, <2>7, <2>8, <3>2 DEF Raising, Busy
    <3>3. CASE a = "ifup" /\ r = <<>>
      <4>1. Head(t) = "USR2" /\ "USR2" \in Signals
        BY <2>6, <3>3 DEF StepUses, Signals
      <4> QED
        BY <2>5, <4>1 DEF SignalEffect
    <3>4. CASE a # "ifup"
      <4>1. Lowering \/ Raising \/ "USR2" \in pending
        BY <2>6, <3>1, <3>4 DEF StepUses, UpNews
      <4>2. ~Raising
        BY <2>1, <2>2, <3>4 DEF Raising
      <4>3. CASE "USR2" \in pending
        BY <2>5, <4>3 DEF SignalEffect
      <4>4. CASE Lowering /\ c # "tracker"
        BY <2>7, <4>4 DEF Lowering, Callers
      <4>5. CASE Lowering /\ c = "tracker"
        <5>1. r # <<>>
          BY <2>2, <2>6, <4>5 DEF Lowering, StepUses
        <5> QED
          BY <2>2, <2>7, <4>5, <5>1 DEF Lowering
      <4> QED
        BY <4>1, <4>2, <4>3, <4>4, <4>5
    <3> QED
      BY <3>2, <3>3, <3>4
  <2> QED
    BY <2>9, <2>10
<1>8. CASE Environment
  <2>1. UNCHANGED <<hp, lock, iface_state, pending>>
    BY <1>8 DEF Environment, Flap, OtherInterface, Traffic
  <2>2. policy' => policy \/ iface_state = "online"
    BY <1>8, Zenon DEF Environment, Flap, OtherInterface, Traffic
  <2> QED
    BY <1>1, <2>1, <2>2, UpNewsStays DEF Lowering, Raising, Busy
<1> QED
  BY <1>3, <1>4, <1>5, <1>6, <1>7, <1>8 DEF Scripts

\* A command that starts a script.
LEMMA StartsTracker ==
  ASSUME hp \in [Callers -> [action: Actions \cup {"none"},
                             status: {"online", "offline"}, todo: Seq(Steps)]],
         NEW a \in {"connected", "disconnected"},
         hp' = [hp EXCEPT !["tracker"] = Script(a)]
  PROVE  /\ hp'["tracker"].action = a
         /\ hp'["tracker"].todo # <<>>
         /\ hp'["netifd"] = hp["netifd"]
<1>1. /\ hp'["tracker"] = Script(a) /\ hp'["netifd"] = hp["netifd"]
  BY DEF Callers
<1>2. Script(a).action = a /\ Script(a).todo = Arm[a]
  BY DEF Script
<1>3. Arm["connected"] # <<>> /\ Arm["disconnected"] # <<>>
  BY DEF Arm
<1> QED
  BY <1>1, <1>2, <1>3

\* The tracker's own steps.
LEMMA OfflineTracker ==
  ASSUME initial_state = "online", ScriptInv, OfflineInv,
         Main \/ Command \/ HotplugReturn \/ Trap \/ Crash
  PROVE  OfflineInv'
<1> USE DEF OfflineInv, Goto, shell, round, env, hotplugVars, hotplugRest
<1>1. /\ hp \in [Callers -> [action: Actions \cup {"none"},
                             status: {"online", "offline"}, todo: Seq(Steps)]]
      /\ ret \in {"disable", "rest"}
  BY DEF ScriptInv, TypeOK, HotplugType
<1>2. UNCHANGED <<iface_state, policy, lock>>
  BY TrackerStep DEF TrackerMove
<1>3. hp'["netifd"] = hp["netifd"] => (Raising' <=> Raising)
  BY <1>2 DEF Raising, Busy
<1>4. CASE Main
  BY <1>4 DEF Main, OnlineStart, UpNews
<1>5. CASE Crash
  BY <1>5 DEF Crash, OnlineStart, UpNews
<1>6. CASE HotplugReturn
  <2>1. /\ pc = "hotplug" /\ pc' = ret /\ hp["tracker"].action = "none"
        /\ UNCHANGED <<ret, STATUS, IFUP_EVENT, pending, hp>>
    BY <1>6 DEF HotplugReturn, Idle
  <2>2. ~Lowering
    BY <2>1 DEF Lowering
  <2> QED
    BY <1>1, <1>2, <1>3, <2>1, <2>2 DEF OnlineStart, UpNews
<1>7. CASE Trap
  <2>1. /\ pc # "hotplug" /\ UNCHANGED <<hp, STATUS, ret>>
        /\ IFUP_EVENT' <=> IFUP_EVENT \/ "USR2" \in pending
        /\ pc' = IF pc \in {"asleep", "nap"} THEN "ifdown" ELSE pc
    BY <1>7 DEF Trap
  <2>2. Lowering' <=> Lowering
    BY <2>1 DEF Lowering
  <2> QED
    BY <1>2, <1>3, <2>1, <2>2 DEF OnlineStart, UpNews
<1>8. CASE firstconnect \/ GiveUp \/ Disable
  <2>1. STATUS' \in {"online", "disabled"} /\ pc' \in {"give_up", "track", "ifup_done", "ifdown_done"}
    BY <1>8 DEF firstconnect, GiveUp, Disable, disabled, SetStatus
  <2>2. pc' \in {"give_up", "track"} => STATUS' = "online"
    BY <1>8 DEF firstconnect, GiveUp, Disable, disabled, SetStatus
  <2> QED
    BY <2>1, <2>2 DEF OnlineStart, UpNews
<1>9. CASE Track \/ IfupDone
  <2>1. STATUS' \in {"online", "disabled"} /\ pc' \in {"ifup_done", "loop", "reload"}
    BY <1>9 DEF Track, IfupDone, SetStatus, OnlineStart
  <2> QED
    BY <2>1 DEF OnlineStart, UpNews
<1>10. CASE \/ Loop \/ ForkSleep \/ IfdownDone \/ CheckIfup \/ ReloadDone
            \/ StartRound \/ EndRound \/ Rest \/ Nap \/ CheckReload
            \/ \E answers \in BOOLEAN : Probe(answers)
  <2>1. /\ UNCHANGED <<hp, STATUS, IFUP_EVENT, pending>>
        /\ pc \notin {"hotplug", "dead", "disable", "firstconnect"}
        /\ pc' \notin {"hotplug", "give_up", "track", "ifup_done"}
    BY <1>10 DEF Loop, ForkSleep, IfdownDone, CheckIfup, ReloadDone,
                 StartRound, EndRound, Rest, Nap, CheckReload, Probe
  <2>2. Lowering' <=> Lowering
    BY <2>1 DEF Lowering
  <2> QED
    BY <1>2, <1>3, <2>1, <2>2 DEF OnlineStart, UpNews
<1>11. CASE CheckIfdown \/ ScoreDown \/ ScoreUp
  <2>1. \/ /\ UNCHANGED <<hp, STATUS, IFUP_EVENT, pending>>
           /\ pc \in {"ifdown", "score"} /\ pc' \in {"ifup", "rest"}
        \/ STATUS' = "offline" /\ pc' = "disable"
        \/ STATUS' \in {"connecting", "disconnecting", "online"} /\ pc' = "rest"
        \/ /\ hp' = [hp EXCEPT !["tracker"] = Script("disconnected")]
           /\ pc' = "hotplug"
        \/ /\ STATUS' = "online"
           /\ hp' = [hp EXCEPT !["tracker"] = Script("connected")]
           /\ pc' = "hotplug"
    <3>1. CASE CheckIfdown
      BY <3>1 DEF CheckIfdown, disconnected, SetStatus, hotplug_call
    <3>2. CASE ScoreDown
      BY <3>2 DEF ScoreDown, StayDown, LoseLink, Weaken, disconnected,
                  SetStatus, hotplug_call
    <3>3. CASE ScoreUp
      BY <3>3 DEF ScoreUp, StillConnecting, RegainLink, Confirm, connected,
                  SetStatus, hotplug_call
    <3> QED
      BY <1>11, <3>1, <3>2, <3>3
  <2>2. CASE /\ UNCHANGED <<hp, STATUS, IFUP_EVENT, pending>>
             /\ pc \in {"ifdown", "score"} /\ pc' \in {"ifup", "rest"}
    <3>1. Lowering' <=> Lowering
      BY <2>2 DEF Lowering
    <3> QED
      BY <1>2, <1>3, <2>2, <3>1 DEF OnlineStart, UpNews
  <2>3. CASE \/ STATUS' = "offline" /\ pc' = "disable"
             \/ STATUS' \in {"connecting", "disconnecting", "online"} /\ pc' = "rest"
    BY <2>3 DEF OnlineStart, UpNews
  <2>4. CASE /\ hp' = [hp EXCEPT !["tracker"] = Script("disconnected")]
             /\ pc' = "hotplug"
    <3>1. hp'["tracker"].action = "disconnected" /\ hp'["tracker"].todo # <<>>
      BY <1>1, <2>4, StartsTracker
    <3>2. Lowering'
      BY <3>1 DEF Lowering
    <3> QED
      BY <2>4, <3>1, <3>2 DEF OnlineStart, UpNews
  <2>5. CASE STATUS' = "online" /\ pc' = "hotplug"
    BY <2>5 DEF OnlineStart, UpNews
  <2> QED
    BY <2>1, <2>2, <2>3, <2>4, <2>5
<1> QED
  BY <1>4, <1>5, <1>6, <1>7, <1>8, <1>9, <1>10, <1>11 DEF Command

\* A step, or none.
LEMMA OfflineNext ==
  ASSUME initial_state = "online", ScriptInv, SettledInv, SyncInv, OfflineInv,
         [Next]_vars
  PROVE  OfflineInv'
<1>1. CASE UNCHANGED vars
  <2>1. UNCHANGED <<hotplugVars, pc, ret, shell>>
    BY <1>1 DEF vars, trackVars
  <2> QED
    BY <2>1 DEF OfflineInv, OnlineStart, UpNews, Lowering, Raising, Busy,
                hotplugVars, shell
<1> QED
  BY <1>1, OfflineTracker, OfflineOthers DEF Next

\* Once everything has settled, status, rules and policy agree, where the
\* interface starts online, for all numbers of flaps, reloads and crashes.
THEOREM SettledAlwaysSound ==
  ASSUME initial_state = "online"
  PROVE  Spec => []SettledIsSound
<1>1. Init => OfflineInv
  BY DEF Init, OfflineInv, OnlineStart, UpNews
<1>2. ScriptInv /\ SettledInv /\ SyncInv /\ OfflineInv /\ [Next]_vars
        => OfflineInv'
  BY OfflineNext
<1>3. ScriptInv /\ SyncInv /\ [Next]_vars => SyncInv'
  BY SyncNext
<1>4. ScriptInv /\ SettledInv /\ OfflineInv /\ Settled /\ STATUS = "offline"
        => ~policy
  <2> SUFFICES ASSUME ScriptInv, SettledInv, OfflineInv, Settled,
                      STATUS = "offline", policy
               PROVE  FALSE
    OBVIOUS
  <2>1. /\ pending = {} /\ \A c \in Callers : Idle(c)
        /\ pc = "asleep" \/ (pc = "nap" /\ ~Events)
    BY DEF Settled
  <2>2. pc = "nap" /\ ~IFUP_EVENT
    BY <2>1 DEF SettledInv, PublishedOK, Events
  <2>3. ~Lowering /\ ~Raising
    BY <2>1 DEF Lowering, Raising, Idle, Callers
  <2> QED
    BY <2>1, <2>2, <2>3 DEF OfflineInv, UpNews
<1>5. /\ ScriptInv /\ SettledInv /\ OfflineInv
      /\ (Settled /\ status_file = "online" /\ (ifUp \/ ~missed) => rules)
      => SettledIsSound
  BY <1>4 DEF SettledIsSound, ifaceHealth
<1> QED
  BY SyncInit, SettledInvariant, SettledOnlineHasRules, <1>1, <1>2, <1>3, <1>5,
     PTL DEF Spec

-----------------------------------------------------------------------------
(***************************************************************************)
(* The hysteresis of the tracker: as long as the thresholds in             *)
(* /etc/config/mwan3 stay as they are, every round moves the score as      *)
(* Hysteresis says, and between two rounds the score and the status agree, *)
(* whatever signals, scripts and crashes come between them.                *)
(***************************************************************************)
\* The inductive invariant: the score is never at the threshold itself, where
\* it would be out of use with a full count of successes.
ScoreInv ==
  /\ cfg = FirstConfig /\ uci = FirstConfig
  /\ score \in 0..Max(cfg)
  /\ score # cfg.up

\* The thresholds are positive numbers.
LEMMA Thresholds ==
  /\ FirstConfig.up \in Nat \ {0}
  /\ FirstConfig.down \in Nat \ {0}
<1>1. FirstConfig \in [up: Nat \ {0}, down: Nat \ {0}]
  BY TrackAssumption
<1> QED
  BY <1>1

\* main starts with a score of zero, to be set before the first round.
LEMMA ScoreInit == Init => ScoreInv
<1> SUFFICES ASSUME Init PROVE ScoreInv
  OBVIOUS
<1>1. cfg = FirstConfig /\ uci = FirstConfig /\ score = 0
  BY DEF Init
<1> QED
  BY <1>1, Thresholds DEF ScoreInv, Max

\* A round keeps the score off the threshold.
LEMMA ScoreRound == ScoreInv /\ (ScoreDown \/ ScoreUp) => ScoreInv'
<1> SUFFICES ASSUME ScoreInv, ScoreDown \/ ScoreUp
             PROVE  ScoreInv'
  OBVIOUS
<1>1. UNCHANGED <<cfg, uci>>
  BY DEF ScoreDown, ScoreUp, env
<1>2. /\ score \in Int
      /\ cfg.up \in Nat \ {0}
      /\ cfg.down \in Nat \ {0}
      /\ Max(cfg) = cfg.down + cfg.up
  BY Thresholds DEF ScoreInv, Max
<1>3. CASE ScoreDown
  <2>1. \/ score' = 0
        \/ score - 1 > cfg.up /\ score' = score - 1
    BY <1>3 DEF ScoreDown, StayDown, LoseLink, Weaken, disconnected
  <2> QED
    BY <1>1, <1>2, <2>1 DEF ScoreInv, Max
<1>4. CASE ScoreUp
  <2>1. \/ score + 1 < cfg.up /\ score' = score + 1
        \/ score' = Max(cfg)
    BY <1>4 DEF ScoreUp, StillConnecting, RegainLink, Confirm, connected
  <2> QED
    BY <1>1, <1>2, <2>1 DEF ScoreInv, Max
<1> QED
  BY <1>3, <1>4

\* Every other step leaves the score alone, makes it zero or fills it.
LEMMA ScoreStays ==
  ASSUME Configs = {FirstConfig}, ScoreInv, [Next]_vars,
         ~(ScoreDown \/ ScoreUp)
  PROVE  ScoreInv'
<1> USE DEF env, shell, round
<1>1. /\ FirstConfig.up \in Nat \ {0}
      /\ FirstConfig.down \in Nat \ {0}
  BY Thresholds
<1>2. SUFFICES /\ cfg' = FirstConfig /\ uci' = FirstConfig
               /\ score' \in {0, score, Max(FirstConfig)}
  BY <1>1 DEF ScoreInv, Max
<1>3. CASE Main
  BY <1>3 DEF Main, ScoreInv
<1>4. CASE Command
  <2> SUFFICES ASSUME \/ firstconnect \/ GiveUp \/ Track \/ IfupDone
                      \/ Loop \/ ForkSleep
                      \/ CheckIfdown \/ Disable \/ IfdownDone
                      \/ CheckIfup \/ CheckReload \/ ReloadDone
                      \/ StartRound \/ EndRound
                      \/ \E answers \in BOOLEAN : Probe(answers)
                      \/ Rest \/ Nap
               PROVE  /\ UNCHANGED uci
                      /\ cfg' \in {cfg, uci}
                      /\ score' \in {0, score, Max(FirstConfig)}
    BY <1>4 DEF Command, ScoreInv
  <2>1. CASE firstconnect \/ GiveUp \/ IfupDone \/ Loop \/ ForkSleep
             \/ Disable \/ IfdownDone \/ CheckIfup \/ ReloadDone
             \/ StartRound \/ EndRound \/ Rest \/ Nap
             \/ \E answers \in BOOLEAN : Probe(answers)
    BY <2>1 DEF firstconnect, GiveUp, IfupDone, Loop, ForkSleep, Disable,
                IfdownDone, CheckIfup, ReloadDone, StartRound, EndRound, Rest,
                Nap, Probe
  <2>2. CASE Track
    BY <2>2 DEF Track, ScoreInv
  <2>3. CASE CheckIfdown
    BY <2>3 DEF CheckIfdown, disconnected
  <2>4. CASE CheckReload
    BY <2>4 DEF CheckReload, Clamp, ScoreInv
  <2> QED
    BY <2>1, <2>2, <2>3, <2>4
<1>5. CASE Commit
  BY <1>5 DEF Commit, ScoreInv
<1>6. CASE HotplugReturn \/ Trap \/ Crash \/ Scripts \/ Environment
           \/ UNCHANGED vars
  BY <1>6 DEF HotplugReturn, Trap, Crash, Scripts, Environment, trackVars,
              vars, ScoreInv
<1> QED
  BY <1>3, <1>4, <1>5, <1>6 DEF Next

\* With one configuration the score stays in its range and off the threshold.
THEOREM ScoreInvariant ==
  ASSUME Configs = {FirstConfig}
  PROVE  Spec => []ScoreInv
<1>1. ScoreInv /\ [Next]_vars => ScoreInv'
  BY ScoreRound, ScoreStays
<1> QED
  BY ScoreInit, <1>1, PTL DEF Spec

\* Only the scoring commands end the state "score" of a running tracker.
LEMMA ScoreStepIsRound ==
  ASSUME [Next]_vars, ScoreStep
  PROVE  ScoreDown \/ ScoreUp
<1> USE DEF ScoreStep, Goto
<1>1. ~Main /\ ~HotplugReturn
  BY DEF Main, HotplugReturn
<1>2. ~Trap /\ ~Crash
  BY DEF Trap, Crash
<1>3. ~Commit /\ ~Scripts /\ ~Environment /\ ~UNCHANGED vars
  BY DEF Commit, Scripts, Environment, trackVars, vars
<1>4. Command
  BY <1>1, <1>2, <1>3 DEF Next
<1> QED
  BY <1>4 DEF Command, firstconnect, GiveUp, Track, IfupDone, Loop, ForkSleep,
              CheckIfdown, Disable, IfdownDone, CheckIfup, CheckReload,
              ReloadDone, StartRound, EndRound, Probe, Rest, Nap

\* A scoring command is a round of the abstract specification.
LEMMA RoundSimulates ==
  ASSUME ScoreInv, ScoreInv', ScoreDown \/ ScoreUp
  PROVE  H!Round(Met)
<1> DEFINE up == FirstConfig.up
           down == FirstConfig.down
           max == down + up
<1>1. /\ up \in Nat \ {0}
      /\ down \in Nat \ {0}
      /\ cfg = FirstConfig /\ cfg' = FirstConfig
      /\ score \in 0..max /\ score # up
      /\ Max(cfg) = max /\ Max(cfg') = max
  BY Thresholds DEF ScoreInv, Max
<1> DEFINE inUse == score > cfg.up
           against == IF score > cfg.up THEN Max(cfg) - score ELSE score
<1>2. CASE ScoreDown
  <2>1. SUFFICES H!Round(FALSE)
    <3>1. Met = FALSE
      BY <1>2 DEF ScoreDown, Met
    <3> QED
      BY <3>1 DEF H!Round
  <2>2. CASE score < up
    <3>1. score' = 0
      BY <1>1, <1>2, <2>2
         DEF ScoreDown, StayDown, LoseLink, Weaken, disconnected
    <3>2. inUse = FALSE /\ inUse' = FALSE
      BY <1>1, <2>2, <3>1
    <3>3. against = score /\ against' = 0
      BY <1>1, <2>2, <3>1 DEF Max
    <3> QED
      BY <1>1, <2>2, <3>1, <3>2, <3>3 DEF H!Round
  <2>3. CASE score = up + 1
    <3>1. score' = 0
      BY <1>1, <1>2, <2>3
         DEF ScoreDown, StayDown, LoseLink, Weaken, disconnected
    <3>2. inUse = TRUE /\ inUse' = FALSE
      BY <1>1, <2>3, <3>1
    <3>3. against + 1 = down /\ against' = 0
      BY <1>1, <2>3, <3>1 DEF Max
    <3> QED
      BY <1>1, <2>3, <3>1, <3>2, <3>3 DEF H!Round
  <2>4. CASE score > up + 1
    <3>1. score' = score - 1
      BY <1>1, <1>2, <2>4
         DEF ScoreDown, StayDown, LoseLink, Weaken, disconnected
    <3>2. inUse = TRUE /\ inUse' = TRUE
      BY <1>1, <2>4, <3>1
    <3>3. against + 1 < down /\ against' = against + 1
      BY <1>1, <2>4, <3>1 DEF Max
    <3> QED
      BY <1>1, <2>4, <3>1, <3>2, <3>3 DEF H!Round
  <2>5. score < up \/ score = up + 1 \/ score > up + 1
    BY <1>1
  <2> QED
    BY <2>2, <2>3, <2>4, <2>5
<1>3. CASE ScoreUp
  <2>1. SUFFICES H!Round(TRUE)
    <3>1. Met = TRUE
      BY <1>3 DEF ScoreUp, Met
    <3> QED
      BY <3>1 DEF H!Round
  <2>2. CASE score + 1 < up
    <3>1. score' = score + 1
      BY <1>1, <1>3, <2>2
         DEF ScoreUp, StillConnecting, RegainLink, Confirm, connected
    <3>2. inUse = FALSE /\ inUse' = FALSE
      BY <1>1, <2>2, <3>1
    <3>3. against = score /\ against' = score + 1
      BY <1>1, <2>2, <3>1 DEF Max
    <3> QED
      BY <1>1, <2>2, <3>1, <3>2, <3>3 DEF H!Round
  <2>3. CASE score + 1 = up
    <3>1. score' = max
      BY <1>1, <1>3, <2>3
         DEF ScoreUp, StillConnecting, RegainLink, Confirm, connected
    <3>2. inUse = FALSE /\ inUse' = TRUE
      BY <1>1, <2>3, <3>1
    <3>3. against = score /\ against' = 0
      BY <1>1, <2>3, <3>1 DEF Max
    <3> QED
      BY <1>1, <2>3, <3>1, <3>2, <3>3 DEF H!Round
  <2>4. CASE score > up
    <3>1. score' = max
      BY <1>1, <1>3, <2>4
         DEF ScoreUp, StillConnecting, RegainLink, Confirm, connected
    <3>2. inUse = TRUE /\ inUse' = TRUE
      BY <1>1, <2>4, <3>1
    <3>3. against = max - score /\ against' = 0
      BY <1>1, <2>4, <3>1 DEF Max
    <3> QED
      BY <1>1, <2>4, <3>1, <3>2, <3>3 DEF H!Round
  <2>5. score + 1 < up \/ score + 1 = up \/ score > up
    BY <1>1
  <2> QED
    BY <2>2, <2>3, <2>4, <2>5
<1> QED
  BY <1>2, <1>3

\* down failed rounds in a row give the link up and up successful ones take
\* it back, for all thresholds and any number of hosts, flaps and crashes.
THEOREM HysteresisFollowed ==
  ASSUME Configs = {FirstConfig}
  PROVE  Spec => RoundsFollowHysteresis
<1>1. ScoreInv /\ ScoreInv' /\ [Next]_vars
      => [ScoreStep => H!Round(Met)]_vars
  BY ScoreStepIsRound, RoundSimulates
<1>2. Spec => []ScoreInv
  BY ScoreInvariant
<1> QED
  BY <1>1, <1>2, PTL DEF Spec, RoundsFollowHysteresis

-----------------------------------------------------------------------------
(***************************************************************************)
(* The status.  firstconnect sets it before the score, so they agree only  *)
(* from the end of Track on; nothing between two rounds tells them apart.  *)
(***************************************************************************)
Agree ==
  /\ STATUS = "online" => score > cfg.up
  /\ STATUS = "disconnecting" => score \in (cfg.up + 1)..warn_threshold
  /\ STATUS \in {"offline", "connecting"} => score < cfg.up

Starting == {"dead", "firstconnect", "track", "give_up"}

StatusInv ==
  /\ ScoreInv
  /\ pc \notin Starting => Agree
  /\ pc = "track" => STATUS \in {"online", "offline"}
  /\ ret \in {"disable", "rest"}

\* Nothing has run yet.
LEMMA StatusInit == Init => StatusInv
BY ScoreInit DEF Init, StatusInv, Starting

\* A failed round.
LEMMA StatusDown ==
  ASSUME StatusInv, ScoreDown
  PROVE  Agree' /\ pc' # "track"
<1>1. /\ cfg' = cfg /\ cfg.up \in Nat \ {0} /\ cfg.down \in Nat \ {0}
      /\ Max(cfg) = cfg.up + cfg.down
      /\ score \in 0..Max(cfg) /\ score # cfg.up /\ Agree
      /\ pc' \in {"rest", "hotplug"}
  BY Thresholds DEF StatusInv, ScoreInv, ScoreDown, StayDown, LoseLink, Weaken,
                    disconnected, Goto, hotplug_call, Starting, Max
<1>2. warn_threshold' = warn_threshold /\ warn_threshold \in Int
  BY <1>1 DEF warn_threshold
<1>3. CASE StayDown(score - 1)
  BY <1>1, <1>2, <1>3 DEF StayDown, Agree
<1>4. CASE LoseLink(score - 1)
  BY <1>1, <1>2, <1>4 DEF LoseLink, disconnected, SetStatus, Agree
<1>5. CASE Weaken(score - 1)
  <2>1. CASE score - 1 <= warn_threshold
    BY <1>1, <1>2, <1>5, <2>1 DEF Weaken, SetStatus, Agree
  <2>2. CASE ~(score - 1 <= warn_threshold)
    BY <1>1, <1>2, <1>5, <2>2 DEF Weaken, Agree
  <2> QED
    BY <2>1, <2>2
<1> QED
  BY <1>1, <1>3, <1>4, <1>5 DEF ScoreDown

\* A successful round.
LEMMA StatusUp ==
  ASSUME StatusInv, ScoreUp
  PROVE  Agree' /\ pc' # "track"
<1>1. /\ cfg' = cfg /\ cfg.up \in Nat \ {0} /\ cfg.down \in Nat \ {0}
      /\ Max(cfg) = cfg.up + cfg.down
      /\ score \in 0..Max(cfg) /\ score # cfg.up /\ Agree
      /\ pc' \in {"rest", "hotplug"}
  BY Thresholds DEF StatusInv, ScoreInv, ScoreUp, StillConnecting, RegainLink,
                    Confirm, connected, Goto, hotplug_call, Starting, Max
<1>2. CASE StillConnecting(score + 1)
  BY <1>1, <1>2 DEF StillConnecting, SetStatus, Agree
<1>3. CASE RegainLink(score + 1)
  BY <1>1, <1>3 DEF RegainLink, connected, SetStatus, Agree
<1>4. CASE Confirm(score + 1)
  BY <1>1, <1>4 DEF Confirm, Agree
<1> QED
  BY <1>1, <1>2, <1>3, <1>4 DEF ScoreUp

\* Every other step sets both, or neither, or leaves the loop.
LEMMA StatusStays ==
  ASSUME Configs = {FirstConfig}, StatusInv, ScoreInv', [Next]_vars,
         ~(ScoreDown \/ ScoreUp)
  PROVE  /\ pc' \notin Starting => Agree'
         /\ pc' = "track" => STATUS' \in {"online", "offline"}
<1> USE DEF env, shell, round, Goto
<1>1. /\ FirstConfig.up \in Nat \ {0}
      /\ FirstConfig.down \in Nat \ {0}
      /\ cfg = FirstConfig /\ cfg' = cfg /\ uci = cfg
      /\ Max(cfg) = cfg.down + cfg.up
      /\ warn_threshold' = warn_threshold
      /\ score \in 0..Max(cfg)
  BY Thresholds DEF StatusInv, ScoreInv, Max, warn_threshold
<1>2. SUFFICES \/ pc' \in Starting /\ (pc' = "track" => STATUS' \in {"online", "offline"})
               \/ pc' # "track" /\ UNCHANGED <<STATUS, score>> /\ Agree
               \/ pc' # "track" /\ STATUS' = "disabled"
               \/ pc' # "track" /\ STATUS' = "online" /\ score' = Max(cfg)
               \/ pc' # "track" /\ STATUS' = "offline" /\ score' = 0
  BY <1>1 DEF Agree, Starting
<1>3. CASE Main \/ Crash
  BY <1>3 DEF Main, Crash, Starting
<1>4. CASE Command
  <2>1. CASE firstconnect
    BY <2>1, HotplugAssumption DEF firstconnect, Starting
  <2>2. CASE GiveUp \/ Disable
    BY <2>2 DEF GiveUp, Disable, disabled, SetStatus
  <2>3. CASE Track
    BY <2>3 DEF Track, SetStatus, StatusInv
  <2>4. CASE CheckIfdown
    BY <2>4 DEF CheckIfdown, disconnected, hotplug_call, SetStatus, StatusInv,
                Starting
  <2>5. CASE CheckReload
    <3>1. score' = score
      BY <1>1, <2>5 DEF CheckReload, Clamp
    <3> QED
      BY <2>5, <3>1 DEF CheckReload, StatusInv, Starting
  <2>6. CASE \/ IfupDone \/ Loop \/ ForkSleep \/ IfdownDone \/ CheckIfup
             \/ ReloadDone \/ StartRound \/ EndRound \/ Rest \/ Nap
             \/ \E answers \in BOOLEAN : Probe(answers)
    BY <2>6 DEF IfupDone, Loop, ForkSleep, IfdownDone, CheckIfup, ReloadDone,
                StartRound, EndRound, Rest, Nap, Probe, StatusInv, Starting
  <2> QED
    BY <1>4, <2>1, <2>2, <2>3, <2>4, <2>5, <2>6 DEF Command
<1>5. CASE Trap
  BY <1>5 DEF Trap, StatusInv, Starting
<1>6. CASE HotplugReturn
  BY <1>6 DEF HotplugReturn, StatusInv, Starting
<1>7. CASE Commit \/ Scripts \/ Environment \/ UNCHANGED vars
  BY <1>7 DEF Commit, Scripts, Environment, trackVars, vars, StatusInv, Starting
<1> QED
  BY <1>3, <1>4, <1>5, <1>6, <1>7 DEF Next

\* The foreground script returns to one of two places.
LEMMA RetStays ==
  ASSUME ret \in {"disable", "rest"}, [Next]_vars
  PROVE  ret' \in {"disable", "rest"}
<1> USE DEF Goto
<1>1. CASE CheckIfdown \/ ScoreDown \/ ScoreUp
  BY <1>1 DEF CheckIfdown, ScoreDown, StayDown, LoseLink, Weaken, ScoreUp,
              StillConnecting, RegainLink, Confirm, connected, disconnected,
              hotplug_call
<1>2. CASE Command /\ ~(CheckIfdown \/ ScoreDown \/ ScoreUp)
  BY <1>2 DEF Command, firstconnect, GiveUp, Track, IfupDone, Loop, ForkSleep,
              Disable, disabled, IfdownDone, CheckIfup, CheckReload,
              ReloadDone, StartRound, EndRound, Probe, Rest, Nap
<1>3. CASE ~Command
  BY <1>3 DEF Next, Main, HotplugReturn, Trap, Crash, Commit, Scripts,
              Environment, trackVars, vars
<1> QED
  BY <1>1, <1>2, <1>3

\* Between rounds the score and the status tell the same story, for all
\* thresholds, as long as they are not reconfigured.
THEOREM ScoreAlwaysMatches ==
  ASSUME Configs = {FirstConfig}
  PROVE  Spec => []ScoreMatchesStatus
<1>1. StatusInv /\ [Next]_vars => StatusInv'
  <2> SUFFICES ASSUME StatusInv, [Next]_vars
               PROVE  StatusInv'
    OBVIOUS
  <2>1. ScoreInv' /\ ret' \in {"disable", "rest"}
    BY ScoreRound, ScoreStays, RetStays DEF StatusInv
  <2>2. CASE ScoreDown \/ ScoreUp
    BY <2>1, <2>2, StatusDown, StatusUp DEF StatusInv
  <2>3. CASE ~(ScoreDown \/ ScoreUp)
    BY <2>1, <2>3, StatusStays DEF StatusInv, Starting
  <2> QED
    BY <2>2, <2>3
<1>2. StatusInv => ScoreMatchesStatus
  BY DEF StatusInv, Agree, Starting, ScoreMatchesStatus
<1> QED
  BY StatusInit, <1>1, <1>2, PTL DEF Spec
=============================================================================
