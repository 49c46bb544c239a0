---------------------------- MODULE Mwan3Hotplug ----------------------------
(***************************************************************************)
(* One WAN interface of mwan3 as the hotplug script 25-mwan3 sees it: the  *)
(* member's entry in the policy chains, its sticky pins, its ip rules and  *)
(* the state file iface_state.  The script is started by netifd (ifup,     *)
(* ifdown), by the interface's tracker (connected, disconnected) and, with *)
(* the same lock, reload_service rebuilds everything.  All of them run as  *)
(* processes of their own and are serialised by procd_lock only, in        *)
(* whatever order the waiting processes obtain it.                         *)
(***************************************************************************)
EXTENDS Integers, Sequences

CONSTANTS
  initial_state,  \* UCI option of the interface, "online" or "offline"
  MaxFlaps,       \* bound: times netifd takes the interface up or down
  MaxReloads      \* bound: calls of reload_service

ASSUME HotplugAssumption ==
  /\ initial_state \in {"online", "offline"}
  /\ MaxFlaps \in Nat
  /\ MaxReloads \in Nat

VARIABLES
  ifUp,         \* netifd: the interface is up and has a device
  event,        \* netifd: the newest event it has not run scripts for
  flaps,        \* changes of ifUp so far
  reloads,      \* calls of reload_service so far
  hp,           \* the script each caller has started
  lock,         \* holder of procd_lock, "free" when nobody has it
  iface_state,  \* $MWAN3_STATUS_DIR/iface_state/<iface>
  policy,       \* the policy chains choose the interface
  pins,         \* its sticky sets hold a source
  rules,        \* its ip rules and its routing table are installed
  status_file,  \* $MWAN3TRACK_STATUS_DIR/<iface>/STATUS
  pending       \* signals sent to the tracker and not yet trapped

hotplugVars == <<ifUp, event, flaps, reloads, hp, lock, iface_state, policy,
                 pins, rules, status_file, pending>>

Callers == {"netifd", "tracker", "init"}
Actions == {"ifup", "ifdown", "connected", "disconnected", "reload"}
Signals == {"HUP", "USR1", "USR2"}

\* Fault: the rules go before the policy is rebuilt.
FaultyArm == [
  connected    |-> <<"online", "del_rules", "add_rules", "policies">>,
  ifup         |-> <<"del_rules", "add_rules", "status", "policies_if_online",
                     "USR2">>,
  disconnected |-> <<"offline", "policies_flush">>,
  ifdown       |-> <<"offline", "del_rules", "policies_flush", "USR1">>,
  reload       |-> <<"policies", "if_up", "del_rules", "add_rules", "HUP">>]

\* Fault: the tracker is not told that the interface went down.
FaultyArmSilent == [FaultyArm EXCEPT !.ifdown = <<"offline", "policies_flush", "del_rules">>]

\* What each arm of the script does, in order.  mwan3_create_iface_rules
\* deletes the interface's rules before it adds them.
Arm == [
  connected    |-> <<"online", "del_rules", "add_rules", "policies">>,
  ifup         |-> <<"del_rules", "add_rules", "status", "policies_if_online",
                     "USR2">>,
  disconnected |-> <<"offline", "policies_flush">>,
  ifdown       |-> <<"offline", "policies_flush", "del_rules", "USR1">>,
  reload       |-> <<"policies", "if_up", "del_rules", "add_rules", "HUP">>]

Steps == UNION {{Arm[a][i] : i \in 1..Len(Arm[a])} : a \in Actions}

NoScript == [action |-> "none", status |-> "online", todo |-> <<>>]

Script(a) == [action |-> a, status |-> "online", todo |-> Arm[a]]

Idle(c) == hp[c].action = "none"

HotplugInit ==
  /\ ifUp \in BOOLEAN
  /\ event = "none" /\ flaps = 0 /\ reloads = 0
  /\ hp = [c \in Callers |-> NoScript]
  /\ lock = "free"
  \* start_service has run mwan3_ifup for the interface and built the policies
  /\ iface_state = IF ifUp THEN initial_state ELSE "offline"
  /\ policy = (iface_state = "online")
  /\ pins = FALSE
  /\ rules = ifUp
  /\ status_file = "none"
  /\ pending = {}

-----------------------------------------------------------------------------
(***************************************************************************)
(* netifd: it runs one hotplug script per interface at a time and keeps    *)
(* only the newest event meanwhile.                                        *)
(***************************************************************************)
Flap ==
  /\ flaps < MaxFlaps
  /\ flaps' = flaps + 1
  /\ ifUp' = ~ifUp
  /\ event' = IF ifUp THEN "ifdown" ELSE "ifup"
  /\ UNCHANGED <<reloads, hp, lock, iface_state, policy, pins, rules,
                 status_file, pending>>

Dispatch ==
  /\ event # "none"
  /\ Idle("netifd")
  /\ hp' = [hp EXCEPT !["netifd"] = Script(event)]
  /\ event' = "none"
  /\ UNCHANGED <<ifUp, flaps, reloads, lock, iface_state, policy, pins, rules,
                 status_file, pending>>

\* A configuration change makes procd call reload_service.
Reload ==
  /\ reloads < MaxReloads
  /\ Idle("init")
  /\ reloads' = reloads + 1
  /\ hp' = [hp EXCEPT !["init"] = Script("reload")]
  /\ UNCHANGED <<ifUp, event, flaps, lock, iface_state, policy, pins, rules,
                 status_file, pending>>

-----------------------------------------------------------------------------
(***************************************************************************)
(* The script.                                                             *)
(***************************************************************************)
\* The status an ifup brings the interface up with: lines 43 to 49.
InitialStatus ==
  IF initial_state = "offline" /\ status_file # "online"
  THEN "offline" ELSE "online"

procd_lock(c) ==
  /\ ~Idle(c)
  /\ lock = "free"
  /\ lock' = c
  /\ hp' = [hp EXCEPT ![c].status = InitialStatus]
  /\ UNCHANGED <<ifUp, event, flaps, reloads, iface_state, policy, pins, rules,
                 status_file, pending>>

\* mwan3_set_iface_hotplug_state
SetState(step, c) ==
  /\ step \in {"online", "offline", "status"}
  /\ iface_state' = IF step = "status" THEN hp[c].status ELSE step
  /\ UNCHANGED <<policy, pins, rules, pending>>

\* Fault: the sticky sets are not flushed.
FaultySetPolicies(step, c) ==
  /\ step \in {"policies", "policies_flush", "policies_if_online"}
  /\ policy' = IF step = "policies_if_online" /\ hp[c].status = "offline"
               THEN policy ELSE iface_state = "online"
  /\ UNCHANGED <<iface_state, pins, rules, pending>>

\* mwan3_set_policies_nft, and with it mwan3_delete_iface_map_entries where
\* both are pushed into one nft batch.
SetPolicies(step, c) ==
  /\ step \in {"policies", "policies_flush", "policies_if_online"}
  /\ policy' = IF step = "policies_if_online" /\ hp[c].status = "offline"
               THEN policy ELSE iface_state = "online"
  /\ pins' = (pins /\ step # "policies_flush")
  /\ UNCHANGED <<iface_state, rules, pending>>

SetRules(step) ==
  /\ step \in {"if_up", "del_rules", "add_rules"}
  /\ rules' = (step = "add_rules" \/ (step = "if_up" /\ rules))
  /\ UNCHANGED <<iface_state, policy, pins, pending>>

\* procd_running && procd_send_signal; running is FALSE while the tracker's
\* process does not exist.
SendSignal(step, running) ==
  /\ step \in Signals
  /\ pending' = IF running THEN pending \cup {step} ELSE pending
  /\ UNCHANGED <<iface_state, policy, pins, rules>>

\* Fault: the rules of a down interface are deleted and not added again.
FaultyRemaining(todo) ==
  IF Head(todo) = "if_up" /\ ~ifUp
  THEN SubSeq(todo, 2, 2) \o SubSeq(todo, 4, Len(todo)) ELSE Tail(todo)

\* mwan3_rebuild_iface_rules leaves the rules of a down interface alone.
Remaining(todo) ==
  IF Head(todo) = "if_up" /\ ~ifUp
  THEN SubSeq(todo, 4, Len(todo)) ELSE Tail(todo)

HandlerStep(c, running) ==
  /\ lock = c
  /\ hp[c].todo # <<>>
  /\ hp' = [hp EXCEPT ![c].todo = Remaining(@)]
  /\ LET step == Head(hp[c].todo) IN
       \/ SetState(step, c)
       \/ SetPolicies(step, c)
       \/ SetRules(step)
       \/ SendSignal(step, running)
  /\ UNCHANGED <<ifUp, event, flaps, reloads, lock, status_file>>

HandlerExit(c) ==
  /\ lock = c
  /\ hp[c].todo = <<>>
  /\ hp' = [hp EXCEPT ![c] = NoScript]
  /\ lock' = "free"
  /\ UNCHANGED <<ifUp, event, flaps, reloads, iface_state, policy, pins, rules,
                 status_file, pending>>

\* A script run for another interface rebuilds all policies.
OtherInterface ==
  /\ lock = "free"
  /\ policy' = (iface_state = "online")
  /\ UNCHANGED <<ifUp, event, flaps, reloads, hp, lock, iface_state, pins,
                 rules, status_file, pending>>

\* A packet classified by a sticky rule pins its source to the member the
\* policy chose.
Traffic ==
  /\ policy
  /\ pins' = TRUE
  /\ UNCHANGED <<ifUp, event, flaps, reloads, hp, lock, iface_state, policy,
                 rules, status_file, pending>>

HotplugType ==
  /\ ifUp \in BOOLEAN
  /\ event \in {"none", "ifup", "ifdown"}
  /\ flaps \in 0..MaxFlaps
  /\ reloads \in 0..MaxReloads
  /\ hp \in [Callers -> [action: Actions \cup {"none"},
                         status: {"online", "offline"}, todo: Seq(Steps)]]
  /\ lock \in Callers \cup {"free"}
  /\ iface_state \in {"online", "offline"}
  /\ policy \in BOOLEAN
  /\ pins \in BOOLEAN
  /\ rules \in BOOLEAN
  /\ status_file \in {"none", "online", "offline", "connecting",
                      "disconnecting", "disabled"}
  /\ pending \subseteq Signals

=============================================================================
