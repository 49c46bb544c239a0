------------------------------ MODULE RuleBook ------------------------------
(***************************************************************************)
(* The traffic rules of luci-app-mwan3 and the three readers of them: the  *)
(* form that edits them (network/rule.js), the check that reports          *)
(* unreachable rules (network/configuration.js) and the simulator that     *)
(* predicts which rule a packet meets (network/simulator.js); and, as the  *)
(* reference for both predictions, the nftables rules the core renders     *)
(* from the same configuration (lib/mwan3/mwan3.sh).                       *)
(*                                                                         *)
(* A rule is a record; <<>>, NoSet, NoMark or NoIface is an option that is *)
(* not set.  Marks and masks are sets of bits.  src_iface has no field on  *)
(* the form: it comes from the configuration file and no edit touches it.  *)
(* A packet is the first of a connection that the router forwards, and not *)
(* one of neighbour discovery, which the core lets pass before all else.   *)
(***************************************************************************)
EXTENDS IpMath, FiniteSets, SequencesExt

CONSTANTS
    FirstRules,     \* the rules the page is first loaded with
    Sources, Dests, \* address lists the user enters
    Ports,          \* destination port specifications
    Protocols,      \* choices of the protocol field
    Marks,          \* [mark, mask] pairs the user enters
    SetFamily,      \* the user's nft sets: family of each
    SetMembers,     \*   and its elements
    Masks,          \* values of mmx_mask, sets of bits
    Connected,      \* elements of the connected sets of both families
    Exempt,         \* of the custom and dynamic sets, the single-link IPv6
                    \*   networks and the router's own addresses
    DeviceOf,       \* the device of each network interface, or NoDevice
    WanDevices,     \* [family, device] of each interface mwan3 manages
    Packets,        \* packets the predictions are compared on
    MaxEdits        \* bound on edits

VARIABLES
    rules,      \* the rule sections, in order
    mmx_mask,   \* the bits mwan3 keeps for itself
    edits

vars == <<rules, mmx_mask, edits>>

NoSet == "-"
NoMark == [mark |-> {}, mask |-> {}]
NoIface == "-"
NoDevice == "-"

FamilyName(v6) == IF v6 THEN "ipv6" ELSE "ipv4"

SetNames == DOMAIN SetFamily \cup {NoSet}
Parts == {q \in [sep : {"", ":", "-"}, lo : Nat, hi : Nat] : q.sep = "" => q.lo = q.hi}
MarkPairs == [mark : SUBSET Nat, mask : SUBSET Nat]
Rules == [family : {"", "ipv4", "ipv6"}, proto : STRING, src_ip : Seq(Literals),
          dest_ip : Seq(Literals), dest_port : Seq(Parts), ipset : SetNames,
          ipset_src : SetNames, fwmark : MarkPairs, enabled : BOOLEAN,
          src_iface : DOMAIN DeviceOf \cup {NoIface}]

\* The port fields are there only with a protocol that has ports.
PortsHaveProto(r) == r.dest_port # <<>> => r.proto \in {"tcp", "udp"}

ASSUME RulesAssumption ==
    /\ FirstRules \in Seq(Rules) /\ \A i \in DOMAIN FirstRules : PortsHaveProto(FirstRules[i])
    /\ Sources \subseteq Seq(Literals) /\ Dests \subseteq Seq(Literals)
    /\ Ports \subseteq Seq(Parts) /\ Protocols \subseteq STRING /\ Marks \subseteq MarkPairs

\* A set holds addresses, networks and ranges of its own family.
ASSUME SetsAssumption ==
    /\ Connected \cup Exempt \subseteq Literals
    /\ \A c \in Connected \cup Exempt : ~Dotted(c)
    /\ \A s \in DOMAIN SetFamily : \A e \in SetMembers[s] :
          /\ {e.lo, e.hi} \subseteq Literals /\ ~Dotted(e.lo) /\ ~Dotted(e.hi)
          /\ SetFamily[s] = FamilyName(e.lo.v6) /\ e.lo.v6 = e.hi.v6

\* A packet has one family, one protocol, the device it came in on and, where
\* the protocol has ports, one of them.
ASSUME PacketsAssumption ==
    \A p \in Packets :
        /\ p.src \in Literals /\ p.src.len = -1 /\ FamilyName(p.src.v6) = p.family
        /\ p.dst \in Literals /\ p.dst.len = -1 /\ FamilyName(p.dst.v6) = p.family
        /\ ~Dotted(p.src) /\ ~Dotted(p.dst) /\ p.dev # NoDevice
        /\ p.proto # "all" /\ (p.proto \in {"tcp", "udp"} => p.dport # 0)
-----------------------------------------------------------------------------
(* What the core installs *)

\* The family of an address list as mwan3ipcheck tells it, which takes no dotted
\* netmask; of a list of both, "mixed".
AddrFamily(list) ==
    IF \E k \in DOMAIN list : Dotted(list[k]) THEN "invalid"
    ELSE IF \A k \in DOMAIN list : list[k].v6 THEN "ipv6"
    ELSE IF \A k \in DOMAIN list : ~list[k].v6 THEN "ipv4" ELSE "mixed"

\* A line of r is part of the ruleset of one family when r is not limited to
\* the other one, every address and set in it is of this family, and its
\* interface, if it names one, has a device.
Rendered(r, ipv) ==
    /\ r.family \in {"", ipv}
    /\ \A list \in {r.src_ip, r.dest_ip} \ {<<>>} : AddrFamily(list) = ipv
    /\ \A s \in {r.ipset, r.ipset_src} \ {NoSet} : SetFamily[s] = ipv
    /\ r.src_iface # NoIface => DeviceOf[r.src_iface] # NoDevice

\* nftables' own reading of addresses, sets and ports.
Covers(c, ip) ==
    /\ c.v6 = ip.v6
    /\ LET w == IF c.v6 THEN W6 ELSE W4
           size == 2^(w - PrefixLen(c, w))
       IN c.val \div size = ip.val \div size

InElement(e, ip) ==
    IF e.lo = e.hi THEN Covers(e.lo, ip)
    ELSE ip.v6 = e.lo.v6 /\ ip.val \in e.lo.val .. e.hi.val

FromIface(r, p) == r.src_iface = NoIface \/ DeviceOf[r.src_iface] = p.dev

\* A packet reaches the rules without the mark bits that are mwan3's own.
NftMatch(r, p) ==
    /\ Rendered(r, p.family)
    /\ FromIface(r, p)
    /\ r.proto \in {"all", p.proto}
    /\ r.src_ip = <<>> \/ \E c \in ToSet(r.src_ip) : Covers(c, p.src)
    /\ r.dest_ip = <<>> \/ \E c \in ToSet(r.dest_ip) : Covers(c, p.dst)
    /\ r.ipset = NoSet \/ \E e \in SetMembers[r.ipset] : InElement(e, p.dst)
    /\ r.ipset_src = NoSet \/ \E e \in SetMembers[r.ipset_src] : InElement(e, p.src)
    /\ \/ r.dest_port = <<>> \/ r.proto \notin {"tcp", "udp"}
       \/ \E k \in DOMAIN r.dest_port : p.dport \in r.dest_port[k].lo .. r.dest_port[k].hi
    /\ r.fwmark = NoMark \/ (p.mark \ mmx_mask) \cap r.fwmark.mask = r.fwmark.mark

\* What never gets to the rules: packets from the devices of mwan3's own
\* interfaces, which take the mark of the interface, and those to a destination
\* that is exempt.
ReachesRules(p) ==
    /\ <<p.family, p.dev>> \notin WanDevices
    /\ \A c \in Connected \cup Exempt : ~Covers(c, p.dst)
-----------------------------------------------------------------------------
(* The configuration check *)

portSpecContains(a, b) == a = <<>> \/ a = b

addrContains(a, b) == a = <<>> \/ (b # <<>> /\ (a = b \/ cidrContains(a, b)))

FaultyRuleAContainsB(a, b) ==
    /\ a.family = "" \/ a.family = b.family
    /\ a.proto = "all" \/ a.proto = b.proto
    /\ addrContains(a.src_ip, b.src_ip)
    /\ addrContains(a.dest_ip, b.dest_ip)
    /\ portSpecContains(a.dest_port, b.dest_port)
    /\ a.fwmark = NoMark \/ a.fwmark = b.fwmark
    /\ a.ipset = NoSet \/ a.ipset \in {b.ipset, b.ipset_src}

ruleAContainsB(a, b) ==
    /\ a.family = "" \/ a.family = b.family
    /\ a.proto = "all" \/ a.proto = b.proto
    /\ addrContains(a.src_ip, b.src_ip)
    /\ addrContains(a.dest_ip, b.dest_ip)
    /\ portSpecContains(a.dest_port, b.dest_port)
    /\ a.fwmark = NoMark \/ a.fwmark = b.fwmark
    /\ a.ipset = NoSet \/ a.ipset = b.ipset
    /\ a.ipset_src = NoSet \/ a.ipset_src = b.ipset_src

Enabled(i) == rules[i].enabled

\* The rules reported as unreachable, each with the earlier rule named.
shadowed ==
    {s \in (1..Len(rules)) \X (1..Len(rules)) :
        /\ s[1] < s[2] /\ Enabled(s[1]) /\ Enabled(s[2])
        /\ ruleAContainsB(rules[s[1]], rules[s[2]])}
-----------------------------------------------------------------------------
(* The simulator.  A request is what the user typed: the family may be left *)
(* open, the addresses are literals.                                       *)

ruleMatches(rule, sim) ==
    /\ (rule.family # "" /\ sim.family # "") => rule.family = sim.family
    /\ rule.proto = "all" \/ sim.proto = "all" \/ rule.proto = sim.proto
    /\ rule.src_ip # <<>> => \E c \in ToSet(rule.src_ip) : ipInCidr(sim.src, c)
    /\ rule.dest_ip # <<>> => \E c \in ToSet(rule.dest_ip) : ipInCidr(sim.dst, c)
    /\ rule.dest_port # <<>> => sim.dport # 0 /\ portMatches(sim.dport, rule.dest_port)
    /\ rule.ipset_src # NoSet => ipInSet(sim.src, SetMembers[rule.ipset_src])
    /\ rule.ipset # NoSet => ipInSet(sim.dst, SetMembers[rule.ipset])
    /\ rule.fwmark # NoMark => sim.mark \cap rule.fwmark.mask = rule.fwmark.mark

\* "connected" for a destination in a directly connected network, else the
\* position of the first enabled rule that matches, 0 for none.
connectedBypass(sim) == \E c \in Connected : c.v6 = sim.dst.v6 /\ ipInCidr(sim.dst, c)

allMatched(sim) == {i \in 1..Len(rules) : Enabled(i) /\ ruleMatches(rules[i], sim)}

First(S) == IF S = {} THEN 0 ELSE CHOOSE i \in S : \A j \in S : i <= j

handleSimulate(sim) ==
    IF connectedBypass(sim) THEN -1 ELSE First(allMatched(sim))

\* The same question asked of the core.
CoreVerdict(p) ==
    IF ReachesRules(p) THEN First({i \in 1..Len(rules) : Enabled(i) /\ NftMatch(rules[i], p)})
    ELSE -1

Typed(p, fam) == [p EXCEPT !.family = fam]
-----------------------------------------------------------------------------
(* The form.  Each field is validated against the other fields as they are *)
(* when it is edited.                                                      *)

ipFamily(list) == IF list = <<>> THEN "" ELSE FamilyName(list[1].v6)

addressValid(fam, list) ==
    fam # "" => \A k \in DOMAIN list : fam = FamilyName(list[k].v6)

FwmarkValid(m) == m # NoMark => m.mask \cap mmx_mask = {}

nftset_validate(r, s) == r.family # "" => r.family = SetFamily[s]

\* Only this one of the two looks at the other set.
srcSetValid(r, s) ==
    s # NoSet => /\ r.src_ip = <<>>
                 /\ ipFamily(r.dest_ip) \in {"", SetFamily[s]}
                 /\ r.ipset # NoSet => SetFamily[r.ipset] = SetFamily[s]
                 /\ nftset_validate(r, s)

destSetValid(r, s) ==
    s # NoSet => /\ r.dest_ip = <<>>
                 /\ ipFamily(r.src_ip) \in {"", SetFamily[s]}
                 /\ nftset_validate(r, s)

edit(i, r) ==
    /\ edits < MaxEdits
    /\ r # rules[i]
    /\ rules' = [rules EXCEPT ![i] = r]
    /\ edits' = edits + 1
    /\ UNCHANGED mmx_mask

editFamily(i) == \E f \in {"", "ipv4", "ipv6"} : edit(i, [rules[i] EXCEPT !.family = f])

\* The port field depends on the protocol: it is removed with it.  It stands
\* for src_port too, which has the same validation and the same match.
editProto(i) == \E p \in Protocols :
    edit(i, [rules[i] EXCEPT !.proto = p,
                             !.dest_port = IF p \in {"tcp", "udp"} THEN @ ELSE <<>>])

editSource(i) == \E a \in Sources : addressValid(rules[i].family, a)
                   /\ edit(i, [rules[i] EXCEPT !.src_ip = a])

editDest(i) == \E a \in Dests : addressValid(rules[i].family, a)
                   /\ edit(i, [rules[i] EXCEPT !.dest_ip = a])

editPort(i) == \E s \in Ports : rules[i].proto \in {"tcp", "udp"}
                   /\ edit(i, [rules[i] EXCEPT !.dest_port = s])

editMark(i) == \E m \in Marks \cup {NoMark} : FwmarkValid(m)
                   /\ edit(i, [rules[i] EXCEPT !.fwmark = m])

chooseSrcSet(i) == \E s \in SetNames : srcSetValid(rules[i], s)
                   /\ edit(i, [rules[i] EXCEPT !.ipset_src = s])

chooseDestSet(i) == \E s \in SetNames : destSetValid(rules[i], s)
                   /\ edit(i, [rules[i] EXCEPT !.ipset = s])

toggle(i) == edit(i, [rules[i] EXCEPT !.enabled = ~@])

\* Dragging a row: the section order changes.
move(i) ==
    /\ i > 1 /\ edits < MaxEdits
    /\ rules' = [rules EXCEPT ![i] = rules[i - 1], ![i - 1] = rules[i]]
    /\ edits' = edits + 1
    /\ UNCHANGED mmx_mask

\* The Globals page; no rule is looked at.
editMmxMask ==
    /\ edits < MaxEdits
    /\ mmx_mask' \in Masks
    /\ edits' = edits + 1
    /\ UNCHANGED rules

Init ==
    /\ rules = FirstRules
    /\ mmx_mask \in Masks
    /\ edits = 0

Next ==
    \/ \E i \in 1..Len(rules) :
         \/ editFamily(i) \/ editProto(i) \/ editSource(i) \/ editDest(i) \/ editPort(i)
         \/ editMark(i) \/ chooseSrcSet(i) \/ chooseDestSet(i) \/ toggle(i) \/ move(i)
    \/ editMmxMask

Spec == Init /\ [][Next]_vars
-----------------------------------------------------------------------------
(* Properties *)

\* The page does not know of src_iface, and it does not know that the core
\* leaves out a rule with a dotted netmask.
Legible(r) ==
    /\ r.src_iface = NoIface
    /\ \A list \in {r.src_ip, r.dest_ip} : \A c \in ToSet(list) : ~Dotted(c)

\* A rule reported as unreachable below a rule that is limited to no interface
\* and has no dotted netmask really is: whatever packet the core would hand to
\* it, the earlier rule named in the report takes first.
ShadowSound ==
    \A s \in shadowed : Legible(rules[s[1]]) =>
        \A p \in Packets : NftMatch(rules[s[2]], p) => NftMatch(rules[s[1]], p)

\* Rules on which the two families never meet: the addresses and sets are of
\* the family the rule names, ports are single or "lo:hi", sets hold no IPv6
\* range.
Plain(r) ==
    /\ r.family # ""
    /\ Rendered(r, r.family)
    /\ \A k \in DOMAIN r.dest_port : r.dest_port[k].sep # "-"
    /\ \A s \in {r.ipset, r.ipset_src} \ {NoSet} :
          \A e \in SetMembers[s] : e.lo = e.hi \/ ~e.lo.v6

\* rule.js: "Mask must not overlap mwan3 internal mark bits."
MarkBitsDisjoint == \A i \in 1..Len(rules) : FwmarkValid(rules[i].fwmark)

\* Every rule keeps to one family and to the mark bits left to the user.
Regular == MarkBitsDisjoint /\ \A i \in 1..Len(rules) : Plain(rules[i])

\* A packet of the local networks, from an interface to which every rule applies.
Local(p) ==
    /\ <<p.family, p.dev>> \notin WanDevices
    /\ \A i \in 1..Len(rules) : FromIface(rules[i], p)

NotExempt(p) == \A c \in Exempt : ~Covers(c, p.dst)

\* When the user states the family, and the rules are regular, a packet of the
\* local networks whose destination is not exempt but for being connected meets
\* the rule the simulator names, with the connected networks and the disabled
\* rules left out as the core leaves them out.
SimulatorAgreesWithCore ==
    Regular => \A p \in Packets :
        Local(p) /\ NotExempt(p) => handleSimulate(p) = CoreVerdict(p)

\* Three claims that no run checks; the README, "Where the code and its
\* documentation disagree", tells the behaviours that refute them.

\* configuration.js, of ruleAContainsB: "every packet matching B also matches A
\* so B is shadowed."  A rule that the configuration file limits to an interface,
\* or that the core leaves out for its dotted netmask, is reported to hide
\* rules that the core applies.
ShadowReportsTrue ==
    \A s \in shadowed : \A p \in Packets :
        NftMatch(rules[s[2]], p) => NftMatch(rules[s[1]], p)

\* simulator.js: "simulate which mwan3 rule matches and which policy would handle
\* the traffic."  It looks at the connected networks alone: to the custom and
\* dynamic ones and to the router's own addresses it names a rule that the core
\* does not come to.
ExemptionsPredicted ==
    Regular => \A p \in Packets : Local(p) => handleSimulate(p) = CoreVerdict(p)

\* simulator.js: "Returns true if the rule matches the simulation input."  With
\* the family left open, as the form does by default, the rules of the shipped
\* configuration match addresses of the other family.
DefaultRulesPredicted ==
    Regular => \A p \in Packets :
        Local(p) /\ NotExempt(p) => handleSimulate(Typed(p, "")) = CoreVerdict(p)
=============================================================================
