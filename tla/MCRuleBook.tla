----------------------------- MODULE MCRuleBook -----------------------------
(***************************************************************************)
(* Instances of RuleBook for TLC: IPv4 addresses of two bits, IPv6         *)
(* addresses of four, the shipped rules, one of them limited to the guest  *)
(* network, two sets.                                                      *)
(***************************************************************************)
EXTENDS RuleBook

V4(v, l) == [v6 |-> FALSE, val |-> v, len |-> l, netmask |-> -1]
V6(v, l) == [v6 |-> TRUE, val |-> v, len |-> l, netmask |-> -1]
Mask(v, m) == [v6 |-> FALSE, val |-> v, len |-> m \div Half(W4), netmask |-> m]
Part(s, lo, hi) == [sep |-> s, lo |-> lo, hi |-> hi]

Blank == [family |-> "", proto |-> "all", src_ip |-> <<>>, dest_ip |-> <<>>,
          dest_port |-> <<>>, ipset |-> NoSet, ipset_src |-> NoSet,
          fwmark |-> NoMark, enabled |-> TRUE, src_iface |-> NoIface]

\* The rules of the shipped configuration, enabled, the first for guests only.
Shipped == << [Blank EXCEPT !.family = "ipv4", !.proto = "tcp", !.dest_port = <<Part("", 2, 2)>>,
                       !.src_iface = "guest"],
              [Blank EXCEPT !.family = "ipv4", !.dest_ip = <<V4(0, 0)>>],
              [Blank EXCEPT !.family = "ipv6", !.dest_ip = <<V6(0, 0)>>] >>

SourceLists == {<<>>, <<V4(2, 1)>>, <<V6(8, 1)>>}
DestLists == {<<>>, <<V4(0, 0)>>, <<Mask(2, 2)>>, <<V4(2, 1)>>, <<V4(3, -1)>>, <<V4(1, -1), V4(2, 1)>>,
              <<V6(8, 1)>>, <<V6(9, -1)>>, <<V4(2, 1), V6(8, 1)>>}
PortSpecs == {<<>>, <<Part("", 1, 1), Part(":", 2, 3)>>, <<Part("-", 1, 3)>>}
SomeProtocols == {"all", "tcp", "icmp"}
SomeMarks == {[mark |-> {4}, mask |-> {4, 5}], [mark |-> {1}, mask |-> {1}]}
TwoSets == [four |-> "ipv4", six |-> "ipv6"]
Elements == [four |-> {[lo |-> V4(1, -1), hi |-> V4(2, -1)]},
             six  |-> {[lo |-> V6(8, 2), hi |-> V6(8, 2)]}]
SomeMasks == {{1, 2}, {5}}
ConnectedNets == {V4(0, -1), V6(0, 2)}
ExemptNets == {V4(2, -1), V6(12, 2)}
Devices == [guest |-> "br-guest", lan |-> "br-lan", vpn |-> NoDevice]
Wans == {<<"ipv4", "eth1">>}

Packet(f, pr, s, d, dp, m) ==
    [family |-> f, proto |-> pr, src |-> s, dst |-> d, dport |-> dp,
     mark |-> m.mark, dev |-> m.dev]

\* Some arrive with a bit of mwan3's own, left by a tunnel.
Arrivals == {[mark |-> {}, dev |-> "br-guest"], [mark |-> {4}, dev |-> "br-guest"],
             [mark |-> {1, 4}, dev |-> "br-lan"]}
FromWan == [mark |-> {}, dev |-> "eth1"]

SomePackets ==
    {Packet("ipv4", q[1], V4(s, -1), V4(d, -1), q[2], mk) :
        q \in {<<"tcp", 1>>, <<"tcp", 2>>, <<"icmp", 0>>}, s \in {1, 2}, d \in 0..3, mk \in Arrivals \cup {FromWan}}
    \cup
    {Packet("ipv6", q[1], V6(s, -1), V6(d, -1), q[2], mk) :
        q \in {<<"tcp", 3>>, <<"icmp", 0>>}, s \in {4, 9}, d \in {3, 8, 9, 12}, mk \in Arrivals}
=============================================================================
