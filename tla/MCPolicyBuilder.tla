-------------------------- MODULE MCPolicyBuilder --------------------------
(***************************************************************************)
(* Instances of PolicyBuilder for TLC: two IPv4 uplinks and one IPv6       *)
(* uplink, a policy that balances the first two with failover to IPv6, a   *)
(* second policy that shares one of its members, and a member whose name   *)
(* is the one the builder would generate for other values.                 *)
(***************************************************************************)
EXTENDS PolicyBuilder

TwoUplinks == <<"wan", "wanb", "wan6">>
UplinkFamily == [wan |-> "ipv4", wanb |-> "ipv4", wan6 |-> "ipv6"]
PolicyNames == {<<"p3">>, <<"balanced">>}
Resorts == {"unreachable", "default"}

Member(i, m, w) == [iface |-> i, metric |-> m, weight |-> w]
Policy(ms) == [use_member |-> ms, last_resort |-> "unreachable"]

Balanced ==
    [member |-> (<<"a">> :> Member("wan", 1, 1)) @@ (<<"b">> :> Member("wanb", 1, 4))
             @@ (<<"wanb", 1, 1>> :> Member("wanb", 2, 1)),
     policy |-> (<<"balanced">> :> Policy(<< <<"a">>, <<"b">>, <<"wanb", 1, 1>> >>))
             @@ (<<"backup">> :> Policy(<< <<"b">> >>))]

Lopsided ==
    [member |-> (<<"a">> :> Member("wan", 1, 1)) @@ (<<"b">> :> Member("wanb", 1, 300)),
     policy |-> (<<"balanced">> :> Policy(<< <<"a">>, <<"b">> >>))]
=============================================================================
