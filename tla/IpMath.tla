------------------------------- MODULE IpMath -------------------------------
(***************************************************************************)
(* mwan3/ipmath.js: the address, CIDR, set and port tests that the traffic *)
(* simulator and the configuration check of luci-app-mwan3 share.          *)
(*                                                                         *)
(* A literal is a record [v6, val, len, netmask]: its family, its value,   *)
(* the length read after the slash, -1 without one, and the dotted netmask *)
(* written there instead of a length, -1 without one.  An IPv4 value has   *)
(* W4 bits, an IPv6 value W6 bits, each in two halves that stand for the   *)
(* first octet or group and the rest.  Spellings are canonical, so that    *)
(* texts are equal when literals are.  What the parsers make of a literal  *)
(* they do not expect is what the JavaScript makes of it: parseInt reads   *)
(* the text up to the first character it cannot use, which is the first    *)
(* octet or group, and the rest is zero.                                   *)
(***************************************************************************)
EXTENDS Integers, Sequences

CONSTANTS W4, W6

ASSUME WidthAssumption == W4 \in Nat \ {0} /\ W6 \in Nat \ {0} /\ W4 <= W6

\* The law of exponents, for the powers that masks are made of.
ASSUME PowerAssumption ==
    \A m \in 0..W6 : /\ 2^m \in Nat \ {0}
                     /\ \A n \in 0..(W6 - m) : 2^(m + n) = 2^m * 2^n

Width(v6) == IF v6 THEN W6 ELSE W4

Half(w) == 2^(w \div 2)

Dotted(c) == c.netmask # -1

\* What the fields of the pages accept as an address or a network.  Of a dotted
\* netmask, which only an IPv4 network may carry, parseInt reads the first octet.
Literals == {c \in [v6 : BOOLEAN, val : Nat, len : Int, netmask : Int] :
                /\ c.val < 2^Width(c.v6)
                /\ IF Dotted(c)
                   THEN ~c.v6 /\ c.netmask \in 0..(2^W4 - 1) /\ c.len = c.netmask \div Half(W4)
                   ELSE c.len \in -1..Width(c.v6)}

ipv4ToUint(a) ==
    IF a.v6 THEN ((a.val \div Half(W6)) % Half(W4)) * Half(W4) ELSE a.val

ipv6ToBigInt(a) ==
    IF a.v6 THEN a.val ELSE (a.val \div Half(W4)) * Half(W6)

\* value & mask; the shift distance is taken modulo the word width
Mask4(x, len) == IF len = 0 THEN 0 ELSE x - (x % 2^((W4 - len) % W4))
Mask6(x, len) == x - (x % 2^(W6 - len))

ipv4InCidr(ip, c) ==
    IF c.len = -1 THEN ip = c
    ELSE Mask4(ipv4ToUint(ip), c.len) = Mask4(ipv4ToUint(c), c.len)

ipv6InCidr(ip, c) ==
    IF c.len = -1 THEN ip = c
    ELSE Mask6(ipv6ToBigInt(ip), c.len) = Mask6(ipv6ToBigInt(c), c.len)

FaultyIpInCidr(ip, c) ==
    IF ip.v6 THEN Mask6(ip.val, c.len) = c.val ELSE Mask4(ip.val, c.len) = c.val

\* Dispatches on the family of the address, not of the network.
ipInCidr(ip, c) == IF ip.v6 THEN ipv6InCidr(ip, c) ELSE ipv4InCidr(ip, c)

PrefixLen(c, w) == IF c.len = -1 THEN w ELSE c.len

ipv4CidrContains(a, b) ==
    /\ PrefixLen(a, W4) <= PrefixLen(b, W4)
    /\ Mask4(ipv4ToUint(a), PrefixLen(a, W4)) = Mask4(ipv4ToUint(b), PrefixLen(a, W4))

ipv6CidrContains(a, b) ==
    /\ PrefixLen(a, W6) <= PrefixLen(b, W6)
    /\ Mask6(ipv6ToBigInt(a), PrefixLen(a, W6)) = Mask6(ipv6ToBigInt(b), PrefixLen(a, W6))

\* Lists are never compared.
cidrContains(as, bs) ==
    /\ Len(as) = 1 /\ Len(bs) = 1
    /\ as[1].v6 = bs[1].v6
    /\ IF as[1].v6 THEN ipv6CidrContains(as[1], bs[1]) ELSE ipv4CidrContains(as[1], bs[1])

\* A set element is [lo, hi]: a range of two literals, or a literal twice.
\* Every range is compared as IPv4, whatever its family.
ipInSet(ip, members) ==
    \E e \in members :
        IF e.lo # e.hi
        THEN ipv4ToUint(ip) \in ipv4ToUint(e.lo) .. ipv4ToUint(e.hi)
        ELSE IF e.lo.len # -1 THEN ipInCidr(ip, e.lo) ELSE ip = e.lo

\* A port specification is a sequence of parts [sep, lo, hi].  Only ":" makes a
\* range; of "1024-2048" parseInt reads the first number.
portMatches(p, spec) ==
    \/ spec = <<>>
    \/ \E k \in DOMAIN spec :
         IF spec[k].sep = ":" THEN p \in spec[k].lo .. spec[k].hi ELSE p = spec[k].lo
=============================================================================
