--------------------------- MODULE RuleBookProofs ---------------------------
(***************************************************************************)
(* The two predictions luci-app-mwan3 makes of the core's traffic rules,   *)
(* ShadowSound and SimulatorAgreesWithCore, for addresses of any width and *)
(* any rules, sets, packets and number of edits.                           *)
(*                                                                         *)
(* The masks of ipmath.js and the blocks of nftables are two readings of a *)
(* prefix: two values agree under a mask exactly when they lie in the same *)
(* block, and equal blocks lie in equal larger ones.  Of the form only     *)
(* RuleInv is needed: a port is never set without a protocol that has one. *)
(***************************************************************************)
EXTENDS RuleBook, TLAPS

-----------------------------------------------------------------------------
(* Numbers                                                                 *)

\* Quotient and remainder.
LEMMA DivMod ==
  ASSUME NEW x \in Int, NEW d \in Int, d > 0
  PROVE  \E q \in Int, r \in Int :
           q = x \div d /\ r = x % d /\ 0 <= r /\ r < d /\ x = d * q + r
<1>1. PICK q \in Int : q = x \div d
  OBVIOUS
<1>2. PICK r \in Int : r = x % d /\ 0 <= r /\ r < d
  OBVIOUS
<1>3. x % d = x - d * (x \div d)
  OBVIOUS
<1>4. r = x - d * q
  BY <1>1, <1>2, <1>3
<1>5. PICK m \in Int : m = d * q
  OBVIOUS
<1>6. x = m + r
  BY <1>4, <1>5
<1>7. x = d * q + r
  BY <1>5, <1>6
<1> QED
  BY <1>1, <1>2, <1>7

\* The quotient is determined by the block and the block by the quotient.
LEMMA Cancel ==
  ASSUME NEW d \in Int, d > 0, NEW a \in Int, NEW b \in Int, d * a = d * b
  PROVE  a = b
OBVIOUS

\* Two values under the same mask lie in the same block.
LEMMA SameBlock ==
  ASSUME NEW x \in Int, NEW y \in Int, NEW d \in Int, d > 0
  PROVE  (x - (x % d) = y - (y % d)) <=> (x \div d = y \div d)
<1>1. PICK a \in Int, r \in Int : a = x \div d /\ r = x % d /\ x = d * a + r
  BY DivMod
<1>2. PICK b \in Int, s \in Int : b = y \div d /\ s = y % d /\ y = d * b + s
  BY DivMod
<1>3. PICK m \in Int, n \in Int : m = d * a /\ n = d * b
  OBVIOUS
<1>4. x - r = m /\ y - s = n
  BY <1>1, <1>2, <1>3
<1>5. m = n <=> a = b
  BY <1>3, Cancel
<1>6. (x - r = y - s) <=> (a = b)
  BY <1>4, <1>5
<1> QED
  BY <1>1, <1>2, <1>6

LEMMA Unique ==
  ASSUME NEW x \in Int, NEW d \in Int, d > 0, NEW q \in Int, NEW r \in Int,
         0 <= r, r < d, x = d * q + r
  PROVE  x \div d = q
OBVIOUS

\* Equal blocks of size d lie in equal blocks of size d * k.
LEMMA Coarser ==
  ASSUME NEW x \in Int, NEW y \in Int, NEW d \in Int, d > 0, NEW k \in Int, k > 0,
         x \div d = y \div d
  PROVE  x \div (d * k) = y \div (d * k)
<1>1. ASSUME NEW z \in Int, NEW q \in Int, z \div d = q
      PROVE  z \div (d * k) = q \div k
  <2>1. PICK r \in Int : 0 <= r /\ r < d /\ z = d * q + r
    BY <1>1, DivMod
  <2>2. PICK t \in Int, s \in Int : t = q \div k /\ 0 <= s /\ s < k /\ q = k * t + s
    BY DivMod
  <2>3. d * q = (d * k) * t + d * s
    BY <2>2
  <2>4. 0 <= d * s /\ d * s <= d * (k - 1)
    BY <2>2
  <2>5. d * (k - 1) = d * k - d /\ d * k \in Int /\ d * s \in Int /\ (d * k) * t \in Int /\ d * k > 0
    BY <2>2
  <2>6. PICK D \in Int, S \in Int, T \in Int : D = d * k /\ S = d * s /\ T = D * t
    BY <2>2, <2>5
  <2>7. z = T + (S + r) /\ 0 <= S + r /\ S + r < D
    BY <2>1, <2>3, <2>4, <2>5, <2>6
  <2>8. z \div D = t
    BY <2>2, <2>5, <2>6, <2>7, Unique
  <2> QED
    BY <2>2, <2>6, <2>8
<1>2. x \div d \in Int
  BY DivMod
<1> QED
  BY <1>1, <1>2

-----------------------------------------------------------------------------
(* Addresses                                                               *)

\* The size of the blocks of a prefix of length l in addresses of w bits.
Block(w, l) == 2^(w - l)

LEMMA BlockSize ==
  ASSUME NEW w \in {W4, W6}, NEW l \in 0..w
  PROVE  /\ w \in Nat /\ l \in Nat /\ w - l \in 0..W6
         /\ Block(w, l) \in Int /\ Block(w, l) > 0
<1>1. w \in Nat /\ w <= W6 /\ l \in Nat /\ w - l \in 0..W6
  BY WidthAssumption
<1>2. 2^(w - l) \in Nat \ {0}
  BY <1>1, PowerAssumption
<1> QED
  BY <1>1, <1>2 DEF Block

\* A longer prefix in common is a shorter one in common.
LEMMA ShorterPrefix ==
  ASSUME NEW w \in {W4, W6}, NEW l \in 0..w, NEW m \in 0..w, l <= m,
         NEW x \in Nat, NEW y \in Nat, x \div Block(w, m) = y \div Block(w, m)
  PROVE  x \div Block(w, l) = y \div Block(w, l)
<1>1. w - m \in 0..W6 /\ w - l \in 0..W6 /\ m - l \in 0..(W6 - (w - m))
      /\ (w - m) + (m - l) = w - l /\ m - l \in 0..W6
  BY BlockSize, WidthAssumption
<1>2. PICK i : i = w - m
  OBVIOUS
<1>3. PICK j : j = m - l
  OBVIOUS
<1>4. 2^(i + j) = 2^i * 2^j /\ 2^j \in Nat \ {0} /\ 2^i \in Nat \ {0}
  BY <1>1, <1>2, <1>3, PowerAssumption
<1>5. Block(w, l) = 2^(i + j) /\ Block(w, m) = 2^i
  BY <1>1, <1>2, <1>3 DEF Block
<1>6. PICK d \in Int, k \in Int : d = 2^i /\ k = 2^j /\ d > 0 /\ k > 0
  BY <1>4
<1>7. x \div d = y \div d
  BY <1>5, <1>6
<1>8. x \div (d * k) = y \div (d * k)
  BY <1>6, <1>7, Coarser
<1> QED
  BY <1>4, <1>5, <1>6, <1>8

\* The shift of an empty IPv4 prefix is taken modulo the word width, which is
\* why the code treats it apart.
LEMMA MaskedAlike4 ==
  ASSUME NEW l \in 0..W4, NEW x \in Nat, NEW y \in Nat, x < 2^W4, y < 2^W4
  PROVE  (Mask4(x, l) = Mask4(y, l)) <=> (x \div Block(W4, l) = y \div Block(W4, l))
<1>1. Block(W4, l) \in Int /\ Block(W4, l) > 0 /\ W4 \in Nat \ {0}
  BY BlockSize, WidthAssumption
<1>2. CASE l = 0
  <2>1. PICK d : d = 2^W4
    OBVIOUS
  <2>2. Block(W4, l) = d
    BY <1>1, <1>2, <2>1 DEF Block
  <2>3. d \in Int /\ d > 0 /\ x < d /\ y < d
    BY <1>1, <2>1, <2>2
  <2>4. \A z \in Nat : z < d => z \div d = 0
    <3> TAKE z \in Nat
    <3>1. ASSUME z < d PROVE z \div d = 0
      BY <2>3, <3>1, Unique
    <3> QED
      BY <3>1
  <2>5. x \div d = 0 /\ y \div d = 0
    BY <2>3, <2>4
  <2>6. Mask4(x, l) = 0 /\ Mask4(y, l) = 0
    BY <1>2 DEF Mask4
  <2> QED
    BY <2>2, <2>5, <2>6
<1>3. CASE l # 0
  <2>1. (W4 - l) % W4 = W4 - l
    BY <1>1, <1>3
  <2>2. PICK d : d = Block(W4, l)
    OBVIOUS
  <2>3. Mask4(x, l) = x - (x % d) /\ Mask4(y, l) = y - (y % d)
    BY <1>3, <2>1, <2>2 DEF Mask4, Block
  <2>4. d \in Int /\ d > 0
    BY <1>1, <2>2
  <2>5. (x - (x % d) = y - (y % d)) <=> (x \div d = y \div d)
    BY <2>4, SameBlock
  <2> QED
    BY <2>2, <2>3, <2>5
<1> QED
  BY <1>2, <1>3

LEMMA MaskedAlike6 ==
  ASSUME NEW l \in 0..W6, NEW x \in Nat, NEW y \in Nat
  PROVE  (Mask6(x, l) = Mask6(y, l)) <=> (x \div Block(W6, l) = y \div Block(W6, l))
<1>1. PICK d : d = Block(W6, l)
  OBVIOUS
<1>2. d \in Int /\ d > 0
  BY <1>1, BlockSize
<1>3. Mask6(x, l) = x - (x % d) /\ Mask6(y, l) = y - (y % d)
  BY <1>1 DEF Mask6, Block
<1> QED
  BY <1>1, <1>2, <1>3, SameBlock

LEMMA LiteralParts ==
  ASSUME NEW c \in Literals
  PROVE  /\ c.v6 \in BOOLEAN /\ c.val \in Nat /\ c.len \in Int /\ c.netmask \in Int
         /\ c.v6 => c.val < 2^W6
         /\ ~c.v6 => c.val < 2^W4
<1>1. /\ c \in [v6 : BOOLEAN, val : Nat, len : Int, netmask : Int]
      /\ c.val < 2^Width(c.v6)
  BY DEF Literals
<1> QED
  BY <1>1 DEF Width

LEMMA PrefixParts ==
  ASSUME NEW c \in Literals, ~Dotted(c)
  PROVE  /\ c.v6 => c.len \in -1..W6 /\ PrefixLen(c, W6) \in 0..W6
         /\ ~c.v6 => c.len \in -1..W4 /\ PrefixLen(c, W4) \in 0..W4
<1>1. c.len \in -1..Width(c.v6)
  BY DEF Literals
<1> QED
  BY <1>1, WidthAssumption DEF Width, PrefixLen

\* nftables' reading, with the width made explicit.
LEMMA CoversBlock ==
  ASSUME NEW c \in Literals, NEW ip \in Literals, c.v6 = ip.v6
  PROVE  /\ c.v6 => (Covers(c, ip) <=>
              c.val \div Block(W6, PrefixLen(c, W6)) = ip.val \div Block(W6, PrefixLen(c, W6)))
         /\ ~c.v6 => (Covers(c, ip) <=>
              c.val \div Block(W4, PrefixLen(c, W4)) = ip.val \div Block(W4, PrefixLen(c, W4)))
BY DEF Covers, Block

\* What cidrContains says of two networks holds of every address.
LEMMA ContainsCovers ==
  ASSUME NEW a \in Literals, NEW b \in Literals, NEW ip \in Literals,
         ~Dotted(a), ~Dotted(b), a.v6 = b.v6, Covers(b, ip),
         IF a.v6 THEN ipv6CidrContains(a, b) ELSE ipv4CidrContains(a, b)
  PROVE  Covers(a, ip)
<1>1. b.v6 = ip.v6
  BY DEF Covers
<1>2. a.val \in Nat /\ b.val \in Nat /\ ip.val \in Nat
  BY LiteralParts
<1>3. CASE a.v6
  <2>1. PICK la \in 0..W6, lb \in 0..W6 : la = PrefixLen(a, W6) /\ lb = PrefixLen(b, W6)
    BY <1>3, PrefixParts
  <2>2. la <= lb /\ Mask6(a.val, la) = Mask6(b.val, la)
    BY <1>3, <2>1 DEF ipv6CidrContains, ipv6ToBigInt
  <2>3. a.val \div Block(W6, la) = b.val \div Block(W6, la)
    BY <1>2, <2>2, MaskedAlike6
  <2>4. b.val \div Block(W6, lb) = ip.val \div Block(W6, lb)
    BY <1>1, <1>3, <2>1, CoversBlock
  <2>5. b.val \div Block(W6, la) = ip.val \div Block(W6, la)
    BY <1>2, <2>2, <2>4, ShorterPrefix
  <2> QED
    BY <1>1, <1>3, <2>1, <2>3, <2>5, CoversBlock
<1>4. CASE ~a.v6
  <2>1. PICK la \in 0..W4, lb \in 0..W4 : la = PrefixLen(a, W4) /\ lb = PrefixLen(b, W4)
    BY <1>4, PrefixParts
  <2>2. la <= lb /\ Mask4(a.val, la) = Mask4(b.val, la)
    BY <1>4, <2>1 DEF ipv4CidrContains, ipv4ToUint
  <2>3. a.val \div Block(W4, la) = b.val \div Block(W4, la)
    BY <1>2, <1>4, <2>2, MaskedAlike4, LiteralParts
  <2>4. b.val \div Block(W4, lb) = ip.val \div Block(W4, lb)
    BY <1>1, <1>4, <2>1, CoversBlock
  <2>5. b.val \div Block(W4, la) = ip.val \div Block(W4, la)
    BY <1>2, <2>2, <2>4, ShorterPrefix
  <2> QED
    BY <1>1, <1>4, <2>1, <2>3, <2>5, CoversBlock
<1> QED
  BY <1>3, <1>4

\* Within one family ipInCidr reads a network as nftables does.
LEMMA InCidrCovers ==
  ASSUME NEW c \in Literals, NEW ip \in Literals, c.v6 = ip.v6,
         ~Dotted(c), ~Dotted(ip), ip.len = -1
  PROVE  ipInCidr(ip, c) <=> Covers(c, ip)
<1>1. c.val \in Nat /\ ip.val \in Nat /\ c.v6 \in BOOLEAN
  BY LiteralParts
<1>2. CASE c.len = -1
  <2>1. ipInCidr(ip, c) <=> ip = c
    BY <1>2 DEF ipInCidr, ipv4InCidr, ipv6InCidr
  <2>2. Covers(c, ip) <=> c.val \div 1 = ip.val \div 1
    <3>1. W4 - W4 = 0 /\ W6 - W6 = 0 /\ 2^0 = 1
      BY WidthAssumption
    <3>2. PrefixLen(c, W4) = W4 /\ PrefixLen(c, W6) = W6
      BY <1>2 DEF PrefixLen
    <3>3. Block(W4, W4) = 1 /\ Block(W6, W6) = 1
      BY <3>1 DEF Block
    <3> QED
      BY <1>1, <3>2, <3>3, CoversBlock
  <2>3. c.val \div 1 = c.val /\ ip.val \div 1 = ip.val
    BY <1>1
  <2>4. c.val = ip.val <=> ip = c
    <3>1. {c, ip} \subseteq [v6 : BOOLEAN, val : Nat, len : Int, netmask : Int]
      BY DEF Literals
    <3>2. c.netmask = -1 /\ ip.netmask = -1
      BY DEF Dotted
    <3> QED
      BY <1>2, <3>1, <3>2
  <2> QED
    BY <2>1, <2>2, <2>3, <2>4
<1>3. CASE c.len # -1 /\ c.v6
  <2>1. PrefixLen(c, W6) = c.len /\ c.len \in 0..W6
    BY <1>3, PrefixParts DEF PrefixLen
  <2>2. ipInCidr(ip, c) <=> Mask6(ip.val, c.len) = Mask6(c.val, c.len)
    BY <1>3 DEF ipInCidr, ipv6InCidr, ipv6ToBigInt
  <2>3. ipInCidr(ip, c) <=> ip.val \div Block(W6, c.len) = c.val \div Block(W6, c.len)
    BY <1>1, <2>1, <2>2, MaskedAlike6
  <2> QED
    BY <1>3, <2>1, <2>3, CoversBlock
<1>4. CASE c.len # -1 /\ ~c.v6
  <2>1. PrefixLen(c, W4) = c.len /\ c.len \in 0..W4 /\ c.val < 2^W4 /\ ip.val < 2^W4
    BY <1>4, LiteralParts, PrefixParts DEF PrefixLen
  <2>2. ipInCidr(ip, c) <=> Mask4(ip.val, c.len) = Mask4(c.val, c.len)
    BY <1>4 DEF ipInCidr, ipv4InCidr, ipv4ToUint
  <2>3. ipInCidr(ip, c) <=> ip.val \div Block(W4, c.len) = c.val \div Block(W4, c.len)
    BY <1>1, <2>1, <2>2, MaskedAlike4
  <2> QED
    BY <1>4, <2>1, <2>3, CoversBlock
<1> QED
  BY <1>1, <1>2, <1>3, <1>4

-----------------------------------------------------------------------------
(* Rules                                                                   *)

LEMMA RuleParts ==
  ASSUME NEW r \in Rules
  PROVE  /\ r.family \in {"", "ipv4", "ipv6"} /\ r.src_ip \in Seq(Literals)
         /\ r.dest_ip \in Seq(Literals) /\ r.dest_port \in Seq(Parts)
         /\ r.ipset \in SetNames /\ r.ipset_src \in SetNames
BY DEF Rules

\* The addresses of a list that is rendered for one family are of this family.
LEMMA ListFamily ==
  ASSUME NEW list \in Seq(Literals), NEW ipv, AddrFamily(list) = ipv,
         ipv \in {"ipv4", "ipv6"}
  PROVE  \A c \in ToSet(list) : c \in Literals /\ ~Dotted(c) /\ FamilyName(c.v6) = ipv
<1> TAKE c \in ToSet(list)
<1>1. PICK k \in DOMAIN list : c = list[k]
  BY DEF ToSet
<1>2. c \in Literals
  BY <1>1
<1>3. c.v6 \in BOOLEAN
  BY <1>2, LiteralParts
<1>4. ipv = "ipv6" => \A j \in DOMAIN list : list[j].v6
  BY DEF AddrFamily
<1>5. ipv = "ipv4" => \A j \in DOMAIN list : ~list[j].v6
  BY DEF AddrFamily
<1>6. ~Dotted(c)
  BY <1>1 DEF AddrFamily
<1> QED
  BY <1>1, <1>2, <1>3, <1>4, <1>5, <1>6 DEF FamilyName

LEMMA ListContains ==
  ASSUME NEW a \in Seq(Literals), NEW b \in Seq(Literals), addrContains(a, b),
         a # <<>>, NEW ip \in Literals,
         b = <<>> \/ \E c \in ToSet(b) : Covers(c, ip),
         \A c \in ToSet(a) : ~Dotted(c), b # <<>> => AddrFamily(b) # "invalid"
  PROVE  /\ b # <<>> /\ AddrFamily(a) = AddrFamily(b)
         /\ \E c \in ToSet(a) : Covers(c, ip)
<1>1. b # <<>> /\ (a = b \/ cidrContains(a, b)) /\ \E c \in ToSet(b) : Covers(c, ip)
  BY DEF addrContains
<1>2. CASE a = b
  BY <1>1, <1>2
<1>3. CASE cidrContains(a, b)
  <2>1. Len(a) = 1 /\ Len(b) = 1 /\ a[1].v6 = b[1].v6
        /\ IF a[1].v6 THEN ipv6CidrContains(a[1], b[1]) ELSE ipv4CidrContains(a[1], b[1])
    BY <1>3 DEF cidrContains
  <2>2. DOMAIN a = {1} /\ DOMAIN b = {1}
    BY <2>1
  <2>3. a[1] \in Literals /\ b[1] \in Literals
    BY <2>2
  <2>4. ToSet(a) = {a[1]} /\ ToSet(b) = {b[1]}
    BY <2>2 DEF ToSet
  <2>5. ~Dotted(a[1]) /\ ~Dotted(b[1])
    BY <1>1, <2>2, <2>4 DEF AddrFamily
  <2>6. Covers(a[1], ip)
    <3>1. Covers(b[1], ip)
      BY <1>1, <2>4
    <3>2. PICK x \in Literals, y \in Literals : x = a[1] /\ y = b[1]
      BY <2>3
    <3>3. ~Dotted(x) /\ ~Dotted(y)
      BY <2>4, <2>5, <3>2
    <3> QED
      BY <2>1, <3>1, <3>2, <3>3, ContainsCovers
  <2>7. AddrFamily(a) = AddrFamily(b)
    BY <2>1, <2>2, <2>4, <2>5 DEF AddrFamily
  <2> QED
    BY <1>1, <2>4, <2>6, <2>7
<1> QED
  BY <1>1, <1>2, <1>3

\* A rule that contains another takes every packet the other would take, if it
\* is limited to no interface and written without dotted netmasks.
LEMMA ContainsMatches ==
  ASSUME NEW a \in Rules, NEW b \in Rules, Legible(a), ruleAContainsB(a, b),
         NEW p \in Packets, NftMatch(b, p)
  PROVE  NftMatch(a, p)
<1>1. /\ a.src_ip \in Seq(Literals) /\ a.dest_ip \in Seq(Literals)
      /\ b.src_ip \in Seq(Literals) /\ b.dest_ip \in Seq(Literals)
  BY RuleParts
<1>2. p.src \in Literals /\ p.dst \in Literals
  BY PacketsAssumption
<1>3. Rendered(b, p.family) /\ p.family \in {"ipv4", "ipv6"}
  BY PacketsAssumption DEF NftMatch, FamilyName
<1>4. a.src_ip # <<>> => /\ b.src_ip # <<>> /\ AddrFamily(a.src_ip) = AddrFamily(b.src_ip)
                         /\ \E c \in ToSet(a.src_ip) : Covers(c, p.src)
  <2>1. addrContains(a.src_ip, b.src_ip)
    BY DEF ruleAContainsB
  <2>2. b.src_ip = <<>> \/ \E c \in ToSet(b.src_ip) : Covers(c, p.src)
    BY DEF NftMatch
  <2>3. \A c \in ToSet(a.src_ip) : ~Dotted(c)
    BY DEF Legible
  <2>4. b.src_ip # <<>> => AddrFamily(b.src_ip) # "invalid"
    BY <1>3 DEF Rendered
  <2> QED
    BY <1>1, <1>2, <2>1, <2>2, <2>3, <2>4, ListContains
<1>5. a.dest_ip # <<>> => /\ b.dest_ip # <<>> /\ AddrFamily(a.dest_ip) = AddrFamily(b.dest_ip)
                          /\ \E c \in ToSet(a.dest_ip) : Covers(c, p.dst)
  <2>1. addrContains(a.dest_ip, b.dest_ip)
    BY DEF ruleAContainsB
  <2>2. b.dest_ip = <<>> \/ \E c \in ToSet(b.dest_ip) : Covers(c, p.dst)
    BY DEF NftMatch
  <2>3. \A c \in ToSet(a.dest_ip) : ~Dotted(c)
    BY DEF Legible
  <2>4. b.dest_ip # <<>> => AddrFamily(b.dest_ip) # "invalid"
    BY <1>3 DEF Rendered
  <2> QED
    BY <1>1, <1>2, <2>1, <2>2, <2>3, <2>4, ListContains
<1>6. /\ a.family = "" \/ a.family = b.family
      /\ a.ipset = NoSet \/ a.ipset = b.ipset
      /\ a.ipset_src = NoSet \/ a.ipset_src = b.ipset_src
  BY DEF ruleAContainsB
<1>7. Rendered(a, p.family)
  <2>1. a.family \in {"", p.family}
    BY <1>3, <1>6 DEF Rendered
  <2>2. \A list \in {a.src_ip, a.dest_ip} \ {<<>>} : AddrFamily(list) = p.family
    BY <1>4, <1>5, <1>3 DEF Rendered
  <2>3. \A s \in {a.ipset, a.ipset_src} \ {NoSet} : SetFamily[s] = p.family
    BY <1>3, <1>6 DEF Rendered
  <2>4. a.src_iface = NoIface
    BY DEF Legible
  <2> QED
    BY <2>1, <2>2, <2>3, <2>4 DEF Rendered
<1>8. a.proto \in {"all", p.proto}
  BY DEF ruleAContainsB, NftMatch
<1>9. /\ a.ipset = NoSet \/ \E e \in SetMembers[a.ipset] : InElement(e, p.dst)
      /\ a.ipset_src = NoSet \/ \E e \in SetMembers[a.ipset_src] : InElement(e, p.src)
  BY <1>6 DEF NftMatch
<1>10. \/ a.dest_port = <<>> \/ a.proto \notin {"tcp", "udp"}
       \/ \E k \in DOMAIN a.dest_port : p.dport \in a.dest_port[k].lo .. a.dest_port[k].hi
  BY DEF ruleAContainsB, portSpecContains, NftMatch
<1>11. a.fwmark = NoMark \/ (p.mark \ mmx_mask) \cap a.fwmark.mask = a.fwmark.mark
  BY DEF ruleAContainsB, NftMatch
<1>12. FromIface(a, p)
  BY DEF Legible, FromIface
<1> QED
  BY <1>4, <1>5, <1>7, <1>8, <1>9, <1>10, <1>11, <1>12 DEF NftMatch

-----------------------------------------------------------------------------
(* The form                                                                *)

\* The rules stay well formed, and a port is only set with a protocol that
\* has ports.
RuleInv ==
    /\ rules \in Seq(Rules)
    /\ \A i \in 1..Len(rules) : PortsHaveProto(rules[i])

LEMMA EditStep ==
  ASSUME RuleInv, NEW i \in 1..Len(rules), NEW r \in Rules, PortsHaveProto(r), edit(i, r)
  PROVE  RuleInv'
<1>1. rules \in Seq(Rules) /\ rules' = [rules EXCEPT ![i] = r]
  BY DEF RuleInv, edit
<1>2. /\ rules' \in Seq(Rules) /\ Len(rules') = Len(rules) /\ rules'[i] = r
      /\ \A j \in 1..Len(rules) : j # i => rules'[j] = rules[j]
  BY <1>1
<1> QED
  BY <1>2 DEF RuleInv

LEMMA FormStep == ASSUME RuleInv, [Next]_vars PROVE RuleInv'
<1>1. ASSUME NEW i \in 1..Len(rules),
             \/ editFamily(i) \/ editProto(i) \/ editSource(i) \/ editDest(i) \/ editPort(i)
             \/ editMark(i) \/ chooseSrcSet(i) \/ chooseDestSet(i) \/ toggle(i)
      PROVE  RuleInv'
  <2>1. PICK r : r = rules[i]
    OBVIOUS
  <2>2. r \in Rules /\ PortsHaveProto(r)
    BY <2>1 DEF RuleInv
  <2>3. SUFFICES \E t \in Rules : PortsHaveProto(t) /\ edit(i, t)
    BY EditStep
  <2>4. CASE editFamily(i)
    <3>1. PICK f \in {"", "ipv4", "ipv6"} : edit(i, [r EXCEPT !.family = f])
      BY <2>1, <2>4 DEF editFamily
    <3>2. [r EXCEPT !.family = f] \in Rules /\ PortsHaveProto([r EXCEPT !.family = f])
      BY <2>2 DEF Rules, PortsHaveProto
    <3> QED
      BY <3>1, <3>2
  <2>5. CASE editProto(i)
    <3>1. PICK p \in Protocols :
            edit(i, [r EXCEPT !.proto = p,
                              !.dest_port = IF p \in {"tcp", "udp"} THEN @ ELSE <<>>])
      BY <2>1, <2>5 DEF editProto
    <3>2. PICK d : d = IF p \in {"tcp", "udp"} THEN r.dest_port ELSE <<>>
      OBVIOUS
    <3>3. PICK t : t = [r EXCEPT !.proto = p, !.dest_port = d]
      OBVIOUS
    <3>4. edit(i, t)
      BY <3>1, <3>2, <3>3
    <3>5. p \in STRING /\ d \in Seq(Parts) /\ (d # <<>> => p \in {"tcp", "udp"})
      <4>1. p \in STRING
        BY RulesAssumption
      <4>2. r.dest_port \in Seq(Parts)
        BY <2>2, RuleParts
      <4>3. <<>> \in Seq(Parts)
        OBVIOUS
      <4> QED
        BY <3>2, <4>1, <4>2, <4>3
    <3>6. t \in Rules
      BY <2>2, <3>3, <3>5 DEF Rules
    <3>7. t.dest_port = d /\ t.proto = p
      BY <2>2, <3>3 DEF Rules
    <3> QED
      BY <3>4, <3>5, <3>6, <3>7 DEF PortsHaveProto
  <2>6. CASE editSource(i)
    <3>1. PICK a \in Sources : edit(i, [r EXCEPT !.src_ip = a])
      BY <2>1, <2>6 DEF editSource
    <3>2. a \in Seq(Literals)
      BY RulesAssumption
    <3>3. [r EXCEPT !.src_ip = a] \in Rules /\ PortsHaveProto([r EXCEPT !.src_ip = a])
      BY <2>2, <3>2 DEF Rules, PortsHaveProto
    <3> QED
      BY <3>1, <3>3
  <2>7. CASE editDest(i)
    <3>1. PICK a \in Dests : edit(i, [r EXCEPT !.dest_ip = a])
      BY <2>1, <2>7 DEF editDest
    <3>2. a \in Seq(Literals)
      BY RulesAssumption
    <3>3. [r EXCEPT !.dest_ip = a] \in Rules /\ PortsHaveProto([r EXCEPT !.dest_ip = a])
      BY <2>2, <3>2 DEF Rules, PortsHaveProto
    <3> QED
      BY <3>1, <3>3
  <2>8. CASE editPort(i)
    <3>1. PICK d \in Ports : r.proto \in {"tcp", "udp"} /\ edit(i, [r EXCEPT !.dest_port = d])
      BY <2>1, <2>8 DEF editPort
    <3>2. d \in Seq(Parts)
      BY RulesAssumption
    <3>3. [r EXCEPT !.dest_port = d] \in Rules /\ [r EXCEPT !.dest_port = d].proto = r.proto
      BY <2>2, <3>2 DEF Rules
    <3> QED
      BY <3>1, <3>3 DEF PortsHaveProto
  <2>9. CASE editMark(i)
    <3>1. PICK m \in Marks \cup {NoMark} : edit(i, [r EXCEPT !.fwmark = m])
      BY <2>1, <2>9 DEF editMark
    <3>2. m \in MarkPairs
      BY RulesAssumption DEF NoMark, MarkPairs
    <3>3. [r EXCEPT !.fwmark = m] \in Rules /\ PortsHaveProto([r EXCEPT !.fwmark = m])
      BY <2>2, <3>2 DEF Rules, PortsHaveProto
    <3> QED
      BY <3>1, <3>3
  <2>10. CASE chooseSrcSet(i)
    <3>1. PICK s \in SetNames : edit(i, [r EXCEPT !.ipset_src = s])
      BY <2>1, <2>10 DEF chooseSrcSet
    <3>2. [r EXCEPT !.ipset_src = s] \in Rules /\ PortsHaveProto([r EXCEPT !.ipset_src = s])
      BY <2>2 DEF Rules, PortsHaveProto
    <3> QED
      BY <3>1, <3>2
  <2>11. CASE chooseDestSet(i)
    <3>1. PICK s \in SetNames : edit(i, [r EXCEPT !.ipset = s])
      BY <2>1, <2>11 DEF chooseDestSet
    <3>2. [r EXCEPT !.ipset = s] \in Rules /\ PortsHaveProto([r EXCEPT !.ipset = s])
      BY <2>2 DEF Rules, PortsHaveProto
    <3> QED
      BY <3>1, <3>2
  <2>12. CASE toggle(i)
    <3>1. edit(i, [r EXCEPT !.enabled = ~r.enabled])
      BY <2>1, <2>12 DEF toggle
    <3>2. [r EXCEPT !.enabled = ~r.enabled] \in Rules
      BY <2>2 DEF Rules
    <3>3. PortsHaveProto([r EXCEPT !.enabled = ~r.enabled])
      BY <2>2 DEF Rules, PortsHaveProto
    <3> QED
      BY <3>1, <3>2, <3>3
  <2> QED
    BY <1>1, <2>4, <2>5, <2>6, <2>7, <2>8, <2>9, <2>10, <2>11, <2>12
<1>2. ASSUME NEW i \in 1..Len(rules), move(i)
      PROVE  RuleInv'
  <2>1. /\ rules \in Seq(Rules) /\ i - 1 \in 1..Len(rules) /\ i \in 1..Len(rules)
        /\ rules' = [rules EXCEPT ![i] = rules[i - 1], ![i - 1] = rules[i]]
    BY <1>2 DEF RuleInv, move
  <2>2. PICK a \in Rules, b \in Rules : a = rules[i] /\ b = rules[i - 1]
    BY <2>1
  <2>3. PortsHaveProto(a) /\ PortsHaveProto(b)
    BY <2>1, <2>2 DEF RuleInv
  <2>4. rules' = [rules EXCEPT ![i] = b, ![i - 1] = a]
    BY <2>1, <2>2
  <2>5. /\ rules' \in Seq(Rules) /\ Len(rules') = Len(rules)
        /\ \A j \in 1..Len(rules) : rules'[j] \in {a, b, rules[j]}
    BY <2>1, <2>4
  <2> QED
    BY <2>3, <2>5 DEF RuleInv
<1>3. CASE editMmxMask \/ UNCHANGED vars
  BY <1>3 DEF editMmxMask, vars, RuleInv
<1> QED
  BY <1>1, <1>2, <1>3 DEF Next

LEMMA RuleAlways == Spec => []RuleInv
<1>1. Init => RuleInv
  <2> SUFFICES ASSUME Init PROVE RuleInv
    OBVIOUS
  <2>1. rules \in Seq(Rules) /\ \A i \in DOMAIN rules : PortsHaveProto(rules[i])
    BY RulesAssumption DEF Init
  <2> QED
    BY <2>1 DEF RuleInv
<1> QED
  BY <1>1, FormStep, PTL DEF Spec

\* Whatever is edited and reordered, for addresses of any width: a rule that
\* configuration.js reports as unreachable never takes a packet that the
\* earlier rule named in the report would not take, unless that earlier rule
\* is limited to an interface or has a dotted netmask.
THEOREM ShadowAlwaysSound == Spec => []ShadowSound
<1>1. RuleInv => ShadowSound
  <2> SUFFICES ASSUME RuleInv, NEW s \in shadowed, Legible(rules[s[1]]),
                      NEW p \in Packets, NftMatch(rules[s[2]], p)
               PROVE  NftMatch(rules[s[1]], p)
    BY DEF ShadowSound
  <2>1. /\ s[1] \in 1..Len(rules) /\ s[2] \in 1..Len(rules)
        /\ ruleAContainsB(rules[s[1]], rules[s[2]])
    BY DEF shadowed
  <2>2. rules[s[1]] \in Rules /\ rules[s[2]] \in Rules
    BY <2>1 DEF RuleInv
  <2> QED
    BY <2>1, <2>2, ContainsMatches
<1> QED
  BY <1>1, RuleAlways, PTL

-----------------------------------------------------------------------------
(* The simulator                                                           *)

\* A list of addresses of the packet's family.
LEMMA ListAlike ==
  ASSUME NEW list \in Seq(Literals), NEW ip \in Literals, ip.len = -1, ~Dotted(ip),
         AddrFamily(list) = FamilyName(ip.v6)
  PROVE  (\E c \in ToSet(list) : ipInCidr(ip, c)) <=> (\E c \in ToSet(list) : Covers(c, ip))
<1>1. FamilyName(ip.v6) \in {"ipv4", "ipv6"}
  BY DEF FamilyName
<1>2. \A c \in ToSet(list) : c \in Literals /\ ~Dotted(c) /\ FamilyName(c.v6) = FamilyName(ip.v6)
  BY <1>1, ListFamily
<1>3. \A c \in ToSet(list) : c \in Literals /\ ~Dotted(c) /\ c.v6 = ip.v6
  <2> TAKE c \in ToSet(list)
  <2>1. c \in Literals /\ ~Dotted(c) /\ FamilyName(c.v6) = FamilyName(ip.v6)
    BY <1>2
  <2>2. c.v6 \in BOOLEAN /\ ip.v6 \in BOOLEAN
    BY <2>1, LiteralParts
  <2> QED
    BY <2>1, <2>2 DEF FamilyName
<1>4. \A c \in ToSet(list) : ipInCidr(ip, c) <=> Covers(c, ip)
  BY <1>3, InCidrCovers
<1> QED
  BY <1>4

\* A set of the packet's family that holds no IPv6 range.
LEMMA SetAlike ==
  ASSUME NEW s \in DOMAIN SetFamily, NEW ip \in Literals, ip.len = -1, ~Dotted(ip),
         SetFamily[s] = FamilyName(ip.v6),
         \A e \in SetMembers[s] : e.lo = e.hi \/ ~e.lo.v6
  PROVE  ipInSet(ip, SetMembers[s]) <=> \E e \in SetMembers[s] : InElement(e, ip)
<1> DEFINE In(e) == IF e.lo # e.hi
                    THEN ipv4ToUint(ip) \in ipv4ToUint(e.lo) .. ipv4ToUint(e.hi)
                    ELSE IF e.lo.len # -1 THEN ipInCidr(ip, e.lo) ELSE ip = e.lo
<1>1. ASSUME NEW e \in SetMembers[s]
      PROVE  In(e) <=> InElement(e, ip)
  <2>1. /\ e.lo \in Literals /\ e.hi \in Literals /\ ~Dotted(e.lo)
        /\ FamilyName(ip.v6) = FamilyName(e.lo.v6) /\ e.lo.v6 = e.hi.v6
    BY SetsAssumption
  <2>2. ip.v6 = e.lo.v6
    <3>1. ip.v6 \in BOOLEAN /\ e.lo.v6 \in BOOLEAN
      BY <2>1, LiteralParts
    <3> QED
      BY <2>1, <3>1 DEF FamilyName
  <2>3. CASE e.lo # e.hi
    <3>1. ~ip.v6 /\ ~e.lo.v6 /\ ~e.hi.v6
      BY <2>1, <2>2, <2>3
    <3> QED
      BY <2>2, <2>3, <3>1 DEF InElement, ipv4ToUint
  <2>4. CASE e.lo = e.hi
    <3>1. InElement(e, ip) <=> Covers(e.lo, ip)
      BY <2>4 DEF InElement
    <3>2. ipInCidr(ip, e.lo) <=> Covers(e.lo, ip)
      BY <2>1, <2>2, InCidrCovers
    <3>3. e.lo.len = -1 => (ipInCidr(ip, e.lo) <=> ip = e.lo)
      BY DEF ipInCidr, ipv4InCidr, ipv6InCidr
    <3> QED
      BY <2>4, <3>1, <3>2, <3>3
  <2> QED
    BY <2>3, <2>4
<1>2. ipInSet(ip, SetMembers[s]) <=> \E e \in SetMembers[s] : In(e)
  BY DEF ipInSet
<1> HIDE DEF In
<1> QED
  BY <1>1, <1>2

\* On a rule of one family the simulator and the core agree.
LEMMA RuleAlike ==
  ASSUME NEW r \in Rules, PortsHaveProto(r), Plain(r), FwmarkValid(r.fwmark),
         NEW p \in Packets, FromIface(r, p)
  PROVE  ruleMatches(r, p) <=> NftMatch(r, p)
<1>1. /\ p.src \in Literals /\ p.src.len = -1 /\ FamilyName(p.src.v6) = p.family
      /\ p.dst \in Literals /\ p.dst.len = -1 /\ FamilyName(p.dst.v6) = p.family
      /\ ~Dotted(p.src) /\ ~Dotted(p.dst)
      /\ p.proto # "all" /\ (p.proto \in {"tcp", "udp"} => p.dport # 0)
  BY PacketsAssumption
<1>2. p.family \in {"ipv4", "ipv6"}
  BY <1>1 DEF FamilyName
<1>3. /\ r.src_ip \in Seq(Literals) /\ r.dest_ip \in Seq(Literals)
      /\ r.dest_port \in Seq(Parts) /\ r.ipset \in SetNames /\ r.ipset_src \in SetNames
  BY RuleParts
<1>4. r.family # "" /\ Rendered(r, r.family)
  BY DEF Plain
<1>5. CASE r.family # p.family
  <2>1. ~ruleMatches(r, p)
    BY <1>2, <1>4, <1>5 DEF ruleMatches
  <2>2. ~Rendered(r, p.family)
    BY <1>4, <1>5 DEF Rendered
  <2>3. ~NftMatch(r, p)
    BY <2>2 DEF NftMatch
  <2> QED
    BY <2>1, <2>3
<1>6. CASE r.family = p.family
  <2>1. Rendered(r, p.family)
    BY <1>4, <1>6
  <2>2. r.src_ip # <<>> => AddrFamily(r.src_ip) = p.family
    BY <2>1 DEF Rendered
  <2>3. r.dest_ip # <<>> => AddrFamily(r.dest_ip) = p.family
    BY <2>1 DEF Rendered
  <2>4. (r.src_ip # <<>> => \E c \in ToSet(r.src_ip) : ipInCidr(p.src, c))
        <=> (r.src_ip = <<>> \/ \E c \in ToSet(r.src_ip) : Covers(c, p.src))
    BY <1>1, <1>3, <2>2, ListAlike
  <2>5. (r.dest_ip # <<>> => \E c \in ToSet(r.dest_ip) : ipInCidr(p.dst, c))
        <=> (r.dest_ip = <<>> \/ \E c \in ToSet(r.dest_ip) : Covers(c, p.dst))
    BY <1>1, <1>3, <2>3, ListAlike
  <2>6. \A s \in {r.ipset, r.ipset_src} \ {NoSet} :
           /\ s \in DOMAIN SetFamily /\ SetFamily[s] = p.family
           /\ \A e \in SetMembers[s] : e.lo = e.hi \/ ~e.lo.v6
    BY <1>3, <2>1 DEF Rendered, Plain, SetNames
  <2>7. (r.ipset # NoSet => ipInSet(p.dst, SetMembers[r.ipset]))
        <=> (r.ipset = NoSet \/ \E e \in SetMembers[r.ipset] : InElement(e, p.dst))
    BY <1>1, <2>6, SetAlike
  <2>8. (r.ipset_src # NoSet => ipInSet(p.src, SetMembers[r.ipset_src]))
        <=> (r.ipset_src = NoSet \/ \E e \in SetMembers[r.ipset_src] : InElement(e, p.src))
    BY <1>1, <2>6, SetAlike
  <2>9. (r.proto = "all" \/ p.proto = "all" \/ r.proto = p.proto) <=> r.proto \in {"all", p.proto}
    BY <1>1
  <2>10. ASSUME r.proto \in {"all", p.proto}
         PROVE  (r.dest_port # <<>> => p.dport # 0 /\ portMatches(p.dport, r.dest_port))
                <=> (\/ r.dest_port = <<>> \/ r.proto \notin {"tcp", "udp"}
                     \/ \E k \in DOMAIN r.dest_port :
                          p.dport \in r.dest_port[k].lo .. r.dest_port[k].hi)
    <3>1. CASE r.dest_port = <<>>
      BY <3>1
    <3>2. CASE r.dest_port # <<>>
      <4>1. r.proto \in {"tcp", "udp"} /\ p.dport # 0
        BY <1>1, <2>10, <3>2 DEF PortsHaveProto
      <4>2. ASSUME NEW k \in DOMAIN r.dest_port
            PROVE  (IF r.dest_port[k].sep = ":"
                    THEN p.dport \in r.dest_port[k].lo .. r.dest_port[k].hi
                    ELSE p.dport = r.dest_port[k].lo)
                   <=> p.dport \in r.dest_port[k].lo .. r.dest_port[k].hi
        <5>1. PICK q : q = r.dest_port[k]
          OBVIOUS
        <5>2. q \in Parts /\ q.sep # "-"
          <6>1. q \in Parts
            BY <1>3, <5>1
          <6>2. q.sep # "-"
            BY <5>1 DEF Plain
          <6> QED
            BY <6>1, <6>2
        <5>3. q.lo \in Nat /\ q.hi \in Nat /\ (q.sep = ":" \/ q.lo = q.hi)
          BY <5>2 DEF Parts
        <5>4. q.lo = q.hi => (p.dport = q.lo <=> p.dport \in q.lo .. q.hi)
          BY <5>3
        <5> QED
          BY <5>1, <5>3, <5>4
      <4>3. portMatches(p.dport, r.dest_port) <=>
              \E k \in DOMAIN r.dest_port : p.dport \in r.dest_port[k].lo .. r.dest_port[k].hi
        BY <3>2, <4>2 DEF portMatches
      <4> QED
        BY <3>2, <4>1, <4>3
    <3> QED
      BY <3>1, <3>2
  <2>11. (r.fwmark # NoMark => p.mark \cap r.fwmark.mask = r.fwmark.mark)
         <=> (r.fwmark = NoMark \/ (p.mark \ mmx_mask) \cap r.fwmark.mask = r.fwmark.mark)
    BY DEF FwmarkValid
  <2>12. (r.family # "" /\ p.family # "") => r.family = p.family
    BY <1>6
  <2>13. CASE r.proto \in {"all", p.proto}
    BY <2>1, <2>4, <2>5, <2>7, <2>8, <2>9, <2>10, <2>11, <2>12, <2>13 DEF ruleMatches, NftMatch
  <2>14. CASE r.proto \notin {"all", p.proto}
    BY <2>9, <2>14 DEF ruleMatches, NftMatch
  <2> QED
    BY <2>13, <2>14
<1> QED
  BY <1>5, <1>6

\* For addresses of any width, any rules and sets of one family each: what
\* simulator.js predicts for a packet whose family is stated is what the rules
\* of the core do with it, where src_iface, the mark of an interface and the
\* custom, dynamic and local destinations have no part in it.
THEOREM SimulatorAlwaysAgrees == Spec => []SimulatorAgreesWithCore
<1>1. RuleInv => SimulatorAgreesWithCore
  <2> SUFFICES ASSUME RuleInv, Regular, NEW p \in Packets, Local(p), NotExempt(p)
               PROVE  handleSimulate(p) = CoreVerdict(p)
    BY DEF SimulatorAgreesWithCore
  <2>1. \A i \in 1..Len(rules) : ruleMatches(rules[i], p) <=> NftMatch(rules[i], p)
    <3>1. \A i \in 1..Len(rules) : rules[i] \in Rules /\ PortsHaveProto(rules[i])
      BY DEF RuleInv
    <3>2. \A i \in 1..Len(rules) : /\ Plain(rules[i]) /\ FwmarkValid(rules[i].fwmark)
                                   /\ FromIface(rules[i], p)
      BY DEF Regular, MarkBitsDisjoint, Local
    <3> QED
      BY <3>1, <3>2, RuleAlike
  <2>2. allMatched(p) = {i \in 1..Len(rules) : Enabled(i) /\ NftMatch(rules[i], p)}
    BY <2>1 DEF allMatched
  <2>3. connectedBypass(p) <=> \E c \in Connected : Covers(c, p.dst)
    <3>1. p.dst \in Literals /\ p.dst.len = -1 /\ ~Dotted(p.dst)
      BY PacketsAssumption
    <3>2. ASSUME NEW c \in Connected
          PROVE  (c.v6 = p.dst.v6 /\ ipInCidr(p.dst, c)) <=> Covers(c, p.dst)
      <4>1. c \in Literals /\ ~Dotted(c)
        BY SetsAssumption
      <4>2. Covers(c, p.dst) => c.v6 = p.dst.v6
        BY DEF Covers
      <4> QED
        BY <3>1, <4>1, <4>2, InCidrCovers
    <3> QED
      BY <3>2 DEF connectedBypass
  <2>4. ReachesRules(p) <=> ~connectedBypass(p)
    BY <2>3 DEF ReachesRules, Local, NotExempt
  <2> QED
    BY <2>2, <2>4 DEF handleSimulate, CoreVerdict
<1> QED
  BY <1>1, RuleAlways, PTL
=============================================================================
