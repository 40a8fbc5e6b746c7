----------------------------- MODULE Ipv4Prefix -----------------------------
(***************************************************************************)
(* The address arithmetic of udp_network_utils.hpp.  An address and a      *)
(* netmask are numbers of four bytes in host order; a byte has ByteBits    *)
(* bits, so a small ByteBits makes a small Internet of the same shape.     *)
(***************************************************************************)
EXTENDS Naturals, FiniteSetsExt

CONSTANT ByteBits  \* 8

ASSUME ByteBitsAssumption == ByteBits \in Nat \ {0}

WordBits == 4 * ByteBits

\* 1 << k.
PowerOfTwo[k \in 0 .. WordBits] == IF k = 0 THEN 1 ELSE 2 * PowerOfTwo[k - 1]

Ipv4Words == 0 .. PowerOfTwo[WordBits] - 1

\* The first k bits of a word.
LeadingBits(word, k) == word \div PowerOfTwo[WordBits - k]

\* How many bits the loop passes before it meets a difference.
CommonBits(a, b) == Max({k \in 0 .. WordBits : LeadingBits(a, k) = LeadingBits(b, k)})

\* A mutant: the common bits are rounded up to whole bytes.
InferPrefixLengthUpwards(sender, target) ==
    LET common  == CommonBits(sender, target)
        rounded == ((common + ByteBits - 1) \div ByteBits) * ByteBits
    IN IF common = WordBits THEN 3 * ByteBits ELSE Max({ByteBits, rounded})

\* Rounded down to whole bytes, at least one; equal addresses leave one byte
\* for the hosts.
InferPrefixLength(sender, target) ==
    LET common  == CommonBits(sender, target)
        rounded == (common \div ByteBits) * ByteBits
    IN IF common = WordBits THEN 3 * ByteBits ELSE Max({ByteBits, rounded})

\* All ones shifted left, cut to the width of the word.
PrefixLengthToMaskBits(prefixLength) ==
    ((PowerOfTwo[WordBits] - 1) * PowerOfTwo[WordBits - prefixLength]) % PowerOfTwo[WordBits]

\* The ones at the front of the netmask.
PrefixLengthFromNetmask(netmask) ==
    Max({k \in 0 .. WordBits : LeadingBits(netmask, k) = PowerOfTwo[k] - 1})

\* What a host with that netmask takes for its own network.
SameNetwork(a, b, netmask) ==
    LET k == PrefixLengthFromNetmask(netmask) IN LeadingBits(a, k) = LeadingBits(b, k)

SameFirstByte(a, b) == LeadingBits(a, ByteBits) = LeadingBits(b, ByteBits)
=============================================================================
