--------------------------- MODULE UdpOpenProofs ---------------------------
(***************************************************************************)
(* Proofs about UdpOpen for every timeout, every width of a byte, every    *)
(* traffic of the link and every address that others may configure: the    *)
(* probe's budget, the completeness of a configuration, the network that   *)
(* it puts the host into, and the respect for an address that was there    *)
(* before.                                                                 *)
(***************************************************************************)
EXTENDS UdpOpen, WellFoundedInduction, TLAPS

(***************************************************************************)
(* The inductive invariant                                                 *)
(***************************************************************************)

\* As much of the types as the arguments below need.
Shape ==
    /\ interface = [address |-> interface.address, netmask |-> interface.netmask,
                    up |-> interface.up]
    /\ heard \in Results
    /\ pc \in Steps
    /\ configurer \in Configurers

\* What has been spent and what is left make up the timeout at most; a frame
\* that cuts a wait short makes it less.
Budget ==
    /\ remaining \in Nat
    /\ elapsed \in Nat
    /\ elapsed + remaining <= TimeoutTicks

\* An interface that the library has configured has an address, so a later
\* Open finds it and does not come to probe.
OwnHasAddress ==
    /\ configurer \in {"self, unfinished", "self"} => interface.address # NoAddress
    /\ pc \in {"probe", "receive", "setAddress"} => configurer \in {"nobody", "others"}
    /\ pc = "setAddress" => heard.target # 0
    /\ pc \in {"setNetmask", "getFlags", "setFlags"} => configurer # "self"

\* How far the configuration is, unless somebody interferes.
HalfConfigured ==
    configurer = "self, unfinished" =>
        /\ pc \in {"setNetmask", "getFlags", "setFlags"} => interface.address = heard.target
        /\ pc \in {"getFlags", "setFlags"} => interface.netmask = InferredNetmask

\* Open comes this far only with the caller's consent, and only if the address
\* that it found at its start is gone.
Consent ==
    /\ pc \in {"probe", "receive", "setAddress", "setNetmask", "getFlags", "setFlags"} =>
        autoConfig /\ (foundAddress # NoAddress => disturbed)
    /\ pc = "inspect" /\ ~disturbed => interface.address = foundAddress

IInv ==
    /\ Shape
    /\ Budget
    /\ OwnHasAddress
    /\ HalfConfigured
    /\ OwnConfigurationComplete
    /\ Consent

(***************************************************************************)
(* Lemmas                                                                  *)
(***************************************************************************)

\* Apart from the other assumptions, for steps of arithmetic.
LEMMA TimeoutIsNat == TimeoutTicks \in Nat
  BY UdpOpenAssumption

\* The smaller of two numbers.
LEMMA MinOfTwo ==
    ASSUME NEW a \in Nat, NEW b \in Nat
    PROVE  Min({a, b}) = IF a <= b THEN a ELSE b
  BY DEF Min

\* A wait takes no more than what is left.
LEMMA WaitIsLeft ==
    ASSUME remaining \in Nat
    PROVE  Wait \in Nat /\ Wait <= remaining
  BY MinOfTwo, UdpOpenAssumption DEF Wait

\* A poll that takes at most its wait keeps the budget; the clock of the model
\* stops only above the timeout.
LEMMA SpendKeepsBudget ==
    ASSUME Budget, NEW ticks \in 0 .. Wait, Spend(ticks), remaining' = remaining - Wait
    PROVE  Budget'
  <1>1. Wait \in Nat /\ Wait <= remaining
    BY WaitIsLeft DEF Budget
  <1>2. elapsed + ticks \in Nat /\ TimeoutTicks + 1 \in Nat
    BY <1>1, TimeoutIsNat DEF Budget
  <1>3. elapsed' = IF elapsed + ticks <= TimeoutTicks + 1
                   THEN elapsed + ticks ELSE TimeoutTicks + 1
    BY <1>2, MinOfTwo DEF Spend
  <1> QED BY <1>1, <1>2, <1>3, TimeoutIsNat DEF Budget

\* What others make of the interface.
LEMMA OthersResult ==
    ASSUME NEW address, NEW i \in ByOthers(address)
    PROVE  i = [address |-> i.address, netmask |-> i.netmask, up |-> i.up]
  <1>1. CASE address = NoAddress
    BY <1>1 DEF ByOthers, NoInterface
  <1>2. CASE address # NoAddress
    BY <1>2 DEF ByOthers
  <1> QED BY <1>1, <1>2

(***************************************************************************)
(* Lemmas about numbers and powers                                         *)
(***************************************************************************)

\* Facts about products, quotients and remainders, for every divisor.
LEMMA Times ==
    ASSUME NEW a \in Nat, NEW b \in Nat
    PROVE  a * b \in Nat
OBVIOUS

\* A factor that is greater by one adds the other factor.
LEMMA TimesMono ==
    ASSUME NEW a \in Nat, NEW b \in Nat, NEW d \in Nat, a < b
    PROVE  d * a + d <= d * b
OBVIOUS

\* A quotient and its remainder.
LEMMA DivMod ==
    ASSUME NEW x \in Nat, NEW d \in Nat \ {0}
    PROVE  /\ x \div d \in Nat /\ x % d \in Nat /\ x % d < d
           /\ x = d * (x \div d) + (x % d)
OBVIOUS

\* They are the only ones.
LEMMA DivIs ==
    ASSUME NEW x \in Nat, NEW d \in Nat \ {0}, NEW q \in Nat, NEW r \in Nat,
           r < d, x = d * q + r
    PROVE  x \div d = q /\ x % d = r
<1>1. PICK Q, R : Q = x \div d /\ R = x % d
  OBVIOUS
<1>2. Q \in Nat /\ R \in Nat /\ R < d /\ x = d * Q + R
  BY <1>1, DivMod
<1>3. d * Q \in Nat /\ d * q \in Nat
  BY <1>2, Times
<1>4. ~(q < Q)
  <2>1. q < Q => d * q + d <= d * Q
    BY <1>2, TimesMono
  <2> QED
    BY <1>2, <1>3, <2>1
<1>5. ~(Q < q)
  <2>1. Q < q => d * Q + d <= d * q
    BY <1>2, TimesMono
  <2> QED
    BY <1>2, <1>3, <2>1
<1>6. Q = q
  BY <1>2, <1>4, <1>5
<1>7. R = r
  BY <1>2, <1>3, <1>6
<1> QED
  BY <1>1, <1>6, <1>7

\* Two shifts to the right are one.
LEMMA DivDiv ==
    ASSUME NEW x \in Nat, NEW b \in Nat \ {0}, NEW c \in Nat \ {0}
    PROVE  (x \div b) \div c = x \div (b * c)
<1>1. PICK q, r : q = x \div b /\ r = x % b
  OBVIOUS
<1>2. q \in Nat /\ r \in Nat /\ r < b /\ x = b * q + r
  BY <1>1, DivMod
<1>3. PICK p, s : p = q \div c /\ s = q % c
  OBVIOUS
<1>4. p \in Nat /\ s \in Nat /\ s < c /\ q = c * p + s
  BY <1>2, <1>3, DivMod
<1>5. b * s + r \in Nat /\ b * c \in Nat \ {0} /\ b * s \in Nat
  BY <1>2, <1>4
<1>6. b * s + r < b * c
  <2>1. b * s + b <= b * c
    BY <1>4, TimesMono
  <2> QED
    BY <1>2, <1>5, <2>1
<1>7. x = (b * c) * p + (b * s + r)
  <2>1. b * (c * p + s) = (b * c) * p + b * s
    BY <1>2, <1>4
  <2>2. (b * c) * p \in Nat
    BY <1>4, <1>5, Times
  <2>3. b * q = (b * c) * p + b * s
    BY <1>4, <2>1
  <2>4. PICK u, v, w : u = b * q /\ v = (b * c) * p /\ w = b * s
    OBVIOUS
  <2>5. v \in Nat /\ w \in Nat /\ u = v + w /\ x = u + r
    BY <1>2, <1>5, <2>2, <2>3, <2>4
  <2>6. x = v + (w + r)
    BY <1>2, <2>5
  <2> QED
    BY <2>4, <2>6
<1>8. PICK e, f : e = b * c /\ f = b * s + r
  OBVIOUS
<1>9. e \in Nat \ {0} /\ f \in Nat /\ f < e /\ x = e * p + f
  <2>1. x = e * p + f
    BY <1>7, <1>8, Zenon
  <2> QED
    BY <1>2, <1>5, <1>6, <1>8, <2>1
<1>10. x \div e = p
  BY <1>4, <1>9, DivIs
<1>11. (x \div b) \div c = p
  BY <1>1, <1>3, Zenon
<1>12. x \div (b * c) = p
  BY <1>8, <1>10, Zenon
<1> QED
  BY <1>11, <1>12

\* A set of naturals that is not empty has a least member.
LEMMA LeastMember ==
    ASSUME NEW S, S \subseteq Nat, S # {}
    PROVE  \E k \in S : \A j \in S : k <= j
<1> DEFINE R == {pair \in Nat \X Nat : pair[1] < pair[2]}
<1>1. IsWellFoundedOn(R, Nat)
  BY NatLessThanWellFounded DEF OpToRel
<1> HIDE DEF R
<1>2. PICK k \in S : \A j \in S : <<j, k>> \notin R
  BY <1>1, WFMin
<1>3. ASSUME NEW j \in S PROVE k <= j
  <2>1. k \in Nat /\ j \in Nat
    OBVIOUS
  <2>2. j < k => <<j, k>> \in R
    BY <2>1 DEF R
  <2> QED
    BY <2>1, <2>2, <1>2
<1> QED
  BY <1>3

\* The widths of a byte and of a word.
LEMMA Bits == ByteBits \in Nat \ {0} /\ WordBits \in Nat /\ WordBits = 4 * ByteBits
BY ByteBitsAssumption DEF WordBits

\* g yields the powers up to the n-th.
PowersUpTo(n, g) == g = [k \in 0 .. n |-> IF k = 0 THEN 1 ELSE 2 * g[k - 1]]

\* There is such a function for each n: a least n without one has none before it.
LEMMA PowersExist == \A n \in Nat : \E g : PowersUpTo(n, g)
<1> DEFINE failing == {n \in Nat : ~ \E g : PowersUpTo(n, g)}
<1>1. failing = {}
  <2> SUFFICES ASSUME failing # {} PROVE FALSE
    OBVIOUS
  <2>1. PICK n \in failing : \A m \in failing : n <= m
    BY LeastMember
  <2>2. n \in Nat /\ ~ \E g : PowersUpTo(n, g)
    OBVIOUS
  <2>3. n # 0
    <3>1. PowersUpTo(0, [k \in 0 .. 0 |-> 1])
      BY DEF PowersUpTo
    <3> QED
      BY <2>2, <3>1
  <2>4. n - 1 \in Nat /\ ~(n <= n - 1)
    BY <2>2, <2>3
  <2>5. PICK g : PowersUpTo(n - 1, g)
    BY <2>1, <2>4
  <2>6. \A k \in 0 .. n - 1 : g[k] = IF k = 0 THEN 1 ELSE 2 * g[k - 1]
    BY <2>5 DEF PowersUpTo
  <2> DEFINE h == [k \in 0 .. n |-> IF k = n THEN 2 * g[n - 1] ELSE g[k]]
  <2>7. \A k \in 0 .. n : h[k] = IF k = n THEN 2 * g[n - 1] ELSE g[k]
    OBVIOUS
  <2>8. h = [k \in 0 .. n |-> h[k]]
    OBVIOUS
  <2> HIDE DEF h
  <2>9. ASSUME NEW k \in 0 .. n
        PROVE  h[k] = IF k = 0 THEN 1 ELSE 2 * h[k - 1]
    <3>1. CASE k = n
      <4>1. n - 1 \in 0 .. n /\ n - 1 # n /\ n \in 0 .. n
        BY <2>2, <2>4
      <4>2. h[n - 1] = g[n - 1] /\ h[n] = 2 * g[n - 1]
        BY <2>7, <4>1
      <4> QED
        BY <2>3, <3>1, <4>2
    <3>2. CASE k # n
      <4>1. k \in 0 .. n - 1 /\ (k # 0 => k - 1 \in 0 .. n /\ k - 1 # n)
        BY <2>2, <3>2
      <4>2. h[k] = g[k] /\ (k # 0 => h[k - 1] = g[k - 1])
        BY <2>7, <3>2, <4>1
      <4> QED
        BY <2>6, <4>1, <4>2
    <3> QED
      BY <3>1, <3>2
  <2>10. PowersUpTo(n, h)
    BY <2>8, <2>9 DEF PowersUpTo
  <2> QED
    BY <2>2, <2>10
<1> QED
  BY <1>1

\* The recursive equation holds.
LEMMA PowerUnfolds ==
    \A k \in 0 .. WordBits : PowerOfTwo[k] = IF k = 0 THEN 1 ELSE 2 * PowerOfTwo[k - 1]
<1>1. PICK g : g = [k \in 0 .. WordBits |-> IF k = 0 THEN 1 ELSE 2 * g[k - 1]]
  BY PowersExist, Bits DEF PowersUpTo
<1>2. PowerOfTwo = CHOOSE f : f = [k \in 0 .. WordBits |-> IF k = 0 THEN 1 ELSE 2 * f[k - 1]]
  BY DEF PowerOfTwo
<1>3. PowerOfTwo = [k \in 0 .. WordBits |-> IF k = 0 THEN 1 ELSE 2 * PowerOfTwo[k - 1]]
  BY <1>1, <1>2
<1> QED
  BY <1>3

\* So a power is positive.
LEMMA PowerIsPositive == \A k \in 0 .. WordBits : PowerOfTwo[k] \in Nat \ {0}
<1> DEFINE failing == {k \in 0 .. WordBits : PowerOfTwo[k] \notin Nat \ {0}}
<1>1. failing = {}
  <2> SUFFICES ASSUME failing # {} PROVE FALSE
    OBVIOUS
  <2>1. failing \subseteq Nat
    BY Bits
  <2>2. PICK k \in failing : \A m \in failing : k <= m
    BY <2>1, LeastMember
  <2>3. k \in 0 .. WordBits /\ PowerOfTwo[k] \notin Nat \ {0}
    BY <2>2
  <2>4. k # 0
    BY <2>3, PowerUnfolds
  <2>5. k - 1 \in 0 .. WordBits /\ ~(k <= k - 1)
    BY <2>3, <2>4, Bits
  <2>6. PowerOfTwo[k - 1] \in Nat \ {0}
    BY <2>2, <2>5
  <2>7. PowerOfTwo[k] = 2 * PowerOfTwo[k - 1]
    BY <2>3, <2>4, PowerUnfolds
  <2> QED
    BY <2>3, <2>6, <2>7
<1> QED
  BY <1>1

\* And that of a sum is the product.
LEMMA PowerOfSum ==
    ASSUME NEW a \in 0 .. WordBits, NEW b \in 0 .. WordBits, a + b <= WordBits
    PROVE  PowerOfTwo[a + b] = PowerOfTwo[a] * PowerOfTwo[b]
<1> DEFINE failing == {n \in 0 .. WordBits :
                          a + n <= WordBits /\ PowerOfTwo[a + n] # PowerOfTwo[a] * PowerOfTwo[n]}
<1>1. failing = {}
  <2> SUFFICES ASSUME failing # {} PROVE FALSE
    OBVIOUS
  <2>1. failing \subseteq Nat
    BY Bits
  <2>2. PICK n \in failing : \A m \in failing : n <= m
    BY <2>1, LeastMember
  <2>3. /\ n \in 0 .. WordBits /\ a + n <= WordBits
        /\ PowerOfTwo[a + n] # PowerOfTwo[a] * PowerOfTwo[n]
    BY <2>2
  <2>4. PowerOfTwo[a] \in Nat
    BY PowerIsPositive
  <2>5. n # 0
    <3>1. PowerOfTwo[0] = 1 /\ a + 0 = a
      BY PowerUnfolds, Bits
    <3>2. PowerOfTwo[a] * 1 = PowerOfTwo[a]
      BY <2>4
    <3> QED
      BY <2>3, <3>1, <3>2
  <2>6. PICK m, c : m = n - 1 /\ c = a + n
    OBVIOUS
  <2>7. /\ m \in 0 .. WordBits /\ ~(n <= m) /\ a + m <= WordBits /\ a + m = c - 1
        /\ c \in 0 .. WordBits /\ c # 0 /\ m = n - 1
    BY <2>3, <2>5, <2>6, Bits
  <2>8. PowerOfTwo[a + m] = PowerOfTwo[a] * PowerOfTwo[m]
    BY <2>2, <2>7
  <2>9. PowerOfTwo[c] = 2 * PowerOfTwo[c - 1] /\ PowerOfTwo[n] = 2 * PowerOfTwo[m]
    BY <2>3, <2>5, <2>7, PowerUnfolds
  <2>10. PowerOfTwo[c] = 2 * (PowerOfTwo[a] * PowerOfTwo[m])
    BY <2>7, <2>8, <2>9
  <2>11. \A x, y \in Nat : 2 * (x * y) = x * (2 * y)
    OBVIOUS
  <2>12. PowerOfTwo[m] \in Nat
    BY <2>7, PowerIsPositive
  <2>13. PowerOfTwo[c] = PowerOfTwo[a] * PowerOfTwo[n]
    BY <2>4, <2>9, <2>10, <2>11, <2>12
  <2> QED
    BY <2>3, <2>6, <2>13
<1> QED
  BY <1>1

(***************************************************************************)
(* Lemmas about prefixes and netmasks (udp_network_utils.hpp)              *)
(***************************************************************************)

\* The address of zeros is one.
LEMMA ZeroIsWord == 0 \in Ipv4Words
BY PowerIsPositive, Bits DEF Ipv4Words

\* Max of a set of prefix lengths.
LEMMA MaxIsGreatest ==
    ASSUME NEW S, S \subseteq 0 .. WordBits, S # {}
    PROVE  Max(S) \in S /\ \A j \in S : j <= Max(S)
<1> DEFINE left == {WordBits - k : k \in S}
<1>1. left \subseteq Nat /\ left # {}
  <2>1. \A k \in 0 .. WordBits : WordBits - k \in Nat
    BY Bits
  <2> QED
    BY <2>1
<1>2. PICK n \in left : \A m \in left : n <= m
  BY <1>1, LeastMember
<1>3. PICK k \in S : n = WordBits - k
  OBVIOUS
<1>4. ASSUME NEW j \in S PROVE j <= k
  <2>1. n <= WordBits - j
    BY <1>2
  <2>2. j \in 0 .. WordBits /\ k \in 0 .. WordBits
    OBVIOUS
  <2> QED
    BY <1>3, <2>1, <2>2, Bits
<1>5. \E x \in S : \A y \in S : x >= y
  <2>1. \A y \in S : k >= y
    <3>1. \A y \in S : y \in Nat
      BY Bits
    <3> QED
      BY <1>4, <3>1
  <2> QED
    BY <2>1
<1>6. Max(S) \in S /\ \A y \in S : Max(S) >= y
  BY <1>5 DEF Max
<1>7. \A y \in S : y \in Nat
  BY Bits
<1> QED
  BY <1>6, <1>7

\* Fewer leading bits are the leading bits of more.
LEMMA FewerLeadingBits ==
    ASSUME NEW word \in Nat, NEW k \in 0 .. WordBits, NEW j \in 0 .. k
    PROVE  LeadingBits(word, j) = LeadingBits(word, k) \div PowerOfTwo[k - j]
<1>1. PICK a, b : a = WordBits - k /\ b = k - j
  OBVIOUS
<1>2. /\ a \in 0 .. WordBits /\ b \in 0 .. WordBits /\ a + b <= WordBits
      /\ WordBits - j = a + b
  BY <1>1, Bits
<1>3. PowerOfTwo[a + b] = PowerOfTwo[a] * PowerOfTwo[b]
  BY <1>2, PowerOfSum
<1>4. PowerOfTwo[a] \in Nat \ {0} /\ PowerOfTwo[b] \in Nat \ {0}
  BY <1>2, PowerIsPositive
<1>5. (word \div PowerOfTwo[a]) \div PowerOfTwo[b] = word \div (PowerOfTwo[a] * PowerOfTwo[b])
  BY <1>4, DivDiv
<1>6. LeadingBits(word, j) = word \div PowerOfTwo[a + b]
  BY <1>2 DEF LeadingBits
<1>7. LeadingBits(word, k) = word \div PowerOfTwo[a]
  BY <1>1 DEF LeadingBits
<1>8. word \div PowerOfTwo[a + b] = word \div (PowerOfTwo[a] * PowerOfTwo[b])
  BY <1>3
<1>9. (word \div PowerOfTwo[a]) \div PowerOfTwo[b] = LeadingBits(word, k) \div PowerOfTwo[k - j]
  BY <1>1, <1>7
<1> QED
  BY <1>5, <1>6, <1>8, <1>9

\* No leading bits are none.
LEMMA NoLeadingBits ==
    ASSUME NEW word \in Ipv4Words
    PROVE  LeadingBits(word, 0) = 0
<1>1. PICK n : n = PowerOfTwo[WordBits]
  OBVIOUS
<1>2. n \in Nat \ {0} /\ word \in Nat /\ word < n
  BY <1>1, PowerIsPositive, Bits DEF Ipv4Words
<1>3. n * 0 = 0
  BY <1>2
<1>4. word \div n = 0
  BY <1>2, <1>3, DivIs
<1>5. WordBits - 0 = WordBits
  BY Bits
<1> QED
  BY <1>1, <1>4, <1>5 DEF LeadingBits

\* Two words agree in as many leading bits as they have in common, and in all
\* fewer; in no more.
LEMMA CommonBitsProperties ==
    ASSUME NEW a \in Ipv4Words, NEW b \in Ipv4Words
    PROVE  /\ CommonBits(a, b) \in 0 .. WordBits
           /\ \A k \in 0 .. WordBits :
                 LeadingBits(a, k) = LeadingBits(b, k) <=> k <= CommonBits(a, b)
<1> DEFINE agreed == {k \in 0 .. WordBits : LeadingBits(a, k) = LeadingBits(b, k)}
<1>1. a \in Nat /\ b \in Nat
  BY PowerIsPositive, Bits DEF Ipv4Words
<1>2. 0 \in agreed /\ agreed \subseteq 0 .. WordBits
  BY NoLeadingBits, Bits
<1>3. PICK c : c = CommonBits(a, b)
  OBVIOUS
<1>4. c = Max(agreed)
  BY <1>3 DEF CommonBits
<1>5. c \in agreed /\ \A k \in agreed : k <= c
  BY <1>2, <1>4, MaxIsGreatest
<1>6. ASSUME NEW k \in 0 .. WordBits, k <= c
      PROVE  LeadingBits(a, k) = LeadingBits(b, k)
  <2>1. c \in 0 .. WordBits /\ k \in 0 .. c /\ LeadingBits(a, c) = LeadingBits(b, c)
    BY <1>5, <1>6, Bits
  <2>2. /\ LeadingBits(a, k) = LeadingBits(a, c) \div PowerOfTwo[c - k]
        /\ LeadingBits(b, k) = LeadingBits(b, c) \div PowerOfTwo[c - k]
    BY <1>1, <2>1, FewerLeadingBits
  <2> QED
    BY <2>1, <2>2
<1> QED
  BY <1>3, <1>5, <1>6

\* A netmask is all ones and then zeros.
LEMMA MaskIs ==
    ASSUME NEW q \in 0 .. WordBits, q # 0
    PROVE  PrefixLengthToMaskBits(q) = PowerOfTwo[WordBits] - PowerOfTwo[WordBits - q]
<1>1. PICK n, j : n = PowerOfTwo[WordBits] /\ j = PowerOfTwo[WordBits - q]
  OBVIOUS
<1>2. WordBits - q \in 0 .. WordBits /\ (WordBits - q) + q = WordBits
      /\ (WordBits - q) + q <= WordBits /\ WordBits \in 0 .. WordBits
  BY Bits
<1>3. n \in Nat \ {0} /\ j \in Nat \ {0} /\ PowerOfTwo[q] \in Nat \ {0}
  BY <1>1, <1>2, PowerIsPositive
<1>4. n = j * PowerOfTwo[q]
  <2>1. PICK i : i = WordBits - q
    OBVIOUS
  <2>2. i \in 0 .. WordBits /\ i + q <= WordBits /\ i + q = WordBits
    BY <1>2, <2>1
  <2>3. PowerOfTwo[i + q] = PowerOfTwo[i] * PowerOfTwo[q]
    BY <2>2, PowerOfSum
  <2> QED
    BY <1>1, <2>1, <2>2, <2>3
<1>5. j <= n
  <2>1. \A x, y \in Nat \ {0} : x <= x * y
    OBVIOUS
  <2> QED
    BY <1>3, <1>4, <2>1
<1>6. (n - 1) * j = n * (j - 1) + (n - j)
  BY <1>3
<1>7. PICK p, f, r : p = (n - 1) * j /\ f = j - 1 /\ r = n - j
  OBVIOUS
<1>8. p \in Nat /\ f \in Nat /\ r \in Nat /\ r < n
  BY <1>3, <1>5, <1>7
<1>9. p = n * f + r
  BY <1>6, <1>7, Zenon
<1>10. p % n = r
  BY <1>3, <1>8, <1>9, DivIs
<1>11. PrefixLengthToMaskBits(q) = p % n
  BY <1>1, <1>7 DEF PrefixLengthToMaskBits
<1> QED
  BY <1>1, <1>7, <1>10, <1>11

\* The leading bits of a netmask from its length on.
LEMMA LeadingBitsOfMask ==
    ASSUME NEW q \in 0 .. WordBits, q # 0, NEW k \in q .. WordBits
    PROVE  LeadingBits(PrefixLengthToMaskBits(q), k) = PowerOfTwo[k] - PowerOfTwo[k - q]
<1>1. PICK a, b, c : a = WordBits - k /\ b = k - q /\ c = WordBits - q
  OBVIOUS
<1>2. /\ a \in 0 .. WordBits /\ b \in 0 .. WordBits /\ c \in 0 .. WordBits
      /\ k \in 0 .. WordBits
      /\ a + k = WordBits /\ a + b = c /\ a + k <= WordBits /\ a + b <= WordBits
      /\ WordBits \in 0 .. WordBits
  BY <1>1, Bits
<1>3. /\ PowerOfTwo[WordBits] = PowerOfTwo[a] * PowerOfTwo[k]
      /\ PowerOfTwo[c] = PowerOfTwo[a] * PowerOfTwo[b]
  <2>1. PowerOfTwo[a + k] = PowerOfTwo[a] * PowerOfTwo[k]
    BY <1>2, PowerOfSum
  <2>2. PowerOfTwo[a + b] = PowerOfTwo[a] * PowerOfTwo[b]
    BY <1>2, PowerOfSum
  <2> QED
    BY <1>2, <2>1, <2>2
<1>4. PICK x, y, z : x = PowerOfTwo[a] /\ y = PowerOfTwo[k] /\ z = PowerOfTwo[b]
  OBVIOUS
<1>5. x \in Nat \ {0} /\ y \in Nat \ {0} /\ z \in Nat \ {0}
  BY <1>2, <1>4, PowerIsPositive
<1>6. z <= y
  <2>1. b + q = k /\ b + q <= WordBits
    BY <1>1, <1>2, Bits
  <2>2. PowerOfTwo[b + q] = PowerOfTwo[b] * PowerOfTwo[q]
    BY <1>2, <2>1, PowerOfSum
  <2>3. PowerOfTwo[q] \in Nat \ {0}
    BY PowerIsPositive
  <2>4. \A u, v \in Nat \ {0} : u <= u * v
    OBVIOUS
  <2>5. y = z * PowerOfTwo[q]
    BY <1>4, <2>1, <2>2
  <2> QED
    BY <1>5, <2>3, <2>4, <2>5
<1>7. PICK mask, d : mask = PrefixLengthToMaskBits(q) /\ d = y - z
  OBVIOUS
<1>8. mask = x * y - x * z
  BY <1>1, <1>3, <1>4, <1>7, MaskIs
<1>9. d \in Nat /\ x * y - x * z = x * d + 0
  BY <1>5, <1>6, <1>7
<1>10. mask = x * d + 0 /\ mask \in Nat
  BY <1>5, <1>8, <1>9
<1>11. mask \div x = d
  <2>1. 0 < x
    BY <1>5
  <2> QED
    BY <1>5, <1>9, <1>10, <2>1, DivIs
<1>12. LeadingBits(mask, k) = mask \div x
  BY <1>1, <1>4 DEF LeadingBits
<1> QED
  BY <1>1, <1>4, <1>7, <1>11, <1>12

\* The length that a netmask is made from is the one that it shows.
LEMMA MaskShowsLength ==
    ASSUME NEW q \in 0 .. WordBits, q # 0
    PROVE  PrefixLengthFromNetmask(PrefixLengthToMaskBits(q)) = q
<1> DEFINE mask == PrefixLengthToMaskBits(q)
           ones == {k \in 0 .. WordBits : LeadingBits(mask, k) = PowerOfTwo[k] - 1}
<1>1. PowerOfTwo[0] = 1
  BY PowerUnfolds, Bits
<1>2. q \in ones
  <2>1. q \in q .. WordBits /\ q - q = 0
    BY Bits
  <2> QED
    BY <1>1, <2>1, LeadingBitsOfMask
<1>3. ASSUME NEW k \in ones PROVE k <= q
  <2> SUFFICES ASSUME ~(k <= q) PROVE FALSE
    OBVIOUS
  <2>1. k \in 0 .. WordBits /\ k \in q .. WordBits
    BY Bits
  <2>2. PICK b : b = k - q
    OBVIOUS
  <2>3. b \in 0 .. WordBits /\ b # 0 /\ b - 1 \in 0 .. WordBits
    BY <2>1, <2>2, Bits
  <2>4. PowerOfTwo[b] = 2 * PowerOfTwo[b - 1] /\ PowerOfTwo[b - 1] \in Nat \ {0}
    BY <2>3, PowerUnfolds, PowerIsPositive
  <2>5. PowerOfTwo[k] \in Nat
    BY <2>1, PowerIsPositive
  <2>6. LeadingBits(mask, k) = PowerOfTwo[k] - PowerOfTwo[b]
    BY <2>1, <2>2, LeadingBitsOfMask
  <2>7. LeadingBits(mask, k) = PowerOfTwo[k] - 1
    OBVIOUS
  <2> HIDE DEF mask
  <2> QED
    BY <2>4, <2>5, <2>6, <2>7
<1>4. Max(ones) \in ones /\ \A k \in ones : k <= Max(ones)
  <2>1. ones \subseteq 0 .. WordBits /\ ones # {}
    BY <1>2
  <2> HIDE DEF ones
  <2> QED
    BY <2>1, MaxIsGreatest
<1>5. Max(ones) = q
  <2>1. Max(ones) <= q /\ q <= Max(ones) /\ Max(ones) \in 0 .. WordBits
    BY <1>2, <1>3, <1>4
  <2> QED
    BY <2>1, Bits
<1> QED
  BY <1>5 DEF PrefixLengthFromNetmask

\* The inferred length is no longer than what the addresses have in common, but
\* for the first byte.
LEMMA InferredLength ==
    ASSUME NEW sender \in Ipv4Words, NEW target \in Ipv4Words
    PROVE  LET q == InferPrefixLength(sender, target)
               common == CommonBits(sender, target)
           IN /\ q \in 0 .. WordBits /\ q # 0
              /\ IF ByteBits <= common THEN q <= common ELSE q = ByteBits
<1>1. PICK q, common, rounded :
          /\ q = InferPrefixLength(sender, target)
          /\ common = CommonBits(sender, target)
          /\ rounded = (common \div ByteBits) * ByteBits
  OBVIOUS
<1>2. common \in 0 .. WordBits
  BY <1>1, CommonBitsProperties
<1>3. q = IF common = WordBits THEN 3 * ByteBits ELSE Max({ByteBits, rounded})
  BY <1>1 DEF InferPrefixLength
<1>4. rounded \in Nat /\ rounded <= common /\ (common < ByteBits => rounded = 0)
  <2>1. PICK d, r : d = common \div ByteBits /\ r = common % ByteBits
    OBVIOUS
  <2>2. /\ common \in Nat /\ d \in Nat /\ r \in Nat /\ common = ByteBits * d + r
    BY <1>2, <2>1, Bits, DivMod
  <2>3. rounded = ByteBits * d
    BY <1>1, <2>1, <2>2, Bits
  <2>4. ByteBits * d \in Nat
    BY <2>2, Bits, Times
  <2>5. common < ByteBits => d = 0
    <3>1. d # 0 => ByteBits <= ByteBits * d
      BY <2>2, Bits
    <3> QED
      BY <2>2, <2>4, <3>1, Bits
  <2>6. ByteBits * 0 = 0
    BY Bits
  <2> QED
    BY <2>2, <2>3, <2>4, <2>5, <2>6
<1>5. ByteBits \in 0 .. WordBits /\ rounded \in 0 .. WordBits
  BY <1>2, <1>4, Bits
<1>6. Max({ByteBits, rounded}) \in {ByteBits, rounded}
      /\ ByteBits <= Max({ByteBits, rounded}) /\ rounded <= Max({ByteBits, rounded})
  <2>1. {ByteBits, rounded} \subseteq 0 .. WordBits /\ {ByteBits, rounded} # {}
    BY <1>5
  <2> QED
    BY <2>1, MaxIsGreatest
<1>7. CASE common = WordBits
  <2>1. q = 3 * ByteBits
    BY <1>3, <1>7
  <2>2. q \in 0 .. WordBits /\ q # 0 /\ ByteBits <= common /\ q <= common
    BY <1>7, <2>1, Bits
  <2> QED
    BY <1>1, <2>2
<1>8. CASE common # WordBits
  <2>1. q \in {ByteBits, rounded} /\ ByteBits <= q
    BY <1>3, <1>6, <1>8
  <2>2. q \in 0 .. WordBits /\ q # 0
    BY <1>5, <2>1, Bits
  <2>3. ByteBits <= common => q <= common
    BY <1>4, <2>1
  <2>4. ~(ByteBits <= common) => q = ByteBits
    <3>1. ~(ByteBits <= common) => rounded = 0
      BY <1>2, <1>4, Bits
    <3> QED
      BY <2>1, <3>1, Bits
  <2> QED
    BY <1>1, <2>2, <2>3, <2>4
<1> QED
  BY <1>7, <1>8

\* The inferred netmask puts the two addresses into one network if they agree in
\* the first byte, and only then.
LEMMA InferredNetmaskReaches ==
    ASSUME NEW sender \in Ipv4Words, NEW target \in Ipv4Words
    PROVE  SameNetwork(sender, target,
                       PrefixLengthToMaskBits(InferPrefixLength(sender, target)))
              <=> SameFirstByte(sender, target)
<1>1. PICK q, common : /\ q = InferPrefixLength(sender, target)
                       /\ common = CommonBits(sender, target)
  OBVIOUS
<1>2. /\ q \in 0 .. WordBits /\ q # 0
      /\ IF ByteBits <= common THEN q <= common ELSE q = ByteBits
  BY <1>1, InferredLength
<1>3. PrefixLengthFromNetmask(PrefixLengthToMaskBits(q)) = q
  BY <1>2, MaskShowsLength
<1>4. SameNetwork(sender, target, PrefixLengthToMaskBits(q))
         <=> LeadingBits(sender, q) = LeadingBits(target, q)
  BY <1>3 DEF SameNetwork
<1>5. /\ LeadingBits(sender, q) = LeadingBits(target, q) <=> q <= common
      /\ LeadingBits(sender, ByteBits) = LeadingBits(target, ByteBits) <=> ByteBits <= common
  <2>1. ByteBits \in 0 .. WordBits
    BY Bits
  <2> QED
    BY <1>1, <1>2, <2>1, CommonBitsProperties
<1>6. q <= common <=> ByteBits <= common
  BY <1>2
<1> QED
  BY <1>1, <1>4, <1>5, <1>6 DEF SameFirstByte

USE DEF NoAddress, Configurers

(***************************************************************************)
(* The invariant holds                                                     *)
(***************************************************************************)

\* Before the first Open the interface is nobody's or somebody else's.
LEMMA InitInv == Init => IInv
  <1> SUFFICES ASSUME Init PROVE IInv
    OBVIOUS
  <1>1. PICK address : /\ interface \in ByOthers(address)
                       /\ configurer = IF address = NoAddress THEN "nobody" ELSE "others"
    BY DEF Init
  <1>2. interface = [address |-> interface.address, netmask |-> interface.netmask,
                     up |-> interface.up]
    BY <1>1, OthersResult
  <1>3. Shape
    <2>1. pc = "closed" /\ heard = NoResult
      BY DEF Init
    <2>2. heard \in Results
      BY <2>1, ZeroIsWord DEF NoResult, Results
    <2> QED BY <1>1, <1>2, <2>1, <2>2 DEF Shape, Steps
  <1>4. Budget
    <2>1. remaining = 0 /\ elapsed = 0
      BY DEF Init
    <2> QED BY <2>1, TimeoutIsNat DEF Budget
  <1>5. OwnHasAddress /\ HalfConfigured /\ OwnConfigurationComplete
    BY <1>1 DEF Init, OwnHasAddress, HalfConfigured, OwnConfigurationComplete
  <1>6. Consent
    BY DEF Init, Consent
  <1> QED BY <1>3, <1>4, <1>5, <1>6 DEF IInv

\* A step that leaves the interface, the budget and the history alone and ends
\* Open, or goes on to a step of which the invariant says nothing.
LEMMA QuietStep ==
    ASSUME IInv, UNCHANGED <<interfaceVars, probeVars, callVars, heard>>,
           pc' \in {"closed", "socket", "open"}
    PROVE  IInv'
  BY DEF IInv, Shape, Steps, Budget, OwnHasAddress, HalfConfigured, OwnConfigurationComplete,
         Consent, InferredNetmask, interfaceVars, probeVars, callVars

\* Another process takes the interface over, whatever Open is doing.
LEMMA ReconfigureInv ==
    ASSUME IInv, Reconfigure
    PROVE  IInv'
  <1>1. PICK address : /\ interface' \in ByOthers(address)
                       /\ configurer' = IF address = NoAddress THEN "nobody" ELSE "others"
    BY DEF Reconfigure
  <1>2. interface' = [address |-> interface'.address, netmask |-> interface'.netmask,
                      up |-> interface'.up]
    BY <1>1, OthersResult
  <1> QED
    BY <1>1, <1>2
    DEF Reconfigure, IInv, Shape, Budget, OwnHasAddress, HalfConfigured,
        OwnConfigurationComplete, Consent, probeVars

\* Open notes the address that it finds and begins with a full budget.
LEMMA OpenCalledInv ==
    ASSUME IInv, OpenCalled
    PROVE  IInv'
  <1>1. Shape'
    <2>1. pc' \in {"inspect", "socket"} /\ UNCHANGED <<interfaceVars, heard>>
      BY DEF OpenCalled
    <2> QED BY <2>1 DEF IInv, Shape, Steps, interfaceVars
  <1>2. Budget'
    <2>1. elapsed' = 0 /\ remaining' = TimeoutTicks
      BY DEF OpenCalled
    <2> QED BY <2>1, TimeoutIsNat DEF Budget
  <1>3. OwnHasAddress' /\ HalfConfigured' /\ OwnConfigurationComplete'
    BY DEF OpenCalled, IInv, OwnHasAddress, HalfConfigured, OwnConfigurationComplete,
           InferredNetmask, interfaceVars
  <1>4. Consent'
    BY DEF OpenCalled, Consent, interfaceVars
  <1> QED BY <1>1, <1>2, <1>3, <1>4 DEF IInv

\* An interface without an address is nobody's or somebody else's.
LEMMA InspectInv ==
    ASSUME IInv, Inspect
    PROVE  IInv'
  <1>1. CASE pc' = "probe"
    BY <1>1
    DEF Inspect, IInv, Shape, Steps, Budget, OwnHasAddress, HalfConfigured,
        OwnConfigurationComplete, Consent, InferredNetmask, interfaceVars, probeVars, callVars, Fail
  <1>2. CASE pc' # "probe"
    <2>1. pc' \in {"closed", "socket"} /\ UNCHANGED <<interfaceVars, probeVars, callVars, heard>>
      BY <1>2 DEF Inspect, Fail
    <2> QED BY <2>1, QuietStep
  <1> QED BY <1>1, <1>2

\* A poll takes its wait off the budget.
LEMMA PollInv ==
    ASSUME IInv, PollHearsNothing \/ PollHearsFrame
    PROVE  IInv'
  <1>1. PICK ticks \in 0 .. Wait : Spend(ticks)
    <2>1. CASE PollHearsNothing
      <3>1. Wait \in 0 .. Wait
        BY WaitIsLeft DEF IInv, Budget
      <3> QED BY <2>1, <3>1 DEF PollHearsNothing
    <2>2. CASE PollHearsFrame
      BY <2>2 DEF PollHearsFrame
    <2> QED BY <2>1, <2>2
  <1>2. remaining' = remaining - Wait
    BY DEF PollHearsNothing, PollHearsFrame
  <1>3. Budget'
    BY <1>1, <1>2, SpendKeepsBudget DEF IInv
  <1>4. /\ pc = "probe" /\ pc' \in {"probe", "receive"}
        /\ UNCHANGED <<interfaceVars, callVars, heard>>
    BY DEF PollHearsNothing, PollHearsFrame
  <1> QED
    BY <1>3, <1>4
    DEF IInv, Shape, Steps, OwnHasAddress, HalfConfigured, OwnConfigurationComplete, Consent,
        InferredNetmask, interfaceVars, callVars

\* Only an interface that is not the library's own is about to be configured,
\* so a new target is no news for an earlier configuration.
LEMMA ReceiveFrameInv ==
    ASSUME IInv, ReceiveFrame
    PROVE  IInv'
  <1>1. /\ pc = "receive" /\ pc' \in {"probe", "setAddress"}
        /\ pc' = "setAddress" => heard'.target # 0
        /\ heard' \in Results
        /\ UNCHANGED <<interfaceVars, probeVars, callVars>>
    <2>1. PICK frame \in LinkFrames :
              IF NamesTarget(frame)
              THEN pc' = "setAddress" /\ heard' = [sender |-> frame.sender,
                                                  target |-> frame.target]
              ELSE pc' = "probe" /\ UNCHANGED heard
      BY DEF ReceiveFrame
    <2>2. pc = "receive" /\ UNCHANGED <<interfaceVars, probeVars, callVars>>
      BY DEF ReceiveFrame
    <2>3. CASE NamesTarget(frame)
      <3>1. frame.target # 0
        BY <2>3, Zenon DEF NamesTarget
      <3>2. heard' = [sender |-> frame.sender, target |-> frame.target]
        BY <2>1, <2>3
      <3>3. frame.sender \in Ipv4Words /\ frame.target \in Ipv4Words
        BY UdpOpenAssumption DEF Frames
      <3>4. heard' \in Results
        BY <3>2, <3>3 DEF Results
      <3> QED BY <2>1, <2>2, <2>3, <3>1, <3>2, <3>4
    <2>4. CASE ~NamesTarget(frame)
      BY <2>1, <2>2, <2>4 DEF IInv, Shape
    <2> QED BY <2>3, <2>4
  <1> QED
    BY <1>1
    DEF IInv, Shape, Steps, Budget, OwnHasAddress, HalfConfigured, OwnConfigurationComplete,
        Consent, interfaceVars, probeVars, callVars

\* One step per ioctl of the configuration.
LEMMA ConfigureInv ==
    ASSUME IInv, SetAddress \/ SetNetmask \/ GetFlags \/ SetFlags
    PROVE  IInv'
  <1> USE DEF IInv, Shape, Steps, Budget, OwnHasAddress, HalfConfigured,
              OwnConfigurationComplete, Consent, InferredNetmask, interfaceVars, probeVars,
              callVars
  <1>1. CASE SetAddress
    BY <1>1 DEF SetAddress
  <1>2. CASE SetNetmask
    BY <1>2 DEF SetNetmask
  <1>3. CASE GetFlags
    BY <1>3 DEF GetFlags
  <1>4. CASE SetFlags
    BY <1>4 DEF SetFlags
  <1> QED BY <1>1, <1>2, <1>3, <1>4

\* Every step keeps the invariant.
LEMMA NextInv == IInv /\ [Next]_udpOpenVars => IInv'
  <1> SUFFICES ASSUME IInv, [Next]_udpOpenVars PROVE IInv'
    OBVIOUS
  <1>1. CASE OpenCalled
    BY <1>1, OpenCalledInv
  <1>2. CASE CallFails \/ ProbeTimesOut \/ Reinspect \/ OpenSocket \/ Close
    <2>1. pc' \in {"closed", "socket", "open"}
          /\ UNCHANGED <<interfaceVars, probeVars, callVars, heard>>
      BY <1>2 DEF CallFails, ProbeTimesOut, Reinspect, OpenSocket, Close, Fail
    <2> QED BY <2>1, QuietStep
  <1>3. CASE Inspect
    BY <1>3, InspectInv
  <1>4. CASE PollHearsNothing \/ PollHearsFrame
    BY <1>4, PollInv
  <1>5. CASE ReceiveFrame
    BY <1>5, ReceiveFrameInv
  <1>6. CASE SetAddress \/ SetNetmask \/ GetFlags \/ SetFlags
    BY <1>6, ConfigureInv
  <1>7. CASE Reconfigure
    BY <1>7, ReconfigureInv
  <1>8. CASE UNCHANGED udpOpenVars
    BY <1>8
    DEF udpOpenVars, IInv, Shape, Budget, OwnHasAddress, HalfConfigured,
        OwnConfigurationComplete, Consent, InferredNetmask, interfaceVars, probeVars, callVars
  <1> QED BY <1>1, <1>2, <1>3, <1>4, <1>5, <1>6, <1>7, <1>8 DEF Next, Step

\* The invariant holds in every reachable state.
LEMMA InvHolds == Spec => []IInv
  BY InitInv, NextInv, PTL DEF Spec

(***************************************************************************)
(* Theorems                                                                *)
(***************************************************************************)

\* The probe never keeps a caller longer than autoConfigTimeoutMs, whatever the
\* link carries.
THEOREM ProbeKeepsItsBudget == Spec => []ProbeWithinTimeout
  <1>1. IInv => ProbeWithinTimeout
    BY TimeoutIsNat DEF IInv, Budget, ProbeWithinTimeout
  <1> QED BY <1>1, InvHolds, PTL

\* A configuration that ConfigureInterfaceIpv4 has brought to its end, and that
\* nobody has changed since, is the one that the probe asked for.
THEOREM ConfigurationIsComplete == Spec => []OwnConfigurationComplete
  <1>1. IInv => OwnConfigurationComplete
    BY DEF IInv
  <1> QED BY <1>1, InvHolds, PTL

\* The netmask that InferPrefixLength and PrefixLengthToMaskBits make puts the
\* host into the camera's network, whenever the first byte of the two addresses
\* lets it, for every pair of addresses.
THEOREM CameraIsOnOwnNetwork == Spec => []CameraOnOwnNetwork
  <1>1. IInv => CameraOnOwnNetwork
    <2> SUFFICES ASSUME IInv, configurer = "self"
                 PROVE  /\ interface.address # NoAddress
                        /\ SameNetwork(heard.sender, interface.address, interface.netmask)
                              <=> SameFirstByte(heard.sender, heard.target)
      BY DEF CameraOnOwnNetwork
    <2>1. interface.address # NoAddress
      BY DEF IInv, OwnHasAddress
    <2>2. interface.address = heard.target /\ interface.netmask = InferredNetmask
      BY DEF IInv, OwnConfigurationComplete
    <2>3. heard.sender \in Ipv4Words /\ heard.target \in Ipv4Words
      BY DEF IInv, Shape, Results
    <2> QED
      BY <2>1, <2>2, <2>3, InferredNetmaskReaches DEF InferredNetmask
  <1> QED BY <1>1, InvHolds, PTL

\* PrepareUdpInterface changes the interface only with autoConfig, and never
\* while an address that it found there is still in place.
THEOREM ForeignAddressIsLeftAlone == Spec => LeavesForeignAddressAlone
  <1>1. IInv /\ [Next]_udpOpenVars =>
            [Step /\ interface' # interface =>
                autoConfig /\ (foundAddress # NoAddress => disturbed)]_udpOpenVars
    <2> SUFFICES ASSUME IInv, Step, interface' # interface
                 PROVE  autoConfig /\ (foundAddress # NoAddress => disturbed)
      OBVIOUS
    <2>1. pc \in {"setAddress", "setNetmask", "setFlags"}
      BY DEF Step, CallFails, Inspect, PollHearsNothing, PollHearsFrame, ReceiveFrame,
             ProbeTimesOut, SetAddress, SetNetmask, GetFlags, SetFlags, Reinspect, OpenSocket,
             interfaceVars
    <2> QED BY <2>1 DEF IInv, Consent
  <1> QED BY <1>1, InvHolds, PTL DEF Spec, LeavesForeignAddressAlone
=============================================================================
