-------------------------- MODULE WhaleTablesProofs --------------------------
(* Theorems about WhaleTables, for every set of transactions and labels,   *)
(* every threshold and tier, and days of any length.                       *)
EXTENDS WhaleTables, FiniteSums, SequenceTheorems

(* What a table of whales is to the aggregations.                          *)
IsTable(w) == IsFiniteSet(w) /\ \A r \in w : r.of.tx.value \in Nat

Amount(w) == [r \in w |-> r.of.tx.value]

LEMMA ValueIsSum ==
    ASSUME NEW w, IsTable(w)
    PROVE  /\ Value(w) = SumFunctionOnSet(Amount(w), w)
           /\ \A v \in SUBSET w : IsTable(v) /\ Value(v) = SumFunctionOnSet(Amount(w), v)
<1>1. ASSUME NEW v \in SUBSET w
      PROVE  IsTable(v) /\ Value(v) = SumFunctionOnSet(Amount(w), v)
  <2>1. IsTable(v)
    BY FS_Subset DEF IsTable
  <2>2. Value(v) = SumFunctionOnSet(Amount(v), v)
    BY DEF Value, SumFunction, Amount
  <2>3. \A r \in v : Amount(v)[r] = Amount(w)[r]
    BY DEF Amount
  <2>. QED  BY <2>1, <2>2, <2>3, SumSame DEF IsTable
<1>. QED  BY <1>1

(* A sum of transfers is a natural number, no less than the sum of some of *)
(* them or than one.                                                       *)
LEMMA ValueNat ==
    ASSUME NEW w, IsTable(w)
    PROVE  Value(w) \in Nat
<1>1. \A r \in w : Amount(w)[r] \in Nat
  BY DEF IsTable, Amount
<1>. QED  BY <1>1, ValueIsSum, SumNat DEF IsTable

LEMMA ValueMonotone ==
    ASSUME NEW w, IsTable(w), NEW v \in SUBSET w
    PROVE  Value(v) <= Value(w)
<1>1. \A r \in w : Amount(w)[r] \in Nat
  BY DEF IsTable, Amount
<1>2. SumFunctionOnSet(Amount(w), v) <= SumFunctionOnSet(Amount(w), w)
  BY <1>1, SumMonotone DEF IsTable
<1>. QED  BY <1>2, ValueIsSum

LEMMA ValueAbove ==
    ASSUME NEW w, IsTable(w), NEW r \in w
    PROVE  r.of.tx.value <= Value(w)
<1>1. \A x \in w : Amount(w)[x] \in Nat
  BY DEF IsTable, Amount
<1>2. Amount(w)[r] <= SumFunctionOnSet(Amount(w), w)
  BY <1>1, SummandBelow DEF IsTable
<1>3. Amount(w)[r] = r.of.tx.value
  BY DEF Amount
<1>. QED  BY <1>2, <1>3, ValueIsSum

-----------------------------------------------------------------------------
(* The books balance: every row is in one group of senders and in one of   *)
(* receivers.                                                              *)

Sender(w) == [r \in w |-> r.of.tx.from]
Receiver(w) == [r \in w |-> r.of.tx.to]
One(w) == [r \in w |-> 1]

LEMMA AddressesFinite ==
    ASSUME NEW w, IsTable(w)
    PROVE  /\ IsFiniteSet(WhaleAddresses(w))
           /\ \A r \in w : Sender(w)[r] \in WhaleAddresses(w) /\ Receiver(w)[r] \in WhaleAddresses(w)
<1>1. IsFiniteSet({Sender(w)[r] : r \in w}) /\ IsFiniteSet({Receiver(w)[r] : r \in w})
  BY ImageIsFinite DEF IsTable
<1>2. WhaleAddresses(w) = {Sender(w)[r] : r \in w} \cup {Receiver(w)[r] : r \in w}
  BY DEF WhaleAddresses, Sender, Receiver
<1>. QED  BY <1>1, <1>2, FS_Union

LEMMA GroupsAre ==
    ASSUME NEW w, NEW a
    PROVE  /\ Groups(Sender(w), w, a) = SentBy(w, a) /\ SentBy(w, a) \in SUBSET w
           /\ Groups(Receiver(w), w, a) = RecvBy(w, a) /\ RecvBy(w, a) \in SUBSET w
BY DEF Groups, Sender, Receiver, SentBy, RecvBy

(* What the groups of an address add up to: s as sender, t as receiver.    *)
AddUp(w, f, s, t, sum, net) ==
    /\ \A r \in w : f[r] \in Nat
    /\ \A a \in WhaleAddresses(w) :
          /\ s[a] = SumFunctionOnSet(f, SentBy(w, a))
          /\ t[a] = SumFunctionOnSet(f, RecvBy(w, a))
          /\ sum[a] = t[a] + s[a] /\ net[a] = t[a] - s[a]

LEMMA SumOverAddresses ==
    ASSUME NEW w, IsTable(w), NEW f, NEW s, NEW t, NEW sum, NEW net,
           AddUp(w, f, s, t, sum, net)
    PROVE  /\ SumFunctionOnSet(net, WhaleAddresses(w)) = 0
           /\ SumFunctionOnSet(sum, WhaleAddresses(w)) = 2 * SumFunctionOnSet(f, w)
<1>. DEFINE A == WhaleAddresses(w)
<1>0. /\ \A r \in w : f[r] \in Nat
      /\ \A a \in A : s[a] = SumFunctionOnSet(f, SentBy(w, a))
      /\ \A a \in A : t[a] = SumFunctionOnSet(f, RecvBy(w, a))
  BY DEF AddUp
<1>1. IsFiniteSet(A) /\ IsFiniteSet(w)
  BY AddressesFinite DEF IsTable
<1>2. SumFunctionOnSet(s, A) = SumFunctionOnSet(f, w)
  <2>1. \A a \in A : s[a] = SumFunctionOnSet(f, Groups(Sender(w), w, a))
    BY <1>0, GroupsAre
  <2>2. \A r \in w : Sender(w)[r] \in A /\ f[r] \in Int
    BY <1>0, AddressesFinite
  <2>. HIDE DEF A
  <2>. QED  BY <1>1, <2>1, <2>2, SumByGroups
<1>3. SumFunctionOnSet(t, A) = SumFunctionOnSet(f, w)
  <2>1. \A a \in A : t[a] = SumFunctionOnSet(f, Groups(Receiver(w), w, a))
    BY <1>0, GroupsAre
  <2>2. \A r \in w : Receiver(w)[r] \in A /\ f[r] \in Int
    BY <1>0, AddressesFinite
  <2>. HIDE DEF A
  <2>. QED  BY <1>1, <2>1, <2>2, SumByGroups
<1>4. \A a \in A : s[a] \in Int /\ t[a] \in Int
  <2>1. \A r \in w : f[r] \in Int
    BY <1>0
  <2>2. \A v \in SUBSET w : SumFunctionOnSet(f, v) \in Int
    BY <1>1, <2>1, SumInt
  <2>. QED  BY <1>0, <2>2, GroupsAre
<1>5. \A a \in A : sum[a] = t[a] + s[a] /\ net[a] = t[a] - s[a]
  BY DEF AddUp
<1>6. /\ SumFunctionOnSet(sum, A) = SumFunctionOnSet(t, A) + SumFunctionOnSet(s, A)
      /\ SumFunctionOnSet(net, A) = SumFunctionOnSet(t, A) - SumFunctionOnSet(s, A)
  <2>. HIDE DEF A
  <2>. QED  BY <1>1, <1>4, <1>5, SumAdds
<1>7. SumFunctionOnSet(f, w) \in Nat
  BY <1>0, <1>1, SumNat
<1>. QED  BY <1>2, <1>3, <1>6, <1>7

LEMMA BooksBalance ==
    ASSUME NEW w, IsTable(w)
    PROVE  /\ SumFunction([a \in WhaleAddresses(w) |-> NetFlow(w, a)]) = 0
           /\ SumFunction([a \in WhaleAddresses(w) |-> TotalActivity(w, a)]) = 2 * Value(w)
           /\ SumFunction([a \in WhaleAddresses(w) |-> TotalTxCount(w, a)])
                 = 2 * Cardinality(w)
<1>. DEFINE A == WhaleAddresses(w)
            s == [a \in A |-> Value(SentBy(w, a))]
            t == [a \in A |-> Value(RecvBy(w, a))]
            net == [a \in A |-> NetFlow(w, a)]
            sum == [a \in A |-> TotalActivity(w, a)]
<1>1. /\ SumFunction(net) = SumFunctionOnSet(net, A)
      /\ SumFunction(sum) = SumFunctionOnSet(sum, A)
  BY DEF SumFunction
<1>2. /\ \A a \in A : s[a] = SumFunctionOnSet(Amount(w), SentBy(w, a))
      /\ \A a \in A : t[a] = SumFunctionOnSet(Amount(w), RecvBy(w, a))
  BY ValueIsSum, GroupsAre
<1>3. \A r \in w : Amount(w)[r] \in Nat
  BY DEF IsTable, Amount
<1>4. \A a \in A : sum[a] = t[a] + s[a] /\ net[a] = t[a] - s[a]
  BY DEF TotalActivity, NetFlow
<1>5. SumFunctionOnSet(net, A) = 0 /\ SumFunctionOnSet(sum, A) = 2 * Value(w)
  <2>1. Value(w) = SumFunctionOnSet(Amount(w), w)
    BY ValueIsSum
  <2>2. /\ SumFunctionOnSet(net, A) = 0
        /\ SumFunctionOnSet(sum, A) = 2 * SumFunctionOnSet(Amount(w), w)
    <3>1. AddUp(w, Amount(w), s, t, sum, net)
      <4>. HIDE DEF s, t, net, sum
      <4>. QED  BY <1>2, <1>3, <1>4 DEF AddUp
    <3>. HIDE DEF s, t, net, sum
    <3>. QED  BY <3>1, SumOverAddresses
  <2>. QED  BY <2>1, <2>2
<1>. DEFINE cs == [a \in A |-> Cardinality(SentBy(w, a))]
            ct == [a \in A |-> Cardinality(RecvBy(w, a))]
            count == [a \in A |-> TotalTxCount(w, a)]
            diff == [a \in A |-> Cardinality(RecvBy(w, a)) - Cardinality(SentBy(w, a))]
<1>6. \A v \in SUBSET w : SumFunctionOnSet(One(w), v) = Cardinality(v) /\ Cardinality(v) \in Nat
  BY SumCounts, FS_Subset, FS_CardinalityType DEF IsTable, One
<1>7. /\ \A a \in A : cs[a] = SumFunctionOnSet(One(w), SentBy(w, a))
      /\ \A a \in A : ct[a] = SumFunctionOnSet(One(w), RecvBy(w, a))
  BY <1>6, GroupsAre
<1>8. \A a \in A : count[a] = ct[a] + cs[a] /\ diff[a] = ct[a] - cs[a]
  BY <1>6, GroupsAre DEF TotalTxCount
<1>9. SumFunctionOnSet(count, A) = 2 * Cardinality(w)
  <2>1. \A r \in w : One(w)[r] \in Nat
    BY DEF One
  <2>2. SumFunctionOnSet(One(w), w) = Cardinality(w)
    BY <1>6
  <2>. HIDE DEF cs, ct, count, diff
  <2>3. AddUp(w, One(w), cs, ct, count, diff)
    BY <1>7, <1>8, <2>1 DEF AddUp
  <2>. QED  BY <2>2, <2>3, SumOverAddresses
<1>10. SumFunction(count) = SumFunctionOnSet(count, A)
  BY DEF SumFunction
<1>. QED  BY <1>1, <1>5, <1>9, <1>10

-----------------------------------------------------------------------------
(* The flag: the last window of a sender holds all its rows, whatever the  *)
(* order, and no window holds more.                                        *)

LEMMA WindowsOf ==
    ASSUME NEW v, IsFiniteSet(v), NEW o \in Orders(v)
    PROVE  /\ Len(o) = Cardinality(v) /\ Len(o) \in Nat
           /\ \A i \in 1..Len(o) : WindowAt(o, i) \in SUBSET v
           /\ Cardinality(v) > 0 => WindowAt(o, Len(o)) = v
<1>. DEFINE n == Cardinality(v)
<1>1. n \in Nat
  BY FS_CardinalityType
<1>2. o \in [1..n -> v] /\ \A i, j \in 1..n : i # j => o[i] # o[j]
  BY DEF Orders, SetToSeqs
<1>. HIDE DEF n
<1>3. Len(o) = n
  BY <1>1, <1>2
<1>4. ASSUME NEW i \in 1..n PROVE WindowAt(o, i) \in SUBSET v
  <2>1. \A k \in 1..i : k \in 1..n
    BY <1>1
  <2>. QED  BY <1>2, <2>1 DEF WindowAt
<1>5. o \in Surjection(1..n, v)
  <2>1. o \in Injection(1..n, v)
    BY <1>2 DEF Injection, IsInjective
  <2>2. Cardinality(1..n) = Cardinality(v)
    BY <1>1, FS_Interval DEF n
  <2>. QED  BY <2>1, <2>2, FS_Injection
<1>6. {o[k] : k \in 1..n} = v
  BY <1>2, <1>5 DEF Surjection
<1>. QED  BY <1>1, <1>3, <1>4, <1>6 DEF WindowAt, n

LEMMA FlagOfTheDay ==
    ASSUME NEW v, IsTable(v), NEW o \in Orders(v)
    PROVE  AddressFlag(o) <=> Cardinality(v) >= HighCount /\ Value(v) >= HighSum
<1>1. IsFiniteSet(v) /\ Cardinality(v) \in Nat /\ Value(v) \in Nat
  BY ValueNat, FS_CardinalityType DEF IsTable
<1>2. HighCount \in Nat \ {0} /\ HighSum \in Nat
  BY TableAssumption
<1>3. ASSUME AddressFlag(o) PROVE Cardinality(v) >= HighCount /\ Value(v) >= HighSum
  <2>1. PICK i \in 1..Len(o) : FlagHighFreq(o, i)
    BY <1>3 DEF AddressFlag
  <2>. DEFINE u == WindowAt(o, i)
  <2>2. u \in SUBSET v
    BY <1>1, WindowsOf
  <2>3. Cardinality(u) >= HighCount /\ Value(u) >= HighSum
    BY <2>1 DEF FlagHighFreq
  <2>. HIDE DEF u
  <2>4. Cardinality(u) <= Cardinality(v) /\ Cardinality(u) \in Nat
    BY <1>1, <2>2, FS_Subset, FS_CardinalityType
  <2>5. Value(u) <= Value(v) /\ Value(u) \in Nat
    BY <2>2, ValueMonotone, ValueIsSum, ValueNat
  <2>. QED  BY <1>1, <1>2, <2>3, <2>4, <2>5
<1>4. ASSUME Cardinality(v) >= HighCount, Value(v) >= HighSum PROVE AddressFlag(o)
  <2>1. Cardinality(v) > 0
    BY <1>1, <1>2, <1>4
  <2>2. WindowAt(o, Len(o)) = v /\ Len(o) \in 1..Len(o)
    BY <1>1, <2>1, WindowsOf
  <2>3. FlagHighFreq(o, Len(o))
    BY <1>4, <2>2 DEF FlagHighFreq
  <2>. QED  BY <2>2, <2>3 DEF AddressFlag
<1>. QED  BY <1>3, <1>4

-----------------------------------------------------------------------------
(* The pressure: a rounded ratio is above 1, above 1.5 or below 1 only if  *)
(* the flows are.                                                          *)

LEMMA Quotient ==
    ASSUME NEW a \in Nat, NEW b \in Nat \ {0}
    PROVE  LET q == a \div b IN q \in Nat /\ b * q <= a /\ a < b * q + b
OBVIOUS

LEMMA RatioIs ==
    ASSUME NEW d \in Nat, NEW w \in Nat \ {0}
    PROVE  /\ RatioOf(d, w) \in Nat
           /\ RatioOf(d, w) > 10000 => d > w
           /\ RatioOf(d, w) < 10000 => d < w
           /\ d >= 2 * w => RatioOf(d, w) > 15000
           /\ w >= 2 * d => RatioOf(d, w) < 6700
<1>. DEFINE q == RatioOf(d, w)
<1>1. q \in Nat /\ 2 * w * q <= 20000 * d + w /\ 20000 * d + w < 2 * w * q + 2 * w
  <2>. DEFINE a == 20000 * d + w
              b == 2 * w
  <2>1. a \in Nat /\ b \in Nat \ {0} /\ q = a \div b
    BY DEF RatioOf
  <2>. HIDE DEF a, b, q
  <2>2. q \in Nat /\ b * q <= a /\ a < b * q + b
    BY <2>1, Quotient
  <2>. QED  BY <2>2 DEF a, b
<1>. HIDE DEF q
<1>2. ASSUME NEW k \in Nat, q >= k PROVE 2 * w * k <= 20000 * d + w
  <2>1. 2 * w * k <= 2 * w * q
    BY <1>1, <1>2
  <2>. QED  BY <1>1, <2>1
<1>3. ASSUME NEW k \in Nat, q <= k PROVE 20000 * d + w < 2 * w * k + 2 * w
  <2>1. 2 * w * q <= 2 * w * k
    BY <1>1, <1>3
  <2>. QED  BY <1>1, <2>1
<1>4. q > 10000 => d > w
  BY <1>1, <1>2
<1>5. q < 10000 => d < w
  BY <1>1, <1>3
<1>6. d >= 2 * w => q > 15000
  BY <1>1, <1>3
<1>7. w >= 2 * d => q < 6700
  BY <1>1, <1>2
<1>. QED  BY <1>1, <1>4, <1>5, <1>6, <1>7 DEF q

Sell == {"STRONG_SELL_PRESSURE", "MILD_SELL_PRESSURE"}
Buy == {"STRONG_BUY_PRESSURE", "MILD_BUY_PRESSURE"}

LEMMA PressureIs ==
    ASSUME NEW d \in Nat, NEW w \in Nat
    PROVE  LET p == PressureLabel(d, w)
           IN  /\ p \in Pressures
               /\ p \in Sell => d > w
               /\ p \in Buy => d < w
               /\ d > 0 /\ d >= 2 * w => p = "STRONG_SELL_PRESSURE"
               /\ w > 0 /\ w >= 2 * d => p = "STRONG_BUY_PRESSURE"
<1>1. CASE w = 0
  BY <1>1 DEF PressureLabel, Pressures, Sell, Buy
<1>2. CASE w # 0 /\ d = 0
  BY <1>2 DEF PressureLabel, Pressures, Sell, Buy
<1>3. CASE w # 0 /\ d # 0
  <2>. DEFINE ratio == RatioOf(d, w)
              p == PressureLabel(d, w)
  <2>1. p = IF ratio > 15000 THEN "STRONG_SELL_PRESSURE"
            ELSE IF ratio > 10000 THEN "MILD_SELL_PRESSURE"
            ELSE IF ratio < 6700 THEN "STRONG_BUY_PRESSURE"
            ELSE IF ratio < 10000 THEN "MILD_BUY_PRESSURE" ELSE "NEUTRAL"
    BY <1>3 DEF PressureLabel
  <2>2. /\ ratio \in Nat /\ (ratio > 10000 => d > w) /\ (ratio < 10000 => d < w)
        /\ (d >= 2 * w => ratio > 15000) /\ (w >= 2 * d => ratio < 6700)
    BY <1>3, RatioIs
  <2>. HIDE DEF ratio, p
  <2>3. /\ p \in Pressures /\ (p \in Sell => d > w) /\ (p \in Buy => d < w)
        /\ (d >= 2 * w => p = "STRONG_SELL_PRESSURE")
        /\ (w >= 2 * d => p = "STRONG_BUY_PRESSURE")
    BY <2>1, <2>2 DEF Pressures, Sell, Buy
  <2>. QED  BY <2>3 DEF p
<1>. QED  BY <1>1, <1>2, <1>3

-----------------------------------------------------------------------------
(* The tier: an address has at least the activity of each of its transfers,*)
(* and the tiers of addresses begin no higher.                             *)

LEMMA TierMonotone ==
    ASSUME NEW x \in Nat, NEW y \in Nat, x <= y
    PROVE  Tier(GoldTiers, y) >= Tier(SilverTiers, x)
<1>. DEFINE S == {i \in 1..Len(SilverTiers) : x >= SilverTiers[i]}
            G == {i \in 1..Len(GoldTiers) : y >= GoldTiers[i]}
<1>1. /\ \A i \in 1..Len(SilverTiers) : GoldTiers[i] <= SilverTiers[i]
      /\ Len(SilverTiers) \in Nat /\ Len(GoldTiers) \in Nat
      /\ Len(SilverTiers) <= Len(GoldTiers)
      /\ \A i \in 1..Len(SilverTiers) : SilverTiers[i] \in Nat
      /\ \A i \in 1..Len(GoldTiers) : GoldTiers[i] \in Nat
  BY TableAssumption
<1>2. S \subseteq G
  <2>. SUFFICES ASSUME NEW i \in S PROVE i \in G
    OBVIOUS
  <2>1. i \in 1..Len(SilverTiers) /\ x >= SilverTiers[i] /\ i \in 1..Len(GoldTiers)
    BY <1>1
  <2>2. y >= GoldTiers[i]
    BY <1>1, <2>1
  <2>. QED  BY <2>1, <2>2
<1>3. IsFiniteSet(G)
  <2>1. IsFiniteSet(1..Len(GoldTiers))
    BY <1>1, FS_Interval
  <2>. QED  BY <2>1, FS_Subset
<1>. HIDE DEF S, G
<1>4. Cardinality(S) <= Cardinality(G) /\ Cardinality(S) \in Nat /\ Cardinality(G) \in Nat
  BY <1>2, <1>3, FS_Subset, FS_CardinalityType
<1>. QED  BY <1>4 DEF Tier, S, G

LEMMA TierOfAddress ==
    ASSUME NEW w, IsTable(w), NEW r \in w, NEW a \in {r.of.tx.from, r.of.tx.to}
    PROVE  AddressTier(w, a) >= WhaleTier(r)
<1>1. /\ IsTable(SentBy(w, a)) /\ Value(SentBy(w, a)) \in Nat
      /\ IsTable(RecvBy(w, a)) /\ Value(RecvBy(w, a)) \in Nat
  BY GroupsAre, ValueIsSum, ValueNat
<1>2. r \in SentBy(w, a) \/ r \in RecvBy(w, a)
  BY DEF SentBy, RecvBy
<1>3. r.of.tx.value \in Nat
  BY DEF IsTable
<1>4. r.of.tx.value <= TotalActivity(w, a) /\ TotalActivity(w, a) \in Nat
  BY <1>1, <1>2, <1>3, ValueAbove DEF TotalActivity
<1>. QED  BY <1>3, <1>4, TierMonotone DEF AddressTier, WhaleTier

-----------------------------------------------------------------------------
(* What the tables hold, on any day.                                       *)

IsDay == day \in [Transactions -> Nat]

EnrichedOf(t) ==
    {[tx |-> t, n |-> n, receipt |-> r] :
        n \in 1..day[t], r \in IF t.receipts = <<>> THEN {0} ELSE 1..Len(t.receipts)}

LEMMA EnrichedFinite ==
    ASSUME IsDay
    PROVE  IsFiniteSet(TxnEnriched) /\ \A e \in TxnEnriched : e.tx \in Transactions
<1>1. ASSUME NEW t \in Transactions PROVE IsFiniteSet(EnrichedOf(t))
  <2>. DEFINE N == 1..day[t]
              R == IF t.receipts = <<>> THEN {0} ELSE 1..Len(t.receipts)
              f == [p \in N \X R |-> [tx |-> t, n |-> p[1], receipt |-> p[2]]]
  <2>1. day[t] \in Nat /\ Len(t.receipts) \in Nat
    BY TableAssumption DEF IsDay
  <2>2. IsFiniteSet(N) /\ IsFiniteSet(R)
    <3>1. 0 \in Int /\ 1 \in Int /\ day[t] \in Int /\ Len(t.receipts) \in Int
      BY <2>1
    <3>2. IsFiniteSet(1..day[t]) /\ IsFiniteSet(1..Len(t.receipts)) /\ IsFiniteSet({0})
      BY <3>1, FS_Interval, FS_Singleton
    <3>. QED  BY <3>2
  <2>3. IsFiniteSet(N \X R)
    BY <2>2, FS_Product
  <2>4. IsFiniteSet({f[p] : p \in N \X R})
    <3>. HIDE DEF f, N, R
    <3>. QED  BY <2>3, ImageIsFinite
  <2>5. ASSUME NEW x \in EnrichedOf(t) PROVE x \in {f[p] : p \in N \X R}
    <3>1. PICK n \in N, r \in R : x = [tx |-> t, n |-> n, receipt |-> r]
      BY DEF EnrichedOf
    <3>. HIDE DEF N, R
    <3>2. <<n, r>> \in N \X R /\ f[<<n, r>>] = x
      BY <3>1
    <3>. QED  BY <3>2
  <2>. DEFINE T == {f[p] : p \in N \X R}
  <2>. HIDE DEF T
  <2>. QED  BY <2>4, <2>5, FS_Subset DEF T
<1>. DEFINE g == [t \in Transactions |-> EnrichedOf(t)]
<1>2. TxnEnriched = UNION {g[t] : t \in Transactions}
  BY DEF TxnEnriched, EnrichedOf
<1>3. IsFiniteSet({g[t] : t \in Transactions})
  BY ImageIsFinite, TableAssumption
<1>4. IsFiniteSet(TxnEnriched)
  BY <1>1, <1>2, <1>3, FS_UNION
<1>. QED  BY <1>4 DEF TxnEnriched

(* A left join with the kept labels finds exactly one category.            *)
LEMMA OneCategory ==
    ASSUME NEW ls \in KeptLabels, NEW a
    PROVE  \E c \in Categories : CategoriesIn(ls, a) = {c}
<1>. DEFINE L == {k \in ls : k.address = a}
<1>1. CASE L = {}
  <2>1. {r.category : r \in L} = {}
    BY <1>1
  <2>. QED  BY <2>1 DEF CategoriesIn, Categories
<1>2. CASE L # {}
  <2>1. PICK r \in LabelRows : r.address = a
    BY <1>2 DEF KeptLabels
  <2>2. Cardinality(L) = 1
    BY <2>1 DEF KeptLabels
  <2>3. IsFiniteSet(L) /\ L \subseteq LabelRows
    BY TableAssumption, FS_Subset DEF KeptLabels
  <2>4. PICK x : L = {x}
    BY <2>2, <2>3, FS_Singleton
  <2>5. {k.category : k \in L} = {x.category} /\ x \in LabelRows
    BY <2>3, <2>4
  <2>6. CategoriesIn(ls, a) = {x.category}
    BY <2>5 DEF CategoriesIn
  <2>. QED  BY <2>5, <2>6 DEF Categories
<1>. QED  BY <1>1, <1>2

Transfers == {e \in TxnEnriched : e.tx.value >= Threshold /\ IsSuccess(e)}

(* So a transfer has exactly one row.                                      *)
CategoryIn(ls, a) == CHOOSE c \in Categories : CategoriesIn(ls, a) = {c}

RowFor(ls, lt, e) ==
    [of |-> e, from |-> CategoryIn(ls, e.tx.from), to |-> CategoryIn(lt, e.tx.to)]

LEMMA RowsAre ==
    ASSUME NEW ls \in KeptLabels, NEW lt \in KeptLabels
    PROVE  /\ WhaleTxns(ls, lt) = {RowFor(ls, lt, e) : e \in Transfers}
           /\ \A e : RowFor(ls, lt, e).of = e
           /\ \A e : {RowFor(ls, lt, e).from, RowFor(ls, lt, e).to} \subseteq Categories
<1>1. \A a : /\ CategoriesIn(ls, a) = {CategoryIn(ls, a)} /\ CategoryIn(ls, a) \in Categories
             /\ CategoriesIn(lt, a) = {CategoryIn(lt, a)} /\ CategoryIn(lt, a) \in Categories
  BY OneCategory DEF CategoryIn
<1>. DEFINE Rows(e) == {[of |-> e, from |-> f, to |-> t] :
                 f \in CategoriesIn(ls, e.tx.from), t \in CategoriesIn(lt, e.tx.to)}
<1>2. \A e : Rows(e) = {RowFor(ls, lt, e)}
  BY <1>1 DEF RowFor
<1>3. WhaleTxns(ls, lt) = UNION {Rows(e) : e \in Transfers}
  BY DEF WhaleTxns, Transfers
<1>4. WhaleTxns(ls, lt) = {RowFor(ls, lt, e) : e \in Transfers}
  <2>. HIDE DEF Rows
  <2>. QED  BY <1>2, <1>3
<1>. QED  BY <1>1, <1>4 DEF RowFor

LEMMA WhalesAreTable ==
    ASSUME IsDay, NEW ls \in KeptLabels, NEW lt \in KeptLabels
    PROVE  IsTable(WhaleTxns(ls, lt))
<1>. DEFINE f == [e \in Transfers |-> RowFor(ls, lt, e)]
<1>1. IsFiniteSet(Transfers)
  BY EnrichedFinite, FS_Subset DEF Transfers
<1>2. WhaleTxns(ls, lt) = {f[e] : e \in Transfers}
  BY RowsAre
<1>3. IsFiniteSet(WhaleTxns(ls, lt))
  <2>. HIDE DEF f
  <2>. QED  BY <1>1, <1>2, ImageIsFinite
<1>4. ASSUME NEW r \in WhaleTxns(ls, lt) PROVE r.of.tx.value \in Nat
  <2>1. r.of \in TxnEnriched
    BY RowsAre DEF Transfers
  <2>. QED  BY <2>1, EnrichedFinite, TableAssumption
<1>. QED  BY <1>3, <1>4 DEF IsTable

-----------------------------------------------------------------------------
(* The theorems.                                                           *)

LEMMA DayInit == Init => IsDay
BY DEF Init, IsDay

LEMMA DayStep == IsDay /\ [Next]_day => IsDay'
BY DEF IsDay, Next, AddTransaction

LEMMA AlwaysADay == Spec => []IsDay
BY DayInit, DayStep, PTL DEF Spec

(* The label joins neither lose nor multiply a transfer                    *)
(* (silver/transform/whale_txns.py, silver/known_labels.py).               *)
THEOREM TransfersOnce == Spec => []EachTransferOnce
<1>1. ASSUME IsDay, NEW ls \in KeptLabels, NEW lt \in KeptLabels
      PROVE  LET w == WhaleTxns(ls, lt)
             IN  /\ {r.of : r \in w} = Transfers
                 /\ \A e \in TxnEnriched : Cardinality({r \in w : r.of = e}) <= 1
  <2>. DEFINE w == WhaleTxns(ls, lt)
  <2>1. w = {RowFor(ls, lt, e) : e \in Transfers} /\ \A e : RowFor(ls, lt, e).of = e
    BY RowsAre
  <2>. HIDE DEF w
  <2>2. {r.of : r \in w} = Transfers
    BY <2>1
  <2>3. ASSUME NEW e \in TxnEnriched PROVE Cardinality({r \in w : r.of = e}) <= 1
    <3>1. {r \in w : r.of = e} = {RowFor(ls, lt, e)} \/ {r \in w : r.of = e} = {}
      BY <2>1
    <3>. DEFINE v == {r \in w : r.of = e}
    <3>2. \/ v = {RowFor(ls, lt, e)}
          \/ v = {}
      BY <3>1
    <3>. HIDE DEF v
    <3>3. Cardinality(v) = 1 \/ Cardinality(v) = 0
      BY <3>2, FS_Singleton, FS_EmptySet
    <3>. QED  BY <3>3 DEF v
  <2>. QED  BY <2>2, <2>3 DEF w
<1>2. IsDay => EachTransferOnce
  BY <1>1 DEF EachTransferOnce, EveryWhaleTable, Transfers
<1>. QED  BY <1>2, AlwaysADay, PTL

(* What some addresses gained the others lost, and every row is counted    *)
(* once as sent and once as received (gold/transform/top_whales_daily.py). *)
THEOREM BooksBalanceEveryDay == Spec => []FlowsCancel
<1>1. IsDay => FlowsCancel
  BY BooksBalance, WhalesAreTable DEF FlowsCancel, EveryWhaleTable
<1>. QED  BY <1>1, AlwaysADay, PTL

(* The flag of an address does not depend on how Spark orders rows of the  *)
(* same timestamp (silver/transform/whale_txns.py, top_whales_daily.py).   *)
THEOREM FlagIgnoresTies == Spec => []FlagWhateverTheTies
<1>1. ASSUME IsDay, NEW ls \in KeptLabels, NEW lt \in KeptLabels,
             NEW a \in WhaleAddresses(WhaleTxns(ls, lt)),
             NEW o \in Orders(SentBy(WhaleTxns(ls, lt), a))
      PROVE  AddressFlag(o) <=> /\ Cardinality(SentBy(WhaleTxns(ls, lt), a)) >= HighCount
                                /\ Value(SentBy(WhaleTxns(ls, lt), a)) >= HighSum
  <2>. DEFINE w == WhaleTxns(ls, lt)
              v == SentBy(w, a)
  <2>1. IsTable(w)
    BY <1>1, WhalesAreTable
  <2>. HIDE DEF w
  <2>2. IsTable(v)
    BY <2>1, GroupsAre, ValueIsSum
  <2>3. o \in Orders(v)
    BY DEF w
  <2>. HIDE DEF v
  <2>4. AddressFlag(o) <=> Cardinality(v) >= HighCount /\ Value(v) >= HighSum
    BY <2>2, <2>3, FlagOfTheDay
  <2>. QED  BY <2>4 DEF v, w
<1>2. IsDay => FlagWhateverTheTies
  BY <1>1 DEF FlagWhateverTheTies, EveryWhaleTable
<1>. QED  BY <1>2, AlwaysADay, PTL

(* Every row of market_flow_hourly has the pressure of its hour's flows.   *)
LEMMA FlowRowIs ==
    ASSUME NEW w, IsTable(w), NEW m \in MarketFlowHourly(w)
    PROVE  /\ m.flow_type \in FlowTypes
           /\ m.deposit \in Nat /\ m.withdrawal \in Nat
           /\ m.pressure = PressureLabel(m.deposit, m.withdrawal)
<1>1. PICK r \in w : m = FlowRow(w, r.of.tx.time, FlowType(r))
  BY DEF MarketFlowHourly
<1>2. ASSUME NEW h, NEW type PROVE FlowAt(w, h, type) \in Nat
  <2>1. {x \in w : x.of.tx.time = h /\ FlowType(x) = type} \in SUBSET w
    OBVIOUS
  <2>. QED  BY <2>1, ValueIsSum, ValueNat DEF FlowAt
<1>3. FlowType(r) \in FlowTypes
  BY DEF FlowType, FlowTypes
<1>. QED  BY <1>1, <1>2, <1>3 DEF FlowRow

(* The pressure points where the flow of the hour does, rounding and zeros *)
(* included (gold/transform/market_flow_hourly.py).                        *)
THEOREM PressureIsRight == Spec => []PressureFollowsFlow
<1>1. ASSUME IsDay, NEW ls \in KeptLabels, NEW lt \in KeptLabels,
             NEW m \in MarketFlowHourly(WhaleTxns(ls, lt))
      PROVE  /\ m.pressure \in Sell => m.deposit > m.withdrawal
             /\ m.pressure \in Buy => m.deposit < m.withdrawal
             /\ (m.deposit > 0 /\ m.deposit >= 2 * m.withdrawal)
                   => m.pressure = "STRONG_SELL_PRESSURE"
             /\ (m.withdrawal > 0 /\ m.withdrawal >= 2 * m.deposit)
                   => m.pressure = "STRONG_BUY_PRESSURE"
  BY <1>1, WhalesAreTable, FlowRowIs, PressureIs
<1>2. IsDay => PressureFollowsFlow
  BY <1>1 DEF PressureFollowsFlow, EveryWhaleTable, Sell, Buy
<1>. QED  BY <1>2, AlwaysADay, PTL

(* The tier of an address is not below that of one of its transfers,       *)
(* though gold and silver cut the tiers at other amounts.                  *)
THEOREM TiersAgree == Spec => []TierNotBelow
<1>1. ASSUME IsDay, NEW ls \in KeptLabels, NEW lt \in KeptLabels,
             NEW r \in WhaleTxns(ls, lt), NEW a \in {r.of.tx.from, r.of.tx.to}
      PROVE  AddressTier(WhaleTxns(ls, lt), a) >= WhaleTier(r)
  BY <1>1, WhalesAreTable, TierOfAddress
<1>2. IsDay => TierNotBelow
  BY <1>1 DEF TierNotBelow, EveryWhaleTable
<1>. QED  BY <1>2, AlwaysADay, PTL

Bounded == SumFunction(day) <= MaxRows

(* The day is bounded, no category of whale_txns is null after the joins,  *)
(* and flow_type and pressure_label are values that the code writes.       *)
THEOREM TypeCorrect == Spec => []TypeOK
<1>1. Init => Bounded
  <2>. SUFFICES ASSUME Init PROVE SumFunction(day) <= MaxRows
    BY DEF Bounded
  <2>1. DOMAIN day = Transactions /\ \A t \in Transactions : day[t] = 0
    BY DEF Init
  <2>2. SumFunctionOnSet(day, Transactions) = 0
    BY <2>1, SumZero, TableAssumption
  <2>. QED  BY <2>1, <2>2, TableAssumption DEF SumFunction
<1>2. IsDay /\ Bounded /\ [Next]_day => Bounded'
  <2>. SUFFICES ASSUME IsDay, Bounded, [Next]_day PROVE SumFunction(day') <= MaxRows
    BY DEF Bounded
  <2>1. CASE UNCHANGED day
    BY <2>1 DEF Bounded
  <2>2. ASSUME NEW t \in Transactions, AddTransaction(t) PROVE SumFunction(day') <= MaxRows
    <3>1. /\ DOMAIN day = Transactions /\ DOMAIN day' = Transactions
          /\ day'[t] = day[t] + 1 /\ \A x \in Transactions \ {t} : day'[x] = day[x]
          /\ \A x \in Transactions : day[x] \in Nat
      BY <2>2 DEF AddTransaction, IsDay
    <3>2. SumFunctionOnSet(day', Transactions) = SumFunctionOnSet(day, Transactions) + 1
      <4>. DEFINE d == 1
      <4>1. /\ IsFiniteSet(Transactions) /\ d \in Int /\ day'[t] = day[t] + d
            /\ \A x \in Transactions : day[x] \in Int
        BY <3>1, TableAssumption
      <4>. HIDE DEF d
      <4>2. SumFunctionOnSet(day', Transactions) = SumFunctionOnSet(day, Transactions) + d
        BY <3>1, <4>1, SumChanges
      <4>. QED  BY <4>2 DEF d
    <3>3. SumFunctionOnSet(day, Transactions) \in Nat
      BY <3>1, SumNat, TableAssumption
    <3>4. SumFunctionOnSet(day, Transactions) < MaxRows
      BY <2>2, <3>1 DEF AddTransaction, SumFunction
    <3>. QED  BY <3>1, <3>2, <3>3, <3>4, TableAssumption DEF SumFunction
  <2>. QED  BY <2>1, <2>2 DEF Next
<1>3. ASSUME IsDay, NEW ls \in KeptLabels, NEW lt \in KeptLabels
      PROVE  /\ \A r \in WhaleTxns(ls, lt) : {r.from, r.to} \subseteq Categories
             /\ \A m \in MarketFlowHourly(WhaleTxns(ls, lt)) :
                   m.flow_type \in FlowTypes /\ m.pressure \in Pressures
  <2>1. \A r \in WhaleTxns(ls, lt) : {r.from, r.to} \subseteq Categories
    BY RowsAre
  <2>. QED  BY <1>3, <2>1, WhalesAreTable, FlowRowIs, PressureIs
<1>4. IsDay /\ Bounded => TypeOK
  BY <1>3 DEF TypeOK, EveryWhaleTable, IsDay, Bounded
<1>5. Spec => []Bounded
  BY <1>1, <1>2, AlwaysADay, PTL DEF Spec
<1>. QED  BY <1>4, <1>5, AlwaysADay, PTL
=============================================================================
