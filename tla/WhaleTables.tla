----------------------------- MODULE WhaleTables -----------------------------
(***************************************************************************)
(* What the Spark jobs compute of a day's whales: txn_enriched and         *)
(* whale_txns (src/src/silver/transform), top_whales_daily and             *)
(* market_flow_hourly (src/src/gold/transform), from any transactions and  *)
(* receipts the bronze layer may hold.  The day grows by one transaction   *)
(* at a time; the tables are operators of it.                              *)
(*                                                                         *)
(* Where Spark leaves the result open it is a set here: which of several   *)
(* labels of an address is kept (a different one in each of the two joins, *)
(* the labels are not cached), and how a window orders rows of the same    *)
(* timestamp.  Amounts are whole numbers; the rounding of sums is left out.*)
(***************************************************************************)
EXTENDS Integers, Sequences, FiniteSets, SequencesExt

CONSTANTS
    Transactions,   \* [from, to, value, time, receipts], each any number of times
    LabelRows,      \* the label file and the manual labels: [address, category]
    Threshold,      \* --whale-threshold
    HighCount,      \* sendings that make a sender one of high frequency
    HighSum,        \* the least sum of these
    SilverTiers,    \* lower ends of the tiers of a transaction, lowest first
    GoldTiers,      \* lower ends of the tiers of an address
    MaxRows         \* bound of the model: transactions of the day

VARIABLE day        \* how often each transaction is among the day's

Null == "null"      \* the receiver of a contract creation
Unknown == "Unknown"

Address == {t.from : t \in Transactions} \cup {t.to : t \in Transactions}

(* The tiers of an address begin no higher than those of a transaction.    *)
ASSUME TableAssumption ==
    /\ IsFiniteSet(Transactions) /\ IsFiniteSet(LabelRows)
    /\ \A t \in Transactions : /\ t.from # Null /\ t.value \in Nat /\ t.time \in Nat
                               /\ t.receipts \in Seq({0, 1})
    /\ \A r \in LabelRows : r.address # Null
    /\ Threshold \in Nat \ {0} /\ HighCount \in Nat \ {0} /\ HighSum \in Nat
    /\ SilverTiers \in Seq(Nat) /\ GoldTiers \in Seq(Nat)
    /\ Len(SilverTiers) <= Len(GoldTiers)
    /\ \A i \in 1..Len(SilverTiers) : GoldTiers[i] <= SilverTiers[i]
    /\ MaxRows \in Nat

Init == day = [t \in Transactions |-> 0]

AddTransaction(t) ==
    /\ SumFunction(day) < MaxRows
    /\ day' = [day EXCEPT ![t] = @ + 1]

Next == \E t \in Transactions : AddTransaction(t)

Spec == Init /\ [][Next]_day

-----------------------------------------------------------------------------
(* Silver.                                                                 *)

(* txn_enriched: transaction n of its kind, once with each of its receipts *)
(* and once without a status when it has none.                             *)
TxnEnriched ==
    UNION {{[tx |-> t, n |-> n, receipt |-> r] :
               n \in 1..day[t],
               r \in IF t.receipts = <<>> THEN {0} ELSE 1..Len(t.receipts)} :
           t \in Transactions}

IsSuccess(e) == e.receipt # 0 /\ e.tx.receipts[e.receipt] = 1

(* Mutant: the labels as they are, without dropDuplicates.                 *)
AllLabels == {LabelRows}

(* load_address_labels: one label of each address, any.                    *)
KeptLabels ==
    {ls \in SUBSET LabelRows :
        \A r \in LabelRows : Cardinality({k \in ls : k.address = r.address}) = 1}

(* Mutant: the null of an address without a label is left as it is.        *)
CategoriesUnfilled(ls, a) ==
    LET found == {r.category : r \in {k \in ls : k.address = a}}
    IN  IF found = {} THEN {Null} ELSE found

(* A left join with the labels.                                            *)
CategoriesIn(ls, a) ==
    LET found == {r.category : r \in {k \in ls : k.address = a}}
    IN  IF found = {} THEN {Unknown} ELSE found

(* whale_txns, with the labels ls of the senders and lt of the receivers.  *)
WhaleTxns(ls, lt) ==
    UNION {{[of |-> e, from |-> f, to |-> t] :
               f \in CategoriesIn(ls, e.tx.from), t \in CategoriesIn(lt, e.tx.to)} :
           e \in {x \in TxnEnriched : x.tx.value >= Threshold /\ IsSuccess(x)}}

FlowType(w) ==
    CASE w.from = Unknown /\ w.to = "CEX"        -> "CEX_DEPOSIT"
      [] w.from = "CEX" /\ w.to = Unknown        -> "CEX_WITHDRAWAL"
      [] "DEX" \in {w.from, w.to}                -> "DEX_TRADE"
      [] "Bridge" \in {w.from, w.to}             -> "BRIDGE_MOVE"
      [] w.from = Unknown /\ w.to = Unknown      -> "PRIVATE_MOVE"
      [] OTHER                                   -> "OTHER"

(* The tier of an amount: 0 Crab, 1 Shark, 2 Whale, 3 Humpback.            *)
Tier(tiers, amount) == Cardinality({i \in 1..Len(tiers) : amount >= tiers[i]})

WhaleTier(w) == Tier(SilverTiers, w.of.tx.value)

Value(rows) == SumFunction([r \in rows |-> r.of.tx.value])

(* The orders in which a window may see the rows of a sender.              *)
Orders(rows) ==
    {o \in SetToSeqs(rows) :
        \A i, j \in 1..Len(o) : i < j => o[i].of.tx.time <= o[j].of.tx.time}

(* Mutant: the window ends before the current row.                         *)
RowsBefore(o, i) == {o[k] : k \in 1..i - 1}

(* The window of row i: unboundedPreceding to currentRow.                  *)
WindowAt(o, i) == {o[k] : k \in 1..i}

FlagHighFreq(o, i) ==
    Cardinality(WindowAt(o, i)) >= HighCount /\ Value(WindowAt(o, i)) >= HighSum

-----------------------------------------------------------------------------
(* Gold: top_whales_daily of the rows w.                                   *)

SentBy(w, a) == {r \in w : r.of.tx.from = a}
RecvBy(w, a) == {r \in w : r.of.tx.to = a}

(* Mutant: an inner join.                                                  *)
BothSides(w) == {r.of.tx.from : r \in w} \cap {r.of.tx.to : r \in w}

(* The outer join of senders and receivers; null is a receiver as well.    *)
WhaleAddresses(w) == {r.of.tx.from : r \in w} \cup {r.of.tx.to : r \in w}

NetFlow(w, a)       == Value(RecvBy(w, a)) - Value(SentBy(w, a))
TotalActivity(w, a) == Value(RecvBy(w, a)) + Value(SentBy(w, a))
TotalTxCount(w, a)  == Cardinality(SentBy(w, a)) + Cardinality(RecvBy(w, a))

(* Mutant: the tier of the net flow.                                       *)
TierOfNet(w, a) == Tier(GoldTiers, NetFlow(w, a))

AddressTier(w, a) == Tier(GoldTiers, TotalActivity(w, a))

(* The flag of a sender is the highest flag of its rows.                   *)
AddressFlag(o) == \E i \in 1..Len(o) : FlagHighFreq(o, i)

-----------------------------------------------------------------------------
(* Gold: market_flow_hourly.  An hour is a time of the model.              *)

FlowAt(w, h, type) == Value({r \in w : r.of.tx.time = h /\ FlowType(r) = type})

(* A rounded ratio in ten thousandths, half up.                            *)
RatioOf(deposit, withdrawal) == (20000 * deposit + withdrawal) \div (2 * withdrawal)

(* Mutant: the wider of two conditions first.                              *)
LabelWideFirst(deposit, withdrawal) ==
    IF withdrawal = 0
    THEN IF deposit = 0 THEN "NEUTRAL" ELSE "STRONG_SELL_PRESSURE"
    ELSE IF deposit = 0 THEN "STRONG_BUY_PRESSURE"
    ELSE LET ratio == RatioOf(deposit, withdrawal)
         IN  IF ratio > 10000 THEN "MILD_SELL_PRESSURE"
             ELSE IF ratio > 15000 THEN "STRONG_SELL_PRESSURE"
             ELSE IF ratio < 6700 THEN "STRONG_BUY_PRESSURE"
             ELSE IF ratio < 10000 THEN "MILD_BUY_PRESSURE" ELSE "NEUTRAL"

(* The when-chain of pressure_label; without any CEX flow the row of the   *)
(* left join is null, filled with NEUTRAL.                                 *)
PressureLabel(deposit, withdrawal) ==
    IF withdrawal = 0
    THEN IF deposit = 0 THEN "NEUTRAL" ELSE "STRONG_SELL_PRESSURE"
    ELSE IF deposit = 0 THEN "STRONG_BUY_PRESSURE"
    ELSE LET ratio == RatioOf(deposit, withdrawal)
         IN  IF ratio > 15000 THEN "STRONG_SELL_PRESSURE"
             ELSE IF ratio > 10000 THEN "MILD_SELL_PRESSURE"
             ELSE IF ratio < 6700 THEN "STRONG_BUY_PRESSURE"
             ELSE IF ratio < 10000 THEN "MILD_BUY_PRESSURE" ELSE "NEUTRAL"

(* The row of an hour and a flow type, with the pressure of the hour.      *)
FlowRow(w, h, type) ==
    LET deposit    == FlowAt(w, h, "CEX_DEPOSIT")
        withdrawal == FlowAt(w, h, "CEX_WITHDRAWAL")
    IN  [hour |-> h, flow_type |-> type, total |-> FlowAt(w, h, type),
         deposit |-> deposit, withdrawal |-> withdrawal,
         pressure |-> PressureLabel(deposit, withdrawal)]

MarketFlowHourly(w) == {FlowRow(w, r.of.tx.time, FlowType(r)) : r \in w}

-----------------------------------------------------------------------------
(* Properties.  All but the first hold of every day and of every choice of *)
(* labels that Spark may make.                                             *)

(* The values whale_txns.py:86-93 and market_flow_hourly.py:58-71 write;    *)
(* docs/silver/silver_transform.md lists other flow types.                 *)
FlowTypes == {"CEX_DEPOSIT", "CEX_WITHDRAWAL", "DEX_TRADE", "BRIDGE_MOVE",
              "PRIVATE_MOVE", "OTHER"}
Pressures == {"STRONG_SELL_PRESSURE", "MILD_SELL_PRESSURE", "NEUTRAL",
              "MILD_BUY_PRESSURE", "STRONG_BUY_PRESSURE"}
Categories == {Unknown} \cup {r.category : r \in LabelRows}

EveryWhaleTable(Holds(_)) == \A ls, lt \in KeptLabels : Holds(WhaleTxns(ls, lt))

(* The day has at most MaxRows transactions.  No category of whale_txns is *)
(* null after the label joins (the coalesce of whale_txns.py), and         *)
(* flow_type and pressure_label have a value that the code writes, which   *)
(* is not always one of those the documentation lists.                     *)
TypeOK ==
    /\ day \in [Transactions -> Nat]
    /\ SumFunction(day) <= MaxRows
    /\ EveryWhaleTable(LAMBDA w :
          /\ \A r \in w : {r.from, r.to} \subseteq Categories
          /\ \A m \in MarketFlowHourly(w) :
                m.flow_type \in FlowTypes /\ m.pressure \in Pressures)

(* The label joins neither lose nor multiply a transfer: whale_txns has    *)
(* one row for each successful receipt of a transfer of the threshold or   *)
(* more, although labels repeat addresses (known_labels.py,                *)
(* dropDuplicates).                                                        *)
EachTransferOnce ==
    EveryWhaleTable(LAMBDA w :
        /\ {r.of : r \in w} = {e \in TxnEnriched : e.tx.value >= Threshold /\ IsSuccess(e)}
        /\ \A e \in TxnEnriched : Cardinality({r \in w : r.of = e}) <= 1)

(* The books of top_whales_daily balance: what some addresses of the day   *)
(* gained the others lost, and every row is counted once as sent and once  *)
(* as received, contract creations and transfers to oneself included.      *)
FlowsCancel ==
    EveryWhaleTable(LAMBDA w :
        /\ SumFunction([a \in WhaleAddresses(w) |-> NetFlow(w, a)]) = 0
        /\ SumFunction([a \in WhaleAddresses(w) |-> TotalActivity(w, a)]) = 2 * Value(w)
        /\ SumFunction([a \in WhaleAddresses(w) |-> TotalTxCount(w, a)])
              = 2 * Cardinality(w))

(* The flags of single rows depend on how the window orders rows of one    *)
(* timestamp; the flag of the address in top_whales_daily does not: it is  *)
(* set when the whole day has enough sendings of a great enough sum.       *)
FlagWhateverTheTies ==
    EveryWhaleTable(LAMBDA w :
        \A a \in WhaleAddresses(w) : \A o \in Orders(SentBy(w, a)) :
            AddressFlag(o) <=> /\ Cardinality(SentBy(w, a)) >= HighCount
                               /\ Value(SentBy(w, a)) >= HighSum)

(* pressure_label points where the flow of the hour does: selling only     *)
(* when more went to the exchanges than came out, buying only when less,   *)
(* and strongly whenever one is twice the other, the rounding of the ratio *)
(* and the zero cases included.                                            *)
PressureFollowsFlow ==
    EveryWhaleTable(LAMBDA w :
        \A m \in MarketFlowHourly(w) :
            LET sell == {"STRONG_SELL_PRESSURE", "MILD_SELL_PRESSURE"}
                buy  == {"STRONG_BUY_PRESSURE", "MILD_BUY_PRESSURE"}
            IN  /\ m.pressure \in sell => m.deposit > m.withdrawal
                /\ m.pressure \in buy => m.deposit < m.withdrawal
                /\ (m.deposit > 0 /\ m.deposit >= 2 * m.withdrawal)
                      => m.pressure = "STRONG_SELL_PRESSURE"
                /\ (m.withdrawal > 0 /\ m.withdrawal >= 2 * m.deposit)
                      => m.pressure = "STRONG_BUY_PRESSURE")

(* An address is not in a lower tier in gold than one of its transfers was *)
(* in silver, though the tiers are cut at other amounts.                   *)
TierNotBelow ==
    EveryWhaleTable(LAMBDA w :
        \A r \in w : \A a \in {r.of.tx.from, r.of.tx.to} :
            AddressTier(w, a) >= WhaleTier(r))

=============================================================================
