---------------------------- MODULE MCWhaleTables ----------------------------
(* Amounts in units of 100 ETH and times in hours: a plain address, an     *)
(* exchange, an address that the label file and the manual labels both     *)
(* name, and contract creations.                                           *)
EXTENDS WhaleTables

Tx(f, t, v, h, rs) == [from |-> f, to |-> t, value |-> v, time |-> h, receipts |-> rs]

MCTransactions ==
    {Tx(f, t, v, 1, <<1>>) : f \in {"a", "x", "d"}, t \in {"a", "x"}, v \in {1, 6}}
      \cup {Tx("a", "x", v, 1, rs) : v \in {0, 1, 3}, rs \in {<<>>, <<0>>, <<1>>, <<1, 1>>}}
      \cup {Tx("a", "x", 1, 2, <<1>>), Tx("x", "a", 3, 1, <<1>>), Tx("a", "d", 1, 1, <<1>>),
            Tx("a", Null, 6, 2, <<1>>), Tx("x", Null, 1, 1, <<0, 1>>)}

MCLabelRows ==
    {[address |-> "x", category |-> "CEX"], [address |-> "d", category |-> "DEX"],
     [address |-> "d", category |-> "Burn"]}

MCSilverTiers == <<1, 10, 100>>
MCGoldTiers == <<1, 5, 10>>
=============================================================================
