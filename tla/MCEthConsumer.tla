---------------------------- MODULE MCEthConsumer ----------------------------
(* Instances of EthConsumer for TLC: one partition per topic, a block, two *)
(* wall-clock instants, and the logs below.                                *)
EXTENDS EthConsumer, TLC

CONSTANTS pb, pt, pk,       \* partitions of blocks, transactions, token_transfers
          b1, w1, w2,       \* a chain time and two wall-clock instants
          kb, t1, t2, k1, k2    \* record keys

MCTopic == (pb :> "blocks") @@ (pt :> "transactions") @@ (pk :> "token_transfers")

Rec(id, value, shape, stamp) ==
    [id |-> id, block |-> b1, value |-> value, shape |-> shape, stamp |-> stamp]

BlockOne     == Rec(kb, 0, "valid", "chain")
Whale(id)    == Rec(id, 2, "valid", "chain")      \* exactly at the threshold of 2
Small(id)    == Rec(id, 1, "valid", "chain")
Plain(id)    == Rec(id, 0, "valid", "chain")      \* a transfer with its timestamp
Undated(id)  == Rec(id, 0, "valid", "absent")     \* a transfer to be enriched
Nulled(id)   == Rec(id, 0, "valid", "null")
Empty(id)    == Rec(id, 0, "empty", "absent")
Malformed(id) == Rec(id, 0, "malformed", "absent")

(* A block, a full batch of transactions, a whale among them, and a token  *)
(* transfer that needs the block time.                                     *)
SafetyLog == (pb :> <<BlockOne>>)
          @@ (pt :> <<Whale(t1), Empty(t2), Small(t2)>>)
          @@ (pk :> <<Undated(k1)>>)

(* One full batch and a tail.                                              *)
LivenessLog == (pb :> <<>>)
            @@ (pt :> <<Small(t1), Malformed(t2), Whale(t2)>>)
            @@ (pk :> <<Plain(k2)>>)

(* Records without a usable timestamp.                                     *)
NulledLog == (pb :> <<>>) @@ (pt :> <<Nulled(t1), Nulled(t2)>>) @@ (pk :> <<Nulled(k1)>>)
=============================================================================
