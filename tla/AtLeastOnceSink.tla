--------------------------- MODULE AtLeastOnceSink ---------------------------
(***************************************************************************)
(* What the consumer promises to whoever looks only at its three outputs:  *)
(* the offsets stored for the group, the rows of the database and the      *)
(* whale-alerts topic.  Nothing is said of batches, retries or crashes.    *)
(***************************************************************************)
EXTENDS Naturals, Sequences

CONSTANTS
    Partition,  \* the topic partitions read
    Key,        \* keys of rows and alerts
    Duty        \* what each record of a partition obliges the sink to do:
                \* [id, due], due being a subset of {"store", "alert"}

VARIABLES
    acked,      \* records per partition that will never be read again
    stored,     \* keys with a row in the database
    alerted     \* keys announced in whale-alerts

sinkVars == <<acked, stored, alerted>>

Done(d) == /\ "store" \in d.due => d.id \in stored
           /\ "alert" \in d.due => d.id \in alerted

SinkInit ==
    /\ acked = [p \in Partition |-> 0]
    /\ stored = {}
    /\ alerted = {}

(* One database transaction makes any number of rows visible at once.      *)
Store ==
    /\ stored \subseteq stored' /\ stored' \subseteq Key
    /\ UNCHANGED <<acked, alerted>>

(* A key is announced only when a reader of the alert can look it up.      *)
Announce ==
    /\ \E k \in stored : alerted' = alerted \cup {k}
    /\ UNCHANGED <<acked, stored>>

(* Offsets move forward, and only over records whose duty is done.         *)
Acknowledge ==
    /\ acked' \in [Partition -> Nat]
    /\ \A p \in Partition :
          /\ acked[p] <= acked'[p] /\ acked'[p] <= Len(Duty[p])
          /\ \A i \in 1 .. acked'[p] : Done(Duty[p][i])
    /\ UNCHANGED <<stored, alerted>>

SinkNext == Store \/ Announce \/ Acknowledge

SinkSpec == SinkInit /\ [][SinkNext]_sinkVars
=============================================================================
