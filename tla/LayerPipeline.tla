---------------------------- MODULE LayerPipeline ----------------------------
(***************************************************************************)
(* The silver and the gold DAGs (src/dags/eth_silver_dag_*.py,             *)
(* eth_gold_dag_*.py) with the Spark jobs they run.  An asset event starts *)
(* a run for the day it names; the jobs rebuild that day's partition of    *)
(* their tables; silver publishes an event for gold, which writes its      *)
(* partitions and then appends the same rows to BigQuery.                  *)
(*                                                                         *)
(* What a partition holds is the version of the bronze day it goes back    *)
(* to, 0 when it does not exist.  The two DAGs run at the same time, each  *)
(* with one run at a time (max_active_runs).  Replacing a partition is a   *)
(* delete followed by a rename (Spark's dynamic partition overwrite), so a *)
(* reader in between, and a job that dies in between, find no partition.   *)
(***************************************************************************)
EXTENDS Integers, Sequences, FiniteSets, SequencesExt

CONSTANTS
    Variants,   \* the DAGs that are looked at, of "k8s", "gke" and "local"
    Days,       \* the days are 1..Days
    Retries,    \* retries of default_args
    MaxEvents,  \* bound of the model: publications of bronze, runs by hand
    MaxFaults   \* bound of the model: failures of a job

ASSUME LayerAssumption ==
    /\ Variants \subseteq {"k8s", "gke", "local"} /\ Variants # {}
    /\ Days \in Nat /\ Retries \in Nat
    /\ MaxEvents \in Nat /\ MaxFaults \in Nat

VARIABLES
    variant,    \* the DAGs in use, the same for both layers
    bronze,     \* version of each day in the bronze layer
    due,        \* for a layer, the days of the events no run has consumed
    run,        \* for a layer, the day of its active run, 0 for none
    task,       \* for a job of an active run, where it is
    tries,      \* for a job of an active run, its failed tries
    held,       \* version a job has read and not yet written
    based,      \* version the bronze day had when the silver run started
    caught,     \* jobs of the silver run that ended well after an exception
    silver,     \* versions in the silver partitions
    gold,       \* versions in the gold partitions
    bq,         \* versions appended to the BigQuery tables
    lost,       \* for a layer, days whose last event did not end in a good run
    budget      \* what is left of the bounds

vars == <<variant, bronze, due, run, task, tries, held, based, caught,
          silver, gold, bq, lost, budget>>
tables == <<silver, gold, bq>>

Day == 1..Days
Layer == {"silver", "gold"}

-----------------------------------------------------------------------------
(* The jobs: what they read, and whether main catches what they raise.     *)

TxnEnriched == [table |-> "txn_enriched", reads |-> "bronze", catches |-> FALSE]
TokenFlow   == [table |-> "token_flow", reads |-> "bronze", catches |-> TRUE]
WhaleTxns   == [table |-> "whale_txns", reads |-> "txn_enriched", catches |-> TRUE]

(* The tasks of the local DAG call the builders themselves.                *)
LocalTxnEnriched == TxnEnriched
LocalTokenFlow   == [TokenFlow EXCEPT !.catches = FALSE]
LocalWhaleTxns   == [WhaleTxns EXCEPT !.catches = FALSE]

TopWhales ==
    [table |-> "top_whales_daily", reads |-> "whale_txns", catches |-> FALSE]
TokenPopularity ==
    [table |-> "token_popularity_daily", reads |-> "token_flow", catches |-> FALSE]
MarketFlow ==
    [table |-> "market_flow_hourly", reads |-> "whale_txns", catches |-> FALSE]

K8sSilver   == {TxnEnriched, TokenFlow, WhaleTxns}
GkeSilver   == {TxnEnriched, TokenFlow, WhaleTxns}
LocalSilver == {LocalTxnEnriched, LocalTokenFlow, LocalWhaleTxns}

K8sGold   == {TopWhales, TokenPopularity, MarketFlow}
GkeGold   == {TopWhales, TokenPopularity, MarketFlow}
LocalGold == {TopWhales, TokenPopularity}

Jobs(l) == CASE variant = "k8s"   -> IF l = "silver" THEN K8sSilver ELSE K8sGold
             [] variant = "gke"   -> IF l = "silver" THEN GkeSilver ELSE GkeGold
             [] variant = "local" -> IF l = "silver" THEN LocalSilver ELSE LocalGold

SilverTable == {j.table : j \in LocalSilver}
GoldTable   == {j.table : j \in K8sGold}
Task        == SilverTable \cup GoldTable \cup {"quality_check"}

(* The columns that the quality checks compute with, and those of them in  *)
(* the schema with which they read the table.                              *)
KpiColumns == [txn_enriched |-> {"is_success", "tx_fee_eth", "value_eth"},
               token_flow   |-> {"token_address", "from_dex", "value_normalized"},
               whale_txns   |-> {"value_eth", "has_flag", "flag_cex_deposit"}]
Schema     == [txn_enriched |-> {"is_success", "value_eth"},
               token_flow   |-> {"token_address", "amount"},
               whale_txns   |-> {"value_eth", "flow_type"}]

-----------------------------------------------------------------------------
TypeOK ==
    /\ variant \in Variants
    /\ bronze \in [Day -> 0..MaxEvents]
    /\ due \in [Layer -> SUBSET Day] /\ lost \in [Layer -> SUBSET Day]
    /\ run \in [Layer -> 0..Days]
    /\ task \in [Task -> {"todo", "torn", "written", "done", "failed"}]
    /\ tries \in [Task -> 0..Retries]
    /\ held \in [SilverTable -> 0..MaxEvents] /\ based \in 0..MaxEvents
    /\ caught \subseteq SilverTable
    /\ silver \in [SilverTable -> [Day -> 0..MaxEvents]]
    /\ gold \in [GoldTable -> [Day -> 0..MaxEvents]]
    /\ \A g \in GoldTable, d \in Day : bq[g][d] \in Seq(1..MaxEvents)
    /\ budget \in [events : 0..MaxEvents, faults : 0..MaxFaults]

Init ==
    /\ variant \in Variants
    /\ bronze = [d \in Day |-> 0]
    /\ due = [l \in Layer |-> {}] /\ lost = [l \in Layer |-> {}]
    /\ run = [l \in Layer |-> 0]
    /\ task = [t \in Task |-> "todo"]
    /\ tries = [t \in Task |-> 0]
    /\ held = [t \in SilverTable |-> 0] /\ based = 0 /\ caught = {}
    /\ silver = [t \in SilverTable |-> [d \in Day |-> 0]]
    /\ gold = [g \in GoldTable |-> [d \in Day |-> 0]]
    /\ bq = [g \in GoldTable |-> [d \in Day |-> <<>>]]
    /\ budget = [events |-> MaxEvents, faults |-> MaxFaults]

-----------------------------------------------------------------------------
(* Runs.                                                                   *)

(* The bronze DAG publishes a day, for the first time or again.            *)
BronzePublishes(d) ==
    /\ budget.events > 0 /\ budget' = [budget EXCEPT !.events = @ - 1]
    /\ bronze' = [bronze EXCEPT ![d] = @ + 1]
    /\ due' = [due EXCEPT !["silver"] = @ \cup {d}]
    /\ UNCHANGED <<variant, run, task, tries, held, based, caught, tables, lost>>

(* The tasks of a run.                                                     *)
TasksOf(l) ==
    {j.table : j \in Jobs(l)} \cup (IF l = "silver" THEN {"quality_check"} ELSE {})

Begin(l, d) ==
    /\ run' = [run EXCEPT ![l] = d]
    /\ based' = IF l = "silver" THEN bronze[d] ELSE based
    /\ UNCHANGED <<variant, bronze, task, tries, held, caught, tables>>

(* The run is over: what its tasks were at does not matter any more.       *)
End(l) ==
    /\ run' = [run EXCEPT ![l] = 0]
    /\ task' = [t \in Task |-> IF t \in TasksOf(l) THEN "todo" ELSE task[t]]
    /\ tries' = [t \in Task |-> IF t \in TasksOf(l) THEN 0 ELSE tries[t]]
    /\ IF l = "silver"
       THEN based' = 0 /\ caught' = {} /\ held' = [t \in SilverTable |-> 0]
       ELSE UNCHANGED <<based, caught, held>>
    /\ UNCHANGED <<variant, bronze, tables, budget>>

(* Mutant: the day before the run, not the day of the event.               *)
StartYesterday(l, d) ==
    /\ run[l] = 0 /\ d \in due[l]
    /\ due' = [due EXCEPT ![l] = {}]
    /\ lost' = [lost EXCEPT ![l] = (@ \cup due[l]) \ {d}]
    /\ Begin(l, IF d > 1 THEN d - 1 ELSE d)
    /\ UNCHANGED budget

(* A run consumes every event that waits and works on the day of one of    *)
(* them (events[0]); the others are not heard of again.                    *)
Start(l, d) ==
    /\ run[l] = 0 /\ d \in due[l]
    /\ due' = [due EXCEPT ![l] = {}]
    /\ lost' = [lost EXCEPT ![l] = (@ \cup due[l]) \ {d}]
    /\ Begin(l, d)
    /\ UNCHANGED budget

(* Without an event the day is that of the run's logical date.             *)
StartByHand(l, d) ==
    /\ run[l] = 0 /\ bronze[d] > 0
    /\ budget.events > 0 /\ budget' = [budget EXCEPT !.events = @ - 1]
    /\ lost' = [lost EXCEPT ![l] = @ \ {d}]
    /\ Begin(l, d)
    /\ UNCHANGED due

(* Mutant: the three builds side by side.                                  *)
ReadyAtOnce(j) == TRUE

(* The wiring of silver: enriched before the two others.                   *)
Ready(j) == j.table # "txn_enriched" => task["txn_enriched"] = "done"

(* The version of what job j of layer l finds to read, 0 for nothing.      *)
Input(l, j) == IF j.reads = "bronze" THEN bronze[run[l]] ELSE silver[j.reads][run[l]]

Active(l, j, state) ==
    /\ run[l] # 0 /\ j \in Jobs(l) /\ task[j.table] = state
    /\ l = "silver" => Ready(j)

(* Mutant: one try too many.                                               *)
TryOnceMore(t, lasting) ==
    IF tries[t] <= Retries /\ ~lasting
    THEN tries' = [tries EXCEPT ![t] = @ + 1] /\ task' = [task EXCEPT ![t] = "todo"]
    ELSE task' = [task EXCEPT ![t] = "failed"] /\ UNCHANGED tries

(* A task has failed: it is tried again from its start until its tries are *)
(* used up, at once when what is wrong lasts.                              *)
TryAgain(t, lasting) ==
    IF tries[t] < Retries /\ ~lasting
    THEN tries' = [tries EXCEPT ![t] = @ + 1] /\ task' = [task EXCEPT ![t] = "todo"]
    ELSE task' = [task EXCEPT ![t] = "failed"] /\ UNCHANGED tries

(* Mutant: write_gold_to_bq logs and does not raise again.                 *)
RaiseQuietly(l, j, lasting) ==
    /\ IF j.catches \/ task[j.table] = "written"
       THEN /\ task' = [task EXCEPT ![j.table] = "done"]
            /\ caught' = IF j.catches THEN caught \cup {j.table} ELSE caught
            /\ UNCHANGED tries
       ELSE TryAgain(j.table, lasting) /\ UNCHANGED caught
    /\ UNCHANGED <<variant, bronze, due, run, held, based, silver, lost>>

(* An exception in job j: the task fails, unless main logs it and returns. *)
Raise(l, j, lasting) ==
    /\ IF j.catches
       THEN /\ task' = [task EXCEPT ![j.table] = "done"]
            /\ caught' = caught \cup {j.table}
            /\ UNCHANGED tries
       ELSE TryAgain(j.table, lasting) /\ UNCHANGED caught
    /\ UNCHANGED <<variant, bronze, due, run, held, based, silver, lost>>

(* The process of job j is killed: whatever main would catch, the task     *)
(* fails.                                                                  *)
Dies(l, j, lasting) ==
    /\ TryAgain(j.table, lasting)
    /\ UNCHANGED <<variant, bronze, due, run, held, based, caught, silver, lost>>

(* Reading a partition that is not there raises.                           *)
NoInput(l, j) ==
    /\ Active(l, j, "todo") \/ Active(l, j, "written")
    /\ Input(l, j) = 0
    /\ Raise(l, j, FALSE)
    /\ UNCHANGED <<gold, bq, budget>>

(* What the second half of a gold job appends: the rows are not cached,    *)
(* they are computed again from what silver holds by now.                  *)
Appended(j) == [bq EXCEPT ![j.table][run["gold"]] = Append(@, Input("gold", j))]

(* Any job may raise or be killed at any point: a gold job also between    *)
(* the delete and the rename of its partition, or when the rows have been  *)
(* appended.                                                               *)
Fail(l, j) ==
    /\ \E s \in {"todo", "torn", "written"} : Active(l, j, s)
    /\ budget.faults > 0 /\ budget' = [budget EXCEPT !.faults = @ - 1]
    /\ \E lasting \in BOOLEAN : Raise(l, j, lasting) \/ Dies(l, j, lasting)
    /\ \/ UNCHANGED <<gold, bq>>
       \/ /\ l = "gold" /\ task[j.table] = "todo"
          /\ gold' = [gold EXCEPT ![j.table][run[l]] = 0]
          /\ UNCHANGED bq
       \/ /\ task[j.table] = "written" /\ Input(l, j) > 0
          /\ bq' = Appended(j)
          /\ UNCHANGED gold

-----------------------------------------------------------------------------
(* Silver.                                                                 *)

(* The job has read its input and begins to replace the partition.         *)
Build(j) ==
    /\ Active("silver", j, "todo") /\ Input("silver", j) > 0
    /\ held' = [held EXCEPT ![j.table] = Input("silver", j)]
    /\ silver' = [silver EXCEPT ![j.table][run["silver"]] = 0]
    /\ task' = [task EXCEPT ![j.table] = "torn"]
    /\ UNCHANGED <<variant, bronze, due, run, tries, based, caught, gold, bq, lost, budget>>

WriteSilver(j) ==
    /\ Active("silver", j, "torn")
    /\ silver' = [silver EXCEPT ![j.table][run["silver"]] = held[j.table]]
    /\ held' = [held EXCEPT ![j.table] = 0]
    /\ task' = [task EXCEPT ![j.table] = "done"]
    /\ UNCHANGED <<variant, bronze, due, run, tries, based, caught, gold, bq, lost, budget>>

Built == run["silver"] # 0 /\ \A j \in Jobs("silver") : task[j.table] = "done"

(* A check that cannot read its table returns; one that can asks for       *)
(* columns the schema does not have, and raises.                           *)
Passes(t, readable) == t \in readable => KpiColumns[t] \subseteq Schema[t]

(* quality_check_task, in the local DAG only: in the others it is          *)
(* commented out.                                                          *)
QualityCheck(readable) ==
    /\ variant = "local" /\ Built /\ task["quality_check"] = "todo"
    /\ IF readable = SilverTable
       THEN UNCHANGED budget
       ELSE budget.faults > 0 /\ budget' = [budget EXCEPT !.faults = @ - 1]
    /\ IF \A t \in SilverTable : Passes(t, readable)
       THEN task' = [task EXCEPT !["quality_check"] = "done"] /\ UNCHANGED tries
       ELSE TryAgain("quality_check", FALSE)
    /\ UNCHANGED <<variant, bronze, due, run, held, based, caught, tables, lost>>

PublishSilver ==
    /\ Built /\ (variant = "local" => task["quality_check"] = "done")
    /\ due' = [due EXCEPT !["gold"] = @ \cup {run["silver"]}]
    /\ lost' = [lost EXCEPT !["silver"] = @ \cup (IF caught = {} THEN {} ELSE {run["silver"]})]
    /\ End("silver")

-----------------------------------------------------------------------------
(* Gold.                                                                   *)

WriteGold(j) ==
    /\ Active("gold", j, "todo") /\ Input("gold", j) > 0
    /\ gold' = [gold EXCEPT ![j.table][run["gold"]] = Input("gold", j)]
    /\ task' = [task EXCEPT ![j.table] = "written"]
    /\ UNCHANGED <<variant, bronze, due, run, tries, held, based, caught, silver, bq, lost, budget>>

WriteGoldToBq(j) ==
    /\ Active("gold", j, "written") /\ Input("gold", j) > 0
    /\ bq' = Appended(j)
    /\ task' = [task EXCEPT ![j.table] = "done"]
    /\ UNCHANGED <<variant, bronze, due, run, tries, held, based, caught, silver, gold, lost, budget>>

GoldEnds ==
    /\ run["gold"] # 0 /\ \A j \in Jobs("gold") : task[j.table] = "done"
    /\ End("gold")
    /\ UNCHANGED <<due, lost>>

(* A run with a failed task ends when nothing more of it can run.          *)
RunFails(l) ==
    /\ run[l] # 0
    /\ \E t \in TasksOf(l) : task[t] = "failed"
    /\ \A j \in Jobs(l) : \/ task[j.table] \in {"done", "failed"}
                          \/ l = "silver" /\ ~Ready(j)
    /\ lost' = [lost EXCEPT ![l] = @ \cup {run[l]}]
    /\ End(l)
    /\ UNCHANGED due

-----------------------------------------------------------------------------
Work ==
    \/ \E l \in Layer, d \in Day : Start(l, d)
    \/ \E j \in Jobs("silver") : Build(j) \/ WriteSilver(j)
    \/ QualityCheck(SilverTable) \/ PublishSilver
    \/ \E j \in Jobs("gold") : WriteGold(j) \/ WriteGoldToBq(j)
    \/ \E l \in Layer : RunFails(l) \/ \E j \in Jobs(l) : NoInput(l, j)
    \/ GoldEnds

Next ==
    \/ Work
    \/ \E d \in Day : BronzePublishes(d)
    \/ \E l \in Layer, d \in Day : StartByHand(l, d)
    \/ \E l \in Layer : \E j \in Jobs(l) : Fail(l, j)
    \/ \E readable \in SUBSET SilverTable \ {SilverTable} : QualityCheck(readable)

(* Airflow runs whatever is due; nothing else has to happen.               *)
Spec == Init /\ [][Next]_vars /\ WF_vars(Work)

-----------------------------------------------------------------------------
(* A day is published to gold only with tables that were rebuilt in that   *)
(* run: except for a job whose exception was caught, every table goes back *)
(* to the bronze the run was started for, or to a later one, although the  *)
(* tables are built from each other and the bronze changes meanwhile.      *)
PublishedIsRebuilt ==
    [][PublishSilver => \A t \in SilverTable \ caught :
                            silver[t][run["silver"]] >= based]_vars

(* The version of the rows appended last.                                  *)
Loaded(g, d) == IF bq[g][d] = <<>> THEN 0 ELSE Last(bq[g][d])

(* BigQuery is never behind the gold files: the rows of a partition that   *)
(* was written are in the table, or later ones, unless the day's run is    *)
(* under way or is known to have failed.                                   *)
BigQueryKeepsUp ==
    \A g \in GoldTable, d \in Day :
        run["gold"] # d /\ d \notin lost["gold"] => Loaded(g, d) >= gold[g][d]

Arrived(d) ==
    /\ \A t \in SilverTable : silver[t][d] = bronze[d]
    /\ \A j \in Jobs("gold") :
          gold[j.table][d] = bronze[d] /\ Loaded(j.table, d) = bronze[d]

(* What bronze published last of a day is in all silver and gold tables in *)
(* the end, with three exceptions: a run of the day failed, a caught       *)
(* exception left a table as it was, or the day's event was consumed by a  *)
(* run for another day.                                                    *)
EveryDayArrives ==
    <>[](\A d \in Day : bronze[d] = 0 \/ d \in lost["silver"] \cup lost["gold"] \/ Arrived(d))
=============================================================================
