------------------------------ MODULE BronzeRun ------------------------------
(***************************************************************************)
(* The daily bronze DAGs (src/dags/eth_etl_dag*.py) and the exports they   *)
(* call (src/src/storage): the block range of a day is asked from          *)
(* Etherscan, blocks, transactions, receipts of whales and token transfers *)
(* are exported to temporary files and uploaded, checked, and the asset    *)
(* that starts the silver layer is published.                              *)
(*                                                                         *)
(* The three variants differ in their tasks, in which day a run is for,    *)
(* and in the disk: "k8s" and "gke" start a pod for every try of a task,   *)
(* "local" tasks share a directory.  Every call that may fail is a step of *)
(* its own.  Time is counted in blocks: day d has the blocks d * PerDay to *)
(* (d + 1) * PerDay - 1, and clock blocks have been produced.              *)
(***************************************************************************)
EXTENDS Integers, Sequences, FiniteSets, SequencesExt

CONSTANTS
    Variant,    \* which DAG: "k8s", "gke" or "local"
    Days,       \* runs are scheduled for the days 1..Days
    PerDay,     \* blocks of a day
    Retries,    \* retries of default_args
    MaxFaults   \* bound of the model: failures, bad exports and killed tasks

ASSUME BronzeAssumption ==
    /\ Variant \in {"k8s", "gke", "local"}
    /\ Days \in Nat \ {0} /\ PerDay \in Nat \ {0, 1}
    /\ Retries \in Nat /\ MaxFaults \in Nat

VARIABLES
    clock,      \* blocks produced
    run,        \* the day of the run's logical date
    state,      \* "idle" between runs, "running", "failed"
    at,         \* the task, by its place in Plan
    step,       \* the step of that task
    tries,      \* failed tries of the task
    range,      \* what calculate_block_range returned so far
    disk,       \* temporary files of the range that the task can see
    stats,      \* XCom: how each export turned out
    bronze,     \* files in the bucket
    published,  \* days for which the asset event was published
    faults      \* failures so far

vars == <<clock, run, state, at, step, tries, range, disk, stats, bronze,
          published, faults>>
place == <<run, state, at, step, tries>>
store == <<bronze, published>>

Table == {"blocks", "transactions", "receipts", "token_transfers"}

-----------------------------------------------------------------------------
(* The DAGs.                                                               *)

BlockSteps   == <<"export", "up_blocks", "up_txs">>
ReceiptSteps == <<"hashes", "fetch", "up_receipts">>

K8sPlan   == <<"range", "extract", "transfers", "qc", "summary", "publish">>
GkePlan   == <<"range", "extract", "transfers", "qc", "summary", "publish">>
LocalPlan == <<"range", "blocks", "receipts", "transfers", "qc", "summary", "publish">>

Plan == CASE Variant = "k8s" -> K8sPlan
          [] Variant = "gke" -> GkePlan
          [] Variant = "local" -> LocalPlan

StepsOf(t) == CASE t = "range" -> <<"ask_start", "ask_end">>
                [] t = "blocks" -> BlockSteps
                [] t = "receipts" -> ReceiptSteps
                [] t = "extract" -> BlockSteps \o ReceiptSteps
                [] t = "transfers" -> <<"scan", "up_transfers">>
                [] OTHER -> <<t>>

(* The day a run is for.  With create_cron_data_intervals off, the logical *)
(* date is the moment of the trigger: only the k8s DAG takes the day before*)
(* it, which is over by then.                                              *)
K8sTarget   == run - 1
GkeTarget   == run
LocalTarget == run

(* Mutant: the run's own day, as in the other DAGs.                        *)
SameDay == run

Target == CASE Variant = "k8s" -> K8sTarget
            [] Variant = "gke" -> GkeTarget
            [] Variant = "local" -> LocalTarget

(* What the quality checks look at: the local one does not see the         *)
(* transfers' file.                                                        *)
K8sChecked   == Table
GkeChecked   == Table
LocalChecked == Table \ {"token_transfers"}

Checked == CASE Variant = "k8s" -> K8sChecked
             [] Variant = "gke" -> GkeChecked
             [] Variant = "local" -> LocalChecked

NoRange == [from |-> 0, to |-> 0]

TypeOK ==
    /\ clock \in 0..(Days + 1) * PerDay
    /\ run \in 0..Days
    /\ state \in {"idle", "running", "failed"}
    /\ at \in 1..Len(Plan) /\ step \in 1..Len(StepsOf(Plan[at]))
    /\ tries \in 0..Retries
    /\ range.from \in 0..clock /\ range.to \in -1..clock
    /\ disk \subseteq {"block", "tx", "hash", "receipt", "transfer"}
    /\ stats \in [Table -> {"none", "full", "bad"}]
    /\ \A f \in bronze : f.table \in Table /\ f.outcome \in {"full", "bad"}
    /\ published \subseteq 0..Days

Init ==
    /\ clock = PerDay + 1
    /\ run = 0 /\ state = "idle"
    /\ at = 1 /\ step = 1 /\ tries = 0
    /\ range = NoRange
    /\ disk = {}
    /\ stats = [t \in Table |-> "none"]
    /\ bronze = {} /\ published = {}
    /\ faults = 0

-----------------------------------------------------------------------------
(* Airflow.                                                                *)

Mine ==
    /\ clock < (Days + 1) * PerDay
    /\ clock' = clock + 1
    /\ UNCHANGED <<place, range, disk, stats, store, faults>>

(* What a new try of a task finds on its disk.                             *)
DiskOfNextTry(files) == IF Variant = "local" THEN files ELSE {}

(* Mutant: depends_on_past is False.                                       *)
TriggerRegardless ==
    /\ state \in {"idle", "failed"} /\ run < Days /\ clock > (run + 1) * PerDay
    /\ run' = run + 1 /\ state' = "running"
    /\ at' = 1 /\ step' = 1 /\ tries' = 0
    /\ disk' = {} /\ stats' = [t \in Table |-> "none"]
    /\ UNCHANGED <<clock, range, store, faults>>

(* The next run, once its day has begun: max_active_runs is one, and       *)
(* depends_on_past waits for the run before to succeed.                    *)
Trigger ==
    /\ state = "idle" /\ run < Days /\ clock > (run + 1) * PerDay
    /\ run' = run + 1 /\ state' = "running"
    /\ at' = 1 /\ step' = 1 /\ tries' = 0
    /\ disk' = {} /\ stats' = [t \in Table |-> "none"]
    /\ UNCHANGED <<clock, range, store, faults>>

Running(s) == state = "running" /\ StepsOf(Plan[at])[step] = s

(* The step is done, with files on disk: the next one, the next task or    *)
(* the end of the run follows.                                             *)
Proceed(files) ==
    /\ UNCHANGED <<clock, run>>
    /\ IF step < Len(StepsOf(Plan[at]))
       THEN /\ step' = step + 1 /\ disk' = files
            /\ UNCHANGED <<state, at, tries>>
       ELSE /\ step' = 1 /\ tries' = 0 /\ disk' = DiskOfNextTry(files)
            /\ IF at < Len(Plan)
               THEN at' = at + 1 /\ UNCHANGED state
               ELSE at' = 1 /\ state' = "idle"

(* Mutant: one try too many.                                               *)
GiveUpLate(files, again) ==
    /\ disk' = DiskOfNextTry(files)
    /\ IF again /\ tries <= Retries
       THEN step' = 1 /\ tries' = tries + 1 /\ UNCHANGED <<at, state>>
       ELSE state' = "failed" /\ UNCHANGED <<at, step, tries>>
    /\ UNCHANGED <<clock, run, range, stats, store>>

(* The try is over; after the last one the run has failed.                 *)
GiveUp(files, again) ==
    /\ disk' = DiskOfNextTry(files)
    /\ IF again /\ tries < Retries
       THEN step' = 1 /\ tries' = tries + 1 /\ UNCHANGED <<at, state>>
       ELSE state' = "failed" /\ UNCHANGED <<at, step, tries>>
    /\ UNCHANGED <<clock, run, range, stats, store>>

(* What the except and finally clauses of the export remove.               *)
Removed(s) ==
    CASE s \in ToSet(BlockSteps) -> {"block", "tx"}
      [] s \in ToSet(ReceiptSteps) -> {"tx", "hash", "receipt"}
      [] s \in {"scan", "up_transfers"} -> {"transfer"}
      [] OTHER -> {}

(* A call of the step raises.                                              *)
Fail ==
    /\ state = "running" /\ faults < MaxFaults /\ faults' = faults + 1
    /\ GiveUp(disk \ Removed(StepsOf(Plan[at])[step]), TRUE)

(* The task's process or pod is killed: no clause runs.                    *)
Killed ==
    /\ state = "running" /\ faults < MaxFaults /\ faults' = faults + 1
    /\ GiveUp(disk, TRUE)

(* The operator clears a task that was run, and those after it.            *)
Clear(k) ==
    /\ state = "failed" /\ k \in 1..at
    /\ state' = "running" /\ at' = k /\ step' = 1 /\ tries' = 0
    /\ disk' = DiskOfNextTry(IF k = 1 THEN {} ELSE disk)
    /\ UNCHANGED <<clock, run, range, stats, store, faults>>

-----------------------------------------------------------------------------
(* calculate_block_range: two questions to Etherscan.                      *)

(* get_block_number_by_date: the first block of a day, or for a day to     *)
(* come the last block there is.                                           *)
BlockByDate(day) == IF day * PerDay < clock THEN day * PerDay ELSE clock - 1

AskStart ==
    /\ Running("ask_start")
    /\ range' = [NoRange EXCEPT !.from = BlockByDate(Target)]
    /\ Proceed(disk)
    /\ UNCHANGED <<stats, store, faults>>

AskEnd ==
    /\ Running("ask_end")
    /\ range' = [range EXCEPT !.to = BlockByDate(Target + 1) - 1]
    /\ Proceed(disk)
    /\ UNCHANGED <<stats, store, faults>>

-----------------------------------------------------------------------------
(* The exports.                                                            *)

(* ethereumetl returns without an error: the tables it filled are full, or *)
(* one is bad in a way that the quality check sees: an empty file, or a    *)
(* number of receipts that is not that of the whales.  An export that      *)
(* leaves out a part of another table would pass the check; there is none. *)
Outcome(tables) ==
    \/ /\ stats' = [t \in Table |-> IF t \in tables THEN "full" ELSE stats[t]]
       /\ UNCHANGED faults
    \/ /\ faults < MaxFaults /\ faults' = faults + 1
       /\ \E b \in tables :
             stats' = [t \in Table |-> IF t = b THEN "bad"
                                       ELSE IF t \in tables THEN "full" ELSE stats[t]]

(* upload_to_gcs: the name carries the range, a file of the same name is   *)
(* replaced.                                                               *)
Upload(t, files) ==
    LET here == {f \in bronze : /\ f.table = t /\ f.day = Target
                                /\ f.from = range.from /\ f.to = range.to}
        new  == [table |-> t, day |-> Target, from |-> range.from, to |-> range.to,
                 outcome |-> stats[t]]
    IN  /\ bronze' = (bronze \ here) \cup {new}
        /\ Proceed(files)
        /\ UNCHANGED <<range, stats, published, faults>>

ExportBlocks ==
    /\ Running("export")
    /\ Outcome({"blocks", "transactions"})
    /\ Proceed(disk \cup {"block", "tx"})
    /\ UNCHANGED <<range, store>>

UploadBlocks == Running("up_blocks") /\ Upload("blocks", disk)

(* Mutant: the block's clean-up removes the transactions as well.          *)
UploadTransactionsCleaning ==
    Running("up_txs") /\ Upload("transactions", disk \ {"block", "tx"})

(* The transaction file stays for the receipts.                            *)
UploadTransactions == Running("up_txs") /\ Upload("transactions", disk \ {"block"})

(* _extract_tx_hashes raises when there is no transaction file.            *)
ExtractHashes ==
    /\ Running("hashes")
    /\ IF "tx" \in disk
       THEN Proceed(disk \cup {"hash"}) /\ UNCHANGED <<range, stats, store>>
       ELSE GiveUp(disk \ Removed("hashes"), TRUE)
    /\ UNCHANGED faults

(* Without whales an empty file is made, and it counts as full.            *)
FetchReceipts ==
    /\ Running("fetch")
    /\ Outcome({"receipts"})
    /\ Proceed(disk \cup {"receipt"})
    /\ UNCHANGED <<range, store>>

UploadReceipts ==
    Running("up_receipts") /\ Upload("receipts", disk \ {"tx", "hash", "receipt"})

ScanTransfers ==
    /\ Running("scan")
    /\ Outcome({"token_transfers"})
    /\ Proceed(disk \cup {"transfer"})
    /\ UNCHANGED <<range, store>>

(* On success the file is kept for a contracts step that does not exist.   *)
UploadTransfers == Running("up_transfers") /\ Upload("token_transfers", disk)

-----------------------------------------------------------------------------
(* Check, report, publish.                                                 *)

(* AirflowFailException: no retry.                                         *)
QualityCheck ==
    /\ Running("qc")
    /\ IF \A t \in Checked : stats[t] = "full"
       THEN Proceed(disk) /\ UNCHANGED <<range, stats, store>>
       ELSE GiveUp(disk, FALSE)
    /\ UNCHANGED faults

Summary ==
    Running("summary") /\ Proceed(disk) /\ UNCHANGED <<range, stats, store, faults>>

Publish ==
    /\ Running("publish")
    /\ published' = published \cup {Target}
    /\ Proceed(disk)
    /\ UNCHANGED <<range, stats, bronze, faults>>

-----------------------------------------------------------------------------
Work ==
    \/ AskStart \/ AskEnd
    \/ ExportBlocks \/ UploadBlocks \/ UploadTransactions
    \/ ExtractHashes \/ FetchReceipts \/ UploadReceipts
    \/ ScanTransfers \/ UploadTransfers
    \/ QualityCheck \/ Summary \/ Publish

Next ==
    \/ Mine \/ Trigger \/ Work \/ Fail \/ Killed
    \/ \E k \in 1..Len(Plan) : Clear(k)

(* Airflow starts what is due and runs it; the operator sooner or later    *)
(* clears a failed run from its first task.                                *)
Spec ==
    /\ Init /\ [][Next]_vars
    /\ WF_vars(Mine) /\ WF_vars(Trigger) /\ WF_vars(Work) /\ SF_vars(Clear(1))

-----------------------------------------------------------------------------
Partition(t, d) == {f \in bronze : f.table = t /\ f.day = d}

(* What silver is told to read is the day, the whole day and nothing but   *)
(* the day: after whatever retries, kills and cleared tasks, every         *)
(* partition of a published day consists of one complete file with exactly *)
(* the blocks of that day.                                                 *)
PublishedDayIsExact ==
    \A d \in published, t \in Table :
        Partition(t, d) = {[table |-> t, day |-> d, from |-> d * PerDay,
                            to |-> (d + 1) * PerDay - 1, outcome |-> "full"]}

(* Days are published in order and without a gap (depends_on_past).        *)
PublishedInOrder ==
    \A d \in published : \A e \in (IF Variant = "k8s" THEN 0 ELSE 1)..d : e \in published

(* A try of the receipts finds the transactions it reads: what a retried   *)
(* task needs was not removed by the try before.                           *)
RetryFindsInput == Running("hashes") => "tx" \in disk

(* Every day is published in the end, however often tasks failed.          *)
EveryDayPublished == \A d \in 0..Days - 1 : <>(d \in published)
=============================================================================
