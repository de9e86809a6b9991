----------------------------- MODULE EthConsumer -----------------------------
(***************************************************************************)
(* The stream consumer (src/src/consumer): one single-threaded process     *)
(* that polls the topics blocks, transactions and token_transfers, caches  *)
(* block times in Redis, buffers records, and flushes a full buffer with   *)
(* flush_batches: insert, database commit, whale alerts, offset commit.    *)
(*                                                                         *)
(* Every call that leaves the process is a step of its own, because it may *)
(* fail, and the process may die or be told to stop between any two steps. *)
(* A Kafka topic is a constant log per partition: a poll that returns      *)
(* nothing stands for a record that has not been produced yet.  A position *)
(* counts the records read, so record i of p is read once position[p] >= i.*)
(***************************************************************************)
EXTENDS Naturals, Sequences

CONSTANTS
    Partition,      \* the topic partitions assigned to the consumer
    Topic,          \* the topic each partition belongs to
    Log,            \* the records of each partition, in offset order
    Id,             \* keys of records: hash, or (transaction_hash, log_index)
    Block,          \* block numbers; a block number also names its chain time
    WallClock,      \* what datetime.now() may return
    BatchSize,      \* settings.BATCH_SIZE
    WhaleThreshold, \* settings.WHALE_THRESHOLD_WEI
    MaxRetries,     \* Redis look-ups repeated by enrich_token_timestamp
    QueueCap,       \* queue.buffering.max.messages of the alert producer
    BufferCap       \* bound of the model: records the process holds at most

(* shape: "empty" has no value or does not parse as JSON, "malformed" is   *)
(* refused by pydantic, "valid" is accepted.  stamp: the block timestamp   *)
(* is given ("chain"), given but null or unreadable ("null"), or absent.   *)
Record == [id: Id, block: Block, value: Nat,
           shape: {"valid", "malformed", "empty"},
           stamp: {"chain", "null", "absent"}]

Time  == Block \cup WallClock
Entry == [rec: Record, ts: Time]     \* a pydantic model in a batch
Row   == [id: Id, ts: Time]          \* a row of the database, by its key
Offsets == [Partition -> Nat]

ASSUME ConsumerAssumption ==
    /\ Topic \in [Partition -> {"blocks", "transactions", "token_transfers"}]
    /\ Log \in [Partition -> Seq(Record)]
    /\ Id # {} /\ Block # {}
    /\ Block \cap WallClock = {}
    /\ BatchSize \in Nat \ {0}
    /\ WhaleThreshold \in Nat
    /\ MaxRetries \in Nat
    /\ QueueCap \in Nat
    /\ BufferCap \in Nat

VARIABLES
    committed,  \* offsets of the consumer group stored by the broker
    requested,  \* offsets last handed to the asynchronous commit
    position,   \* what poll has returned so far, per partition
    pc,         \* where the process stands
    running,    \* the flag signal_handler clears
    reason,     \* which caller runs flush_batches
    txBatch, tokenBatch,
    held,       \* the token transfer being enriched
    retries,    \* look-ups repeated for it
    staged,     \* rows inserted by the open database transaction
    cursor,     \* how far publish_whale_alerts has come in txBatch
    queue,      \* alerts in the producer's send buffer
    error,      \* KafkaProducerClient._error is set
    alerts,     \* alerts in the whale-alerts topic
    rows,       \* committed rows of transactions and token_transfers
    cache       \* blocks whose time is in Redis

offsetVars == <<committed, requested, position>>
batchVars  == <<txBatch, tokenBatch>>
enrichVars == <<held, retries>>
alertVars  == <<cursor, queue, error, alerts>>
dbVars     == <<staged, rows>>
vars == <<offsetVars, pc, running, reason, batchVars, enrichVars, alertVars,
          dbVars, cache>>

-----------------------------------------------------------------------------
(* A step of the process that changes nothing but where it stands.         *)
Goto(l) ==
    /\ pc' = l
    /\ UNCHANGED <<offsetVars, running, reason, batchVars, enrichVars,
                   alertVars, dbVars, cache>>

(* The timestamps the field validator may give a record that carries one.  *)
Stamps(r) == IF r.stamp = "chain" THEN {r.block} ELSE WallClock

IsWhale(r) == r.value >= WhaleThreshold

RowOf(e) == [id |-> e.rec.id, ts |-> e.ts]

RowsOf(batch) == {RowOf(batch[i]) : i \in DOMAIN batch}

Buffered == Len(txBatch) + Len(tokenBatch)

(* Any record will do when no token transfer is being enriched.            *)
NoRecord == [id |-> CHOOSE x \in Id : TRUE, block |-> CHOOSE b \in Block : TRUE,
             value |-> 0, shape |-> "empty", stamp |-> "absent"]

(* Everything the process holds in memory is gone.                         *)
ForgetMemory ==
    /\ txBatch' = <<>> /\ tokenBatch' = <<>>
    /\ held' = NoRecord /\ retries' = 0
    /\ staged' = {}
    /\ cursor' = 0 /\ queue' = <<>> /\ error' = FALSE

Init ==
    /\ committed = [p \in Partition |-> 0]
    /\ requested = committed
    /\ position = committed
    /\ pc = "down" /\ running = TRUE /\ reason = "batch"
    /\ txBatch = <<>> /\ tokenBatch = <<>>
    /\ held = NoRecord /\ retries = 0
    /\ staged = {}
    /\ cursor = 0 /\ queue = <<>> /\ error = FALSE
    /\ alerts = {} /\ rows = {} /\ cache = {}

-----------------------------------------------------------------------------
(* main: start-up and the poll loop.                                       *)

(* Mutant: the group's offsets are ignored, reading starts from earliest.  *)
StartFromEarliest ==
    /\ pc = "down"
    /\ pc' = "poll" /\ running' = TRUE /\ reason' = "batch"
    /\ position' = [p \in Partition |-> 0] /\ requested' = committed
    /\ ForgetMemory
    /\ UNCHANGED <<committed, alerts, rows, cache>>

(* A new process joins the group at the committed offsets; a commit that   *)
(* its predecessor left on the wire is refused from now on (old member).   *)
Start ==
    /\ pc = "down"
    /\ pc' = "poll" /\ running' = TRUE /\ reason' = "batch"
    /\ position' = committed /\ requested' = committed
    /\ ForgetMemory
    /\ UNCHANGED <<committed, alerts, rows, cache>>

(* poll timed out, or met the end of a partition.                          *)
PollNothing == pc = "poll" /\ running /\ Goto("check")

NextRecord(p) == Log[p][position[p] + 1]

(* Common to the polls that return the next record of p.                   *)
Take(p) ==
    /\ pc = "poll" /\ running
    /\ position[p] < Len(Log[p])
    /\ position' = [position EXCEPT ![p] = @ + 1]
    /\ UNCHANGED <<committed, requested, running, reason, alertVars, dbVars>>

(* A tombstone or unparsable value is passed over; a record that fails     *)
(* validation restarts the loop without reaching the flush check.          *)
PollUnusable(p) ==
    /\ Take(p)
    /\ NextRecord(p).shape # "valid"
    /\ pc' = IF NextRecord(p).shape = "empty" THEN "check" ELSE "poll"
    /\ UNCHANGED <<batchVars, enrichVars, cache>>

PollBlock(p) ==
    /\ Take(p)
    /\ Topic[p] = "blocks" /\ NextRecord(p).shape = "valid"
    /\ cache' = cache \cup {NextRecord(p).block}
    /\ pc' = "check"
    /\ UNCHANGED <<batchVars, enrichVars>>

(* setex raises: not a ValidationError, so the loop is left.               *)
PollBlockFails(p) ==
    /\ Take(p)
    /\ Topic[p] = "blocks" /\ NextRecord(p).shape = "valid"
    /\ pc' = "exit"
    /\ UNCHANGED <<batchVars, enrichVars, cache>>

PollTransaction(p) ==
    /\ Take(p)
    /\ Topic[p] = "transactions" /\ NextRecord(p).shape = "valid"
    /\ Buffered < BufferCap
    /\ \E t \in Stamps(NextRecord(p)) :
          txBatch' = Append(txBatch, [rec |-> NextRecord(p), ts |-> t])
    /\ pc' = "check"
    /\ UNCHANGED <<tokenBatch, enrichVars, cache>>

(* A token transfer that carries a timestamp is buffered at once; one that *)
(* does not goes through enrich_token_timestamp first.                     *)
PollToken(p) ==
    /\ Take(p)
    /\ Topic[p] = "token_transfers" /\ NextRecord(p).shape = "valid"
    /\ Buffered < BufferCap
    /\ IF NextRecord(p).stamp = "absent"
       THEN /\ held' = NextRecord(p) /\ retries' = 0
            /\ pc' = "enrich"
            /\ UNCHANGED tokenBatch
       ELSE /\ \E t \in Stamps(NextRecord(p)) :
                  tokenBatch' = Append(tokenBatch, [rec |-> NextRecord(p), ts |-> t])
            /\ pc' = "check"
            /\ UNCHANGED enrichVars
    /\ UNCHANGED <<txBatch, cache>>

(* poll raises KafkaException, which nothing in the loop catches.          *)
PollError == pc = "poll" /\ running /\ Goto("exit")

(* The loop condition is false: control passes to the finally clause.      *)
LeaveLoop == pc = "poll" /\ ~running /\ Goto("exit")

-----------------------------------------------------------------------------
(* enrich_token_timestamp: one step per Redis look-up.                     *)

EnrichHit ==
    /\ pc = "enrich" /\ held.block \in cache
    /\ tokenBatch' = Append(tokenBatch, [rec |-> held, ts |-> held.block])
    /\ held' = NoRecord /\ retries' = 0
    /\ pc' = "check"
    /\ UNCHANGED <<offsetVars, running, reason, txBatch, alertVars, dbVars, cache>>

(* Mutant: the limit is off by one.                                        *)
EnrichRetryOnceMore ==
    /\ pc = "enrich" /\ held.block \notin cache /\ retries <= MaxRetries
    /\ retries' = retries + 1
    /\ UNCHANGED <<offsetVars, pc, running, reason, batchVars, held, alertVars,
                   dbVars, cache>>

(* Mutant: the first look-up is thrown away, a cached time is retried too. *)
EnrichRetryAlways ==
    /\ pc = "enrich" /\ retries < MaxRetries
    /\ retries' = retries + 1
    /\ UNCHANGED <<offsetVars, pc, running, reason, batchVars, held, alertVars,
                   dbVars, cache>>

EnrichRetry ==
    /\ pc = "enrich" /\ held.block \notin cache /\ retries < MaxRetries
    /\ retries' = retries + 1
    /\ UNCHANGED <<offsetVars, pc, running, reason, batchVars, held, alertVars,
                   dbVars, cache>>

(* The transfer is skipped; its offset has already been passed.            *)
EnrichGiveUp ==
    /\ pc = "enrich" /\ held.block \notin cache /\ retries = MaxRetries
    /\ held' = NoRecord /\ retries' = 0
    /\ pc' = "check"
    /\ UNCHANGED <<offsetVars, running, reason, batchVars, alertVars, dbVars, cache>>

(* The look-up raises.                                                     *)
EnrichFails ==
    /\ pc = "enrich"
    /\ held' = NoRecord /\ retries' = 0
    /\ pc' = "exit"
    /\ UNCHANGED <<offsetVars, running, reason, batchVars, alertVars, dbVars, cache>>

-----------------------------------------------------------------------------
(* flush_batches, called by the loop and by the finally clause.            *)

CheckBatch ==
    pc = "check" /\ Goto(IF Buffered >= BatchSize THEN "connect" ELSE "poll")

EnterFinally ==
    /\ pc = "exit"
    /\ reason' = "shutdown"
    /\ pc' = IF Buffered > 0 THEN "connect" ELSE "close"
    /\ UNCHANGED <<offsetVars, running, batchVars, enrichVars, alertVars,
                   dbVars, cache>>

(* Mutant: the finally clause goes back to the loop after its flush.       *)
ResumeLoop == "poll"

(* Where both callers go on after flush_batches, whether it raised or not. *)
Resume == IF reason = "batch" THEN "poll" ELSE "close"

(* get_connection is outside the try block: nothing to roll back.          *)
ConnectFails == pc = "connect" /\ Goto(Resume)

Connect == pc = "connect" /\ Goto("insert")

(* Both inserts; ON CONFLICT (key, timestamp) DO NOTHING is set union.     *)
InsertBatches ==
    /\ pc = "insert"
    /\ staged' = RowsOf(txBatch) \cup RowsOf(tokenBatch)
    /\ pc' = "commit"
    /\ UNCHANGED <<offsetVars, running, reason, batchVars, enrichVars,
                   alertVars, rows, cache>>

CommitRows ==
    /\ pc = "commit"
    /\ rows' = rows \cup staged
    /\ staged' = {}
    /\ cursor' = 0
    /\ pc' = "publish"
    /\ UNCHANGED <<offsetVars, running, reason, batchVars, enrichVars, queue,
                   error, alerts, cache>>

(* Mutant: the batches are cleared whether the flush succeeded or not.     *)
AbortFlushClearing ==
    /\ staged' = {}
    /\ txBatch' = <<>> /\ tokenBatch' = <<>>
    /\ pc' = Resume
    /\ UNCHANGED <<offsetVars, running, reason, enrichVars, cursor, alerts, cache>>

(* The except clause: roll back, report, and let the caller go on.         *)
AbortFlush ==
    /\ staged' = {}
    /\ pc' = Resume
    /\ UNCHANGED <<offsetVars, running, reason, batchVars, enrichVars, cursor,
                   alerts, cache>>

(* Mutant: a failing insert is logged and the alerts go out all the same.  *)
InsertFailsSilently ==
    /\ pc = "insert"
    /\ cursor' = 0
    /\ pc' = "publish"
    /\ UNCHANGED <<offsetVars, running, reason, batchVars, enrichVars, queue,
                   error, alerts, dbVars, cache>>

InsertFails == pc = "insert" /\ AbortFlush /\ UNCHANGED <<queue, error, rows>>

(* Mutant: a failing COMMIT is logged and the flush goes on.               *)
CommitRowsFailsSilently ==
    /\ pc = "commit"
    /\ rows' \in {rows, rows \cup staged}
    /\ staged' = {} /\ cursor' = 0
    /\ pc' = "publish"
    /\ UNCHANGED <<offsetVars, running, reason, batchVars, enrichVars, queue,
                   error, alerts, cache>>

(* The connection is lost during COMMIT: the server may have obeyed it.    *)
CommitRowsFails ==
    /\ pc = "commit"
    /\ rows' \in {rows, rows \cup staged}
    /\ AbortFlush
    /\ UNCHANGED <<queue, error>>

(* The transactions publish_whale_alerts has still to send.                *)
Unsent == {i \in DOMAIN txBatch : i > cursor /\ IsWhale(txBatch[i].rec)}

SendAlert ==
    /\ pc = "publish"
    /\ Len(queue) < QueueCap
    /\ \E i \in Unsent :
          /\ \A j \in Unsent : i <= j
          /\ queue' = Append(queue, txBatch[i].rec.id)
          /\ cursor' = i
    /\ UNCHANGED <<offsetVars, pc, running, reason, batchVars, enrichVars, error,
                   alerts, dbVars, cache>>

(* produce raises, BufferError when the send buffer is full among others.  *)
(* What was already sent stays in the buffer.                              *)
SendAlertFails ==
    /\ pc = "publish" /\ Unsent # {}
    /\ AbortFlush
    /\ UNCHANGED <<queue, error, rows>>

(* Mutant: the producer is not flushed before the offsets are committed.   *)
SentAllUnflushed == pc = "publish" /\ Unsent = {} /\ Goto("offsets")

(* flush is called only if there was a whale to send.                      *)
SentAll ==
    /\ pc = "publish" /\ Unsent = {}
    /\ Goto(IF \E i \in DOMAIN txBatch : IsWhale(txBatch[i].rec)
            THEN "flush" ELSE "offsets")

(* flush returns once the send buffer is empty; a delivery error reported  *)
(* since the last flush makes it raise, once.                              *)
FlushAlerts == pc = "flush" /\ queue = <<>> /\ ~error /\ Goto("offsets")

(* Mutant: a delivery error is logged but not raised.                      *)
FlushAlertsIgnoresError ==
    /\ pc = "flush" /\ queue = <<>> /\ error
    /\ error' = FALSE
    /\ pc' = "offsets"
    /\ UNCHANGED <<offsetVars, running, reason, batchVars, enrichVars, cursor,
                   queue, alerts, dbVars, cache>>

(* Mutant: the error is raised without being cleared.                      *)
FlushAlertsKeepsError ==
    /\ pc = "flush" /\ queue = <<>> /\ error
    /\ AbortFlush
    /\ UNCHANGED <<queue, error, rows>>

FlushAlertsFails ==
    /\ pc = "flush" /\ queue = <<>> /\ error
    /\ error' = FALSE
    /\ AbortFlush
    /\ UNCHANGED <<queue, rows>>

(* consumer.commit() hands the position of every partition to the client's *)
(* background thread and returns; then the batches are cleared.            *)
CommitOffsets ==
    /\ pc = "offsets"
    /\ requested' = position
    /\ txBatch' = <<>> /\ tokenBatch' = <<>>
    /\ pc' = Resume
    /\ UNCHANGED <<committed, position, running, reason, enrichVars, alertVars,
                   dbVars, cache>>

CommitOffsetsFails ==
    /\ pc = "offsets"
    /\ AbortFlush
    /\ UNCHANGED <<queue, error, rows>>

(* producer close flushes; whatever it raises, the consumer and the pool   *)
(* are closed and the process ends.  (A process that is down has no        *)
(* position: the variable keeps a value nobody reads.)                     *)
Close ==
    /\ pc = "close" /\ queue = <<>>
    /\ pc' = "down"
    /\ ForgetMemory
    /\ position' = requested
    /\ UNCHANGED <<committed, requested, running, reason, alerts, rows, cache>>

-----------------------------------------------------------------------------
(* What happens around the process.                                        *)

(* SIGINT or SIGTERM, at any point.                                        *)
Signal ==
    /\ pc # "down" /\ running
    /\ running' = FALSE
    /\ UNCHANGED <<offsetVars, pc, reason, batchVars, enrichVars, alertVars,
                   dbVars, cache>>

(* SIGKILL, out of memory, host failure: memory and open transaction lost. *)
Crash ==
    /\ pc # "down"
    /\ pc' = "down"
    /\ ForgetMemory
    /\ position' = requested
    /\ UNCHANGED <<committed, requested, running, reason, alerts, rows, cache>>

(* The broker stores the requested offsets, or the request is lost: no     *)
(* callback reports it.  A newer request supersedes an older one.          *)
OffsetsStored ==
    /\ committed # requested
    /\ committed' = requested
    /\ UNCHANGED <<requested, position, pc, running, reason, batchVars,
                   enrichVars, alertVars, dbVars, cache>>

OffsetsLost ==
    /\ committed # requested
    /\ requested' = committed
    /\ UNCHANGED <<committed, position, pc, running, reason, batchVars,
                   enrichVars, alertVars, dbVars, cache>>

(* The group session expires and poll rejoins: fetching restarts at the    *)
(* committed offsets, but the batches keep what they hold.                 *)
Rejoin ==
    /\ pc = "poll" /\ running
    /\ position' = committed /\ requested' = committed
    /\ UNCHANGED <<committed, pc, running, reason, batchVars, enrichVars,
                   alertVars, dbVars, cache>>

(* The broker takes the oldest alert of the send buffer, or its delivery   *)
(* fails after all retries; the failing message may have been stored.      *)
DeliverAlert ==
    /\ queue # <<>>
    /\ alerts' = alerts \cup {Head(queue)}
    /\ queue' = Tail(queue)
    /\ UNCHANGED <<offsetVars, pc, running, reason, batchVars, enrichVars,
                   cursor, error, dbVars, cache>>

(* Mutant: _on_delivery logs the failure and does not keep it.             *)
DeliverAlertFailsUnseen ==
    /\ queue # <<>>
    /\ alerts' \in {alerts, alerts \cup {Head(queue)}}
    /\ queue' = Tail(queue)
    /\ UNCHANGED <<offsetVars, pc, running, reason, batchVars, enrichVars,
                   cursor, error, dbVars, cache>>

DeliverAlertFails ==
    /\ queue # <<>>
    /\ alerts' \in {alerts, alerts \cup {Head(queue)}}
    /\ queue' = Tail(queue)
    /\ error' = TRUE
    /\ UNCHANGED <<offsetVars, pc, running, reason, batchVars, enrichVars,
                   cursor, dbVars, cache>>

(* The 600 seconds of a cached block time are over.                        *)
Expire(b) ==
    /\ b \in cache
    /\ cache' = cache \ {b}
    /\ UNCHANGED <<offsetVars, pc, running, reason, batchVars, enrichVars,
                   alertVars, dbVars>>

-----------------------------------------------------------------------------

Poll(p) == PollUnusable(p) \/ PollBlock(p) \/ PollTransaction(p) \/ PollToken(p)

Enrich == EnrichHit \/ EnrichRetry \/ EnrichGiveUp

Flush == \/ Connect \/ InsertBatches \/ CommitRows \/ SendAlert \/ SentAll
         \/ FlushAlerts \/ CommitOffsets

Leave == LeaveLoop \/ EnterFinally \/ Close

(* What may fail in the process or its surroundings.  While error is set, a *)
(* failed delivery looks like a delivery; it is the first that counts.      *)
Fault ==
    \/ ConnectFails \/ InsertFails \/ CommitRowsFails \/ SendAlertFails
    \/ CommitOffsetsFails \/ (~error /\ DeliverAlertFails) \/ OffsetsLost
    \/ \E p \in Partition : PollBlockFails(p)
    \/ EnrichFails \/ PollError \/ Rejoin \/ Crash \/ Signal

Next ==
    \/ Start \/ PollNothing
    \/ \E p \in Partition : Poll(p)
    \/ Enrich \/ CheckBatch \/ Flush \/ FlushAlertsFails \/ Leave
    \/ OffsetsStored \/ DeliverAlert \/ DeliverAlertFails
    \/ \E b \in Block : Expire(b)
    \/ Fault

Spec == Init /\ [][Next]_vars

(* The consumer is one process under restart: always; librdkafka delivers  *)
(* an alert or gives it up after message.timeout.ms; every partition with  *)
(* records is fetched from again and again.                                *)
Process ==
    \/ PollNothing \/ Enrich \/ CheckBatch \/ Flush \/ FlushAlertsFails \/ Leave

Fairness ==
    /\ WF_vars(Start)
    /\ WF_vars(Process)
    /\ WF_vars(DeliverAlert \/ DeliverAlertFails)
    /\ \A p \in Partition : SF_vars(Poll(p))

FairSpec == Spec /\ Fairness

-----------------------------------------------------------------------------
(* Properties.                                                             *)

(* Every variable has its type, and the counters stay within their limits. *)
TypeOK ==
    /\ committed \in Offsets /\ requested \in Offsets /\ position \in Offsets
    /\ pc \in {"down", "poll", "check", "enrich", "exit", "connect", "insert",
               "commit", "publish", "flush", "offsets", "close"}
    /\ running \in BOOLEAN /\ reason \in {"batch", "shutdown"}
    /\ txBatch \in Seq(Entry) /\ tokenBatch \in Seq(Entry)
    /\ held \in Record /\ retries \in 0 .. MaxRetries
    /\ staged \subseteq Row /\ rows \subseteq Row
    /\ cursor \in Nat
    /\ queue \in Seq(Id) /\ error \in BOOLEAN /\ alerts \subseteq Id
    /\ cache \subseteq Block

(* The consumer owes the database a row for a valid transaction and for a  *)
(* valid token transfer that carries a timestamp.                          *)
Kept(p, r) ==
    /\ r.shape = "valid"
    /\ \/ Topic[p] = "transactions"
       \/ Topic[p] = "token_transfers" /\ r.stamp # "absent"

Alarming(p, r) == Topic[p] = "transactions" /\ Kept(p, r) /\ IsWhale(r)

Stored(r) == \E row \in rows : row.id = r.id

Settled(p, r) == /\ Kept(p, r) => Stored(r)
                 /\ Alarming(p, r) => r.id \in alerts

InBatch(p, r) ==
    \/ Topic[p] = "transactions" /\ \E i \in DOMAIN txBatch : txBatch[i].rec = r
    \/ Topic[p] = "token_transfers"
       /\ \E i \in DOMAIN tokenBatch : tokenBatch[i].rec = r

(* At least once, database: once an offset is stored for the group, every  *)
(* record below it that the consumer keeps has a row, whatever crashed,    *)
(* failed or was retried on the way (flush_batches commits the database    *)
(* before the offsets).                                                    *)
CommittedIsStored ==
    \A p \in Partition : \A i \in 1 .. committed[p] :
        Kept(p, Log[p][i]) => Stored(Log[p][i])

(* At least once, alerts: a whale transaction below a stored offset has    *)
(* been delivered to whale-alerts (the offsets are committed only after    *)
(* the producer was flushed and no delivery error was pending).            *)
CommittedIsAlerted ==
    \A p \in Partition : \A i \in 1 .. committed[p] :
        Alarming(p, Log[p][i]) => Log[p][i].id \in alerts

(* An alert never runs ahead of the database: whoever receives one, or has *)
(* one queued for him, finds the transaction in the table already.         *)
AlertIsStored ==
    \A k \in alerts \cup {queue[i] : i \in DOMAIN queue} :
        \E row \in rows : row.id = k

(* Nothing is lost in memory: a kept record that poll has returned is in   *)
(* the batch awaiting a flush, or its row and its alert are out already,   *)
(* through failed flushes, retries, rejoins and shutdown.                  *)
ConsumedIsSafe ==
    pc # "down" =>
        \A p \in Partition : \A i \in 1 .. position[p] :
            InBatch(p, Log[p][i]) \/ Settled(p, Log[p][i])

(* The retry loop of enrich_token_timestamp cannot succeed: it runs in the *)
(* only thread that would cache the block time, so a time missing at the   *)
(* first look-up is missing at all the others.                             *)
RetryIsFutile == pc = "enrich" /\ retries > 0 => held.block \notin cache

(* The group's offsets never move back, though positions do.               *)
OffsetsNeverRegress ==
    [][\A p \in Partition : committed'[p] >= committed[p]]_vars

(* What each record obliges the consumer to do.                            *)
Due(p, r) == {what \in {"store", "alert"} :
                 IF what = "store" THEN Kept(p, r) ELSE Alarming(p, r)}

Duties == [p \in Partition |-> [i \in 1 .. Len(Log[p]) |->
             [id |-> Log[p][i].id, due |-> Due(p, Log[p][i])]]]

(* Seen from its outputs, the consumer is an at-least-once sink.           *)
Sink == INSTANCE AtLeastOnceSink WITH
    Key     <- Id,
    Duty    <- Duties,
    acked   <- committed,
    stored  <- {row.id : row \in rows},
    alerted <- alerts

(* Every step of the consumer is a step of AtLeastOnceSink or leaves the   *)
(* offsets, the rows and the alerts alone.                                 *)
ImplementsSink == Sink!SinkSpec

(* A stop request ends the process, whatever fails meanwhile: no failing   *)
(* step of the shutdown flush leads back into the loop.                    *)
StopTerminates == (pc # "down" /\ ~running) ~> (pc = "down")

(* Once nothing fails any more, only a batch that is not full stays in     *)
(* memory, and every other kept record is in the database and every other  *)
(* whale in whale-alerts: a flush that failed is retried until it succeeds.*)
OnlyPartialTail ==
    (<>[][~Fault]_vars) =>
        <>[](/\ Buffered < BatchSize
             /\ \A p \in Partition : \A i \in 1 .. Len(Log[p]) :
                   InBatch(p, Log[p][i]) \/ Settled(p, Log[p][i]))

-----------------------------------------------------------------------------
(* The inductive invariant behind the safety properties.                   *)

OffsetOrder ==
    \A p \in Partition :
        /\ committed[p] <= requested[p] /\ requested[p] <= Len(Log[p])
        /\ pc # "down" => requested[p] <= position[p] /\ position[p] <= Len(Log[p])

RequestedIsSettled ==
    \A p \in Partition : \A i \in 1 .. requested[p] : Settled(p, Log[p][i])

(* What flush_batches has achieved by the time it stands at pc.            *)
BatchStaged == pc = "commit" => staged = RowsOf(txBatch) \cup RowsOf(tokenBatch)

BatchStored ==
    pc \in {"publish", "flush", "offsets"} =>
        RowsOf(txBatch) \cup RowsOf(tokenBatch) \subseteq rows

(* A whale sent is delivered, or waits in the send buffer, or its failure  *)
(* is on record; none is left behind the cursor.                           *)
BatchSent ==
    /\ pc \in {"publish", "flush"} =>
          \A i \in DOMAIN txBatch : IsWhale(txBatch[i].rec) /\ i <= cursor =>
              \/ txBatch[i].rec.id \in alerts \/ error
              \/ \E j \in DOMAIN queue : queue[j] = txBatch[i].rec.id
    /\ pc = "flush" => Unsent = {}

BatchAnnounced ==
    pc = "offsets" =>
        \A i \in DOMAIN txBatch :
            IsWhale(txBatch[i].rec) => txBatch[i].rec.id \in alerts

(* The consumer is safe because everything it has read is in the batch or  *)
(* out, and because flush_batches asks for the offsets only when the whole *)
(* batch is out.                                                           *)
IInv ==
    /\ TypeOK /\ OffsetOrder /\ RequestedIsSettled /\ ConsumedIsSafe
    /\ AlertIsStored
    /\ BatchStaged /\ BatchStored /\ BatchSent /\ BatchAnnounced

-----------------------------------------------------------------------------
(* Claims of the documentation that the code does not keep.                *)

(* stream-data.md 11-12 on delivery: a restart repeats data, at least      *)
(* once, and the composite keys absorb it.  Stated for the token transfers *)
(* whose timestamp has to come from Redis.                                 *)
TokenAtLeastOnce ==
    \A p \in Partition : \A i \in 1 .. committed[p] :
        Topic[p] = "token_transfers" /\ Log[p][i].shape = "valid"
            => Stored(Log[p][i])

(* stream-data.md 11-12 on idempotence: the composite primary key keeps a  *)
(* redelivered record from producing a second row.                         *)
OneRowPerRecord == \A x, y \in rows : x.id = y.id => x = y
=============================================================================
