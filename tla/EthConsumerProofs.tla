-------------------------- MODULE EthConsumerProofs --------------------------
(* Theorems about EthConsumer, for every log, batch size and capacity: the *)
(* types, the inductive invariant with the safety that follows from it,    *)
(* and that the consumer implements AtLeastOnceSink.                       *)
EXTENDS EthConsumer, SequenceTheorems, TLAPS

-----------------------------------------------------------------------------
(* Types.                                                                  *)

(* The record held by an idle process is a record.                         *)
LEMMA NoRecordType == NoRecord \in Record
BY ConsumerAssumption DEF NoRecord, Record

(* What poll returns next is a record of the log.                          *)
LEMMA NextRecordType ==
    ASSUME TypeOK, NEW p \in Partition, position[p] < Len(Log[p])
    PROVE  NextRecord(p) \in Record /\ position[p] + 1 \in 1 .. Len(Log[p])
<1>1. Log[p] \in Seq(Record) /\ position[p] \in Nat
  BY ConsumerAssumption DEF TypeOK, Offsets
<1>2. Len(Log[p]) \in Nat /\ position[p] + 1 \in 1 .. Len(Log[p])
  BY <1>1
<1>. QED  BY <1>1, <1>2, ElementOfSeq DEF NextRecord

(* The validator yields a time.                                            *)
LEMMA StampsType ==
    ASSUME NEW r \in Record PROVE Stamps(r) \subseteq Time
BY DEF Stamps, Record, Time

(* The rows of a batch are rows of the database's type.                    *)
LEMMA RowsType ==
    ASSUME NEW batch \in Seq(Entry) PROVE RowsOf(batch) \subseteq Row
<1>1. \A i \in DOMAIN batch : batch[i] \in Entry
  BY ElementOfSeq, LenProperties
<1>. QED  BY <1>1 DEF RowsOf, RowOf, Entry, Record, Row

(* What a process that has just started, or is gone, holds.                *)
LEMMA ForgottenType ==
    ASSUME ForgetMemory
    PROVE  /\ txBatch' \in Seq(Entry) /\ tokenBatch' \in Seq(Entry)
           /\ held' \in Record /\ retries' \in 0 .. MaxRetries
           /\ staged' \subseteq Row /\ cursor' \in Nat
           /\ queue' \in Seq(Id) /\ error' \in BOOLEAN
<1>1. /\ txBatch' \in Seq(Entry) /\ tokenBatch' \in Seq(Entry) /\ queue' \in Seq(Id)
  BY EmptySeq DEF ForgetMemory
<1>2. retries' \in 0 .. MaxRetries /\ cursor' \in Nat
  BY ConsumerAssumption DEF ForgetMemory
<1>. QED  BY <1>1, <1>2, NoRecordType DEF ForgetMemory

-----------------------------------------------------------------------------

(* The initial state is typed.                                             *)
LEMMA TypeInit ==
    ASSUME Init PROVE TypeOK
<1>1. /\ txBatch \in Seq(Entry) /\ tokenBatch \in Seq(Entry) /\ queue \in Seq(Id)
  BY EmptySeq DEF Init
<1>2. retries \in 0 .. MaxRetries /\ cursor \in Nat /\ held \in Record
  BY ConsumerAssumption, NoRecordType DEF Init
<1>3. committed \in Offsets /\ requested \in Offsets /\ position \in Offsets
  BY DEF Init, Offsets
<1>. QED  BY <1>1, <1>2, <1>3 DEF Init, TypeOK

(* Every action keeps the types.                                           *)
LEMMA TypeStep ==
    ASSUME TypeOK, [Next]_vars PROVE TypeOK'
<1>. USE ConsumerAssumption, NoRecordType DEF TypeOK
<1>1. CASE Start
  BY <1>1, ForgottenType DEF Start
<1>2. CASE PollNothing
  BY <1>2 DEF Goto, PollNothing, offsetVars, batchVars, enrichVars, alertVars, dbVars
<1>3. ASSUME NEW p \in Partition, Poll(p) PROVE TypeOK'
  <2>1. Take(p) /\ position' \in Offsets /\ NextRecord(p) \in Record
    BY <1>3, NextRecordType
       DEF Poll, PollUnusable, PollBlock, PollTransaction, PollToken, Take, Offsets
  <2>2. CASE PollUnusable(p)
    BY <2>1, <2>2 DEF PollUnusable, Take, batchVars, enrichVars, alertVars, dbVars
  <2>3. CASE PollBlock(p)
    BY <2>1, <2>3 DEF PollBlock, Take, Record, batchVars, enrichVars, alertVars, dbVars
  <2>4. CASE PollTransaction(p)
    <3>1. txBatch' \in Seq(Entry)
      BY <2>1, <2>4, StampsType, AppendProperties DEF PollTransaction, Entry
    <3>. QED  BY <2>1, <2>4, <3>1 DEF PollTransaction, Take, enrichVars, alertVars, dbVars
  <2>5. CASE PollToken(p)
    <3>0. 0 \in 0 .. MaxRetries
      OBVIOUS
    <3>1. tokenBatch' \in Seq(Entry)
      <4>1. CASE NextRecord(p).stamp = "absent"
        BY <2>5, <4>1 DEF PollToken
      <4>2. CASE NextRecord(p).stamp # "absent"
        <5>1. PICK t \in Stamps(NextRecord(p)) :
                 tokenBatch' = Append(tokenBatch, [rec |-> NextRecord(p), ts |-> t])
          BY <2>5, <4>2 DEF PollToken
        <5>2. [rec |-> NextRecord(p), ts |-> t] \in Entry
          BY <2>1, StampsType DEF Entry
        <5>. QED  BY <5>1, <5>2, AppendProperties
      <4>. QED  BY <4>1, <4>2
    <3>2. \/ held' = NextRecord(p) /\ retries' = 0
          \/ held' = held /\ retries' = retries
      BY <2>5 DEF PollToken, enrichVars
    <3>3. pc' \in {"enrich", "check"}
      BY <2>5 DEF PollToken
    <3>. QED  BY <2>1, <2>5, <3>0, <3>1, <3>2, <3>3 DEF PollToken, Take, alertVars, dbVars
  <2>. QED  BY <1>3, <2>2, <2>3, <2>4, <2>5 DEF Poll
<1>4. CASE Enrich
  <2>1. CASE EnrichHit
    <3>1. tokenBatch' \in Seq(Entry)
      BY <2>1, AppendProperties DEF EnrichHit, Entry, Time, Record
    <3>. QED  BY <2>1, <3>1 DEF EnrichHit, offsetVars, alertVars, dbVars
  <2>2. CASE EnrichRetry
    BY <2>2 DEF EnrichRetry, offsetVars, batchVars, alertVars, dbVars
  <2>3. CASE EnrichGiveUp
    BY <2>3 DEF EnrichGiveUp, offsetVars, batchVars, alertVars, dbVars
  <2>. QED  BY <1>4, <2>1, <2>2, <2>3 DEF Enrich
<1>5. CASE CheckBatch
  BY <1>5 DEF Goto, CheckBatch, offsetVars, batchVars, enrichVars, alertVars, dbVars
<1>6. CASE Flush
  <2>1. CASE Connect
    BY <2>1 DEF Goto, Connect, offsetVars, batchVars, enrichVars, alertVars, dbVars
  <2>2. CASE InsertBatches
    BY <2>2, RowsType DEF InsertBatches, offsetVars, batchVars, enrichVars, alertVars
  <2>3. CASE CommitRows
    BY <2>3 DEF CommitRows, offsetVars, batchVars, enrichVars
  <2>4. CASE SendAlert
    <3>1. PICK i \in Unsent : queue' = Append(queue, txBatch[i].rec.id) /\ cursor' = i
      BY <2>4 DEF SendAlert
    <3>2. i \in Nat /\ txBatch[i] \in Entry
      BY <3>1, ElementOfSeq, LenProperties DEF Unsent
    <3>3. queue' \in Seq(Id)
      BY <3>1, <3>2, AppendProperties DEF Entry, Record
    <3>. QED  BY <2>4, <3>1, <3>2, <3>3 DEF SendAlert, offsetVars, batchVars, enrichVars, dbVars
  <2>5. CASE SentAll
    BY <2>5 DEF Goto, SentAll, offsetVars, batchVars, enrichVars, alertVars, dbVars
  <2>6. CASE FlushAlerts
    BY <2>6 DEF Goto, FlushAlerts, offsetVars, batchVars, enrichVars, alertVars, dbVars
  <2>7. CASE CommitOffsets
    BY <2>7 DEF CommitOffsets, Resume, enrichVars, alertVars, dbVars
  <2>. QED  BY <1>6, <2>1, <2>2, <2>3, <2>4, <2>5, <2>6, <2>7 DEF Flush
<1>7. CASE FlushAlertsFails
  BY <1>7 DEF FlushAlertsFails, AbortFlush, Resume, offsetVars, batchVars, enrichVars
<1>8. CASE Leave
  <2>1. CASE LeaveLoop
    BY <2>1 DEF Goto, LeaveLoop, offsetVars, batchVars, enrichVars, alertVars, dbVars
  <2>2. CASE EnterFinally
    BY <2>2 DEF EnterFinally, offsetVars, batchVars, enrichVars, alertVars, dbVars
  <2>3. CASE Close
    BY <2>3, ForgottenType DEF Close
  <2>. QED  BY <1>8, <2>1, <2>2, <2>3 DEF Leave
<1>9. CASE OffsetsStored
  BY <1>9 DEF OffsetsStored, batchVars, enrichVars, alertVars, dbVars
<1>10. CASE DeliverAlert
  <2>1. queue' \in Seq(Id) /\ Head(queue) \in Id
    BY <1>10, HeadTailProperties DEF DeliverAlert
  <2>. QED  BY <1>10, <2>1 DEF DeliverAlert, offsetVars, batchVars, enrichVars, dbVars
<1>11. CASE DeliverAlertFails
  <2>1. queue' \in Seq(Id) /\ Head(queue) \in Id
    BY <1>11, HeadTailProperties DEF DeliverAlertFails
  <2>. QED  BY <1>11, <2>1 DEF DeliverAlertFails, offsetVars, batchVars, enrichVars, dbVars
<1>12. ASSUME NEW b \in Block, Expire(b) PROVE TypeOK'
  BY <1>12 DEF Expire, offsetVars, batchVars, enrichVars, alertVars, dbVars
<1>13. CASE Fault
  <2>1. CASE ConnectFails
    BY <2>1 DEF Goto, ConnectFails, Resume, offsetVars, batchVars, enrichVars, alertVars, dbVars
  <2>2. CASE InsertFails
    BY <2>2 DEF InsertFails, AbortFlush, Resume, offsetVars, batchVars, enrichVars
  <2>3. CASE CommitRowsFails
    BY <2>3 DEF CommitRowsFails, AbortFlush, Resume, offsetVars, batchVars, enrichVars
  <2>4. CASE SendAlertFails
    BY <2>4 DEF SendAlertFails, AbortFlush, Resume, offsetVars, batchVars, enrichVars
  <2>5. CASE CommitOffsetsFails
    BY <2>5 DEF CommitOffsetsFails, AbortFlush, Resume, offsetVars, batchVars, enrichVars
  <2>6. CASE OffsetsLost
    BY <2>6 DEF OffsetsLost, batchVars, enrichVars, alertVars, dbVars
  <2>7. ASSUME NEW p \in Partition, PollBlockFails(p) PROVE TypeOK'
    <3>1. position' \in Offsets
      BY <2>7 DEF PollBlockFails, Take, Offsets
    <3>. QED  BY <2>7, <3>1 DEF PollBlockFails, Take, batchVars, enrichVars, alertVars, dbVars
  <2>8. CASE EnrichFails
    BY <2>8 DEF EnrichFails, offsetVars, batchVars, alertVars, dbVars
  <2>9. CASE PollError
    BY <2>9 DEF Goto, PollError, offsetVars, batchVars, enrichVars, alertVars, dbVars
  <2>10. CASE Rejoin
    BY <2>10 DEF Rejoin, batchVars, enrichVars, alertVars, dbVars
  <2>11. CASE Crash
    BY <2>11, ForgottenType DEF Crash
  <2>12. CASE Signal
    BY <2>12 DEF Signal, offsetVars, batchVars, enrichVars, alertVars, dbVars
  <2>. QED  BY <1>11, <1>13, <2>1, <2>2, <2>3, <2>4, <2>5, <2>6, <2>7, <2>8, <2>9,
               <2>10, <2>11, <2>12 DEF Fault
<1>14. CASE UNCHANGED vars
  BY <1>14 DEF vars, offsetVars, batchVars, enrichVars, alertVars, dbVars
<1>. QED  BY <1>1, <1>2, <1>3, <1>4, <1>5, <1>6, <1>7, <1>8, <1>9, <1>10, <1>11,
             <1>12, <1>13, <1>14 DEF Next

(* Every variable keeps its type, and the retry counter its bound.         *)
THEOREM TypeCorrect == Spec => []TypeOK
BY TypeInit, TypeStep, PTL DEF Spec

-----------------------------------------------------------------------------
(* Safety: IInv is inductive, and the safety properties follow from it.    *)

(* t begins with the elements of s.                                        *)
Extends(s, t) == \A j \in DOMAIN s : j \in DOMAIN t /\ t[j] = s[j]

(* What became of an alert that was handed to the producer.                *)
Accounted(k) == k \in alerts \/ error \/ \E j \in DOMAIN queue : queue[j] = k

-----------------------------------------------------------------------------
(* How a step may change each part of the state: the lemmas up to HIDE go  *)
(* through the disjuncts of Next, so every action is expanded for them,    *)
(* and only for them.                                                      *)
USE DEF Goto, Next, vars, Take, offsetVars, batchVars, enrichVars, alertVars, dbVars,
        Start, ForgetMemory, PollNothing, Poll, PollUnusable, PollBlock, PollTransaction,
        PollToken, PollBlockFails, PollError, LeaveLoop, Enrich, EnrichHit,
        EnrichRetry, EnrichGiveUp, EnrichFails, CheckBatch, EnterFinally, Flush,
        Connect, InsertBatches, CommitRows, SendAlert, SentAll, FlushAlerts,
        CommitOffsets, FlushAlertsFails, AbortFlush, Resume, Leave, Close,
        OffsetsStored, DeliverAlert, Expire, Fault, ConnectFails, InsertFails,
        CommitRowsFails, SendAlertFails, CommitOffsetsFails, DeliverAlertFails,
        OffsetsLost, Rejoin, Crash, Signal

(* Rows are only added, by the open transaction.                           *)
LEMMA RowSteps ==
    ASSUME [Next]_vars
    PROVE  rows' = rows \/ (rows' = rows \cup staged)
OBVIOUS

(* The send buffer is a queue: an alert enters it in SendAlert, leaves it  *)
(* at its head, and reaches the topic from there or not at all.            *)
LEMMA AlertSteps ==
    ASSUME [Next]_vars
    PROVE  \/ UNCHANGED <<alerts, queue>>
           \/ UNCHANGED alerts /\ queue' = <<>>
           \/ UNCHANGED alerts /\ SendAlert
           \/ queue # <<>> /\ alerts' \in {alerts, alerts \cup {Head(queue)}}
              /\ queue' = Tail(queue)
OBVIOUS

(* A step that leaves the process up leaves the offsets alone, moves the   *)
(* requested ones only in CommitOffsets, or goes back to the committed.    *)
LEMMA OffsetSteps ==
    ASSUME TypeOK, [Next]_vars
    PROVE  \/ UNCHANGED offsetVars /\ (pc = "down" <=> pc' = "down")
           \/ UNCHANGED committed /\ requested' = committed /\ position' = committed
           \/ UNCHANGED <<committed, requested>> /\ pc # "down" /\ \E p \in Partition : Take(p)
           \/ CommitOffsets
           \/ pc' = "down" /\ UNCHANGED <<committed, requested>>
           \/ committed' = requested /\ UNCHANGED <<requested, position, pc>>
           \/ requested' = committed /\ UNCHANGED <<committed, position, pc>>
OBVIOUS

(* While the process is up, the batches grow by what was read, or are      *)
(* cleared by CommitOffsets.                                               *)
LEMMA BatchSteps ==
    ASSUME [Next]_vars, pc' # "down"
    PROVE  \/ UNCHANGED <<position, txBatch, tokenBatch>> /\ pc # "down"
           \/ position' = committed
           \/ \E p \in Partition : Poll(p) \/ PollBlockFails(p)
           \/ EnrichHit
           \/ CommitOffsets
OBVIOUS

(* Only InsertBatches leads to the commit of the rows.                     *)
LEMMA StagedSteps ==
    ASSUME [Next]_vars, pc' = "commit"
    PROVE  \/ InsertBatches
           \/ pc = "commit" /\ UNCHANGED <<txBatch, tokenBatch, staged>>
OBVIOUS

(* Past the commit of the rows, the batches stay as they were inserted.    *)
LEMMA StoredSteps ==
    ASSUME [Next]_vars, pc' \in {"publish", "flush", "offsets"}
    PROVE  \/ CommitRows
           \/ pc \in {"publish", "flush", "offsets"} /\ UNCHANGED <<txBatch, tokenBatch>>
OBVIOUS

(* While the alerts are published, they move from batch to buffer to       *)
(* topic.                                                                  *)
LEMMA SentSteps ==
    ASSUME [Next]_vars, pc' \in {"publish", "flush"}
    PROVE  \/ CommitRows \/ SendAlert \/ SentAll
           \/ /\ UNCHANGED <<pc, txBatch, cursor>>
              /\ \/ UNCHANGED <<queue, error, alerts>>
                 \/ DeliverAlert \/ DeliverAlertFails
OBVIOUS

(* The offsets are reached when there was no whale to send, or the buffer  *)
(* has been flushed.                                                       *)
LEMMA AnnouncedSteps ==
    ASSUME [Next]_vars, pc' = "offsets"
    PROVE  \/ SentAll \/ FlushAlerts
           \/ UNCHANGED <<pc, txBatch>>
OBVIOUS

(* While a record is enriched nothing is cached, and a time that is there  *)
(* is not looked for again.                                                *)
LEMMA EnrichSteps ==
    ASSUME TypeOK, [Next]_vars, pc' = "enrich"
    PROVE  \/ retries' = 0
           \/ /\ pc = "enrich" /\ held' = held /\ cache' \subseteq cache
              /\ retries' = retries \/ held.block \notin cache
OBVIOUS

(* No step touches two of the three outputs: offsets, rows and alerts.     *)
LEMMA OutputSteps ==
    ASSUME [Next]_vars
    PROVE  \/ UNCHANGED <<committed, rows, alerts>>
           \/ rows' = rows \cup staged /\ UNCHANGED <<committed, alerts>>
           \/ alerts' # alerts /\ UNCHANGED <<committed, rows>>
           \/ committed' = requested /\ UNCHANGED <<rows, alerts>>
OBVIOUS

HIDE DEF Goto, Next, vars, Take, offsetVars, batchVars, enrichVars, alertVars, dbVars,
        Start, ForgetMemory, PollNothing, Poll, PollUnusable, PollBlock, PollTransaction,
        PollToken, PollBlockFails, PollError, LeaveLoop, Enrich, EnrichHit,
        EnrichRetry, EnrichGiveUp, EnrichFails, CheckBatch, EnterFinally, Flush,
        Connect, InsertBatches, CommitRows, SendAlert, SentAll, FlushAlerts,
        CommitOffsets, FlushAlertsFails, AbortFlush, Resume, Leave, Close,
        OffsetsStored, DeliverAlert, Expire, Fault, ConnectFails, InsertFails,
        CommitRowsFails, SendAlertFails, CommitOffsetsFails, DeliverAlertFails,
        OffsetsLost, Rejoin, Crash, Signal

-----------------------------------------------------------------------------

(* A record that is out stays out.                                         *)
LEMMA SettledStable ==
    ASSUME [Next]_vars, NEW p, NEW r, Settled(p, r)
    PROVE  Settled(p, r)'
<1>1. rows \subseteq rows' /\ alerts \subseteq alerts'
  <2>1. rows \subseteq rows'
    BY RowSteps
  <2>2. alerts \subseteq alerts'
    BY AlertSteps
  <2>. QED  BY <2>1, <2>2
<1>. QED  BY <1>1 DEF Settled, Stored, Kept, Alarming, IsWhale

(* A record whose row is in the database is stored.                        *)
LEMMA RowOfEntry ==
    ASSUME NEW batch, NEW j \in DOMAIN batch, RowsOf(batch) \subseteq rows
    PROVE  Stored(batch[j].rec)
<1>1. RowOf(batch[j]) \in rows
  BY DEF RowsOf
<1>2. RowOf(batch[j]).id = batch[j].rec.id
  BY DEF RowOf
<1>. QED  BY <1>1, <1>2 DEF Stored

(* When flush_batches has come to the offsets, all that was read is out.   *)
LEMMA AllOut ==
    ASSUME IInv, pc = "offsets", NEW p \in Partition, NEW i \in 1 .. position[p]
    PROVE  Settled(p, Log[p][i])
<1>. DEFINE r == Log[p][i]
<1>1. InBatch(p, r) \/ Settled(p, r)
  BY DEF IInv, ConsumedIsSafe
<1>2. CASE InBatch(p, r)
  <2>1. RowsOf(txBatch) \cup RowsOf(tokenBatch) \subseteq rows
    BY DEF IInv, BatchStored
  <2>2. Stored(r)
    <3>1. ASSUME NEW j \in DOMAIN txBatch, txBatch[j].rec = r PROVE Stored(r)
      BY <2>1, <3>1, RowOfEntry
    <3>2. ASSUME NEW j \in DOMAIN tokenBatch, tokenBatch[j].rec = r PROVE Stored(r)
      BY <2>1, <3>2, RowOfEntry
    <3>. QED  BY <1>2, <3>1, <3>2 DEF InBatch
  <2>3. Alarming(p, r) => r.id \in alerts
    BY <1>2 DEF IInv, BatchAnnounced, InBatch, Alarming
  <2>. QED  BY <2>2, <2>3 DEF Settled
<1>. QED  BY <1>1, <1>2

(* Stored offsets trail requested ones, which trail the position.          *)
LEMMA OffsetOrderStep ==
    ASSUME IInv, [Next]_vars PROVE OffsetOrder'
<1>1. /\ TypeOK /\ OffsetOrder
      /\ \A p \in Partition : Len(Log[p]) \in Nat
  BY ConsumerAssumption, LenProperties DEF IInv
<1>. SUFFICES ASSUME NEW p \in Partition
     PROVE /\ committed'[p] <= requested'[p] /\ requested'[p] <= Len(Log[p])
           /\ pc' # "down" => requested'[p] <= position'[p] /\ position'[p] <= Len(Log[p])
  BY DEF OffsetOrder
<1>2. committed[p] \in Nat /\ requested[p] \in Nat /\ position[p] \in Nat
  BY <1>1 DEF TypeOK, Offsets
<1>3. /\ committed[p] <= requested[p] /\ requested[p] <= Len(Log[p])
      /\ pc # "down" => requested[p] <= position[p] /\ position[p] <= Len(Log[p])
  BY <1>1 DEF OffsetOrder
<1>4. CASE \E q \in Partition : Take(q) /\ UNCHANGED <<committed, requested>> /\ pc # "down"
  <2>1. PICK q \in Partition : Take(q)
    BY <1>4
  <2>2. position'[p] = position[p] \/ (position'[p] = position[p] + 1 /\ position[p] < Len(Log[p]))
    BY <1>1, <2>1 DEF Take, TypeOK, Offsets
  <2>. QED  BY <1>1, <1>2, <1>3, <1>4, <2>2
<1>5. CASE CommitOffsets
  BY <1>1, <1>2, <1>3, <1>5 DEF CommitOffsets
<1>. QED  BY <1>1, <1>2, <1>3, <1>4, <1>5, OffsetSteps DEF offsetVars

(* What is asked to be acknowledged is out: CommitOffsets asks only when   *)
(* the batches are, the broker and a rejoin only repeat older requests.    *)
LEMMA RequestedIsSettledStep ==
    ASSUME IInv, [Next]_vars PROVE RequestedIsSettled'
<1>. SUFFICES ASSUME NEW p \in Partition, NEW i \in 1 .. requested'[p]
     PROVE Settled(p, Log[p][i])'
  BY DEF RequestedIsSettled
<1>. TypeOK /\ OffsetOrder /\ RequestedIsSettled
  BY DEF IInv
<1>1. requested' \in {requested, committed} \/ CommitOffsets
  BY OffsetSteps DEF offsetVars
<1>2. CASE CommitOffsets
  BY <1>2, AllOut, SettledStable DEF CommitOffsets
<1>3. CASE requested' \in {requested, committed}
  <2>1. i \in 1 .. requested[p]
    BY <1>3 DEF OffsetOrder, TypeOK, Offsets
  <2>. QED  BY <2>1, SettledStable DEF RequestedIsSettled
<1>. QED  BY <1>1, <1>2, <1>3

(* Appending keeps what was there and puts the element last.               *)
LEMMA AppendKeeps ==
    ASSUME NEW S, NEW seq \in Seq(S), NEW e, NEW t, t = Append(seq, e)
    PROVE  /\ Extends(seq, t)
           /\ Len(seq) + 1 \in DOMAIN t /\ t[Len(seq) + 1] = e
BY DEF Extends

(* What is in a batch stays there while the batches only grow.             *)
LEMMA InBatchStable ==
    ASSUME Extends(txBatch, txBatch'), Extends(tokenBatch, tokenBatch'),
           NEW p, NEW r, InBatch(p, r)
    PROVE  InBatch(p, r)'
BY DEF InBatch, Extends

(* A record just read enters a batch, unless the consumer does not keep    *)
(* it; CommitOffsets drops the batches only when all they hold is out.     *)
LEMMA ConsumedIsSafeStep ==
    ASSUME IInv, [Next]_vars PROVE ConsumedIsSafe'
<1>. SUFFICES ASSUME pc' # "down", NEW p \in Partition, NEW i \in 1 .. position'[p]
     PROVE InBatch(p, Log[p][i])' \/ Settled(p, Log[p][i])'
  BY DEF ConsumedIsSafe
<1>. DEFINE r == Log[p][i]
<1>0. /\ TypeOK /\ OffsetOrder /\ RequestedIsSettled /\ ConsumedIsSafe
      /\ committed[p] \in Nat /\ requested[p] \in Nat /\ position[p] \in Nat
  BY DEF IInv, TypeOK, Offsets
<1>1. CASE UNCHANGED <<position, txBatch, tokenBatch>> /\ pc # "down"
  BY <1>0, <1>1, SettledStable DEF ConsumedIsSafe, InBatch
<1>2. CASE position' = committed
  <2>1. i \in 1 .. requested[p]
    BY <1>0, <1>2 DEF OffsetOrder
  <2>. QED  BY <1>0, <2>1, SettledStable DEF RequestedIsSettled
<1>3. CASE CommitOffsets
  BY <1>3, AllOut, SettledStable DEF CommitOffsets
<1>4. CASE EnrichHit
  <2>1. pc # "down" /\ position' = position /\ txBatch' = txBatch
    BY <1>4 DEF EnrichHit, offsetVars
  <2>2. Extends(txBatch, txBatch') /\ Extends(tokenBatch, tokenBatch')
    <3>1. tokenBatch' = Append(tokenBatch, [rec |-> held, ts |-> held.block])
      BY <1>4 DEF EnrichHit
    <3>. QED  BY <1>0, <2>1, <3>1, AppendKeeps DEF Extends, TypeOK
  <2>. QED  BY <1>0, <2>1, <2>2, InBatchStable, SettledStable DEF ConsumedIsSafe
<1>5. ASSUME NEW q \in Partition, Poll(q) \/ PollBlockFails(q)
      PROVE  InBatch(p, r)' \/ Settled(p, r)'
  <2>1. /\ Take(q) /\ pc # "down" /\ NextRecord(q) \in Record
        /\ position' = [position EXCEPT ![q] = @ + 1]
    BY <1>0, <1>5, NextRecordType
       DEF Poll, PollUnusable, PollBlock, PollTransaction, PollToken, PollBlockFails, Take
  <2>2. Extends(txBatch, txBatch') /\ Extends(tokenBatch, tokenBatch')
    <3>1. \/ UNCHANGED <<txBatch, tokenBatch>>
          \/ PollTransaction(q) \/ PollToken(q)
      BY <1>5 DEF Poll, PollUnusable, PollBlock, PollBlockFails, batchVars
    <3>2. CASE UNCHANGED <<txBatch, tokenBatch>>
      BY <3>2 DEF Extends
    <3>3. CASE PollTransaction(q)
      <4>1. PICK t \in Stamps(NextRecord(q)) :
               txBatch' = Append(txBatch, [rec |-> NextRecord(q), ts |-> t])
        BY <3>3 DEF PollTransaction
      <4>2. tokenBatch' = tokenBatch
        BY <3>3 DEF PollTransaction
      <4>. QED  BY <1>0, <4>1, <4>2, AppendKeeps DEF Extends, TypeOK
    <3>4. CASE PollToken(q)
      <4>1. txBatch' = txBatch
        BY <3>4 DEF PollToken
      <4>2. \/ tokenBatch' = tokenBatch
            \/ \E t : tokenBatch' = Append(tokenBatch, [rec |-> NextRecord(q), ts |-> t])
        BY <3>4 DEF PollToken
      <4>3. CASE tokenBatch' = tokenBatch
        BY <4>1, <4>3 DEF Extends
      <4>4. ASSUME NEW t, tokenBatch' = Append(tokenBatch, [rec |-> NextRecord(q), ts |-> t])
            PROVE  Extends(tokenBatch, tokenBatch')
        BY <1>0, <4>4, AppendKeeps DEF TypeOK
      <4>. QED  BY <4>1, <4>2, <4>3, <4>4 DEF Extends
    <3>. QED  BY <3>1, <3>2, <3>3, <3>4
  <2>3. CASE i \in 1 .. position[p]
    BY <1>0, <2>1, <2>2, <2>3, InBatchStable, SettledStable DEF ConsumedIsSafe
  <2>4. CASE i \notin 1 .. position[p]
    <3>1. p = q /\ r = NextRecord(p) /\ i = position[p] + 1
      BY <1>0, <2>1, <2>4 DEF TypeOK, Offsets, NextRecord
    <3>2. CASE ~Kept(p, r)
      BY <3>2 DEF Settled, Alarming, Kept
    <3>3. CASE Kept(p, r) /\ Topic[p] = "transactions"
      <4>1. PollTransaction(p)
        BY <1>5, <3>1, <3>3
           DEF Kept, Poll, PollUnusable, PollBlock, PollToken, PollBlockFails
      <4>2. PICK t \in Stamps(r) : txBatch' = Append(txBatch, [rec |-> r, ts |-> t])
        BY <3>1, <4>1 DEF PollTransaction
      <4>3. Len(txBatch) + 1 \in DOMAIN txBatch' /\ txBatch'[Len(txBatch) + 1].rec = r
        BY <1>0, <4>2, AppendKeeps DEF TypeOK
      <4>. QED  BY <3>3, <4>3 DEF InBatch
    <3>4. CASE Kept(p, r) /\ Topic[p] = "token_transfers"
      <4>1. PollToken(p) /\ r.stamp # "absent"
        BY <1>5, <3>1, <3>4
           DEF Kept, Poll, PollUnusable, PollBlock, PollTransaction, PollBlockFails
      <4>2. PICK t \in Stamps(r) : tokenBatch' = Append(tokenBatch, [rec |-> r, ts |-> t])
        BY <3>1, <4>1 DEF PollToken
      <4>3. Len(tokenBatch) + 1 \in DOMAIN tokenBatch'
            /\ tokenBatch'[Len(tokenBatch) + 1].rec = r
        BY <1>0, <4>2, AppendKeeps DEF TypeOK
      <4>. QED  BY <3>4, <4>3 DEF InBatch
    <3>. QED  BY <3>2, <3>3, <3>4 DEF Kept
  <2>. QED  BY <2>3, <2>4
<1>. QED  BY <1>1, <1>2, <1>3, <1>4, <1>5, BatchSteps

(* SendAlert runs after the commit of the batch's rows.                    *)
LEMMA AlertIsStoredStep ==
    ASSUME IInv, [Next]_vars PROVE AlertIsStored'
<1>. DEFINE Held(k) == k \in alerts \/ \E i \in DOMAIN queue : queue[i] = k
            Known(k) == \E row \in rows : row.id = k
<1>0. TypeOK /\ \A k : Held(k) => Known(k)
  BY DEF IInv, AlertIsStored
<1>1. ASSUME NEW k, Known(k) PROVE Known(k)'
  BY <1>1, RowSteps
<1>2. ASSUME NEW k, Held(k)' PROVE Held(k) \/ Known(k)
  <2>1. CASE UNCHANGED <<alerts, queue>>
    BY <1>2, <2>1
  <2>2. CASE UNCHANGED alerts /\ queue' = <<>>
    BY <1>2, <2>2
  <2>3. CASE UNCHANGED alerts /\ SendAlert
    <3>1. PICK i \in Unsent : queue' = Append(queue, txBatch[i].rec.id)
      BY <2>3 DEF SendAlert
    <3>2. Stored(txBatch[i].rec)
      BY <2>3, RowOfEntry DEF IInv, BatchStored, SendAlert, Unsent
    <3>3. ASSUME NEW j \in DOMAIN queue' PROVE j \in DOMAIN queue \/ j = Len(queue) + 1
      BY <1>0, <3>1 DEF TypeOK
    <3>. QED  BY <1>0, <1>2, <2>3, <3>1, <3>2, <3>3, AppendKeeps DEF Extends, TypeOK, Stored
  <2>4. CASE queue # <<>> /\ alerts' \in {alerts, alerts \cup {Head(queue)}} /\ queue' = Tail(queue)
    <3>1. 1 \in DOMAIN queue /\ Head(queue) = queue[1]
      BY <1>0, <2>4, HeadTailProperties, LenProperties DEF TypeOK
    <3>2. \A j \in DOMAIN Tail(queue) : j + 1 \in DOMAIN queue /\ Tail(queue)[j] = queue[j + 1]
      BY <1>0, <2>4, HeadTailProperties, LenProperties DEF TypeOK
    <3>. QED  BY <1>2, <2>4, <3>1, <3>2
  <2>. QED  BY <2>1, <2>2, <2>3, <2>4, AlertSteps
<1>. QED  BY <1>0, <1>1, <1>2 DEF AlertIsStored

(* InsertBatches stages both batches.                                      *)
LEMMA BatchStagedStep ==
    ASSUME IInv, [Next]_vars PROVE BatchStaged'
BY StagedSteps DEF IInv, BatchStaged, InsertBatches, batchVars, RowsOf, RowOf

(* CommitRows stores what was staged.                                      *)
LEMMA BatchStoredStep ==
    ASSUME IInv, [Next]_vars PROVE BatchStored'
<1>. SUFFICES ASSUME pc' \in {"publish", "flush", "offsets"}
     PROVE RowsOf(txBatch)' \cup RowsOf(tokenBatch)' \subseteq rows'
  BY DEF BatchStored
<1>1. rows \subseteq rows'
  BY RowSteps
<1>2. CASE CommitRows
  BY <1>2 DEF IInv, BatchStaged, CommitRows, batchVars, RowsOf, RowOf
<1>3. CASE pc \in {"publish", "flush", "offsets"} /\ UNCHANGED <<txBatch, tokenBatch>>
  BY <1>1, <1>3 DEF IInv, BatchStored, RowsOf, RowOf
<1>. QED  BY <1>2, <1>3, StoredSteps

(* FlushAlerts passes only with an empty buffer and no error on record, so *)
(* each whale it leaves behind is delivered.                               *)
LEMMA BatchAnnouncedStep ==
    ASSUME IInv, [Next]_vars PROVE BatchAnnounced'
<1>. SUFFICES ASSUME pc' = "offsets", NEW i \in DOMAIN txBatch', IsWhale(txBatch'[i].rec)
     PROVE txBatch'[i].rec.id \in alerts'
  BY DEF BatchAnnounced, IsWhale
<1>0. TypeOK /\ alerts \subseteq alerts' /\ DOMAIN txBatch \subseteq Nat /\ cursor \in Nat
  BY AlertSteps, LenProperties DEF IInv, TypeOK
<1>1. CASE SentAll
  BY <1>1 DEF Goto, SentAll, batchVars
<1>2. CASE FlushAlerts
  <2>1. txBatch' = txBatch /\ Unsent = {} /\ queue = <<>> /\ ~error /\ pc = "flush"
    BY <1>2 DEF Goto, FlushAlerts, batchVars, IInv, BatchSent
  <2>2. i <= cursor
    BY <1>0, <2>1 DEF Unsent
  <2>. QED  BY <1>0, <2>1, <2>2 DEF IInv, BatchSent
<1>3. CASE UNCHANGED <<pc, txBatch>>
  BY <1>0, <1>3 DEF IInv, BatchAnnounced
<1>. QED  BY <1>1, <1>2, <1>3, AnnouncedSteps

(* A whale behind the cursor is in the buffer, delivered, or its failure   *)
(* is on record.                                                           *)
LEMMA BatchSentStep ==
    ASSUME IInv, [Next]_vars PROVE BatchSent'
<1>0. /\ TypeOK /\ BatchSent /\ DOMAIN txBatch \subseteq Nat /\ cursor \in Nat
  BY LenProperties DEF IInv, TypeOK
<1>1. ASSUME pc' \in {"publish", "flush"}, NEW i \in DOMAIN txBatch',
             IsWhale(txBatch'[i].rec), i <= cursor',
             NEW k, k = txBatch'[i].rec.id
      PROVE  Accounted(k)'
  <2>1. CASE CommitRows
    BY <1>0, <1>1, <2>1, LenProperties DEF CommitRows, batchVars, TypeOK
  <2>2. CASE SendAlert
    <3>1. PICK m \in Unsent : /\ \A j \in Unsent : m <= j
                              /\ queue' = Append(queue, txBatch[m].rec.id)
                              /\ cursor' = m
      BY <2>2 DEF SendAlert
    <3>2. txBatch' = txBatch /\ alerts' = alerts /\ error' = error /\ pc = "publish"
      BY <2>2 DEF SendAlert, batchVars
    <3>3. CASE i = m
      <4>1. k = txBatch[m].rec.id
          BY <1>1, <3>2, <3>3
        <4>2. Len(queue) + 1 \in DOMAIN queue' /\ queue'[Len(queue) + 1] = k
          BY <1>0, <3>1, <4>1, AppendKeeps DEF TypeOK
        <4>. QED  BY <4>2 DEF Accounted
    <3>4. CASE i # m
      <4>1. i <= cursor
        BY <1>0, <1>1, <3>1, <3>2, <3>4 DEF Unsent
      <4>2. Accounted(k)
        BY <1>0, <1>1, <3>2, <4>1 DEF BatchSent, Accounted
      <4>3. Extends(queue, queue')
        BY <1>0, <3>1, AppendKeeps DEF TypeOK
      <4>. QED  BY <3>2, <4>2, <4>3 DEF Accounted, Extends
    <3>. QED  BY <3>3, <3>4
  <2>3. CASE SentAll
    BY <1>0, <1>1, <2>3 DEF Goto, SentAll, BatchSent, Accounted, batchVars, alertVars
  <2>4. CASE UNCHANGED <<pc, txBatch, cursor>> /\ UNCHANGED <<queue, error, alerts>>
    BY <1>0, <1>1, <2>4 DEF BatchSent, Accounted
  <2>5. CASE UNCHANGED <<pc, txBatch, cursor>> /\ (DeliverAlert \/ DeliverAlertFails)
    <3>1. Accounted(k)
      BY <1>0, <1>1, <2>5 DEF BatchSent, Accounted
    <3>2. CASE DeliverAlertFails
      BY <3>2 DEF DeliverAlertFails, Accounted
    <3>3. CASE DeliverAlert
      <4>1. /\ queue # <<>> /\ queue' = Tail(queue) /\ error' = error
            /\ alerts' = alerts \cup {Head(queue)}
        BY <3>3 DEF DeliverAlert
      <4>2. ASSUME NEW j \in DOMAIN queue
            PROVE  queue[j] = Head(queue) \/ \E l \in DOMAIN queue' : queue'[l] = queue[j]
        <5>1. CASE j = 1
          BY <1>0, <4>1, <5>1, HeadTailProperties DEF TypeOK
        <5>2. CASE j # 1
          <6>1. j - 1 \in DOMAIN queue' /\ queue'[j - 1] = queue[j]
            BY <1>0, <4>1, <4>2, <5>2, HeadTailProperties, LenProperties DEF TypeOK
          <6>. QED  BY <6>1
        <5>. QED  BY <5>1, <5>2
      <4>. QED  BY <2>5, <3>1, <4>1, <4>2 DEF Accounted
    <3>. QED  BY <2>5, <3>2, <3>3
  <2>. QED  BY <1>1, <2>1, <2>2, <2>3, <2>4, <2>5, SentSteps
<1>2. ASSUME pc' = "flush" PROVE Unsent' = {}
  <2>1. CASE SentAll
    BY <2>1 DEF Goto, SentAll, Unsent, IsWhale, batchVars, alertVars
  <2>2. CASE UNCHANGED <<pc, txBatch, cursor>>
    BY <1>0, <1>2, <2>2 DEF BatchSent, Unsent, IsWhale
  <2>. QED  BY <1>2, <2>1, <2>2, SentSteps DEF CommitRows, SendAlert
<1>. QED  BY <1>1, <1>2 DEF BatchSent, IsWhale, Accounted

(* The invariant holds before the first process starts.                    *)
LEMMA IInvInit ==
    ASSUME Init PROVE IInv
<1>. /\ \A p \in Partition : Len(Log[p]) \in Nat
     /\ DOMAIN txBatch = {} /\ DOMAIN queue = {}
  BY ConsumerAssumption, LenProperties DEF Init
<1>1. OffsetOrder /\ RequestedIsSettled
  BY DEF Init, OffsetOrder, RequestedIsSettled
<1>2. ConsumedIsSafe /\ AlertIsStored
  BY DEF Init, ConsumedIsSafe, AlertIsStored
<1>3. BatchStaged /\ BatchStored /\ BatchSent /\ BatchAnnounced
  BY DEF Init, BatchStaged, BatchStored, BatchSent, BatchAnnounced
<1>. QED  BY <1>1, <1>2, <1>3, TypeInit DEF IInv

(* Every step keeps the invariant.                                         *)
LEMMA IInvStep ==
    ASSUME IInv, [Next]_vars PROVE IInv'
<1>1. TypeOK'
  BY TypeStep DEF IInv
<1>. QED  BY <1>1, OffsetOrderStep, RequestedIsSettledStep, ConsumedIsSafeStep,
             AlertIsStoredStep, BatchStagedStep, BatchStoredStep, BatchSentStep,
             BatchAnnouncedStep DEF IInv

-----------------------------------------------------------------------------

(* The invariant that carries the others: what the process has read is in  *)
(* a batch or out, and flush_batches asks for offsets when all of it is    *)
(* out.                                                                    *)
THEOREM Inductive == Spec => []IInv
BY IInvInit, IInvStep, PTL DEF Spec

(* A stored offset is below a requested one.                               *)
LEMMA CommittedIsRequested ==
    ASSUME IInv, NEW p \in Partition, NEW i \in 1 .. committed[p]
    PROVE  Settled(p, Log[p][i])
<1>1. i \in 1 .. requested[p]
  BY DEF IInv, TypeOK, OffsetOrder, Offsets
<1>. QED  BY <1>1 DEF IInv, RequestedIsSettled

(* No record below a stored offset is missing from the database, whatever  *)
(* crashes, failures, rejoins and stop requests happened on the way.       *)
THEOREM StoredAtLeastOnce == Spec => []CommittedIsStored
<1>1. IInv => CommittedIsStored
  BY CommittedIsRequested DEF CommittedIsStored, Settled
<1>. QED  BY <1>1, Inductive, PTL

(* No whale below a stored offset was left unannounced.                    *)
THEOREM AlertedAtLeastOnce == Spec => []CommittedIsAlerted
<1>1. IInv => CommittedIsAlerted
  BY CommittedIsRequested DEF CommittedIsAlerted, Settled
<1>. QED  BY <1>1, Inductive, PTL

(* An alert is queued or delivered only for a transaction in the database. *)
THEOREM AlertsFollowRows == Spec => []AlertIsStored
<1>1. IInv => AlertIsStored
  BY DEF IInv
<1>. QED  BY <1>1, Inductive, PTL

(* While the process lives, nothing it has read is lost in memory.         *)
THEOREM NothingForgotten == Spec => []ConsumedIsSafe
<1>1. IInv => ConsumedIsSafe
  BY DEF IInv
<1>. QED  BY <1>1, Inductive, PTL

(* A time that is missing at the first look-up is missing at all of them:  *)
(* the retry loop blocks the only thread that caches times                 *)
(* (enrich_token_timestamp in src/consumer/main.py).                       *)
THEOREM RetriesAreFutile == Spec => []RetryIsFutile
<1>1. Init => RetryIsFutile
  BY DEF Init, RetryIsFutile
<1>2. TypeOK /\ RetryIsFutile /\ [Next]_vars => RetryIsFutile'
  <2>. SUFFICES ASSUME TypeOK, RetryIsFutile, [Next]_vars, pc' = "enrich", retries' > 0
                PROVE  held'.block \notin cache'
    BY DEF RetryIsFutile
  <2>1. /\ pc = "enrich" /\ held' = held /\ cache' \subseteq cache
        /\ retries' = retries \/ held.block \notin cache
    BY EnrichSteps
  <2>. QED  BY <2>1 DEF RetryIsFutile
<1>. QED  BY <1>1, <1>2, TypeCorrect, PTL DEF Spec

(* The offsets of the group never move back.                               *)
THEOREM Monotone == Spec => OffsetsNeverRegress
<1>1. IInv /\ [Next]_vars => [\A p \in Partition : committed'[p] >= committed[p]]_vars
  <2>. SUFFICES ASSUME IInv, [Next]_vars, NEW p \in Partition
       PROVE committed'[p] >= committed[p]
    OBVIOUS
  <2>1. committed' \in {committed, requested}
    BY OffsetSteps DEF IInv, offsetVars, CommitOffsets
  <2>. QED  BY <2>1 DEF IInv, TypeOK, Offsets, OffsetOrder
<1>. QED  BY <1>1, Inductive, PTL DEF Spec, OffsetsNeverRegress

-----------------------------------------------------------------------------
(* A step of the consumer stores rows, announces a stored transaction,     *)
(* acknowledges records whose duty is done, or is invisible.               *)

(* The keys that have a row.                                               *)
StoredIds == {row.id : row \in rows}

(* The duties of a partition are those of its records, one by one.         *)
LEMMA DutyOf ==
    ASSUME NEW p \in Partition
    PROVE  /\ Len(Duties[p]) = Len(Log[p])
           /\ \A i \in 1 .. Len(Log[p]) :
                 /\ Duties[p][i].id = Log[p][i].id
                 /\ Duties[p][i].due = Due(p, Log[p][i])
<1>. DEFINE d(i) == [id |-> Log[p][i].id, due |-> Due(p, Log[p][i])]
<1>1. Len(Log[p]) \in Nat
  BY ConsumerAssumption, LenProperties
<1>2. Duties[p] = [i \in 1 .. Len(Log[p]) |-> d(i)]
  BY DEF Duties
<1>3. \A i : d(i).id = Log[p][i].id /\ d(i).due = Due(p, Log[p][i])
  OBVIOUS
<1>. HIDE DEF d
<1>4. Duties[p] \in Seq({d(i) : i \in 1 .. Len(Log[p])})
  BY <1>1, <1>2, IsASeq
<1>5. DOMAIN Duties[p] = 1 .. Len(Log[p])
  BY <1>2
<1>6. Len(Duties[p]) = Len(Log[p])
  BY <1>1, <1>4, <1>5, LenProperties
<1>. QED  BY <1>2, <1>3, <1>6

(* A record that is settled is a duty done.                                *)
LEMMA DoneOf ==
    ASSUME NEW p \in Partition, NEW i \in 1 .. Len(Log[p]), Settled(p, Log[p][i])
    PROVE  Sink!Done(Duties[p][i])
<1>1. Duties[p][i].id = Log[p][i].id /\ Duties[p][i].due = Due(p, Log[p][i])
  BY DutyOf
<1>2. /\ "store" \in Due(p, Log[p][i]) => Kept(p, Log[p][i])
      /\ "alert" \in Due(p, Log[p][i]) => Alarming(p, Log[p][i])
  BY DEF Due
<1>. QED  BY <1>1, <1>2 DEF Sink!Done, Settled, Stored

(* Nothing is stored, announced or acknowledged at first.                  *)
LEMMA SinkStart ==
    ASSUME Init PROVE Sink!SinkInit
BY DEF Init, Sink!SinkInit

(* CommitRows, and a COMMIT that failed but was obeyed, add rows.          *)
LEMMA StoreStep ==
    ASSUME TypeOK, TypeOK', rows \subseteq rows', UNCHANGED <<committed, alerts>>
    PROVE  Sink!Store
BY DEF TypeOK, Row, Sink!Store

(* An alert that reaches the topic comes from the send buffer, so its      *)
(* transaction is in the database.                                         *)
LEMMA AnnounceStep ==
    ASSUME IInv, [Next]_vars, alerts' # alerts, UNCHANGED <<committed, rows>>
    PROVE  Sink!Announce
<1>1. queue # <<>> /\ alerts' = alerts \cup {Head(queue)}
  BY AlertSteps
<1>2. 1 \in DOMAIN queue /\ Head(queue) = queue[1]
  BY <1>1, HeadTailProperties, LenProperties DEF IInv, TypeOK
<1>3. \E row \in rows : row.id = Head(queue)
  BY <1>2 DEF IInv, AlertIsStored
<1>. QED  BY <1>1, <1>3 DEF Sink!Announce

(* Offsets the broker stores are the requested ones, whose records are     *)
(* out.                                                                    *)
LEMMA AcknowledgeStep ==
    ASSUME IInv, IInv', committed' = requested, UNCHANGED <<rows, alerts>>
    PROVE  Sink!Acknowledge
<1>1. committed' \in [Partition -> Nat] /\ UNCHANGED <<StoredIds, alerts>>
  BY DEF IInv, TypeOK, Offsets, StoredIds
<1>2. ASSUME NEW p \in Partition
      PROVE  committed[p] <= committed'[p] /\ committed'[p] <= Len(Duties[p])
  BY <1>2, DutyOf DEF IInv, OffsetOrder
<1>3. ASSUME NEW p \in Partition, NEW i \in 1 .. committed'[p]
      PROVE  Sink!Done(Duties[p][i])
  <2>1. i \in 1 .. Len(Log[p])
    BY <1>1, ConsumerAssumption, LenProperties DEF IInv, OffsetOrder
  <2>2. Settled(p, Log[p][i])
    BY DEF IInv, RequestedIsSettled
  <2>. QED  BY <2>1, <2>2, DoneOf
<1>. QED  BY <1>1, <1>2, <1>3 DEF Sink!Acknowledge, StoredIds

(* Every step of the consumer is a step of the sink or a stutter.          *)
LEMMA SinkStep ==
    ASSUME IInv, [Next]_vars
    PROVE  [Sink!SinkNext]_(Sink!sinkVars)
<1>1. IInv' /\ TypeOK /\ TypeOK'
  BY IInvStep DEF IInv
<1>2. CASE UNCHANGED <<committed, rows, alerts>>
  BY <1>2 DEF Sink!sinkVars
<1>3. CASE rows' = rows \cup staged /\ UNCHANGED <<committed, alerts>>
  BY <1>1, <1>3, StoreStep DEF Sink!SinkNext
<1>4. CASE alerts' # alerts /\ UNCHANGED <<committed, rows>>
  BY <1>4, AnnounceStep DEF Sink!SinkNext
<1>5. CASE committed' = requested /\ UNCHANGED <<rows, alerts>>
  BY <1>1, <1>5, AcknowledgeStep DEF Sink!SinkNext
<1>. QED  BY <1>2, <1>3, <1>4, <1>5, OutputSteps

-----------------------------------------------------------------------------

(* The consumer is an at-least-once sink: seen from the offsets of its     *)
(* group, the database and whale-alerts, it does only what AtLeastOnceSink *)
(* allows.                                                                 *)
THEOREM Refinement == Spec => ImplementsSink
<1>1. Init => Sink!SinkInit
  BY SinkStart
<1>2. IInv /\ [Next]_vars => [Sink!SinkNext]_(Sink!sinkVars)
  BY SinkStep
<1>. QED  BY <1>1, <1>2, Inductive, PTL DEF Spec, ImplementsSink, Sink!SinkSpec
=============================================================================
