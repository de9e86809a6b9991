---------------------------- MODULE BronzeRunProofs ----------------------------
(* Theorems about the bronze DAGs, for every number of days, blocks of a   *)
(* day, retries and failures: types and the order of publication for all   *)
(* three, the input of the receipts where a pod does the whole extraction  *)
(* (k8s and gke), and the days that are published for k8s: the other two   *)
(* take the day that is not over.                                          *)
EXTENDS BronzeRun, SequenceTheorems, TLAPS

-----------------------------------------------------------------------------
(* The plan, laid out: which place of it each step has.                    *)

(* The steps of each task.                                                 *)
Count == <<2, 6, 2, 1, 1, 1>>

LEMMA ThePlan ==
    ASSUME Variant # "local"
    PROVE  /\ Len(Plan) = 6
           /\ StepsOf(Plan[1]) = <<"ask_start", "ask_end">>
           /\ StepsOf(Plan[2]) = <<"export", "up_blocks", "up_txs", "hashes", "fetch", "up_receipts">>
           /\ StepsOf(Plan[3]) = <<"scan", "up_transfers">>
           /\ StepsOf(Plan[4]) = <<"qc">>
           /\ StepsOf(Plan[5]) = <<"summary">>
           /\ StepsOf(Plan[6]) = <<"publish">>
<1>1. Plan = <<"range", "extract", "transfers", "qc", "summary", "publish">>
  BY BronzeAssumption DEF Plan, K8sPlan, GkePlan
<1>2. StepsOf("extract") = <<"export", "up_blocks", "up_txs", "hashes", "fetch", "up_receipts">>
  <2>. DEFINE six == <<"export", "up_blocks", "up_txs", "hashes", "fetch", "up_receipts">>
  <2>. DEFINE S == {"export", "up_blocks", "up_txs", "hashes", "fetch", "up_receipts"}
  <2>1. BlockSteps \in Seq(S) /\ Len(BlockSteps) = 3
    BY DEF BlockSteps
  <2>2. ReceiptSteps \in Seq(S) /\ Len(ReceiptSteps) = 3
    BY DEF ReceiptSteps
  <2>3. six \in Seq(S) /\ Len(six) = 6
    OBVIOUS
  <2>4. /\ BlockSteps \o ReceiptSteps \in Seq(S)
        /\ Len(BlockSteps \o ReceiptSteps) = Len(BlockSteps) + Len(ReceiptSteps)
        /\ \A i \in 1 .. Len(BlockSteps) + Len(ReceiptSteps) :
              (BlockSteps \o ReceiptSteps)[i] =
                  IF i <= Len(BlockSteps) THEN BlockSteps[i] ELSE ReceiptSteps[i - Len(BlockSteps)]
    <3>. HIDE DEF S
    <3>. QED  BY <2>1, <2>2, ConcatProperties
  <2>5. \A i \in 1..6 : (BlockSteps \o ReceiptSteps)[i] =
                        IF i <= 3 THEN BlockSteps[i] ELSE ReceiptSteps[i - 3]
    BY <2>1, <2>2, <2>4
  <2>6. \A i \in 1..6 : (BlockSteps \o ReceiptSteps)[i] = six[i]
    BY <2>5 DEF BlockSteps, ReceiptSteps
  <2>7. BlockSteps \o ReceiptSteps = six
    <3>. HIDE DEF S, six
    <3>. QED  BY <2>1, <2>2, <2>3, <2>4, <2>6, SeqEqual
  <2>. QED  BY <2>7 DEF StepsOf
<1>. QED  BY <1>1, <1>2 DEF StepsOf

(* Places of the plan.                                                     *)
At(a, s) == at = a /\ step = s

LEMMA Places ==
    ASSUME Variant # "local", at \in 1..Len(Plan), step \in 1..Len(StepsOf(Plan[at]))
    PROVE  /\ at \in 1..6 /\ step \in 1..Count[at] /\ Len(StepsOf(Plan[at])) = Count[at]
           /\ Running("ask_start") => At(1, 1)
           /\ Running("ask_end") => At(1, 2)
           /\ Running("export") => At(2, 1)
           /\ Running("up_blocks") => At(2, 2)
           /\ Running("up_txs") => At(2, 3)
           /\ Running("hashes") => At(2, 4)
           /\ Running("fetch") => At(2, 5)
           /\ Running("up_receipts") => At(2, 6)
           /\ Running("scan") => At(3, 1)
           /\ Running("up_transfers") => At(3, 2)
           /\ Running("qc") => At(4, 1)
           /\ Running("summary") => At(5, 1)
           /\ Running("publish") => At(6, 1)
<1>1. at \in 1..6 /\ step \in 1..Count[at] /\ Len(StepsOf(Plan[at])) = Count[at]
  <2>1. at \in 1..6
    BY ThePlan
  <2>. QED
    <3>1. CASE at = 1  BY <3>1, ThePlan DEF Count
    <3>2. CASE at = 2  BY <3>2, ThePlan DEF Count
    <3>3. CASE at = 3  BY <3>3, ThePlan DEF Count
    <3>4. CASE at = 4  BY <3>4, ThePlan DEF Count
    <3>5. CASE at = 5  BY <3>5, ThePlan DEF Count
    <3>6. CASE at = 6  BY <3>6, ThePlan DEF Count
    <3>. QED  BY <2>1, <3>1, <3>2, <3>3, <3>4, <3>5, <3>6
<1>2. CASE at = 1
  BY <1>1, <1>2, ThePlan DEF Running, At, Count
<1>3. CASE at = 2
  BY <1>1, <1>3, ThePlan DEF Running, At, Count
<1>4. CASE at = 3
  BY <1>1, <1>4, ThePlan DEF Running, At, Count
<1>5. CASE at \in 4..6
  BY <1>1, <1>5, ThePlan DEF Running, At, Count
<1>. QED  BY <1>1, <1>2, <1>3, <1>4, <1>5

-----------------------------------------------------------------------------
(* The inductive invariant.                                                *)

Busy == state # "idle"

(* A complete file of a day.                                               *)
File(t, d, o) ==
    [table |-> t, day |-> d, from |-> d * PerDay, to |-> (d + 1) * PerDay - 1, outcome |-> o]

(* The day before the run's is over, and the range is that day.            *)
RangeIsDay ==
    /\ range = [from |-> range.from, to |-> range.to]
    /\ clock > run * PerDay
    /\ Busy /\ (at > 1 \/ step > 1) => range.from = (run - 1) * PerDay
    /\ Busy /\ at > 1 => range.to = run * PerDay - 1

(* A day has one file of a table, with the whole day.                      *)
OneFile ==
    /\ \A f \in bronze : \E t \in Table, d \in Int, o \in {"full", "bad"} : f = File(t, d, o)
    /\ \A f, g \in bronze : f.table = g.table /\ f.day = g.day => f = g

(* Tables that the run has stored; what it reported of them is true.       *)
Stored(t) ==
    \/ at > 2 /\ t # "token_transfers"
    \/ at > 3
    \/ at = 2 /\ step > 2 /\ t = "blocks"
    \/ at = 2 /\ step > 3 /\ t = "transactions"

Exported(t) ==
    \/ Stored(t)
    \/ at = 2 /\ step > 1 /\ t \in {"blocks", "transactions"}
    \/ at = 2 /\ step > 5 /\ t = "receipts"
    \/ at = 3 /\ step > 1 /\ t = "token_transfers"

ReportsAreTrue ==
    Busy => \A t \in Table : /\ Exported(t) => stats[t] \in {"full", "bad"}
                             /\ Stored(t) => File(t, run - 1, stats[t]) \in bronze

(* Past the check all is well.                                             *)
ChecksPassed == Busy /\ at > 4 => \A t \in Table : stats[t] = "full"

(* The days of the runs before are published, with all their files.        *)
PublishedDays ==
    /\ published = {d \in Int : 0 <= d /\ d < (IF Busy THEN run - 1 ELSE run)}
    /\ \A d \in published, t \in Table : File(t, d, "full") \in bronze

IInv ==
    /\ TypeOK /\ (Busy => run > 0)
    /\ RangeIsDay /\ OneFile /\ ReportsAreTrue /\ ChecksPassed
    /\ PublishedDays
    /\ (~Busy => at = 1 /\ step = 1)

-----------------------------------------------------------------------------
(* How the control moves.                                                  *)

Control ==
    /\ run \in 0..Days /\ state \in {"idle", "running", "failed"}
    /\ at \in 1..6 /\ step \in 1..Count[at] /\ tries \in 0..Retries

LEMMA ControlIsTyped ==
    ASSUME Variant # "local"
    PROVE  /\ TypeOK => Control
           /\ \A a \in 1..6 : a \in 1..Len(Plan) /\ Len(StepsOf(Plan[a])) = Count[a]
<1>1. \A a \in 1..6 : a \in 1..Len(Plan) /\ Len(StepsOf(Plan[a])) = Count[a]
  <2>. SUFFICES ASSUME NEW a \in 1..6 PROVE a \in 1..Len(Plan) /\ Len(StepsOf(Plan[a])) = Count[a]
    OBVIOUS
  <2>1. a \in 1..Len(Plan)
    BY ThePlan
  <2>2. CASE a = 1  BY <2>2, ThePlan DEF Count
  <2>3. CASE a = 2  BY <2>3, ThePlan DEF Count
  <2>4. CASE a = 3  BY <2>4, ThePlan DEF Count
  <2>5. CASE a = 4  BY <2>5, ThePlan DEF Count
  <2>6. CASE a = 5  BY <2>6, ThePlan DEF Count
  <2>7. CASE a = 6  BY <2>7, ThePlan DEF Count
  <2>. QED  BY <2>1, <2>2, <2>3, <2>4, <2>5, <2>6, <2>7
<1>. QED  BY <1>1, Places DEF TypeOK, Control

(* A step that is done leads to the next place of the plan.                *)
LEMMA ProceedStep ==
    ASSUME Variant # "local", TypeOK, state = "running", NEW files, Proceed(files)
    PROVE  /\ Control' /\ UNCHANGED <<clock, run>> /\ disk' \in {files, {}}
           /\ At(1, 1) => At(1, 2)'
           /\ At(1, 2) => At(2, 1)'
           /\ \A i \in 1..5 : At(2, i) => At(2, i + 1)' /\ disk' = files
           /\ At(2, 6) => At(3, 1)'
           /\ At(3, 1) => At(3, 2)'
           /\ At(3, 2) => At(4, 1)'
           /\ At(4, 1) => At(5, 1)'
           /\ At(5, 1) => At(6, 1)'
           /\ At(6, 1) => At(1, 1)' /\ state' = "idle"
           /\ ~At(6, 1) => state' = "running"
<1>1. Control /\ Len(Plan) = 6 /\ Len(StepsOf(Plan[at])) = Count[at]
  BY ControlIsTyped, ThePlan DEF Control
<1>2. /\ Count[1] = 2 /\ Count[2] = 6 /\ Count[3] = 2 /\ Count[4] = 1 /\ Count[5] = 1 /\ Count[6] = 1
      /\ 0 \in 0..Retries
  BY BronzeAssumption DEF Count
<1>3. CASE step < Count[at]
  BY <1>1, <1>2, <1>3 DEF Proceed, Control, At
<1>4. CASE step = Count[at]
  BY <1>1, <1>2, <1>4 DEF Proceed, Control, At, DiskOfNextTry
<1>. QED  BY <1>1, <1>3, <1>4, <1>2 DEF Control

(* What a failure and a cleared task have in common: the run goes back.    *)
Retreat ==
    /\ UNCHANGED <<clock, run, range, stats, bronze, published>>
    /\ Busy /\ Busy' /\ Control'
    /\ disk' \subseteq {"block", "tx", "hash", "receipt", "transfer"}
    /\ at' <= at
    /\ step' = 1 \/ (state' = "failed" /\ at' = at /\ step' = step)

LEMMA GiveUpStep ==
    ASSUME Variant # "local", TypeOK, state = "running", NEW files, NEW again, GiveUp(files, again)
    PROVE  Retreat
<1>1. Control /\ Retries \in Nat /\ \A a \in 1..6 : 1 \in 1..Count[a]
  <2>1. \A a \in 1..6 : 1 \in 1..Count[a]
    BY DEF Count
  <2>. QED  BY <2>1, ControlIsTyped, BronzeAssumption
<1>. QED
  BY <1>1 DEF GiveUp, Retreat, Control, Busy, DiskOfNextTry, store

LEMMA ClearStep ==
    ASSUME Variant # "local", TypeOK, NEW k \in 1..Len(Plan), Clear(k)
    PROVE  Retreat
<1>1. /\ Control /\ Retries \in Nat /\ \A a \in 1..6 : 1 \in 1..Count[a]
      /\ Len(Plan) = 6
  <2>1. \A a \in 1..6 : 1 \in 1..Count[a]
    BY DEF Count
  <2>. QED  BY <2>1, ControlIsTyped, BronzeAssumption, ThePlan
<1>. QED
  BY <1>1 DEF Clear, Retreat, Control, Busy, DiskOfNextTry, store

(* The rest of TypeOK.                                                     *)
Data ==
    /\ clock \in 0..(Days + 1) * PerDay
    /\ range.from \in 0..clock /\ range.to \in -1..clock
    /\ disk \subseteq {"block", "tx", "hash", "receipt", "transfer"}
    /\ stats \in [Table -> {"none", "full", "bad"}]
    /\ \A f \in bronze : f.table \in Table /\ f.outcome \in {"full", "bad"}
    /\ published \subseteq 0..Days

LEMMA TypesAre ==
    ASSUME Variant # "local"
    PROVE  /\ TypeOK => Control /\ Data
           /\ Control' /\ Data' => TypeOK'
<1>1. TypeOK => Data
  BY DEF TypeOK, Data
<1>2. ASSUME Control', Data' PROVE TypeOK'
  <2>1. at' \in 1..Len(Plan) /\ step' \in 1..Len(StepsOf(Plan[at']))
    BY <1>2, ControlIsTyped DEF Control
  <2>. QED  BY <1>2, <2>1 DEF Control, Data, TypeOK
<1>. QED  BY <1>1, <1>2, ControlIsTyped

(* Going back gives nothing away.                                          *)
LEMMA RetreatKeeps ==
    ASSUME Variant = "k8s", IInv, Retreat
    PROVE  IInv'
<1>. USE DEF IInv
<1>0. Control /\ Data
  BY TypesAre
<1>1. TypeOK'
  <2>1. Data'
    BY <1>0 DEF Data, Retreat
  <2>. QED  BY <2>1, TypesAre DEF Retreat
<1>2. /\ run' = run /\ at \in Int /\ at' \in Int /\ step \in Int /\ step' \in Int
      /\ at' <= at /\ step' >= 1 /\ step >= 1 /\ (at' = at => step' <= step)
  BY <1>0 DEF Retreat, Control, Count
<1>3. RangeIsDay'
  BY <1>2 DEF RangeIsDay, Retreat
<1>4. OneFile'
  BY DEF OneFile, Retreat
<1>5. ReportsAreTrue'
  <2>. SUFFICES ASSUME NEW t \in Table
                PROVE  /\ Exported(t)' => Exported(t)
                       /\ Stored(t)' => Stored(t)
    BY DEF ReportsAreTrue, Retreat
  <2>1. CASE step' = 1
    BY <1>2, <2>1 DEF Exported, Stored
  <2>2. CASE at' = at /\ step' = step
    BY <2>2 DEF Exported, Stored
  <2>. QED  BY <2>1, <2>2 DEF Retreat
<1>6. ChecksPassed'
  BY <1>2 DEF ChecksPassed, Retreat
<1>7. PublishedDays'
  BY DEF PublishedDays, Retreat
<1>. QED
  BY <1>1, <1>2, <1>3, <1>4, <1>5, <1>6, <1>7 DEF Retreat

-----------------------------------------------------------------------------
(* The first task: the day of the run is over, so its first block and that *)
(* of the day after are known.                                             *)
LEMMA DayBlocks ==
    ASSUME NEW r \in Nat, r > 0
    PROVE  /\ (r - 1) * PerDay \in Nat /\ r * PerDay \in Nat
           /\ (r - 1) * PerDay < r * PerDay
           /\ ((r - 1) + 1) * PerDay = r * PerDay
<1>1. PerDay \in Nat /\ PerDay > 0
  BY BronzeAssumption
<1>2. PICK q \in Nat : q = r - 1
  OBVIOUS
<1>3. q * PerDay \in Nat
  BY <1>1, <1>2
<1>4. r * PerDay = q * PerDay + PerDay
  BY <1>1, <1>2
<1>. QED  BY <1>1, <1>2, <1>3, <1>4

LEMMA AskStep ==
    ASSUME Variant = "k8s", IInv, AskStart \/ AskEnd
    PROVE  IInv'
<1>. USE DEF IInv
<1>0. Control /\ Data /\ TypeOK
  BY TypesAre
<1>1. run \in Nat /\ run > 0 /\ clock > run * PerDay /\ clock \in Nat /\ state = "running"
  BY <1>0, BronzeAssumption DEF Control, Data, RangeIsDay, AskStart, AskEnd, Running, Busy
<1>2. /\ (run - 1) * PerDay \in Nat /\ run * PerDay \in Nat
      /\ (run - 1) * PerDay < run * PerDay /\ ((run - 1) + 1) * PerDay = run * PerDay
  BY <1>1, DayBlocks
<1>3. /\ BlockByDate(run - 1) = (run - 1) * PerDay
      /\ BlockByDate((run - 1) + 1) = run * PerDay
  BY <1>1, <1>2 DEF BlockByDate
<1>4. Target = run - 1
  BY DEF Target, K8sTarget
<1>5. Proceed(disk) /\ UNCHANGED <<stats, store, faults>>
  BY DEF AskStart, AskEnd
<1>6. /\ Control' /\ UNCHANGED <<clock, run>> /\ disk' \in {disk, {}} /\ state' = "running"
      /\ AskStart => At(1, 2)'
      /\ AskEnd => At(1, 2) /\ At(2, 1)'
  BY <1>0, <1>1, <1>5, ProceedStep, Places DEF AskStart, AskEnd, At, TypeOK
<1>7. /\ AskStart => range' = [from |-> (run - 1) * PerDay, to |-> 0]
      /\ AskEnd => range' = [from |-> (run - 1) * PerDay, to |-> run * PerDay - 1]
  <2>1. AskStart => range' = [from |-> (run - 1) * PerDay, to |-> 0]
    BY <1>3, <1>4 DEF AskStart, NoRange
  <2>2. ASSUME AskEnd PROVE range' = [from |-> (run - 1) * PerDay, to |-> run * PerDay - 1]
    <3>1. range.from = (run - 1) * PerDay
      BY <1>1, <1>6, <2>2 DEF RangeIsDay, At, Busy
    <3>2. range' = [from |-> range.from, to |-> run * PerDay - 1]
      BY <1>3, <1>4, <2>2 DEF AskEnd, RangeIsDay
    <3>. QED  BY <3>1, <3>2
  <2>. QED  BY <2>1, <2>2
<1>8. TypeOK'
  <2>1. range'.from \in 0..clock' /\ range'.to \in -1..clock'
    BY <1>1, <1>2, <1>6, <1>7
  <2>2. Data'
    BY <1>0, <1>5, <1>6, <2>1 DEF Data, store
  <2>. QED  BY <1>6, <2>2, TypesAre
<1>9. RangeIsDay'
  BY <1>1, <1>6, <1>7 DEF RangeIsDay, At
<1>10. OneFile' /\ PublishedDays'
  BY <1>1, <1>5, <1>6 DEF OneFile, PublishedDays, Busy, store
<1>11. ReportsAreTrue' /\ ChecksPassed'
  BY <1>6 DEF ReportsAreTrue, ChecksPassed, Exported, Stored, At
<1>. QED
  BY <1>1, <1>6, <1>8, <1>9, <1>10, <1>11 DEF Busy

-----------------------------------------------------------------------------
(* An upload replaces the file of its day, if there is one, and leaves the *)
(* files of other days and tables.                                         *)
LEMMA UploadStep ==
    ASSUME Variant = "k8s", IInv, Busy, at > 1, NEW t \in Table, Exported(t), NEW files,
           Upload(t, files)
    PROVE  /\ OneFile' /\ \A f \in bronze' : f.table \in Table /\ f.outcome \in {"full", "bad"}
           /\ File(t, run - 1, stats[t]) \in bronze'
           /\ \A u \in Table, d \in Int, o \in {"full", "bad"} :
                 (u # t \/ d # run - 1) /\ File(u, d, o) \in bronze => File(u, d, o) \in bronze'
<1>. USE DEF IInv
<1>0. Control /\ Data
  BY TypesAre
<1>1. /\ Target = run - 1 /\ run - 1 \in Int /\ stats[t] \in {"full", "bad"}
      /\ range.from = (run - 1) * PerDay /\ range.to = run * PerDay - 1
  BY <1>0 DEF Target, K8sTarget, Control, ReportsAreTrue, RangeIsDay
<1>2. ((run - 1) + 1) * PerDay = run * PerDay
  BY <1>0, DayBlocks DEF Control, Busy
<1>. DEFINE new == File(t, run - 1, stats[t])
            here == {f \in bronze : f.table = t /\ f.day = run - 1}
<1>3. new = [table |-> t, day |-> Target, from |-> range.from, to |-> range.to,
             outcome |-> stats[t]]
  BY <1>1, <1>2 DEF File
<1>4. \A f \in here : f.from = range.from /\ f.to = range.to
  <2>. SUFFICES ASSUME NEW f \in here PROVE f.from = range.from /\ f.to = range.to
    OBVIOUS
  <2>1. PICK u \in Table, d \in Int, o \in {"full", "bad"} : f = File(u, d, o)
    BY DEF OneFile
  <2>2. d = run - 1 /\ f.from = d * PerDay /\ f.to = (d + 1) * PerDay - 1
    BY <2>1 DEF File
  <2>. QED  BY <1>1, <1>2, <2>2
<1>5. here = {f \in bronze : /\ f.table = t /\ f.day = Target
                             /\ f.from = range.from /\ f.to = range.to}
  BY <1>1, <1>4
<1>6. bronze' = (bronze \ here) \cup {new}
  BY <1>3, <1>5 DEF Upload
<1>7. new.table = t /\ new.day = run - 1 /\ new.outcome = stats[t]
  BY DEF File
<1>8. \A f \in bronze' : \E u \in Table, d \in Int, o \in {"full", "bad"} : f = File(u, d, o)
  BY <1>1, <1>6 DEF OneFile
<1>9. \A f, g \in bronze' : f.table = g.table /\ f.day = g.day => f = g
  <2>. HIDE DEF new
  <2>. QED  BY <1>6, <1>7 DEF OneFile
<1>10. ASSUME NEW u \in Table, NEW d \in Int, NEW o \in {"full", "bad"},
              u # t \/ d # run - 1, File(u, d, o) \in bronze
       PROVE  File(u, d, o) \in bronze'
  <2>1. File(u, d, o).table = u /\ File(u, d, o).day = d
    BY DEF File
  <2>. QED  BY <1>6, <1>10, <2>1
<1>11. \A f \in bronze' : f.table \in Table /\ f.outcome \in {"full", "bad"}
  <2>. HIDE DEF new
  <2>. QED  BY <1>0, <1>1, <1>6, <1>7 DEF Data
<1>. QED
  <2>. HIDE DEF new, here
  <2>1. new \in bronze'
    BY <1>6
  <2>. QED  BY <1>8, <1>9, <1>10, <1>11, <2>1 DEF OneFile, new

(* The four uploads.                                                       *)
LEMMA UploadKeeps ==
    ASSUME Variant = "k8s", IInv,
           UploadBlocks \/ UploadTransactions \/ UploadReceipts \/ UploadTransfers
    PROVE  IInv'
<1>. USE DEF IInv
<1>0. Control /\ Data /\ TypeOK
  BY TypesAre
<1>1. PICK t \in Table : \E files :
         /\ Upload(t, files)
         /\ files = disk \/ files = disk \ {"block"} \/ (files = disk \ {"tx", "hash", "receipt"} /\ At(2, 6))
         /\ \/ At(2, 2) /\ t = "blocks"
            \/ At(2, 3) /\ t = "transactions"
            \/ At(2, 6) /\ t = "receipts"
            \/ At(3, 2) /\ t = "token_transfers"
  BY <1>0, Places DEF TypeOK, UploadBlocks, UploadTransactions, UploadReceipts, UploadTransfers, Table
<1>2. PICK files :
         /\ Upload(t, files)
         /\ files = disk \/ files = disk \ {"block"} \/ (files = disk \ {"tx", "hash", "receipt"} /\ At(2, 6))
  BY <1>1
<1>3. state = "running" /\ Busy /\ run \in Nat /\ run > 0 /\ at > 1 /\ Exported(t)
  <2>1. state = "running"
    BY DEF UploadBlocks, UploadTransactions, UploadReceipts, UploadTransfers, Running
  <2>. QED  BY <1>0, <1>1, <2>1 DEF Control, Busy, At, Exported
<1>4. Proceed(files) /\ UNCHANGED <<range, stats, published, faults>>
  BY <1>2 DEF Upload
<1>5. /\ Control' /\ UNCHANGED <<clock, run>> /\ disk' \in {files, {}} /\ state' = "running"
      /\ At(2, 2) => At(2, 3)' /\ disk' = files
      /\ At(2, 3) => At(2, 4)' /\ disk' = files
      /\ At(2, 6) => At(3, 1)'
      /\ At(3, 2) => At(4, 1)'
  BY <1>0, <1>1, <1>3, <1>4, ProceedStep DEF At
<1>6. /\ OneFile' /\ \A f \in bronze' : f.table \in Table /\ f.outcome \in {"full", "bad"}
      /\ File(t, run - 1, stats[t]) \in bronze'
      /\ \A u \in Table, d \in Int, o \in {"full", "bad"} :
            (u # t \/ d # run - 1) /\ File(u, d, o) \in bronze => File(u, d, o) \in bronze'
  BY <1>2, <1>3, UploadStep
<1>7. TypeOK'
  <2>1. Data'
    BY <1>0, <1>2, <1>4, <1>5, <1>6 DEF Data
  <2>. QED  BY <1>5, <2>1, TypesAre
<1>8. RangeIsDay'
  BY <1>1, <1>3, <1>4, <1>5 DEF RangeIsDay, At
<1>9. ReportsAreTrue'
  <2>. SUFFICES ASSUME NEW u \in Table
                PROVE  /\ Exported(u)' => stats[u] \in {"full", "bad"}
                       /\ Stored(u)' => File(u, run - 1, stats[u]) \in bronze'
    BY <1>4, <1>5 DEF ReportsAreTrue
  <2>1. /\ Exported(u)' => Exported(u)
        /\ Stored(u)' => Stored(u) \/ u = t
    BY <1>1, <1>5 DEF Exported, Stored, At, Table
  <2>2. Exported(u) => stats[u] \in {"full", "bad"}
    BY <1>3 DEF ReportsAreTrue
  <2>3. Stored(u) => Exported(u) /\ File(u, run - 1, stats[u]) \in bronze
    BY <1>3 DEF ReportsAreTrue, Exported
  <2>. QED  BY <1>3, <1>6, <2>1, <2>2, <2>3
<1>10. ChecksPassed'
  BY <1>1, <1>5 DEF ChecksPassed, At
<1>11. PublishedDays'
  <2>1. published' = {d \in Int : 0 <= d /\ d < (IF Busy' THEN run' - 1 ELSE run')}
    BY <1>3, <1>4, <1>5 DEF PublishedDays, Busy
  <2>2. \A d \in published : d \in Int /\ d # run - 1
    BY <1>3 DEF PublishedDays
  <2>. QED  BY <1>4, <1>6, <2>1, <2>2 DEF PublishedDays
<1>. QED
  BY <1>3, <1>5, <1>6, <1>7, <1>8, <1>9, <1>10, <1>11 DEF Busy

-----------------------------------------------------------------------------
(* Steps inside a run that leave the bucket, the range and the publication *)
(* as they are.                                                            *)
LEMMA QuietKeeps ==
    ASSUME Variant = "k8s", IInv, Busy, Busy',
           Control', UNCHANGED <<clock, run, range, bronze, published>>,
           disk' \subseteq {"block", "tx", "hash", "receipt", "transfer"},
           stats' \in [Table -> {"none", "full", "bad"}],
           at > 1, at' > 1,
           ReportsAreTrue', ChecksPassed'
    PROVE  IInv'
<1>. USE DEF IInv
<1>0. Control /\ Data
  BY TypesAre
<1>1. TypeOK'
  <2>1. Data'
    BY <1>0 DEF Data
  <2>. QED  BY <2>1, TypesAre
<1>2. RangeIsDay' /\ OneFile' /\ PublishedDays'
  BY DEF RangeIsDay, OneFile, PublishedDays
<1>. QED  BY <1>1, <1>2

(* An export returns: its tables are reported full or bad, others keep     *)
(* what was reported.                                                      *)
LEMMA OutcomeStep ==
    ASSUME stats \in [Table -> {"none", "full", "bad"}], NEW tables \in SUBSET Table,
           Outcome(tables)
    PROVE  /\ stats' \in [Table -> {"none", "full", "bad"}]
           /\ \A t \in tables : stats'[t] \in {"full", "bad"}
           /\ \A t \in Table \ tables : stats'[t] = stats[t]
<1>1. CASE stats' = [t \in Table |-> IF t \in tables THEN "full" ELSE stats[t]]
  BY <1>1
<1>2. ASSUME NEW b \in tables,
             stats' = [t \in Table |-> IF t = b THEN "bad"
                                       ELSE IF t \in tables THEN "full" ELSE stats[t]]
      PROVE  /\ stats' \in [Table -> {"none", "full", "bad"}]
             /\ \A t \in tables : stats'[t] \in {"full", "bad"}
             /\ \A t \in Table \ tables : stats'[t] = stats[t]
  BY <1>2
<1>. QED  BY <1>1, <1>2 DEF Outcome

LEMMA ExportKeeps ==
    ASSUME Variant = "k8s", IInv, ExportBlocks \/ FetchReceipts \/ ScanTransfers
    PROVE  IInv'
<1>. USE DEF IInv
<1>0. Control /\ Data /\ TypeOK
  BY TypesAre
<1>1. PICK tables \in SUBSET Table : \E files :
         /\ Outcome(tables) /\ Proceed(files) /\ UNCHANGED <<range, store>>
         /\ \/ At(2, 1) /\ tables = {"blocks", "transactions"} /\ files = disk \cup {"block", "tx"}
            \/ At(2, 5) /\ tables = {"receipts"} /\ files = disk \cup {"receipt"}
            \/ At(3, 1) /\ tables = {"token_transfers"} /\ files = disk \cup {"transfer"}
  <2>1. /\ {"blocks", "transactions"} \in SUBSET Table /\ {"receipts"} \in SUBSET Table
        /\ {"token_transfers"} \in SUBSET Table
    BY DEF Table
  <2>2. CASE ExportBlocks
    BY <1>0, <2>1, <2>2, Places DEF TypeOK, ExportBlocks
  <2>3. CASE FetchReceipts
    BY <1>0, <2>1, <2>3, Places DEF TypeOK, FetchReceipts
  <2>4. CASE ScanTransfers
    BY <1>0, <2>1, <2>4, Places DEF TypeOK, ScanTransfers
  <2>. QED  BY <2>2, <2>3, <2>4
<1>2. PICK files :
         /\ Outcome(tables) /\ Proceed(files) /\ UNCHANGED <<range, store>>
         /\ \/ At(2, 1) /\ tables = {"blocks", "transactions"} /\ files = disk \cup {"block", "tx"}
            \/ At(2, 5) /\ tables = {"receipts"} /\ files = disk \cup {"receipt"}
            \/ At(3, 1) /\ tables = {"token_transfers"} /\ files = disk \cup {"transfer"}
  BY <1>1
<1>3. state = "running" /\ Busy
  BY DEF ExportBlocks, FetchReceipts, ScanTransfers, Running, Busy
<1>4. /\ Control' /\ UNCHANGED <<clock, run>> /\ disk' \in {files, {}} /\ state' = "running"
      /\ At(2, 1) => At(2, 2)' /\ disk' = files
      /\ At(2, 5) => At(2, 6)' /\ disk' = files
      /\ At(3, 1) => At(3, 2)'
  BY <1>0, <1>2, <1>3, ProceedStep DEF At
<1>5. /\ stats' \in [Table -> {"none", "full", "bad"}]
      /\ \A t \in tables : stats'[t] \in {"full", "bad"}
      /\ \A t \in Table \ tables : stats'[t] = stats[t]
  BY <1>0, <1>2, OutcomeStep DEF Data
<1>6. ReportsAreTrue'
  <2>. SUFFICES ASSUME NEW t \in Table
                PROVE  /\ Exported(t)' => stats'[t] \in {"full", "bad"}
                       /\ Stored(t)' => File(t, run - 1, stats'[t]) \in bronze
    BY <1>2, <1>4 DEF ReportsAreTrue, store
  <2>1. /\ Exported(t)' => Exported(t) \/ t \in tables
        /\ Stored(t)' => Stored(t) /\ t \notin tables
    BY <1>2, <1>4 DEF Exported, Stored, At, Table
  <2>. QED  BY <1>3, <1>5, <2>1 DEF ReportsAreTrue
<1>7. ChecksPassed'
  BY <1>2, <1>4 DEF ChecksPassed, At
<1>8. Busy' /\ at > 1 /\ at' > 1
  BY <1>2, <1>4 DEF Busy, At
<1>9. disk' \subseteq {"block", "tx", "hash", "receipt", "transfer"}
  BY <1>0, <1>2, <1>4 DEF Data
<1>. QED
  BY <1>2, <1>3, <1>4, <1>5, <1>6, <1>7, <1>8, <1>9, QuietKeeps DEF store

(* The hashes are extracted from the transactions, or the try is over.     *)
LEMMA HashesKeep ==
    ASSUME Variant = "k8s", IInv, ExtractHashes
    PROVE  IInv'
<1>. USE DEF IInv
<1>0. Control /\ Data /\ TypeOK /\ state = "running"
  BY TypesAre DEF ExtractHashes, Running
<1>1. CASE "tx" \notin disk
  BY <1>0, <1>1, GiveUpStep, RetreatKeeps DEF ExtractHashes
<1>2. CASE "tx" \in disk
  <2>1. At(2, 4) /\ Proceed(disk \cup {"hash"}) /\ UNCHANGED <<range, stats, store>>
    BY <1>0, <1>2, Places DEF ExtractHashes, TypeOK
  <2>2. /\ Control' /\ UNCHANGED <<clock, run>> /\ disk' = disk \cup {"hash"} /\ state' = "running"
        /\ At(2, 5)'
    BY <1>0, <2>1, ProceedStep DEF At
  <2>3. ReportsAreTrue'
    BY <1>0, <2>1, <2>2 DEF ReportsAreTrue, Exported, Stored, At, Busy, store
  <2>4. ChecksPassed' /\ Busy /\ Busy' /\ at > 1 /\ at' > 1
    BY <1>0, <2>1, <2>2 DEF ChecksPassed, At, Busy
  <2>. QED  BY <1>0, <2>1, <2>2, <2>3, <2>4, QuietKeeps DEF Data, store
<1>. QED  BY <1>1, <1>2

(* The check and the report.                                               *)
LEMMA CheckKeeps ==
    ASSUME Variant = "k8s", IInv, QualityCheck \/ Summary
    PROVE  IInv'
<1>. USE DEF IInv
<1>0. Control /\ Data /\ TypeOK /\ state = "running"
  BY TypesAre DEF QualityCheck, Summary, Running
<1>1. CASE QualityCheck /\ ~\A t \in Checked : stats[t] = "full"
  <2>1. GiveUp(disk, FALSE)
    BY <1>1 DEF QualityCheck
  <2>. QED  BY <1>0, <2>1, GiveUpStep, RetreatKeeps
<1>2. CASE Summary \/ (QualityCheck /\ \A t \in Checked : stats[t] = "full")
  <2>1. /\ Proceed(disk) /\ UNCHANGED <<range, stats, store>>
        /\ \/ At(4, 1) /\ \A t \in Table : stats[t] = "full"
           \/ At(5, 1)
    BY <1>0, <1>2, Places DEF QualityCheck, Summary, TypeOK, Checked, K8sChecked
  <2>2. /\ Control' /\ UNCHANGED <<clock, run>> /\ disk' \in {disk, {}} /\ state' = "running"
        /\ At(4, 1) => At(5, 1)'
        /\ At(5, 1) => At(6, 1)'
    BY <1>0, <2>1, ProceedStep DEF At
  <2>3. ReportsAreTrue'
    BY <1>0, <2>1, <2>2 DEF ReportsAreTrue, Exported, Stored, At, Busy, store
  <2>4. ChecksPassed' /\ Busy /\ Busy' /\ at > 1 /\ at' > 1
    BY <1>0, <2>1, <2>2 DEF ChecksPassed, At, Busy
  <2>. QED  BY <1>0, <2>1, <2>2, <2>3, <2>4, QuietKeeps DEF Data, store
<1>. QED  BY <1>1, <1>2

(* The publication ends the run.                                           *)
LEMMA PublishKeeps ==
    ASSUME Variant = "k8s", IInv, Publish
    PROVE  IInv'
<1>. USE DEF IInv
<1>0. Control /\ Data /\ TypeOK /\ state = "running" /\ Busy /\ run \in Nat /\ run > 0
  BY TypesAre DEF Publish, Running, Busy, Control
<1>1. /\ At(6, 1) /\ Proceed(disk) /\ UNCHANGED <<range, stats, bronze>>
      /\ published' = published \cup {run - 1}
  BY <1>0, Places DEF Publish, TypeOK, Target, K8sTarget
<1>2. Control' /\ UNCHANGED <<clock, run>> /\ disk' \in {disk, {}} /\ At(1, 1)' /\ state' = "idle"
  BY <1>0, <1>1, ProceedStep
<1>3. \A t \in Table : File(t, run - 1, "full") \in bronze
  BY <1>0, <1>1 DEF ReportsAreTrue, ChecksPassed, Stored, At
<1>4. PublishedDays'
  <2>1. published' = {d \in Int : 0 <= d /\ d < run}
    BY <1>0, <1>1 DEF PublishedDays
  <2>2. \A d \in published', t \in Table : File(t, d, "full") \in bronze
    BY <1>1, <1>3 DEF PublishedDays
  <2>. QED  BY <1>1, <1>2, <2>1, <2>2 DEF PublishedDays, Busy
<1>5. TypeOK'
  <2>1. run - 1 \in 0..Days
    BY <1>0, BronzeAssumption DEF Control
  <2>2. Data'
    BY <1>0, <1>1, <1>2, <2>1 DEF Data
  <2>. QED  BY <1>2, <2>2, TypesAre
<1>6. RangeIsDay' /\ OneFile' /\ ReportsAreTrue' /\ ChecksPassed'
  BY <1>1, <1>2 DEF RangeIsDay, OneFile, ReportsAreTrue, ChecksPassed, Busy, At
<1>. QED  BY <1>2, <1>4, <1>5, <1>6 DEF Busy, At

-----------------------------------------------------------------------------
(* Time, and the start of a run.                                           *)
LEMMA MineKeeps ==
    ASSUME Variant = "k8s", IInv, Mine
    PROVE  IInv'
<1>. USE DEF IInv
<1>0. Control /\ Data
  BY TypesAre
<1>1. /\ clock' = clock + 1 /\ clock < (Days + 1) * PerDay
      /\ UNCHANGED <<run, state, at, step, tries, range, disk, stats, bronze, published>>
  BY DEF Mine, place, store
<1>2. (Days + 1) * PerDay \in Nat /\ run * PerDay \in Int
  BY <1>0, BronzeAssumption DEF Control
<1>3. TypeOK'
  <2>1. Data'
    BY <1>0, <1>1, <1>2 DEF Data
  <2>2. Control'
    BY <1>0, <1>1 DEF Control
  <2>. QED  BY <2>1, <2>2, TypesAre
<1>4. RangeIsDay'
  BY <1>0, <1>1, <1>2 DEF RangeIsDay, Busy, Data
<1>5. OneFile' /\ ReportsAreTrue' /\ ChecksPassed' /\ PublishedDays'
  BY <1>1 DEF OneFile, ReportsAreTrue, ChecksPassed, PublishedDays, Busy,
              Exported, Stored
<1>. QED  BY <1>1, <1>3, <1>4, <1>5 DEF Busy

LEMMA TriggerKeeps ==
    ASSUME Variant = "k8s", IInv, Trigger
    PROVE  IInv'
<1>. USE DEF IInv
<1>0. Control /\ Data
  BY TypesAre
<1>1. /\ state = "idle" /\ state' = "running" /\ run < Days /\ run' = run + 1 /\ At(1, 1)'
      /\ tries' = 0 /\ disk' = {} /\ stats' = [t \in Table |-> "none"]
      /\ clock > run' * PerDay /\ UNCHANGED <<clock, range, bronze, published>>
  BY DEF Trigger, At, store
<1>2. TypeOK'
  <2>1. Data'
    BY <1>0, <1>1 DEF Data
  <2>2. Control'
    BY <1>0, <1>1, BronzeAssumption DEF Control, At, Count
  <2>. QED  BY <2>1, <2>2, TypesAre
<1>3. PublishedDays'
  BY <1>0, <1>1 DEF PublishedDays, Busy, Control
<1>4. RangeIsDay' /\ OneFile' /\ ReportsAreTrue' /\ ChecksPassed'
  BY <1>1 DEF RangeIsDay, OneFile, ReportsAreTrue, ChecksPassed, Busy, At,
              Exported, Stored
<1>. QED  BY <1>0, <1>1, <1>2, <1>3, <1>4 DEF Busy, Control

-----------------------------------------------------------------------------
(* The invariant holds initially, and every step keeps it.                 *)
LEMMA InvInit == ASSUME Variant = "k8s", Init PROVE IInv
<1>1. PerDay \in Nat /\ PerDay > 0 /\ Days \in Nat /\ Days > 0 /\ Retries \in Nat
  BY BronzeAssumption
<1>2. PerDay + 1 \in 0..(Days + 1) * PerDay
  <2>1. PICK q \in Nat : Days = q + 1
    BY <1>1
  <2>2. q * PerDay \in Nat /\ (Days + 1) * PerDay = q * PerDay + 2 * PerDay
    BY <1>1, <2>1
  <2>. QED  BY <1>1, <2>2
<1>3. TypeOK
  <2>1. Data
    BY <1>1, <1>2 DEF Init, Data, NoRange, Table
  <2>2. at \in 1..Len(Plan) /\ step \in 1..Len(StepsOf(Plan[at]))
    BY ThePlan DEF Init
  <2>. QED  BY <1>1, <2>1, <2>2 DEF Init, Data, TypeOK
<1>4. RangeIsDay
  BY <1>1 DEF Init, RangeIsDay, Busy, NoRange
<1>5. OneFile /\ ReportsAreTrue /\ ChecksPassed /\ PublishedDays /\ ~Busy
  BY DEF Init, OneFile, ReportsAreTrue, ChecksPassed, PublishedDays, Busy
<1>. QED  BY <1>3, <1>4, <1>5 DEF IInv, Init

LEMMA InvStep == ASSUME Variant = "k8s", IInv, [Next]_vars PROVE IInv'
<1>0. TypeOK
  BY DEF IInv
<1>1. CASE AskStart \/ AskEnd
  BY <1>1, AskStep
<1>2. CASE ExportBlocks \/ FetchReceipts \/ ScanTransfers
  BY <1>2, ExportKeeps
<1>3. CASE UploadBlocks \/ UploadTransactions \/ UploadReceipts \/ UploadTransfers
  BY <1>3, UploadKeeps
<1>4. CASE ExtractHashes
  BY <1>4, HashesKeep
<1>5. CASE QualityCheck \/ Summary
  BY <1>5, CheckKeeps
<1>6. CASE Publish
  BY <1>6, PublishKeeps
<1>7. CASE Mine
  BY <1>7, MineKeeps
<1>8. CASE Trigger
  BY <1>8, TriggerKeeps
<1>9. CASE Fail \/ Killed
  BY <1>0, <1>9, GiveUpStep, RetreatKeeps DEF Fail, Killed
<1>10. ASSUME NEW k \in 1..Len(Plan), Clear(k) PROVE IInv'
  BY <1>0, <1>10, ClearStep, RetreatKeeps
<1>11. CASE UNCHANGED vars
  BY <1>11 DEF vars, IInv, TypeOK, RangeIsDay, OneFile, ReportsAreTrue, ChecksPassed,
               PublishedDays, Busy, Exported, Stored
<1>. QED
  BY <1>1, <1>2, <1>3, <1>4, <1>5, <1>6, <1>7, <1>8, <1>9, <1>10, <1>11 DEF Next, Work

LEMMA Invariance == Variant = "k8s" /\ Spec => []IInv
<1>. SUFFICES ASSUME Variant = "k8s" PROVE Spec => []IInv
  OBVIOUS
<1>1. Init => IInv
  BY InvInit
<1>2. IInv /\ [Next]_vars => IInv'
  BY InvStep
<1>. QED  BY <1>1, <1>2, PTL DEF Spec

-----------------------------------------------------------------------------
(* All three DAGs: types, and the order of publication.                    *)

(* The steps of a task that does not publish.                              *)
Quiet(steps) ==
    Len(steps) \in Nat \ {0} /\ \A s \in 1..Len(steps) : steps[s] # "publish"

LEMMA QuietTasks ==
    /\ Quiet(<<"ask_start", "ask_end">>)
    /\ Quiet(<<"export", "up_blocks", "up_txs", "hashes", "fetch", "up_receipts">>)
    /\ Quiet(BlockSteps) /\ Quiet(ReceiptSteps)
    /\ Quiet(<<"scan", "up_transfers">>)
    /\ Quiet(<<"qc">>) /\ Quiet(<<"summary">>)
<1>1. Quiet(<<"ask_start", "ask_end">>) /\ Quiet(<<"scan", "up_transfers">>)
  BY DEF Quiet
<1>2. Quiet(<<"export", "up_blocks", "up_txs", "hashes", "fetch", "up_receipts">>)
  BY DEF Quiet
<1>3. Quiet(BlockSteps) /\ Quiet(ReceiptSteps)
  BY DEF Quiet, BlockSteps, ReceiptSteps
<1>4. Quiet(<<"qc">>) /\ Quiet(<<"summary">>)
  BY DEF Quiet
<1>. QED  BY <1>1, <1>2, <1>3, <1>4

(* The plan of the local DAG, laid out.                                    *)
LEMMA TheLocalPlan ==
    ASSUME Variant = "local"
    PROVE  /\ Len(Plan) = 7
           /\ StepsOf(Plan[1]) = <<"ask_start", "ask_end">>
           /\ StepsOf(Plan[2]) = <<"export", "up_blocks", "up_txs">>
           /\ StepsOf(Plan[3]) = <<"hashes", "fetch", "up_receipts">>
           /\ StepsOf(Plan[4]) = <<"scan", "up_transfers">>
           /\ StepsOf(Plan[5]) = <<"qc">>
           /\ StepsOf(Plan[6]) = <<"summary">>
           /\ StepsOf(Plan[7]) = <<"publish">>
<1>1. Plan = <<"range", "blocks", "receipts", "transfers", "qc", "summary", "publish">>
  BY DEF Plan, LocalPlan
<1>. QED  BY <1>1 DEF StepsOf, BlockSteps, ReceiptSteps

(* Whatever its tasks, a plan ends with the publication.                   *)
LEMMA AnyPlan ==
    /\ Len(Plan) \in Nat \ {0}
    /\ \A a \in 1..Len(Plan) :
          /\ Len(StepsOf(Plan[a])) \in Nat \ {0}
          /\ a = Len(Plan) => StepsOf(Plan[a]) = <<"publish">>
          /\ \A s \in 1..Len(StepsOf(Plan[a])) :
                StepsOf(Plan[a])[s] = "publish" => a = Len(Plan)
<1>1. CASE Variant # "local"
  <2>1. /\ Len(Plan) = 6 /\ StepsOf(Plan[6]) = <<"publish">>
        /\ Quiet(StepsOf(Plan[1])) /\ Quiet(StepsOf(Plan[2])) /\ Quiet(StepsOf(Plan[3]))
        /\ Quiet(StepsOf(Plan[4])) /\ Quiet(StepsOf(Plan[5]))
    BY <1>1, ThePlan, QuietTasks
  <2>2. \A a \in 1..6 : a # 6 => Quiet(StepsOf(Plan[a]))
    BY <2>1
  <2>6. ASSUME NEW a \in 1..Len(Plan)
        PROVE  /\ Len(StepsOf(Plan[a])) \in Nat \ {0}
               /\ a = Len(Plan) => StepsOf(Plan[a]) = <<"publish">>
               /\ \A s \in 1..Len(StepsOf(Plan[a])) :
                     StepsOf(Plan[a])[s] = "publish" => a = Len(Plan)
    <3>1. CASE a = 6
      BY <3>1, <2>1
    <3>2. CASE a # 6
      <4>1. Quiet(StepsOf(Plan[a]))
        BY <2>1, <2>2, <3>2
      <4>. QED  BY <4>1, <3>2, <2>1 DEF Quiet
    <3>. QED  BY <3>1, <3>2
  <2>. QED  BY <2>6, <2>1
<1>2. CASE Variant = "local"
  <2>2. Len(Plan) = 7
    BY <1>2, TheLocalPlan
  <2>3. /\ StepsOf(Plan[1]) = <<"ask_start", "ask_end">>
        /\ StepsOf(Plan[2]) = BlockSteps
        /\ StepsOf(Plan[3]) = ReceiptSteps
        /\ StepsOf(Plan[4]) = <<"scan", "up_transfers">>
        /\ StepsOf(Plan[5]) = <<"qc">>
        /\ StepsOf(Plan[6]) = <<"summary">>
        /\ StepsOf(Plan[7]) = <<"publish">>
    BY <1>2, TheLocalPlan DEF BlockSteps, ReceiptSteps
  <2>4. /\ Quiet(StepsOf(Plan[1])) /\ Quiet(StepsOf(Plan[2])) /\ Quiet(StepsOf(Plan[3]))
        /\ Quiet(StepsOf(Plan[4])) /\ Quiet(StepsOf(Plan[5])) /\ Quiet(StepsOf(Plan[6]))
    BY <2>3, QuietTasks
  <2>5. \A a \in 1..7 : a # 7 => Quiet(StepsOf(Plan[a]))
    BY <2>4
  <2>6. ASSUME NEW a \in 1..Len(Plan)
        PROVE  /\ Len(StepsOf(Plan[a])) \in Nat \ {0}
               /\ a = Len(Plan) => StepsOf(Plan[a]) = <<"publish">>
               /\ \A s \in 1..Len(StepsOf(Plan[a])) :
                     StepsOf(Plan[a])[s] = "publish" => a = Len(Plan)
    <3>1. CASE a = 7
      BY <3>1, <2>2, <2>3
    <3>2. CASE a # 7
      <4>1. Quiet(StepsOf(Plan[a]))
        BY <2>2, <2>3, <2>5, <3>2
      <4>. QED  BY <4>1, <3>2, <2>2 DEF Quiet
    <3>. QED  BY <3>1, <3>2
  <2>. QED  BY <2>6, <2>2
<1>. QED  BY <1>1, <1>2

(* A place of the plan.                                                    *)
AtStep ==
    /\ state \in {"idle", "running", "failed"}
    /\ at \in 1..Len(Plan) /\ step \in 1..Len(StepsOf(Plan[at]))
    /\ tries \in 0..Retries

(* The steps of the plan before the place of the run, and what they report.*)
Past(s) ==
    \E a \in 1..Len(Plan) : \E i \in 1..Len(StepsOf(Plan[a])) :
        /\ StepsOf(Plan[a])[i] = s
        /\ a < at \/ (a = at /\ i < step)

ExportOf(t) == CASE t = "receipts" -> "fetch"
                 [] t = "token_transfers" -> "scan"
                 [] OTHER -> "export"

Reported == Busy => \A t \in Table : Past(ExportOf(t)) => stats[t] \in {"full", "bad"}

(* A step that is done leads to a place of the plan; only the publication  *)
(* ends the run.                                                           *)
LEMMA AnyProceed ==
    ASSUME AtStep, state = "running", NEW files, Proceed(files)
    PROVE  /\ AtStep' /\ UNCHANGED <<clock, run>> /\ disk' \in {files, {}}
           /\ Running("publish") => state' = "idle"
           /\ ~Running("publish") =>
                 state' = "running" /\ \A s : Past(s)' => Past(s) \/ Running(s)
<1>. DEFINE n == Len(Plan)
<1>1. /\ n \in Nat \ {0} /\ at \in 1..n /\ Retries \in Nat
      /\ step \in 1..Len(StepsOf(Plan[at]))
  BY AnyPlan, BronzeAssumption DEF AtStep
<1>2. \A a \in 1..n : Len(StepsOf(Plan[a])) \in Nat \ {0}
  BY AnyPlan
<1>3. CASE step < Len(StepsOf(Plan[at]))
  <2>1. at # n
    <3>1. at = n => Len(StepsOf(Plan[at])) = 1
      BY <1>1, AnyPlan
    <3>2. step \in Int /\ step >= 1 /\ Len(StepsOf(Plan[at])) \in Nat
      BY <1>1, <1>2
    <3>3. Len(StepsOf(Plan[at])) # 1
      <4>. DEFINE m == Len(StepsOf(Plan[at]))
      <4>1. m \in Nat /\ step < m
        BY <1>3, <3>2
      <4>. HIDE DEF m
      <4>2. m # 1
        BY <3>2, <4>1
      <4>. QED  BY <4>2 DEF m
    <3>. QED  BY <3>1, <3>3
  <2>2. ~Running("publish")
    BY <1>1, <2>1, AnyPlan DEF Running
  <2>3. step' = step + 1 /\ disk' = files /\ UNCHANGED <<clock, run, state, at, tries>>
    BY <1>3 DEF Proceed
  <2>4. step' \in 1..Len(StepsOf(Plan[at]))
    BY <1>1, <1>2, <1>3, <2>3
  <2>5. ASSUME NEW s, Past(s)' PROVE Past(s) \/ Running(s)
    <3>1. PICK a \in 1..n : \E i \in 1..Len(StepsOf(Plan[a])) :
             StepsOf(Plan[a])[i] = s /\ (a < at \/ (a = at /\ i < step + 1))
      BY <2>3, <2>5 DEF Past
    <3>2. PICK i \in 1..Len(StepsOf(Plan[a])) :
             StepsOf(Plan[a])[i] = s /\ (a < at \/ (a = at /\ i < step + 1))
      BY <3>1
    <3>3. i \in Int /\ step \in Int
      BY <1>1, <1>2, <3>2
    <3>4. CASE a < at \/ (a = at /\ i < step)
      BY <3>2, <3>4 DEF Past
    <3>5. CASE a = at /\ i = step
      BY <3>2, <3>5 DEF Running
    <3>. QED  BY <3>2, <3>3, <3>4, <3>5
  <2>. QED  BY <2>2, <2>3, <2>4, <2>5 DEF AtStep
<1>4. CASE step = Len(StepsOf(Plan[at]))
  <2>1. /\ step' = 1 /\ tries' = 0 /\ disk' \in {files, {}} /\ UNCHANGED <<clock, run>>
        /\ at < n => at' = at + 1 /\ state' = state
        /\ ~(at < n) => at' = 1 /\ state' = "idle"
    BY <1>4 DEF Proceed, DiskOfNextTry
  <2>2. at' \in 1..n /\ 0 \in 0..Retries
    <3>. HIDE DEF n
    <3>. QED  BY <1>1, <2>1
  <2>3. step' \in 1..Len(StepsOf(Plan[at']))
    <3>1. Len(StepsOf(Plan[at'])) \in Nat \ {0}
      BY <1>2, <2>2
    <3>. QED  BY <2>1, <3>1
  <2>4. Running("publish") <=> ~(at < n)
    <3>1. at = n => StepsOf(Plan[at]) = <<"publish">>
      BY <1>1, AnyPlan
    <3>2. at = n => Running("publish")
      BY <1>4, <3>1 DEF Running
    <3>3. Running("publish") => at = n
      BY <1>1, AnyPlan DEF Running
    <3>. HIDE DEF n
    <3>. QED  BY <1>1, <3>2, <3>3
  <2>6. ASSUME NEW s, at < n, Past(s)' PROVE Past(s) \/ Running(s)
    <3>1. PICK a \in 1..n : \E i \in 1..Len(StepsOf(Plan[a])) :
             StepsOf(Plan[a])[i] = s /\ (a < at + 1 \/ (a = at + 1 /\ i < 1))
      BY <2>1, <2>6 DEF Past
    <3>2. PICK i \in 1..Len(StepsOf(Plan[a])) :
             StepsOf(Plan[a])[i] = s /\ (a < at + 1 \/ (a = at + 1 /\ i < 1))
      BY <3>1
    <3>3. i \in Nat \ {0} /\ Len(StepsOf(Plan[a])) \in Nat /\ i <= Len(StepsOf(Plan[a]))
      BY <1>2, <3>2
    <3>4. a \in Int /\ at \in Int
      <4>. HIDE DEF n
      <4>. QED  BY <1>1
    <3>5. a < at \/ a = at
      BY <3>2, <3>3, <3>4
    <3>6. CASE a < at
      BY <3>2, <3>6 DEF Past
    <3>7. CASE a = at
      <4>1. i = step \/ i < step
        BY <1>4, <3>3, <3>7
      <4>. QED  BY <3>2, <3>7, <4>1 DEF Past, Running
    <3>. QED  BY <3>5, <3>6, <3>7
  <2>. HIDE DEF n
  <2>5. state' \in {"idle", "running", "failed"}
    BY <2>1
  <2>. QED  BY <2>1, <2>2, <2>3, <2>4, <2>5, <2>6 DEF AtStep, n
<1>. QED  BY <1>1, <1>2, <1>3, <1>4

(* A try that is over, and a cleared task.                                 *)
Files == {"block", "tx", "hash", "receipt", "transfer"}

LEMMA AnyGiveUp ==
    ASSUME AtStep, state = "running", NEW files \in SUBSET Files, NEW again, GiveUp(files, again)
    PROVE  /\ AtStep' /\ UNCHANGED <<clock, run, range, stats, store>>
           /\ state' # "idle" /\ disk' \subseteq Files /\ \A s : Past(s)' => Past(s)
<1>1. Retries \in Nat /\ 1 \in 1..Len(StepsOf(Plan[at])) /\ tries \in 0..Retries
  BY AnyPlan, BronzeAssumption DEF AtStep
<1>2. ASSUME NEW s, Past(s)' PROVE Past(s)
  <2>1. at' = at /\ (step' = 1 \/ step' = step)
    BY DEF GiveUp
  <2>2. PICK a \in 1..Len(Plan) : \E i \in 1..Len(StepsOf(Plan[a])) :
           StepsOf(Plan[a])[i] = s /\ (a < at \/ (a = at /\ i < step'))
    BY <1>2, <2>1 DEF Past
  <2>3. PICK i \in 1..Len(StepsOf(Plan[a])) :
           StepsOf(Plan[a])[i] = s /\ (a < at \/ (a = at /\ i < step'))
    BY <2>2
  <2>4. ~(i < 1)
    BY AnyPlan
  <2>. QED  BY <2>1, <2>3, <2>4 DEF Past
<1>. QED  BY <1>1, <1>2 DEF GiveUp, AtStep, DiskOfNextTry

LEMMA AnyClear ==
    ASSUME AtStep, disk \subseteq Files, NEW k \in 1..Len(Plan), Clear(k)
    PROVE  /\ AtStep' /\ UNCHANGED <<clock, run, range, stats, store>>
           /\ state = "failed" /\ state' # "idle" /\ disk' \subseteq Files
           /\ \A s : Past(s)' => Past(s)
<1>1. 0 \in 0..Retries /\ 1 \in 1..Len(StepsOf(Plan[k]))
  BY AnyPlan, BronzeAssumption
<1>2. ASSUME NEW s, Past(s)' PROVE Past(s)
  <2>1. at' = k /\ step' = 1 /\ k \in 1..at /\ at \in Int
    BY AnyPlan DEF Clear, AtStep
  <2>2. PICK a \in 1..Len(Plan) : \E i \in 1..Len(StepsOf(Plan[a])) :
           StepsOf(Plan[a])[i] = s /\ (a < k \/ (a = k /\ i < 1))
    BY <1>2, <2>1 DEF Past
  <2>3. PICK i \in 1..Len(StepsOf(Plan[a])) :
           StepsOf(Plan[a])[i] = s /\ (a < k \/ (a = k /\ i < 1))
    BY <2>2
  <2>4. ~(i < 1) /\ a \in Int
    BY AnyPlan
  <2>5. a < at
    BY <2>1, <2>3, <2>4
  <2>. QED  BY <2>3, <2>5 DEF Past
<1>. QED  BY <1>1, <1>2 DEF Clear, AtStep, DiskOfNextTry

(* The inductive invariant: the days published are those of the runs that  *)
(* ended, from the first.                                                  *)
FirstDay == IF Variant = "k8s" THEN 0 ELSE 1

Ordered ==
    /\ AtStep /\ Data /\ Reported /\ run \in 0..Days /\ clock > 0 /\ (Busy => run > 0)
    /\ published = {d \in Int : FirstDay <= d /\ d <= (IF Busy THEN Target - 1 ELSE Target)}

(* The day of a run and its blocks.                                        *)
LEMMA TargetIs ==
    ASSUME run \in 0..Days
    PROVE  /\ Target = run - 1 + FirstDay /\ FirstDay \in {0, 1} /\ Target \in Int
           /\ run > 0 => Target \in 0..Days
BY BronzeAssumption DEF Target, FirstDay, K8sTarget, GkeTarget, LocalTarget

LEMMA AnyBlock ==
    ASSUME clock \in Nat, clock > 0, NEW d \in Nat
    PROVE  BlockByDate(d) \in 0..clock /\ BlockByDate(d) - 1 \in -1..clock
<1>1. d * PerDay \in Nat
  BY BronzeAssumption
<1>. QED  BY <1>1 DEF BlockByDate

(* Steps of a run that has not ended.                                      *)
LEMMA OrderedInside ==
    ASSUME Ordered, Busy, Busy', AtStep', Data', Reported', UNCHANGED <<clock, run, published>>
    PROVE  Ordered'
<1>1. Target' = Target
  BY DEF Target, K8sTarget, GkeTarget, LocalTarget
<1>. QED  BY <1>1 DEF Ordered, FirstDay
(* What a run uploads, it has exported before.                             *)
LEMMA ExportedBefore ==
    ASSUME AtStep
    PROVE  /\ Running("up_blocks") \/ Running("up_txs") => Past("export")
           /\ Running("up_receipts") => Past("fetch")
           /\ Running("up_transfers") => Past("scan")
<1>1. CASE Variant # "local"
  <2>1. /\ Running("up_blocks") => At(2, 2)
        /\ Running("up_txs") => At(2, 3)
        /\ Running("up_receipts") => At(2, 6)
        /\ Running("up_transfers") => At(3, 2)
    BY <1>1, Places DEF AtStep
  <2>2. Len(Plan) = 6 /\ 2 \in 1..6 /\ 3 \in 1..6
    BY <1>1, ThePlan
  <2>3. /\ 1 \in 1..Len(StepsOf(Plan[2])) /\ StepsOf(Plan[2])[1] = "export"
        /\ 5 \in 1..Len(StepsOf(Plan[2])) /\ StepsOf(Plan[2])[5] = "fetch"
        /\ 1 \in 1..Len(StepsOf(Plan[3])) /\ StepsOf(Plan[3])[1] = "scan"
    BY <1>1, ThePlan
  <2>4. At(2, 2) \/ At(2, 3) => Past("export")
    BY <2>2, <2>3 DEF Past, At
  <2>5. At(2, 6) => Past("fetch")
    BY <2>2, <2>3 DEF Past, At
  <2>6. At(3, 2) => Past("scan")
    BY <2>2, <2>3 DEF Past, At
  <2>. QED  BY <2>1, <2>4, <2>5, <2>6
<1>2. CASE Variant = "local"
  <2>1. Len(Plan) = 7 /\ 2 \in 1..7 /\ 3 \in 1..7 /\ 4 \in 1..7
    BY <1>2, TheLocalPlan
  <2>2. at \in 1..7 /\ step \in 1..Len(StepsOf(Plan[at]))
    BY <2>1 DEF AtStep
  <2>3. /\ Running("up_blocks") => At(2, 2)
        /\ Running("up_txs") => At(2, 3)
        /\ Running("up_receipts") => At(3, 3)
        /\ Running("up_transfers") => At(4, 2)
    <3>1. CASE at = 1
      <4>1. StepsOf(Plan[at]) = <<"ask_start", "ask_end">>
        BY <1>2, <3>1, TheLocalPlan
      <4>2. step = 1 \/ step = 2
        BY <2>2, <4>1
      <4>. QED  BY <3>1, <4>1, <4>2 DEF Running, At
    <3>2. CASE at = 2
      <4>1. StepsOf(Plan[at]) = <<"export", "up_blocks", "up_txs">>
        BY <1>2, <3>2, TheLocalPlan
      <4>2. step = 1 \/ step = 2 \/ step = 3
        BY <2>2, <4>1
      <4>. QED  BY <3>2, <4>1, <4>2 DEF Running, At
    <3>3. CASE at = 3
      <4>1. StepsOf(Plan[at]) = <<"hashes", "fetch", "up_receipts">>
        BY <1>2, <3>3, TheLocalPlan
      <4>2. step = 1 \/ step = 2 \/ step = 3
        BY <2>2, <4>1
      <4>. QED  BY <3>3, <4>1, <4>2 DEF Running, At
    <3>4. CASE at = 4
      <4>1. StepsOf(Plan[at]) = <<"scan", "up_transfers">>
        BY <1>2, <3>4, TheLocalPlan
      <4>2. step = 1 \/ step = 2
        BY <2>2, <4>1
      <4>. QED  BY <3>4, <4>1, <4>2 DEF Running, At
    <3>5. CASE at \in 5..7  BY <1>2, <2>2, <3>5, TheLocalPlan DEF Running, At
    <3>. QED  BY <2>2, <3>1, <3>2, <3>3, <3>4, <3>5
  <2>4. /\ 1 \in 1..Len(StepsOf(Plan[2])) /\ StepsOf(Plan[2])[1] = "export"
        /\ 2 \in 1..Len(StepsOf(Plan[3])) /\ StepsOf(Plan[3])[2] = "fetch"
        /\ 1 \in 1..Len(StepsOf(Plan[4])) /\ StepsOf(Plan[4])[1] = "scan"
    BY <1>2, TheLocalPlan
  <2>5. At(2, 2) \/ At(2, 3) => Past("export")
    BY <2>1, <2>4 DEF Past, At
  <2>6. At(3, 3) => Past("fetch")
    BY <2>1, <2>4 DEF Past, At
  <2>7. At(4, 2) => Past("scan")
    BY <2>1, <2>4 DEF Past, At
  <2>. QED  BY <2>3, <2>5, <2>6, <2>7
<1>. QED  BY <1>1, <1>2


LEMMA OrderedInit == Init => Ordered
<1>. SUFFICES ASSUME Init PROVE Ordered
  OBVIOUS
<1>1. PerDay \in Nat /\ PerDay > 0 /\ Days \in Nat /\ Days > 0 /\ Retries \in Nat
  BY BronzeAssumption
<1>2. PerDay + 1 \in 0..(Days + 1) * PerDay
  <2>1. PICK q \in Nat : Days = q + 1
    BY <1>1
  <2>2. q * PerDay \in Nat /\ (Days + 1) * PerDay = q * PerDay + 2 * PerDay
    BY <1>1, <2>1
  <2>. QED  BY <1>1, <2>2
<1>3. Data
  BY <1>1, <1>2 DEF Init, Data, NoRange, Table
<1>4. AtStep
  BY <1>1, AnyPlan DEF Init, AtStep
<1>5. ~Busy /\ run \in 0..Days /\ clock > 0
  BY <1>1 DEF Init, Busy
<1>6. published = {d \in Int : FirstDay <= d /\ d <= (IF Busy THEN Target - 1 ELSE Target)}
  BY <1>1, <1>5, TargetIs DEF Init
<1>7. Reported
  BY <1>5 DEF Reported
<1>. QED  BY <1>3, <1>4, <1>5, <1>6, <1>7 DEF Ordered

(* Steps of a run that get on with it, other than the publication: a table *)
(* that is reported stays so, an export reports its own.                   *)
LEMMA OrderedAhead ==
    ASSUME Ordered, state = "running", ~Running("publish"), NEW files \in SUBSET Files,
           Proceed(files), published' = published,
           range'.from \in 0..clock, range'.to \in -1..clock,
           stats' \in [Table -> {"none", "full", "bad"}],
           \A t \in Table : stats'[t] = stats[t] \/ stats'[t] \in {"full", "bad"},
           \A t \in Table : Running(ExportOf(t)) => stats'[t] \in {"full", "bad"},
           \A f \in bronze' : f.table \in Table /\ f.outcome \in {"full", "bad"}
    PROVE  Ordered'
<1>1. /\ AtStep' /\ UNCHANGED <<clock, run>> /\ disk' \in {files, {}} /\ state' = "running"
      /\ \A s : Past(s)' => Past(s) \/ Running(s)
  BY AnyProceed DEF Ordered
<1>2. Data'
  BY <1>1 DEF Ordered, Data, Files
<1>3. Busy /\ Busy'
  BY <1>1 DEF Busy
<1>4. Reported'
  <2>. SUFFICES ASSUME NEW t \in Table, Past(ExportOf(t))' PROVE stats'[t] \in {"full", "bad"}
    BY DEF Reported, ExportOf
  <2>1. CASE Running(ExportOf(t))
    BY <2>1
  <2>2. CASE Past(ExportOf(t))
    BY <1>3, <2>2 DEF Ordered, Reported
  <2>. QED  BY <1>1, <2>1, <2>2
<1>. QED  BY <1>1, <1>2, <1>3, <1>4, OrderedInside

(* A try that is over, or a task that is cleared.                          *)
LEMMA OrderedBack ==
    ASSUME Ordered, Busy, AtStep', UNCHANGED <<clock, run, range, stats, store>>,
           state' # "idle", disk' \subseteq Files, \A s : Past(s)' => Past(s)
    PROVE  Ordered'
<1>1. Data'
  BY DEF Ordered, Data, Files, store
<1>2. Reported'
  <2>. SUFFICES ASSUME NEW t \in Table, Past(ExportOf(t))' PROVE stats'[t] \in {"full", "bad"}
    BY DEF Reported, ExportOf
  <2>1. Past(ExportOf(t))
    OBVIOUS
  <2>. QED  BY <2>1 DEF Ordered, Reported
<1>. QED  BY <1>1, <1>2, OrderedInside DEF Busy, store

LEMMA OrderedWork ==
    ASSUME Ordered, Work
    PROVE  Ordered'
<1>. USE DEF Ordered
<1>1. state = "running" /\ clock \in Nat /\ Table # {}
  <2>1. state = "running"
    BY DEF Work, AskStart, AskEnd, ExportBlocks, UploadBlocks, UploadTransactions,
           ExtractHashes, FetchReceipts, UploadReceipts, ScanTransfers, UploadTransfers,
           QualityCheck, Summary, Publish, Running
  <2>2. (Days + 1) * PerDay \in Nat
    BY BronzeAssumption
  <2>. QED  BY <2>1, <2>2 DEF Data, Table
<1>2. \A t \in Table : stats[t] = stats[t] \/ stats[t] \in {"full", "bad"}
  OBVIOUS
<1>3. CASE AskStart \/ AskEnd
  <2>1. Target \in Nat /\ Target + 1 \in Nat
    BY <1>1, TargetIs DEF Busy
  <2>2. range'.from \in 0..clock /\ range'.to \in -1..clock
    <3>1. CASE AskStart
      BY <1>1, <2>1, <3>1, AnyBlock DEF AskStart, NoRange
    <3>2. CASE AskEnd
      BY <1>1, <2>1, <3>2, AnyBlock DEF AskEnd, Data
    <3>. QED  BY <1>3, <3>1, <3>2
  <2>3. Proceed(disk) /\ UNCHANGED <<stats, store>>
    BY <1>3 DEF AskStart, AskEnd
  <2>4. ~Running("publish") /\ \A t \in Table : ~Running(ExportOf(t))
    BY <1>3 DEF AskStart, AskEnd, Running, ExportOf
  <2>. QED  BY <1>1, <2>2, <2>3, <2>4, OrderedAhead DEF Data, Files, store
<1>4. CASE QualityCheck \/ Summary \/ ExtractHashes
  <2>1. UNCHANGED <<range, stats, store>>
    BY <1>4 DEF QualityCheck, Summary, ExtractHashes, GiveUp
  <2>2. ~Running("publish") /\ \A t \in Table : ~Running(ExportOf(t))
    BY <1>4 DEF QualityCheck, Summary, ExtractHashes, Running, ExportOf
  <2>3. \/ \E files \in SUBSET Files : Proceed(files)
        \/ \E files \in SUBSET Files, again \in BOOLEAN : GiveUp(files, again)
    <3>1. /\ disk \in SUBSET Files /\ disk \cup {"hash"} \in SUBSET Files
          /\ disk \ Removed("hashes") \in SUBSET Files
      BY DEF Data, Files
    <3>. QED  BY <1>4, <3>1 DEF QualityCheck, Summary, ExtractHashes
  <2>4. ASSUME NEW files \in SUBSET Files, Proceed(files) PROVE Ordered'
    BY <1>1, <2>1, <2>2, <2>4, OrderedAhead DEF Data, store
  <2>5. ASSUME NEW files \in SUBSET Files, NEW again, GiveUp(files, again) PROVE Ordered'
    BY <1>1, <2>1, <2>5, AnyGiveUp, OrderedBack DEF Busy
  <2>. QED  BY <2>3, <2>4, <2>5
<1>5. ASSUME NEW tables \in SUBSET Table, NEW files \in SUBSET Files,
             Outcome(tables), Proceed(files), UNCHANGED <<range, store>>, ~Running("publish"),
             \A t \in Table : Running(ExportOf(t)) => t \in tables
      PROVE  Ordered'
  <2>1. /\ stats' \in [Table -> {"none", "full", "bad"}]
        /\ \A t \in tables : stats'[t] \in {"full", "bad"}
        /\ \A t \in Table \ tables : stats'[t] = stats[t]
    BY <1>5, OutcomeStep DEF Data
  <2>. QED  BY <1>1, <1>5, <2>1, OrderedAhead DEF Data, store
<1>6. CASE ExportBlocks \/ FetchReceipts \/ ScanTransfers
  <2>1. /\ {"blocks", "transactions"} \in SUBSET Table /\ {"receipts"} \in SUBSET Table
        /\ {"token_transfers"} \in SUBSET Table
        /\ disk \cup {"block", "tx"} \in SUBSET Files /\ disk \cup {"receipt"} \in SUBSET Files
        /\ disk \cup {"transfer"} \in SUBSET Files
    BY DEF Table, Files, Data
  <2>2. CASE ExportBlocks
    <3>1. ~Running("publish") /\ \A t \in Table : Running(ExportOf(t)) => t \in {"blocks", "transactions"}
      BY <2>2 DEF ExportBlocks, Running, ExportOf, Table
    <3>. QED  BY <1>5, <2>1, <2>2, <3>1 DEF ExportBlocks
  <2>3. CASE FetchReceipts
    <3>1. ~Running("publish") /\ \A t \in Table : Running(ExportOf(t)) => t \in {"receipts"}
      BY <2>3 DEF FetchReceipts, Running, ExportOf, Table
    <3>. QED  BY <1>5, <2>1, <2>3, <3>1 DEF FetchReceipts
  <2>4. CASE ScanTransfers
    <3>1. ~Running("publish") /\ \A t \in Table : Running(ExportOf(t)) => t \in {"token_transfers"}
      BY <2>4 DEF ScanTransfers, Running, ExportOf, Table
    <3>. QED  BY <1>5, <2>1, <2>4, <3>1 DEF ScanTransfers
  <2>. QED  BY <1>6, <2>2, <2>3, <2>4
<1>7. CASE UploadBlocks \/ UploadTransactions \/ UploadReceipts \/ UploadTransfers
  <2>1. PICK t \in Table, files \in SUBSET Files :
           Upload(t, files) /\ stats[t] \in {"full", "bad"}
    <3>1. /\ "blocks" \in Table /\ "transactions" \in Table /\ "receipts" \in Table
          /\ "token_transfers" \in Table
          /\ disk \in SUBSET Files /\ disk \ {"block"} \in SUBSET Files
          /\ disk \ {"tx", "hash", "receipt"} \in SUBSET Files
      BY DEF Table, Data, Files
    <3>2. \A t \in Table : Past(ExportOf(t)) => stats[t] \in {"full", "bad"}
      BY <1>1 DEF Reported, Busy
    <3>3. /\ UploadBlocks \/ UploadTransactions => Past("export")
          /\ UploadReceipts => Past("fetch")
          /\ UploadTransfers => Past("scan")
      BY ExportedBefore DEF UploadBlocks, UploadTransactions, UploadReceipts, UploadTransfers
    <3>4. /\ ExportOf("blocks") = "export" /\ ExportOf("transactions") = "export"
          /\ ExportOf("receipts") = "fetch" /\ ExportOf("token_transfers") = "scan"
      BY DEF ExportOf
    <3>. QED
      BY <1>7, <3>1, <3>2, <3>3, <3>4
      DEF UploadBlocks, UploadTransactions, UploadReceipts, UploadTransfers
  <2>2. ~Running("publish") /\ \A u \in Table : ~Running(ExportOf(u))
    BY <1>7 DEF UploadBlocks, UploadTransactions, UploadReceipts, UploadTransfers, Running, ExportOf
  <2>3. Proceed(files) /\ UNCHANGED <<range, stats, published>>
    BY <2>1 DEF Upload
  <2>4. \A f \in bronze' : f.table \in Table /\ f.outcome \in {"full", "bad"}
    BY <2>1 DEF Upload, Data
  <2>. QED  BY <1>1, <2>2, <2>3, <2>4, OrderedAhead DEF Data
<1>8. CASE Publish
  <2>1. /\ Running("publish") /\ published' = published \cup {Target}
        /\ Proceed(disk) /\ UNCHANGED <<range, stats, bronze>>
    BY <1>8 DEF Publish
  <2>2. /\ AtStep' /\ UNCHANGED <<clock, run>> /\ disk' \in {disk, {}} /\ state' = "idle"
    BY <1>1, <2>1, AnyProceed
  <2>3. Target' = Target /\ Target \in 0..Days /\ FirstDay \in {0, 1} /\ FirstDay <= Target
    <3>1. Target' = Target
      BY <2>2 DEF Target, K8sTarget, GkeTarget, LocalTarget
    <3>2. run \in Int /\ run > 0
      BY <1>1, BronzeAssumption DEF Busy
    <3>. QED  BY <3>1, <3>2, TargetIs
  <2>4. published' = {d \in Int : FirstDay <= d /\ d <= Target}
    BY <1>1, <2>1, <2>3, BronzeAssumption DEF Busy
  <2>5. Data'
    BY <2>1, <2>2, <2>3 DEF Data
  <2>6. ~Busy' /\ Reported'
    BY <2>2 DEF Busy, Reported
  <2>. QED  BY <2>2, <2>3, <2>4, <2>5, <2>6 DEF FirstDay
<1>. QED  BY <1>3, <1>4, <1>6, <1>7, <1>8 DEF Work

LEMMA OrderedStep ==
    ASSUME Ordered, [Next]_vars
    PROVE  Ordered'
<1>. USE DEF Ordered
<1>0. (Days + 1) * PerDay \in Nat /\ Days \in Nat /\ Retries \in Nat
  BY BronzeAssumption
<1>1. CASE Work
  BY <1>1, OrderedWork
<1>2. CASE Mine
  <2>1. /\ clock < (Days + 1) * PerDay /\ clock' = clock + 1
        /\ UNCHANGED <<run, state, at, step, tries, range, disk, stats, bronze, published>>
    BY <1>2 DEF Mine, place, store
  <2>2. Data'
    BY <1>0, <2>1 DEF Data
  <2>3. clock' > 0
    BY <1>0, <2>1 DEF Data
  <2>4. AtStep' /\ Reported' /\ Target' = Target /\ Busy' = Busy
    BY <2>1 DEF AtStep, Reported, Past, Busy, Target, K8sTarget, GkeTarget, LocalTarget
  <2>. QED  BY <2>1, <2>2, <2>3, <2>4 DEF FirstDay, Busy
<1>3. CASE Trigger
  <2>1. /\ state = "idle" /\ state' = "running" /\ run < Days /\ run' = run + 1
        /\ at' = 1 /\ step' = 1 /\ tries' = 0
        /\ disk' = {} /\ stats' = [t \in Table |-> "none"]
        /\ UNCHANGED <<clock, range, bronze, published>>
    BY <1>3 DEF Trigger, store
  <2>2. AtStep'
    BY <1>0, <2>1, AnyPlan DEF AtStep
  <2>3. Data'
    BY <2>1 DEF Data
  <2>4. Reported'
    <3>. SUFFICES ASSUME NEW s, Past(s)' PROVE FALSE
      BY DEF Reported
    <3>1. PICK a \in 1..Len(Plan) : \E i \in 1..Len(StepsOf(Plan[a])) : a < 1 \/ i < 1
      BY <2>1 DEF Past
    <3>2. a \in Int /\ a >= 1
      BY AnyPlan
    <3>3. PICK i \in 1..Len(StepsOf(Plan[a])) : i < 1
      BY <3>1, <3>2
    <3>. QED  BY <3>3, AnyPlan
  <2>5. run \in Nat /\ run' \in 0..Days /\ run' > 0
    BY <1>0, <2>1
  <2>6. Target' - 1 = Target
    <3>1. Target = run - 1 + FirstDay /\ FirstDay \in {0, 1}
      BY TargetIs
    <3>2. Target' = run' - 1 + FirstDay
      BY <2>5, BronzeAssumption DEF Target, FirstDay, K8sTarget, GkeTarget, LocalTarget
    <3>. QED  BY <2>1, <2>5, <3>1, <3>2
  <2>7. ~Busy /\ Busy'
    BY <2>1 DEF Busy
  <2>. QED  BY <2>1, <2>2, <2>3, <2>4, <2>5, <2>6, <2>7 DEF FirstDay
<1>4. CASE Fail \/ Killed
  <2>1. PICK files \in SUBSET Files : GiveUp(files, TRUE)
    <3>1. disk \in SUBSET Files /\ disk \ Removed(StepsOf(Plan[at])[step]) \in SUBSET Files
      BY DEF Data, Files
    <3>. QED  BY <1>4, <3>1 DEF Fail, Killed
  <2>2. state = "running"
    BY <1>4 DEF Fail, Killed
  <2>. QED  BY <2>1, <2>2, AnyGiveUp, OrderedBack DEF Busy
<1>5. ASSUME NEW k \in 1..Len(Plan), Clear(k) PROVE Ordered'
  <2>1. disk \subseteq Files
    BY DEF Data, Files
  <2>. QED  BY <1>5, <2>1, AnyClear, OrderedBack DEF Busy
<1>6. CASE UNCHANGED vars
  <2>1. AtStep' /\ Data' /\ Reported' /\ Target' = Target /\ Busy' = Busy
    BY <1>6 DEF vars, AtStep, Data, Reported, Past, Busy, Target, K8sTarget, GkeTarget, LocalTarget
  <2>. QED  BY <1>6, <2>1 DEF vars, FirstDay, Busy
<1>. QED  BY <1>1, <1>2, <1>3, <1>4, <1>5, <1>6 DEF Next

LEMMA AlwaysOrdered == Spec => []Ordered
<1>1. Init => Ordered
  BY OrderedInit
<1>2. Ordered /\ [Next]_vars => Ordered'
  BY OrderedStep
<1>. QED  BY <1>1, <1>2, PTL DEF Spec

-----------------------------------------------------------------------------
(* The transactions of the receipts, where one pod does the whole          *)
(* extraction.                                                             *)

(* A try of the extraction has its transactions until the receipts are up. *)
InputKept == state = "running" /\ at = 2 /\ step \in 2..4 => "tx" \in disk

LEMMA OrderedIsTyped == Ordered => TypeOK
BY DEF Ordered, AtStep, Data, TypeOK

LEMMA InputStep ==
    ASSUME Variant # "local", TypeOK, InputKept, [Next]_vars
    PROVE  InputKept'
<1>0. Control
  BY ControlIsTyped
<1>1. ASSUME Retreat PROVE InputKept'
  BY <1>1 DEF InputKept, Retreat
<1>2. ASSUME NEW files, state = "running", Proceed(files),
             At(2, 1) \/ At(2, 2) \/ At(2, 3) => "tx" \in files
      PROVE  InputKept'
  <2>1. /\ \A i \in 1..5 : At(2, i) => At(2, i + 1)' /\ disk' = files
        /\ At(1, 1) => At(1, 2)'
        /\ At(1, 2) => At(2, 1)'
        /\ At(2, 6) => At(3, 1)'
        /\ At(3, 1) => At(3, 2)'
        /\ At(3, 2) => At(4, 1)'
        /\ At(4, 1) => At(5, 1)'
        /\ At(5, 1) => At(6, 1)'
        /\ At(6, 1) => At(1, 1)'
    BY <1>2, ProceedStep
  <2>2. CASE at = 2
    <3>1. step \in 1..6
      BY <1>0, <2>2 DEF Control, Count
    <3>2. CASE step \in 1..3
      BY <1>2, <2>1, <2>2, <3>2 DEF At, InputKept
    <3>3. CASE step \in 4..6
      BY <2>1, <2>2, <3>3 DEF At, InputKept
    <3>. QED  BY <3>1, <3>2, <3>3
  <2>3. CASE at # 2
    <3>1. At(1, 1) \/ At(1, 2) \/ At(3, 1) \/ At(3, 2) \/ At(4, 1) \/ At(5, 1) \/ At(6, 1)
      BY <1>0, <2>3 DEF Control, Count, At
    <3>. QED  BY <2>1, <3>1 DEF At, InputKept
  <2>. QED  BY <2>2, <2>3
<1>3. CASE ExportBlocks
  BY <1>2, <1>3 DEF ExportBlocks, Running
<1>4. CASE UploadBlocks \/ UploadTransactions
  <2>1. state = "running" /\ (At(2, 2) \/ At(2, 3))
    BY <1>4, Places DEF UploadBlocks, UploadTransactions, Running, TypeOK
  <2>2. "tx" \in disk
    BY <2>1 DEF InputKept, At
  <2>. QED  BY <1>2, <1>4, <2>1, <2>2 DEF UploadBlocks, UploadTransactions, Upload
<1>5. ASSUME state = "running", ~Running("export"), ~Running("up_blocks"), ~Running("up_txs"),
             NEW files, Proceed(files)
      PROVE  InputKept'
  <2>1. ~At(2, 1) /\ ~At(2, 2) /\ ~At(2, 3)
    BY <1>5, ThePlan DEF Running, At
  <2>. QED  BY <1>2, <1>5, <2>1
<1>6. CASE AskStart \/ AskEnd \/ FetchReceipts \/ ScanTransfers \/ Summary \/ Publish
  BY <1>5, <1>6 DEF AskStart, AskEnd, FetchReceipts, ScanTransfers, Summary, Publish, Running
<1>7. CASE UploadReceipts \/ UploadTransfers
  BY <1>5, <1>7 DEF UploadReceipts, UploadTransfers, Upload, Running
<1>8. CASE ExtractHashes \/ QualityCheck
  <2>1. /\ state = "running"
        /\ ~Running("export") /\ ~Running("up_blocks") /\ ~Running("up_txs")
    BY <1>8 DEF ExtractHashes, QualityCheck, Running
  <2>2. \/ \E files : Proceed(files)
        \/ \E files, again : GiveUp(files, again)
    BY <1>8 DEF ExtractHashes, QualityCheck
  <2>3. ASSUME NEW files, NEW again, GiveUp(files, again) PROVE InputKept'
    BY <1>1, <2>1, <2>3, GiveUpStep
  <2>. QED  BY <1>5, <2>1, <2>2, <2>3
<1>9. CASE Fail \/ Killed
  BY <1>1, <1>9, GiveUpStep DEF Fail, Killed
<1>10. ASSUME NEW k \in 1..Len(Plan), Clear(k) PROVE InputKept'
  BY <1>1, <1>10, ClearStep
<1>11. CASE Trigger
  BY <1>11 DEF Trigger, InputKept
<1>12. CASE Mine \/ UNCHANGED vars
  BY <1>12 DEF Mine, place, vars, InputKept
<1>. QED
  BY <1>3, <1>4, <1>6, <1>7, <1>8, <1>9, <1>10, <1>11, <1>12 DEF Next, Work

-----------------------------------------------------------------------------
(* A run is always at a step of its plan, with a range of blocks that      *)
(* exist, in each of the DAGs.                                             *)
THEOREM TypeCorrect == Spec => []TypeOK
BY AlwaysOrdered, OrderedIsTyped, PTL

(* No day is published before the one before it (depends_on_past), in each *)
(* of the DAGs.                                                            *)
THEOREM PublicationInOrder == Spec => []PublishedInOrder
<1>1. Ordered => PublishedInOrder
  <2>. SUFFICES ASSUME Ordered, NEW d \in published, NEW e \in FirstDay..d PROVE e \in published
    BY DEF PublishedInOrder, FirstDay
  <2>1. Target \in Int /\ FirstDay \in {0, 1}
    BY TargetIs DEF Ordered
  <2>. QED  BY <2>1 DEF Ordered
<1>. QED  BY <1>1, AlwaysOrdered, PTL

(* A try of the extraction, the first or a repeated one, has the           *)
(* transactions it takes the hashes from; not so in the local DAG.         *)
THEOREM InputIsThere == Variant # "local" /\ Spec => []RetryFindsInput
<1>. SUFFICES ASSUME Variant # "local" PROVE Spec => []RetryFindsInput
  OBVIOUS
<1>1. Init => InputKept
  BY DEF Init, InputKept
<1>2. TypeOK /\ InputKept /\ [Next]_vars => InputKept'
  BY InputStep
<1>3. TypeOK /\ InputKept => RetryFindsInput
  <2>. SUFFICES ASSUME TypeOK, InputKept, Running("hashes") PROVE "tx" \in disk
    BY DEF RetryFindsInput
  <2>1. At(2, 4) /\ state = "running"
    BY Places DEF TypeOK, Running
  <2>. QED  BY <2>1 DEF InputKept, At
<1>. QED  BY <1>1, <1>2, <1>3, TypeCorrect, PTL DEF Spec

(* Whatever was retried, killed or cleared, a published day of the k8s DAG *)
(* has one complete file of each table, with the blocks of that day and no *)
(* other (eth_etl_dag_k8s.py).                                             *)
THEOREM PublishedDayExact == Variant = "k8s" /\ Spec => []PublishedDayIsExact
<1>1. IInv => PublishedDayIsExact
  <2>. SUFFICES ASSUME IInv, NEW d \in published, NEW t \in Table
                PROVE  Partition(t, d) = {File(t, d, "full")}
    BY DEF PublishedDayIsExact, File
  <2>1. File(t, d, "full") \in bronze /\ File(t, d, "full").table = t /\ File(t, d, "full").day = d
    BY DEF IInv, PublishedDays, File
  <2>2. \A f \in bronze : f.table = t /\ f.day = d => f = File(t, d, "full")
    BY <2>1 DEF IInv, OneFile
  <2>. QED  BY <2>1, <2>2 DEF Partition
<1>. QED  BY <1>1, Invariance, PTL
=============================================================================
