-------------------------- MODULE LayerPipelineProofs --------------------------
(* Theorems about LayerPipeline, for every choice of DAGs, number of days, *)
(* retries, publications and failures.                                     *)
EXTENDS LayerPipeline, TLAPS

Enriched == "txn_enriched"
Whales   == "whale_txns"

(* The silver table a gold table is made of.                               *)
Reads(g) == IF g = "token_popularity_daily" THEN "token_flow" ELSE "whale_txns"

-----------------------------------------------------------------------------
(* The inductive invariant.                                                *)

(* Versions come from publications, of which the budget limits the number. *)
Types ==
    /\ TypeOK
    /\ bq \in [GoldTable -> [Day -> Seq(1..MaxEvents)]]
    /\ \A d \in Day : bronze[d] + budget.events <= MaxEvents

GoldJobTables == {j.table : j \in Jobs("gold")}

(* A run that is not there has done nothing; the tasks of a layer have     *)
(* states of their own; the two builds wait for the first.                 *)
Tasks ==
    /\ \A t \in SilverTable : /\ run["silver"] = 0 => task[t] = "todo"
                              /\ task[t] # "written"
                              /\ task[t] = "torn" /\ t # Enriched => task[Enriched] = "done"
    /\ \A g \in GoldTable : run["gold"] = 0 \/ g \notin GoldJobTables => task[g] = "todo"
    /\ Enriched \notin caught

(* Downstream is never newer than upstream, where there is an upstream.    *)
Versions ==
    \A d \in Day :
        /\ \A t \in SilverTable : silver[t][d] <= bronze[d]
        /\ \A g \in GoldTable :
              /\ gold[g][d] <= bronze[d]
              /\ silver[Reads(g)][d] > 0 => gold[g][d] <= silver[Reads(g)][d]
              /\ silver[Enriched][d] > 0 /\ Reads(g) = Whales
                    => gold[g][d] <= silver[Enriched][d]
        /\ silver[Enriched][d] > 0 => silver[Whales][d] <= silver[Enriched][d]

(* What is being written keeps that order, and is not older than the run.  *)
Torn ==
    \A t \in SilverTable :
        run["silver"] # 0 /\ task[t] = "torn" =>
            LET d == run["silver"] IN
            /\ silver[t][d] = 0
            /\ held[t] >= based /\ held[t] > 0 /\ held[t] <= bronze[d]
            /\ \A g \in GoldTable : Reads(g) = t \/ (t = Enriched /\ Reads(g) = Whales)
                                       => gold[g][d] <= held[t]
            /\ t = Enriched => silver[Whales][d] <= held[t]
            /\ t = Whales => held[t] <= silver[Enriched][d]

(* What the run has built is not older than the run.                       *)
Rebuilt ==
    run["silver"] # 0 =>
        /\ based <= bronze[run["silver"]]
        /\ \A t \in SilverTable \ caught :
              task[t] = "done" => silver[t][run["silver"]] >= based

(* BigQuery has the rows of a partition, unless its job is not yet done or *)
(* the day is lost.                                                        *)
Loads ==
    \A g \in GoldTable, d \in Day :
        \/ g \notin GoldJobTables
        \/ run["gold"] # d /\ d \notin lost["gold"]
        \/ run["gold"] = d /\ task[g] = "done"
        => Loaded(g, d) >= gold[g][d]

IInv == Types /\ Tasks /\ Versions /\ Torn /\ Rebuilt /\ Loads

-----------------------------------------------------------------------------
(* What the jobs of the three DAGs have in common.                         *)
LEMMA TheTables ==
    /\ SilverTable = {"txn_enriched", "token_flow", "whale_txns"}
    /\ GoldTable = {"top_whales_daily", "token_popularity_daily", "market_flow_hourly"}
    /\ Task = SilverTable \cup GoldTable \cup {"quality_check"}
    /\ SilverTable \cap GoldTable = {} /\ "quality_check" \notin SilverTable \cup GoldTable
<1>1. SilverTable = {"txn_enriched", "token_flow", "whale_txns"}
  BY DEF SilverTable, LocalSilver, LocalTxnEnriched, LocalTokenFlow, LocalWhaleTxns,
         TxnEnriched, TokenFlow, WhaleTxns
<1>2. GoldTable = {"top_whales_daily", "token_popularity_daily", "market_flow_hourly"}
  BY DEF GoldTable, K8sGold, TopWhales, TokenPopularity, MarketFlow
<1>. QED  BY <1>1, <1>2 DEF Task

LEMMA SilverJobs ==
    ASSUME variant \in {"k8s", "gke", "local"}
    PROVE  /\ \A t \in SilverTable : \E j \in Jobs("silver") : j.table = t
           /\ \A j \in Jobs("silver") :
                 /\ j.table \in SilverTable
                 /\ j.table = Enriched => j.catches = FALSE
                 /\ j.reads = IF j.table = Whales THEN Enriched ELSE "bronze"
<1>. DEFINE Suits(j) == /\ j.table \in SilverTable
                        /\ j.table = Enriched => j.catches = FALSE
                        /\ j.reads = IF j.table = Whales THEN Enriched ELSE "bronze"
            AllOf(J) == /\ \A t \in SilverTable : \E j \in J : j.table = t
                        /\ \A j \in J : Suits(j)
<1>1. /\ TxnEnriched.table = Enriched /\ LocalTxnEnriched.table = Enriched
      /\ TokenFlow.table = "token_flow" /\ LocalTokenFlow.table = "token_flow"
      /\ WhaleTxns.table = Whales /\ LocalWhaleTxns.table = Whales
  BY DEF LocalTxnEnriched, LocalTokenFlow, LocalWhaleTxns, TxnEnriched, TokenFlow, WhaleTxns,
         Enriched, Whales
<1>2. /\ Suits(TxnEnriched) /\ Suits(TokenFlow) /\ Suits(WhaleTxns)
  BY TheTables DEF TxnEnriched, TokenFlow, WhaleTxns, Enriched, Whales
<1>3. /\ Suits(LocalTxnEnriched) /\ Suits(LocalTokenFlow) /\ Suits(LocalWhaleTxns)
  BY TheTables DEF LocalTxnEnriched, LocalTokenFlow, LocalWhaleTxns, TxnEnriched, TokenFlow,
                   WhaleTxns, Enriched, Whales
<1>4. AllOf(LocalSilver) /\ AllOf({TxnEnriched, TokenFlow, WhaleTxns})
  <2>. HIDE DEF Suits
  <2>. QED  BY <1>1, <1>2, <1>3, TheTables DEF LocalSilver, Enriched, Whales
<1>5. Jobs("silver") \in {LocalSilver, {TxnEnriched, TokenFlow, WhaleTxns}}
  BY DEF Jobs, K8sSilver, GkeSilver
<1>. QED
  <2>. HIDE DEF Suits
  <2>1. AllOf(Jobs("silver"))
    BY <1>4, <1>5
  <2>. QED  BY <2>1 DEF Suits

LEMMA GoldJobs ==
    ASSUME variant \in {"k8s", "gke", "local"}
    PROVE  \A j \in Jobs("gold") : /\ j.table \in GoldTable
                                   /\ j.catches = FALSE
                                   /\ j.reads = Reads(j.table)
<1>. USE TheTables DEF Jobs, TopWhales, TokenPopularity, MarketFlow, Reads
<1>1. CASE variant = "k8s"
  BY <1>1 DEF K8sGold
<1>2. CASE variant = "gke"
  BY <1>2 DEF GkeGold
<1>3. CASE variant = "local"
  BY <1>3 DEF LocalGold
<1>. QED  BY <1>1, <1>2, <1>3

LEMMA TheTasks ==
    ASSUME variant \in {"k8s", "gke", "local"}
    PROVE  /\ TasksOf("silver") = SilverTable \cup {"quality_check"}
           /\ TasksOf("gold") = GoldJobTables /\ GoldJobTables \subseteq GoldTable
BY SilverJobs, GoldJobs DEF TasksOf, GoldJobTables

LEMMA VariantIs == Types => variant \in {"k8s", "gke", "local"}
BY LayerAssumption DEF Types, TypeOK

(* The numbers of the state.                                               *)
LEMMA Numbers ==
    ASSUME Types
    PROVE  /\ \A d \in Day : bronze[d] \in Nat /\ bronze[d] <= MaxEvents
           /\ \A t \in SilverTable : held[t] \in Nat
           /\ \A t \in SilverTable, d \in Day : silver[t][d] \in Nat
           /\ \A g \in GoldTable, d \in Day : gold[g][d] \in Nat
           /\ based \in Nat /\ MaxEvents \in Nat
           /\ budget.events \in Nat /\ budget.faults \in Nat
           /\ \A l \in Layer : run[l] \in Nat /\ (run[l] # 0 => run[l] \in Day)
BY LayerAssumption DEF Types, TypeOK, Day

LEMMA Upstream ==
    /\ \A g \in GoldTable : Reads(g) \in SilverTable
    /\ Enriched \in SilverTable /\ Whales \in SilverTable /\ Enriched # Whales
    /\ "silver" \in Layer /\ "gold" \in Layer
BY TheTables DEF Reads, Enriched, Whales, Layer

-----------------------------------------------------------------------------
(* Bronze moves ahead.                                                     *)
LEMMA PublishesKeeps ==
    ASSUME IInv, NEW d \in Day, BronzePublishes(d)
    PROVE  IInv'
<1>. USE DEF IInv
<1>1. /\ budget.events > 0 /\ budget' = [budget EXCEPT !.events = @ - 1]
      /\ bronze' = [bronze EXCEPT ![d] = @ + 1]
      /\ due' = [due EXCEPT !["silver"] = @ \cup {d}]
      /\ UNCHANGED <<variant, run, task, tries, held, based, caught, silver, gold, bq, lost>>
  BY DEF BronzePublishes, tables
<1>2. /\ bronze \in [Day -> 0..MaxEvents] /\ budget \in [events : 0..MaxEvents, faults : 0..MaxFaults]
      /\ bronze[d] + budget.events <= MaxEvents
  BY DEF Types, TypeOK
<1>3. /\ bronze' \in [Day -> 0..MaxEvents]
      /\ \A e \in Day : bronze[e] <= bronze'[e] /\ bronze'[e] \in Nat
      /\ \A e \in Day : bronze'[e] <= bronze[e] + 1
  BY <1>1, <1>2, Numbers
<1>4. /\ budget' \in [events : 0..MaxEvents, faults : 0..MaxFaults]
      /\ budget'.events = budget.events - 1
  <2>1. PICK x \in 0..MaxEvents, y \in 0..MaxFaults : budget = [events |-> x, faults |-> y]
    BY <1>2
  <2>2. budget' = [events |-> x - 1, faults |-> y] /\ x > 0
    BY <1>1, <2>1
  <2>3. x - 1 \in 0..MaxEvents
    BY <2>2, Numbers
  <2>. QED  BY <2>1, <2>2, <2>3
<1>5. Types'
  <2>1. ASSUME NEW e \in Day PROVE bronze'[e] + budget'.events <= MaxEvents
    <3>1. bronze[e] + budget.events <= MaxEvents
      BY DEF Types
    <3>. QED  BY <1>3, <1>4, <3>1, Numbers
  <2>. QED  BY <1>1, <1>3, <1>4, <2>1 DEF Types, TypeOK
<1>6. Tasks' /\ Loads'
  BY <1>1 DEF Tasks, Loads, Loaded, GoldJobTables, Jobs
<1>7. Versions'
  <2>1. \A x, y, z \in Nat : x <= y /\ y <= z => x <= z
    OBVIOUS
  <2>. QED  BY <1>1, <1>3, <2>1, Numbers DEF Versions
<1>8. Torn'
  <2>. SUFFICES ASSUME NEW t \in SilverTable, run["silver"] # 0, task[t] = "torn"
                PROVE  held[t] <= bronze'[run["silver"]]
    BY <1>1 DEF Torn
  <2>. QED  BY <1>3, Numbers, Upstream DEF Torn
<1>9. Rebuilt'
  BY <1>1, <1>3, Numbers, Upstream DEF Rebuilt
<1>. QED  BY <1>5, <1>6, <1>7, <1>8, <1>9

-----------------------------------------------------------------------------
(* A run begins, for an event or by hand.                                  *)
LEMMA StartKeeps ==
    ASSUME IInv, NEW l \in Layer, NEW d \in Day, Start(l, d) \/ StartByHand(l, d)
    PROVE  IInv'
<1>. USE DEF IInv
<1>1. /\ run[l] = 0 /\ run' = [run EXCEPT ![l] = d]
      /\ based' = IF l = "silver" THEN bronze[d] ELSE based
      /\ UNCHANGED <<variant, bronze, task, tries, held, caught, silver, gold, bq>>
  BY DEF Start, StartByHand, Begin, tables
<1>2. /\ run'[l] = d /\ run' \in [Layer -> 0..Days] /\ d # 0
      /\ \A k \in Layer : k # l => run'[k] = run[k]
  BY <1>1 DEF Types, TypeOK, Day
<1>3. budget' \in [events : 0..MaxEvents, faults : 0..MaxFaults] /\ budget'.events <= budget.events
  <2>1. CASE budget' = budget
    BY <2>1, Numbers DEF Types, TypeOK
  <2>2. CASE budget.events > 0 /\ budget' = [budget EXCEPT !.events = @ - 1]
    <3>1. PICK x \in 0..MaxEvents, y \in 0..MaxFaults : budget = [events |-> x, faults |-> y]
      BY DEF Types, TypeOK
    <3>2. budget' = [events |-> x - 1, faults |-> y] /\ x > 0
      BY <2>2, <3>1
    <3>3. x - 1 \in 0..MaxEvents /\ x - 1 <= x
      BY <3>2, Numbers
    <3>. QED  BY <3>1, <3>2, <3>3
  <2>. QED  BY <2>1, <2>2 DEF Start, StartByHand
<1>4. /\ due' \in [Layer -> SUBSET Day] /\ lost' \in [Layer -> SUBSET Day]
      /\ \A e \in Day : e # d \/ l # "gold" => (e \in lost["gold"] => e \in lost'["gold"])
  <2>1. due \in [Layer -> SUBSET Day] /\ lost \in [Layer -> SUBSET Day]
    BY DEF Types, TypeOK
  <2>2. CASE Start(l, d)
    BY <2>1, <2>2, Upstream DEF Start
  <2>3. CASE StartByHand(l, d)
    BY <2>1, <2>3, Upstream DEF StartByHand
  <2>. QED  BY <2>2, <2>3
<1>5. Types'
  <2>1. ASSUME NEW e \in Day PROVE bronze'[e] + budget'.events <= MaxEvents
    <3>1. bronze[e] + budget.events <= MaxEvents
      BY DEF Types
    <3>. QED  BY <1>1, <1>3, <3>1, Numbers
  <2>2. based' \in 0..MaxEvents
    BY <1>1 DEF Types, TypeOK
  <2>. QED  BY <1>1, <1>2, <1>3, <1>4, <2>1, <2>2 DEF Types, TypeOK
<1>6. Tasks'
  BY <1>1, <1>2, Upstream DEF Tasks, GoldJobTables, Jobs
<1>7. Versions'
  BY <1>1 DEF Versions
<1>8. CASE l = "gold"
  <2>1. Torn' /\ Rebuilt'
    BY <1>1, <1>2, <1>8, Upstream DEF Torn, Rebuilt
  <2>2. Loads'
    <3>1. GoldJobTables' = GoldJobTables
      BY <1>1 DEF GoldJobTables, Jobs
    <3>2. \A g \in GoldTable : task'[g] = "todo"
      BY <1>1, <1>8 DEF Tasks
    <3>3. ASSUME NEW g \in GoldTable, NEW e \in Day,
                 g \notin GoldJobTables \/ (e # d /\ e \notin lost'["gold"])
          PROVE  Loaded(g, e) >= gold[g][e]
      <4>1. run["gold"] # e
        BY <1>1, <1>8 DEF Day
      <4>2. g \notin GoldJobTables \/ e \notin lost["gold"]
        BY <1>4, <3>3
      <4>. QED  BY <4>1, <4>2 DEF Loads
    <3>. QED  BY <1>1, <1>2, <1>8, <3>1, <3>2, <3>3 DEF Loads, Loaded
  <2>. QED  BY <1>5, <1>6, <1>7, <2>1, <2>2
<1>9. CASE l = "silver"
  <2>1. Torn'
    BY <1>1, <1>9 DEF Torn, Tasks
  <2>2. Rebuilt'
    BY <1>1, <1>2, <1>9, Numbers, Upstream DEF Rebuilt, Tasks
  <2>3. Loads'
    BY <1>1, <1>2, <1>4, <1>9, Upstream DEF Loads, Loaded, GoldJobTables, Jobs
  <2>. QED  BY <1>5, <1>6, <1>7, <2>1, <2>2, <2>3
<1>. QED  BY <1>8, <1>9 DEF Layer

(* A run ends: published, loaded or failed.                                *)
LEMMA EndKeeps ==
    ASSUME IInv, NEW l \in Layer, End(l),
           due' \in [Layer -> SUBSET Day], lost' \in [Layer -> SUBSET Day],
           lost["gold"] \subseteq lost'["gold"],
           l = "gold" => \/ run["gold"] \in lost'["gold"]
                         \/ \A j \in Jobs("gold") : task[j.table] = "done"
    PROVE  IInv'
<1>. USE DEF IInv
<1>1. /\ run' = [run EXCEPT ![l] = 0]
      /\ task' = [t \in Task |-> IF t \in TasksOf(l) THEN "todo" ELSE task[t]]
      /\ tries' = [t \in Task |-> IF t \in TasksOf(l) THEN 0 ELSE tries[t]]
      /\ IF l = "silver"
         THEN based' = 0 /\ caught' = {} /\ held' = [t \in SilverTable |-> 0]
         ELSE UNCHANGED <<based, caught, held>>
      /\ UNCHANGED <<variant, bronze, silver, gold, bq, budget>>
  BY DEF End, tables
<1>2. /\ run'[l] = 0 /\ run' \in [Layer -> 0..Days]
      /\ \A k \in Layer : k # l => run'[k] = run[k]
  BY <1>1, LayerAssumption DEF Types, TypeOK
<1>3. /\ l = "silver" => /\ \A t \in SilverTable : task'[t] = "todo"
                         /\ \A g \in GoldTable : task'[g] = task[g]
      /\ l = "gold" => /\ \A t \in SilverTable : task'[t] = task[t]
                       /\ \A g \in GoldTable : task'[g] = IF g \in GoldJobTables THEN "todo" ELSE task[g]
  BY <1>1, VariantIs, TheTables, TheTasks
<1>4. Types'
  <2>1. task' \in [Task -> {"todo", "torn", "written", "done", "failed"}] /\ tries' \in [Task -> 0..Retries]
    BY <1>1, LayerAssumption DEF Types, TypeOK
  <2>2. based' \in 0..MaxEvents /\ caught' \subseteq SilverTable /\ held' \in [SilverTable -> 0..MaxEvents]
    BY <1>1, LayerAssumption DEF Types, TypeOK
  <2>. QED  BY <1>1, <1>2, <2>1, <2>2 DEF Types, TypeOK
<1>5. Versions'
  BY <1>1 DEF Versions
<1>6. GoldJobTables' = GoldJobTables
  BY <1>1 DEF GoldJobTables, Jobs
<1>7. CASE l = "silver"
  <2>1. Tasks' /\ Torn' /\ Rebuilt'
    BY <1>1, <1>2, <1>3, <1>6, <1>7, Upstream DEF Tasks, Torn, Rebuilt
  <2>2. Loads'
    BY <1>1, <1>2, <1>3, <1>6, <1>7, Upstream DEF Loads, Loaded
  <2>. QED  BY <1>4, <1>5, <2>1, <2>2
<1>8. CASE l = "gold"
  <2>1. Tasks'
    BY <1>1, <1>2, <1>3, <1>6, <1>8, Upstream DEF Tasks
  <2>2. Torn' /\ Rebuilt'
    BY <1>1, <1>2, <1>3, <1>8, Upstream DEF Torn, Rebuilt
  <2>3. Loads'
    <3>. SUFFICES ASSUME NEW g \in GoldTable, NEW d \in Day,
                         g \notin GoldJobTables \/ d \notin lost'["gold"]
                  PROVE  Loaded(g, d) >= gold[g][d]
      BY <1>1, <1>2, <1>6, <1>8, Upstream DEF Loads, Loaded, Day
    <3>1. run["gold"] = d => g \notin GoldJobTables \/ task[g] = "done"
      BY <1>8 DEF GoldJobTables
    <3>. QED  BY <3>1 DEF Loads
  <2>. QED  BY <1>4, <1>5, <2>1, <2>2, <2>3
<1>. QED  BY <1>7, <1>8 DEF Layer

-----------------------------------------------------------------------------
LEMMA LastOfAppend ==
    ASSUME NEW S, NEW s \in Seq(S), NEW e \in S
    PROVE  Append(s, e) \in Seq(S) /\ Append(s, e) # <<>> /\ Last(Append(s, e)) = e
<1>1. Append(s, e) \in Seq(S) /\ Len(Append(s, e)) = Len(s) + 1 /\ Append(s, e)[Len(s) + 1] = e
  OBVIOUS
<1>2. Len(s) \in Nat
  OBVIOUS
<1>3. Append(s, e) # <<>>
  BY <1>1, <1>2
<1>. QED  BY <1>1, <1>3 DEF Last

LEMMA LoadedIsNat ==
    ASSUME Types
    PROVE  \A g \in GoldTable, d \in Day : Loaded(g, d) \in Nat
<1>1. \A g \in GoldTable, d \in Day : bq[g][d] \in Seq(1..MaxEvents)
  BY DEF Types
<1>2. ASSUME NEW s \in Seq(1..MaxEvents), s # <<>> PROVE Last(s) \in Nat
  BY <1>2, Numbers DEF Last
<1>. QED  BY <1>1, <1>2 DEF Loaded

(* What an append gives BigQuery.                                          *)
LEMMA AppendStep ==
    ASSUME Types, run["gold"] # 0, NEW j \in Jobs("gold"),
           Input("gold", j) > 0, bq' = Appended(j)
    PROVE  /\ Input("gold", j) = silver[Reads(j.table)][run["gold"]]
           /\ bq' \in [GoldTable -> [Day -> Seq(1..MaxEvents)]]
           /\ \A g \in GoldTable, d \in Day :
                 IF g = j.table /\ d = run["gold"]
                 THEN Loaded(g, d)' = Input("gold", j)
                 ELSE Loaded(g, d)' = Loaded(g, d)
<1>. DEFINE r == run["gold"]
            i == Input("gold", j)
<1>1. /\ j.table \in GoldTable /\ j.reads = Reads(j.table) /\ r \in Day
      /\ Reads(j.table) \in SilverTable
  BY GoldJobs, VariantIs, Numbers, Upstream
<1>2. i = silver[Reads(j.table)][r]
  BY <1>1, TheTables DEF Input, Reads
<1>3. i \in 1..MaxEvents
  BY <1>1, <1>2, Numbers DEF Types, TypeOK
<1>4. bq \in [GoldTable -> [Day -> Seq(1..MaxEvents)]] /\ bq[j.table][r] \in Seq(1..MaxEvents)
  BY <1>1 DEF Types
<1>5. bq' = [bq EXCEPT ![j.table] = [bq[j.table] EXCEPT ![r] = Append(bq[j.table][r], i)]]
  BY DEF Appended
<1>. HIDE DEF i, r
<1>6. /\ Append(bq[j.table][r], i) \in Seq(1..MaxEvents)
      /\ Append(bq[j.table][r], i) # <<>>
      /\ Last(Append(bq[j.table][r], i)) = i
  BY <1>3, <1>4, LastOfAppend
<1>7. bq' \in [GoldTable -> [Day -> Seq(1..MaxEvents)]]
  BY <1>1, <1>4, <1>5, <1>6
<1>8. \A g \in GoldTable, d \in Day :
         bq'[g][d] = IF g = j.table /\ d = r THEN Append(bq[j.table][r], i) ELSE bq[g][d]
  BY <1>1, <1>4, <1>5
<1>9. ASSUME NEW g \in GoldTable, NEW d \in Day
      PROVE  IF g = j.table /\ d = r THEN Loaded(g, d)' = i ELSE Loaded(g, d)' = Loaded(g, d)
  BY <1>6, <1>8 DEF Loaded
<1>. QED  BY <1>2, <1>7, <1>9 DEF i, r

(* A try fails, or its exception is caught.                                *)
LEMMA RaiseStep ==
    ASSUME IInv, NEW l \in Layer, NEW j \in Jobs(l), NEW lasting,
           Raise(l, j, lasting) \/ Dies(l, j, lasting)
    PROVE  /\ j.table \in (IF l = "silver" THEN SilverTable ELSE GoldJobTables)
           /\ tries' \in [Task -> 0..Retries] /\ caught' \subseteq SilverTable \ {Enriched}
           /\ caught \subseteq caught'
           /\ \E x \in {"todo", "failed", "done"} :
                 /\ task' = [task EXCEPT ![j.table] = x]
                 /\ x = "done" => l = "silver" /\ j.table \in caught'
           /\ UNCHANGED <<variant, bronze, due, run, held, based, silver, lost>>
<1>. USE DEF IInv
<1>1. /\ j.table \in (IF l = "silver" THEN SilverTable ELSE GoldJobTables)
      /\ j.catches => l = "silver" /\ j.table # Enriched
      /\ j.table \in Task
  <2>1. CASE l = "silver"
    BY <2>1, SilverJobs, VariantIs, TheTables
  <2>2. CASE l = "gold"
    BY <2>2, GoldJobs, VariantIs, TheTables DEF GoldJobTables
  <2>. QED  BY <2>1, <2>2 DEF Layer
<1>2. caught \subseteq SilverTable \ {Enriched} /\ tries \in [Task -> 0..Retries] /\ Retries \in Nat
  BY LayerAssumption DEF Types, TypeOK, Tasks
<1>3. CASE Raise(l, j, lasting) /\ j.catches
  BY <1>1, <1>2, <1>3 DEF Raise
<1>4. CASE Raise(l, j, lasting) /\ ~j.catches
  BY <1>1, <1>2, <1>4 DEF Raise, TryAgain
<1>5. CASE Dies(l, j, lasting)
  BY <1>1, <1>2, <1>5 DEF Dies, TryAgain
<1>. QED  BY <1>3, <1>4, <1>5

LEMMA RaiseKeeps ==
    ASSUME IInv, NEW l \in Layer, NEW j \in Jobs(l), NEW lasting,
           Raise(l, j, lasting) \/ Dies(l, j, lasting), run[l] # 0, task[j.table] \in {"todo", "torn", "written"},
           budget' \in [events : 0..MaxEvents, faults : 0..MaxFaults],
           budget'.events = budget.events,
           \/ UNCHANGED <<gold, bq>>
           \/ l = "gold" /\ gold' = [gold EXCEPT ![j.table][run["gold"]] = 0] /\ UNCHANGED bq
           \/ /\ l = "gold" /\ Input("gold", j) > 0 /\ bq' = Appended(j) /\ UNCHANGED gold
    PROVE  IInv'
<1>. USE DEF IInv
<1>1. /\ j.table \in (IF l = "silver" THEN SilverTable ELSE GoldJobTables)
      /\ tries' \in [Task -> 0..Retries] /\ caught' \subseteq SilverTable \ {Enriched}
      /\ caught \subseteq caught'
      /\ UNCHANGED <<variant, bronze, due, run, held, based, silver, lost>>
  BY RaiseStep
<1>2. PICK x \in {"todo", "failed", "done"} :
         /\ task' = [task EXCEPT ![j.table] = x]
         /\ x = "done" => l = "silver" /\ j.table \in caught'
  BY RaiseStep
<1>3. GoldJobTables \subseteq GoldTable /\ GoldJobTables' = GoldJobTables
  BY <1>1, TheTasks, VariantIs DEF GoldJobTables, Jobs
<1>4. /\ task' \in [Task -> {"todo", "torn", "written", "done", "failed"}]
      /\ \A t \in Task : t # j.table => task'[t] = task[t]
      /\ task'[j.table] = x
  BY <1>1, <1>2, <1>3, TheTables DEF Types, TypeOK
<1>5. /\ \A t \in SilverTable : task'[t] = "torn" => task[t] = "torn" /\ t # j.table
      /\ \A t \in SilverTable : task'[t] = "done" => task[t] = "done" \/ t \in caught'
      /\ \A g \in GoldTable : task'[g] = "done" => task[g] = "done"
      /\ \A t \in Task : task'[t] # "written" \/ task[t] = "written"
  BY <1>1, <1>2, <1>3, <1>4, TheTables
<1>6. /\ gold' \in [GoldTable -> [Day -> 0..MaxEvents]]
      /\ bq' \in [GoldTable -> [Day -> Seq(1..MaxEvents)]]
      /\ \A g \in GoldTable, d \in Day : gold'[g][d] \in {0, gold[g][d]}
      /\ \A g \in GoldTable, d \in Day : Loaded(g, d)' >= gold'[g][d] \/ Loaded(g, d) < gold[g][d]
  <2>0. gold \in [GoldTable -> [Day -> 0..MaxEvents]]
    BY DEF Types, TypeOK
  <2>1. CASE UNCHANGED <<gold, bq>>
    BY <2>0, <2>1, Numbers, LoadedIsNat DEF Types, Loaded
  <2>2. CASE l = "gold" /\ gold' = [gold EXCEPT ![j.table][run["gold"]] = 0] /\ UNCHANGED bq
    <3>1. \A g \in GoldTable, d \in Day : gold'[g][d] \in {0, gold[g][d]}
      BY <2>0, <2>2
    <3>2. gold' \in [GoldTable -> [Day -> 0..MaxEvents]]
      <4>1. 0 \in 0..MaxEvents
        BY Numbers
      <4>. QED  BY <2>0, <2>2, <4>1
    <3>3. ASSUME NEW g \in GoldTable, NEW d \in Day
          PROVE  Loaded(g, d)' >= gold'[g][d] \/ Loaded(g, d) < gold[g][d]
      <4>1. Loaded(g, d)' = Loaded(g, d) /\ Loaded(g, d) \in Nat /\ gold[g][d] \in Nat
        BY <2>2, Numbers, LoadedIsNat DEF Loaded
      <4>2. gold'[g][d] \in {0, gold[g][d]}
        BY <3>1
      <4>. QED  BY <4>1, <4>2
    <3>4. bq' \in [GoldTable -> [Day -> Seq(1..MaxEvents)]]
      BY <2>2 DEF Types
    <3>. QED  BY <3>1, <3>2, <3>3, <3>4
  <2>3. CASE l = "gold" /\ Input("gold", j) > 0 /\ bq' = Appended(j) /\ UNCHANGED gold
    <3>0. run["gold"] # 0 /\ j \in Jobs("gold")
      BY <2>3
    <3>1. /\ Input("gold", j) = silver[Reads(j.table)][run["gold"]]
          /\ bq' \in [GoldTable -> [Day -> Seq(1..MaxEvents)]]
          /\ \A g \in GoldTable, d \in Day :
                IF g = j.table /\ d = run["gold"]
                THEN Loaded(g, d)' = Input("gold", j)
                ELSE Loaded(g, d)' = Loaded(g, d)
      BY <2>3, <3>0, AppendStep
    <3>2. run["gold"] \in Day /\ j.table \in GoldTable
      BY <1>1, <1>3, <2>3, Numbers, Upstream
    <3>3. gold[j.table][run["gold"]] <= Input("gold", j)
      BY <2>3, <3>1, <3>2, Upstream DEF Versions
    <3>4. ASSUME NEW g \in GoldTable, NEW d \in Day
          PROVE  Loaded(g, d)' >= gold'[g][d] \/ Loaded(g, d) < gold[g][d]
      <4>1. Loaded(g, d) \in Nat /\ gold[g][d] \in Nat /\ gold'[g][d] = gold[g][d]
        BY <2>3, Numbers, LoadedIsNat
      <4>2. CASE g = j.table /\ d = run["gold"]
        <5>1. Loaded(g, d)' = silver[Reads(j.table)][run["gold"]]
          BY <3>1, <4>2
        <5>2. silver[Reads(j.table)][run["gold"]] \in Nat
          BY <3>2, Numbers, Upstream
        <5>. QED  BY <3>1, <3>3, <4>1, <4>2, <5>1, <5>2
      <4>3. CASE ~(g = j.table /\ d = run["gold"])
        BY <3>1, <4>1, <4>3
      <4>. QED  BY <4>2, <4>3
    <3>5. gold' \in [GoldTable -> [Day -> 0..MaxEvents]]
      BY <2>0, <2>3
    <3>6. \A g \in GoldTable, d \in Day : gold'[g][d] \in {0, gold[g][d]}
      BY <2>3
    <3>. QED  BY <3>1, <3>4, <3>5, <3>6
  <2>. QED  BY <2>1, <2>2, <2>3
<1>7. Types'
  <2>1. ASSUME NEW e \in Day PROVE bronze'[e] + budget'.events <= MaxEvents
    <3>1. bronze[e] + budget.events <= MaxEvents
      BY DEF Types
    <3>. QED  BY <1>1, <3>1
  <2>2. caught' \subseteq SilverTable
    BY <1>1
  <2>3. /\ variant \in Variants /\ run \in [Layer -> 0..Days]
        /\ bronze \in [Day -> 0..MaxEvents]
        /\ due \in [Layer -> SUBSET Day] /\ lost \in [Layer -> SUBSET Day]
        /\ held \in [SilverTable -> 0..MaxEvents] /\ based \in 0..MaxEvents
        /\ silver \in [SilverTable -> [Day -> 0..MaxEvents]]
    BY DEF Types, TypeOK
  <2>4. \A g \in GoldTable, d \in Day : bq'[g][d] \in Seq(1..MaxEvents)
    BY <1>6
  <2>5. TypeOK'
    BY <1>1, <1>4, <1>6, <2>2, <2>3, <2>4 DEF TypeOK
  <2>. QED  BY <1>6, <2>1, <2>5 DEF Types
<1>8. Tasks'
  <2>1. task[Enriched] = "done" => task'[Enriched] = "done"
    BY <1>4, Upstream, TheTables
  <2>2. \A k \in Layer : run[k] = 0 => k # l
    OBVIOUS
  <2>3. \A t \in SilverTable : run["silver"] = 0 => task'[t] = "todo"
    BY <1>1, <1>3, <1>4, <2>2, Upstream, TheTables DEF Tasks, Layer
  <2>4. \A g \in GoldTable : run["gold"] = 0 \/ g \notin GoldJobTables => task'[g] = "todo"
    BY <1>1, <1>3, <1>4, <2>2, Upstream, TheTables DEF Tasks, Layer
  <2>. QED  BY <1>1, <1>3, <1>5, <2>1, <2>3, <2>4, TheTables DEF Tasks
<1>9. Versions'
  <2>1. ASSUME NEW g \in GoldTable, NEW d \in Day
        PROVE  /\ gold'[g][d] <= bronze[d]
               /\ silver[Reads(g)][d] > 0 => gold'[g][d] <= silver[Reads(g)][d]
               /\ silver[Enriched][d] > 0 /\ Reads(g) = Whales
                     => gold'[g][d] <= silver[Enriched][d]
    <3>1. /\ gold[g][d] <= bronze[d]
          /\ silver[Reads(g)][d] > 0 => gold[g][d] <= silver[Reads(g)][d]
          /\ silver[Enriched][d] > 0 /\ Reads(g) = Whales => gold[g][d] <= silver[Enriched][d]
      BY DEF Versions
    <3>2. /\ bronze[d] \in Nat /\ gold[g][d] \in Nat
          /\ silver[Reads(g)][d] \in Nat /\ silver[Enriched][d] \in Nat
      BY Numbers, Upstream
    <3>3. gold'[g][d] = 0 \/ gold'[g][d] = gold[g][d]
      BY <1>6
    <3>. QED  BY <3>1, <3>2, <3>3
  <2>. QED  BY <1>1, <2>1 DEF Versions
<1>10. Torn'
  <2>. SUFFICES ASSUME NEW t \in SilverTable, run["silver"] # 0, task[t] = "torn",
                       NEW g \in GoldTable, gold[g][run["silver"]] <= held[t]
                PROVE  gold'[g][run["silver"]] <= held[t]
    BY <1>1, <1>5 DEF Torn
  <2>1. run["silver"] \in Day
    BY Numbers, Upstream
  <2>2. gold'[g][run["silver"]] = 0 \/ gold'[g][run["silver"]] = gold[g][run["silver"]]
    BY <1>6, <2>1
  <2>3. held[t] \in Nat
    BY Numbers
  <2>. QED  BY <2>2, <2>3
<1>11. Rebuilt'
  BY <1>1, <1>5 DEF Rebuilt
<1>12. Loads'
  <2>1. \A g \in GoldTable, d \in Day : Loaded(g, d) \in Nat /\ gold[g][d] \in Nat
    BY Numbers, LoadedIsNat
  <2>2. ASSUME NEW g \in GoldTable, NEW d \in Day, Loaded(g, d) >= gold[g][d]
        PROVE  Loaded(g, d)' >= gold'[g][d]
    BY <1>6, <2>1, <2>2
  <2>. QED  BY <1>1, <1>3, <1>5, <2>2 DEF Loads
<1>. QED  BY <1>7, <1>8, <1>9, <1>10, <1>11, <1>12

LEMMA NoInputKeeps ==
    ASSUME IInv, NEW l \in Layer, NEW j \in Jobs(l), NoInput(l, j)
    PROVE  IInv'
<1>1. /\ Raise(l, j, FALSE) /\ run[l] # 0 /\ task[j.table] \in {"todo", "torn", "written"}
      /\ UNCHANGED <<gold, bq, budget>>
  BY DEF NoInput, Active
<1>2. budget' \in [events : 0..MaxEvents, faults : 0..MaxFaults] /\ budget'.events = budget.events
  BY <1>1 DEF IInv, Types, TypeOK
<1>. QED  BY <1>1, <1>2, RaiseKeeps

LEMMA FailKeeps ==
    ASSUME IInv, NEW l \in Layer, NEW j \in Jobs(l), Fail(l, j)
    PROVE  IInv'
<1>. USE DEF IInv
<1>1. /\ run[l] # 0 /\ task[j.table] \in {"todo", "torn", "written"}
      /\ budget.faults > 0 /\ budget' = [budget EXCEPT !.faults = @ - 1]
  BY DEF Fail, Active
<1>2. PICK lasting \in BOOLEAN : Raise(l, j, lasting) \/ Dies(l, j, lasting)
  BY DEF Fail
<1>3. budget' \in [events : 0..MaxEvents, faults : 0..MaxFaults] /\ budget'.events = budget.events
  <2>1. PICK x \in 0..MaxEvents, y \in 0..MaxFaults : budget = [events |-> x, faults |-> y]
    BY DEF Types, TypeOK
  <2>2. budget' = [events |-> x, faults |-> y - 1] /\ y > 0
    BY <1>1, <2>1
  <2>3. y - 1 \in 0..MaxFaults
    BY <2>2, LayerAssumption
  <2>. QED  BY <2>1, <2>2, <2>3
<1>4. task[j.table] = "written" => l = "gold"
  <2>1. l = "silver" => j.table \in SilverTable
    BY SilverJobs, VariantIs
  <2>. QED  BY <2>1 DEF Tasks, Layer
<1>5. \/ UNCHANGED <<gold, bq>>
      \/ l = "gold" /\ gold' = [gold EXCEPT ![j.table][run["gold"]] = 0] /\ UNCHANGED bq
      \/ /\ l = "gold" /\ Input("gold", j) > 0 /\ bq' = Appended(j) /\ UNCHANGED gold
  BY <1>4 DEF Fail
<1>. QED  BY <1>1, <1>2, <1>3, <1>5, RaiseKeeps

(* The check of the local DAG moves nothing but itself.                    *)
LEMMA QualityCheckKeeps ==
    ASSUME IInv, NEW readable, QualityCheck(readable)
    PROVE  IInv'
<1>. USE DEF IInv
<1>1. UNCHANGED <<variant, bronze, due, run, held, based, caught, silver, gold, bq, lost>>
  BY DEF QualityCheck, tables
<1>2. budget' \in [events : 0..MaxEvents, faults : 0..MaxFaults] /\ budget'.events = budget.events
  <2>1. CASE budget' = budget
    BY <2>1 DEF Types, TypeOK
  <2>2. CASE budget.faults > 0 /\ budget' = [budget EXCEPT !.faults = @ - 1]
    <3>1. PICK x \in 0..MaxEvents, y \in 0..MaxFaults : budget = [events |-> x, faults |-> y]
      BY DEF Types, TypeOK
    <3>2. budget' = [events |-> x, faults |-> y - 1] /\ y > 0
      BY <2>2, <3>1
    <3>3. y - 1 \in 0..MaxFaults
      BY <3>2, LayerAssumption
    <3>. QED  BY <3>1, <3>2, <3>3
  <2>. QED  BY <2>1, <2>2 DEF QualityCheck
<1>3. /\ \E x \in {"done", "todo", "failed"} : task' = [task EXCEPT !["quality_check"] = x]
      /\ tries' \in [Task -> 0..Retries]
  <2>1. tries \in [Task -> 0..Retries] /\ Retries \in Nat
    BY LayerAssumption DEF Types, TypeOK
  <2>. QED  BY <2>1 DEF QualityCheck, TryAgain
<1>4. /\ task' \in [Task -> {"todo", "torn", "written", "done", "failed"}]
      /\ \A t \in SilverTable \cup GoldTable : task'[t] = task[t]
  <2>1. PICK x \in {"done", "todo", "failed"} : task' = [task EXCEPT !["quality_check"] = x]
    BY <1>3
  <2>2. task \in [Task -> {"todo", "torn", "written", "done", "failed"}] /\ "quality_check" \in Task
    BY TheTables DEF Types, TypeOK
  <2>3. \A t \in SilverTable \cup GoldTable : t # "quality_check" /\ t \in Task
    BY TheTables
  <2>. HIDE DEF IInv
  <2>. QED  BY <2>1, <2>2, <2>3
<1>5. Types'
  <2>1. ASSUME NEW e \in Day PROVE bronze'[e] + budget'.events <= MaxEvents
    <3>1. bronze[e] + budget.events <= MaxEvents
      BY DEF Types
    <3>. QED  BY <1>1, <1>2, <3>1
  <2>. QED  BY <1>1, <1>2, <1>3, <1>4, <2>1 DEF Types, TypeOK
<1>6. GoldJobTables' = GoldJobTables
  BY <1>1 DEF GoldJobTables, Jobs
<1>7. Tasks' /\ Versions' /\ Torn' /\ Rebuilt'
  BY <1>1, <1>4, <1>6, Upstream DEF Tasks, Versions, Torn, Rebuilt
<1>8. Loads'
  BY <1>1, <1>4, <1>6 DEF Loads, Loaded
<1>. QED  BY <1>5, <1>7, <1>8

-----------------------------------------------------------------------------
(* A silver job replaces its partition: what both halves have in common.   *)
Replaces(j, v, h, s) ==
    /\ v \in 0..MaxEvents /\ h \in 0..MaxEvents /\ s \in {"torn", "done"}
    /\ run["silver"] # 0 /\ task[j.table] \in {"todo", "torn"}
    /\ silver' = [silver EXCEPT ![j.table][run["silver"]] = v]
    /\ held' = [held EXCEPT ![j.table] = h]
    /\ task' = [task EXCEPT ![j.table] = s]
    /\ UNCHANGED <<variant, bronze, due, run, tries, based, caught, gold, bq, lost, budget>>

LEMMA SilverStep ==
    ASSUME IInv, NEW j \in Jobs("silver"), NEW v, NEW h, NEW s, Replaces(j, v, h, s)
    PROVE  /\ Types' /\ Loads'
           /\ j.table \in SilverTable /\ run["silver"] \in Day
           /\ \A t \in SilverTable, d \in Day :
                 silver'[t][d] = IF t = j.table /\ d = run["silver"] THEN v ELSE silver[t][d]
           /\ \A t \in SilverTable : held'[t] = IF t = j.table THEN h ELSE held[t]
           /\ \A t \in Task : task'[t] = IF t = j.table THEN s ELSE task[t]
           /\ GoldJobTables' = GoldJobTables
<1>. USE DEF IInv, Replaces
<1>1. j.table \in SilverTable /\ run["silver"] \in Day /\ j.table \in Task
  BY SilverJobs, VariantIs, Numbers, Upstream, TheTables
<1>2. /\ silver \in [SilverTable -> [Day -> 0..MaxEvents]]
      /\ held \in [SilverTable -> 0..MaxEvents]
      /\ task \in [Task -> {"todo", "torn", "written", "done", "failed"}]
  BY DEF Types, TypeOK
<1>3. /\ silver' \in [SilverTable -> [Day -> 0..MaxEvents]]
      /\ held' \in [SilverTable -> 0..MaxEvents]
      /\ task' \in [Task -> {"todo", "torn", "written", "done", "failed"}]
  BY <1>1, <1>2
<1>4. Types'
  BY <1>3 DEF Types, TypeOK
<1>5. GoldJobTables' = GoldJobTables
  BY DEF GoldJobTables, Jobs
<1>6. \A g \in GoldTable : task'[g] = task[g]
  BY <1>1, <1>2, TheTables
<1>7. Loads'
  BY <1>5, <1>6 DEF Loads, Loaded
<1>. QED  BY <1>1, <1>2, <1>4, <1>5, <1>7

(* A job begins with an input that is not older than the run.              *)
LEMMA BuildKeeps ==
    ASSUME IInv, NEW j \in Jobs("silver"), Build(j)
    PROVE  IInv'
<1>. USE DEF IInv
<1>. DEFINE t == j.table
            d == run["silver"]
            i == Input("silver", j)
<1>1. /\ d # 0 /\ task[t] = "todo" /\ i > 0
      /\ t # Enriched => task[Enriched] = "done"
      /\ t = Enriched => j.reads = "bronze"
      /\ t \in SilverTable /\ d \in Day
  BY SilverJobs, VariantIs, Numbers, Upstream DEF Build, Active, Ready, Enriched, Whales
<1>2. /\ t = Whales => i = silver[Enriched][d]
      /\ t # Whales => i = bronze[d]
  BY <1>1, SilverJobs, VariantIs DEF Input, Enriched, Whales
<1>3. i \in 0..MaxEvents
  BY <1>1, <1>2, Upstream DEF Types, TypeOK
<1>4. /\ Types' /\ Loads' /\ GoldJobTables' = GoldJobTables
      /\ \A u \in SilverTable, e \in Day : silver'[u][e] = IF u = t /\ e = d THEN 0 ELSE silver[u][e]
      /\ \A u \in SilverTable : held'[u] = IF u = t THEN i ELSE held[u]
      /\ \A u \in Task : task'[u] = IF u = t THEN "torn" ELSE task[u]
  <2>1. Replaces(j, 0, i, "torn")
    BY <1>1, <1>3, Numbers DEF Replaces, Build
  <2>. HIDE DEF i
  <2>. QED  BY <2>1, SilverStep
<1>5. UNCHANGED <<variant, bronze, run, based, caught, gold, bq, lost>>
  BY DEF Build
<1>6. /\ based <= i /\ i <= bronze[d]
      /\ \A g \in GoldTable : Reads(g) = t \/ (t = Enriched /\ Reads(g) = Whales) => gold[g][d] <= i
      /\ t = Enriched => silver[Whales][d] <= i
  <2>1. CASE t = Whales
    <3>1. silver[Enriched][d] >= based
      BY <1>1, <2>1, Upstream DEF Rebuilt, Tasks
    <3>2. silver[Enriched][d] <= bronze[d]
      BY <1>1, Upstream DEF Versions
    <3>3. \A g \in GoldTable : Reads(g) = t => gold[g][d] <= silver[Enriched][d]
      BY <1>1, <1>2, <2>1 DEF Versions
    <3>. QED  BY <1>1, <1>2, <2>1, <3>1, <3>2, <3>3, Numbers, Upstream
  <2>2. CASE t # Whales
    <3>1. based <= bronze[d]
      BY <1>1 DEF Rebuilt
    <3>2. \A g \in GoldTable : gold[g][d] <= bronze[d]
      BY <1>1 DEF Versions
    <3>3. silver[Whales][d] <= bronze[d]
      BY <1>1, Upstream DEF Versions
    <3>. QED  BY <1>1, <1>2, <2>2, <3>1, <3>2, <3>3, Numbers
  <2>. QED  BY <2>1, <2>2
<1>. HIDE DEF t, d, i
<1>7. \A u \in SilverTable : u # t /\ task[u] = "torn" => t # Enriched /\ u # Enriched
  BY <1>1 DEF Tasks
<1>8. Tasks'
  BY <1>1, <1>4, <1>5, <1>7, TheTables, Upstream DEF Tasks, d
<1>9. Versions'
  <2>. SUFFICES ASSUME NEW e \in Day
       PROVE  /\ \A u \in SilverTable : silver'[u][e] <= bronze[e]
              /\ \A g \in GoldTable :
                    /\ gold[g][e] <= bronze[e]
                    /\ silver'[Reads(g)][e] > 0 => gold[g][e] <= silver'[Reads(g)][e]
                    /\ silver'[Enriched][e] > 0 /\ Reads(g) = Whales
                          => gold[g][e] <= silver'[Enriched][e]
              /\ silver'[Enriched][e] > 0 => silver'[Whales][e] <= silver'[Enriched][e]
    BY <1>5 DEF Versions
  <2>1. \A u \in SilverTable : silver'[u][e] = 0 \/ silver'[u][e] = silver[u][e]
    BY <1>4
  <2>. QED  BY <2>1, Numbers, Upstream DEF Versions
<1>10. Torn'
  <2>. SUFFICES ASSUME NEW u \in SilverTable, task'[u] = "torn"
       PROVE  /\ silver'[u][d] = 0
              /\ held'[u] >= based /\ held'[u] > 0 /\ held'[u] <= bronze[d]
              /\ \A g \in GoldTable : Reads(g) = u \/ (u = Enriched /\ Reads(g) = Whales)
                                         => gold[g][d] <= held'[u]
              /\ u = Enriched => silver'[Whales][d] <= held'[u]
              /\ u = Whales => held'[u] <= silver'[Enriched][d]
    BY <1>5 DEF Torn, d
  <2>1. CASE u = t
    <3>1. held'[u] = i /\ silver'[u][d] = 0
      BY <1>1, <1>4, <2>1
    <3>2. u = Enriched => silver'[Whales][d] = silver[Whales][d]
      BY <1>1, <1>4, <2>1, Upstream
    <3>3. u = Whales => silver'[Enriched][d] = silver[Enriched][d]
      BY <1>1, <1>4, <2>1, Upstream
    <3>4. i \in Nat /\ based \in Nat
      BY <1>3, Numbers
    <3>. QED  BY <1>1, <1>2, <1>6, <2>1, <3>1, <3>2, <3>3, <3>4
  <2>2. CASE u # t
    <3>1. task[u] = "torn" /\ t # Enriched /\ u # Enriched
      BY <1>4, <1>7, <2>2, TheTables
    <3>2. /\ held'[u] = held[u] /\ silver'[u][d] = silver[u][d]
          /\ silver'[Enriched][d] = silver[Enriched][d]
      BY <1>1, <1>4, <2>2, <3>1, Upstream
    <3>. QED  BY <1>1, <3>1, <3>2 DEF Torn, d
  <2>. QED  BY <2>1, <2>2
<1>11. Rebuilt'
  BY <1>1, <1>4, <1>5, TheTables DEF Rebuilt, d
<1>. QED  BY <1>4, <1>8, <1>9, <1>10, <1>11

(* The rename gives the partition the version that was read.               *)
LEMMA WriteSilverKeeps ==
    ASSUME IInv, NEW j \in Jobs("silver"), WriteSilver(j)
    PROVE  IInv'
<1>. USE DEF IInv
<1>. DEFINE t == j.table
            d == run["silver"]
<1>1. d # 0 /\ task[t] = "torn" /\ t \in SilverTable /\ d \in Day
  BY SilverJobs, VariantIs, Numbers, Upstream DEF WriteSilver, Active
<1>2. /\ held[t] \in 0..MaxEvents /\ 0 \in 0..MaxEvents
      /\ \A u \in SilverTable : u # t /\ task[u] = "torn" => t # Enriched /\ u # Enriched
  BY <1>1, Numbers DEF Types, TypeOK, Tasks
<1>3. /\ Types' /\ Loads' /\ GoldJobTables' = GoldJobTables
      /\ \A u \in SilverTable, e \in Day :
            silver'[u][e] = IF u = t /\ e = d THEN held[t] ELSE silver[u][e]
      /\ \A u \in SilverTable : held'[u] = IF u = t THEN 0 ELSE held[u]
      /\ \A u \in Task : task'[u] = IF u = t THEN "done" ELSE task[u]
  <2>1. Replaces(j, held[j.table], 0, "done")
    BY <1>1, <1>2 DEF Replaces, WriteSilver
  <2>. QED  BY <2>1, SilverStep
<1>4. UNCHANGED <<variant, bronze, run, based, caught, gold, bq, lost>>
  BY DEF WriteSilver
<1>5. /\ held[t] >= based /\ held[t] > 0 /\ held[t] <= bronze[d]
      /\ \A g \in GoldTable : Reads(g) = t \/ (t = Enriched /\ Reads(g) = Whales)
                                 => gold[g][d] <= held[t]
      /\ t = Enriched => silver[Whales][d] <= held[t]
      /\ t = Whales => held[t] <= silver[Enriched][d]
  BY <1>1 DEF Torn
<1>. HIDE DEF t, d
<1>6. Tasks'
  BY <1>1, <1>2, <1>3, <1>4, TheTables, Upstream DEF Tasks, d
<1>7. Versions'
  <2>. SUFFICES ASSUME NEW e \in Day
       PROVE  /\ \A u \in SilverTable : silver'[u][e] <= bronze[e]
              /\ \A g \in GoldTable :
                    /\ gold[g][e] <= bronze[e]
                    /\ silver'[Reads(g)][e] > 0 => gold[g][e] <= silver'[Reads(g)][e]
                    /\ silver'[Enriched][e] > 0 /\ Reads(g) = Whales
                          => gold[g][e] <= silver'[Enriched][e]
              /\ silver'[Enriched][e] > 0 => silver'[Whales][e] <= silver'[Enriched][e]
    BY <1>4 DEF Versions
  <2>1. CASE e # d
    <3>1. \A u \in SilverTable : silver'[u][e] = silver[u][e]
      BY <1>3, <2>1
    <3>. QED  BY <3>1, Upstream DEF Versions
  <2>2. CASE e = d
    <3>1. \A u \in SilverTable : silver'[u][d] = IF u = t THEN held[t] ELSE silver[u][d]
      BY <1>1, <1>3
    <3>. QED  BY <1>1, <1>5, <2>2, <3>1, Upstream DEF Versions
  <2>. QED  BY <2>1, <2>2
<1>8. Torn'
  <2>. SUFFICES ASSUME NEW u \in SilverTable, task'[u] = "torn"
       PROVE  /\ silver'[u][d] = 0
              /\ held'[u] >= based /\ held'[u] > 0 /\ held'[u] <= bronze[d]
              /\ \A g \in GoldTable : Reads(g) = u \/ (u = Enriched /\ Reads(g) = Whales)
                                         => gold[g][d] <= held'[u]
              /\ u = Enriched => silver'[Whales][d] <= held'[u]
              /\ u = Whales => held'[u] <= silver'[Enriched][d]
    BY <1>4 DEF Torn, d
  <2>1. task[u] = "torn" /\ u # t
    BY <1>1, <1>3, TheTables
  <2>2. t # Enriched /\ u # Enriched
    BY <1>2, <2>1
  <2>3. /\ held'[u] = held[u] /\ silver'[u][d] = silver[u][d]
        /\ silver'[Enriched][d] = silver[Enriched][d]
    BY <1>1, <1>3, <2>1, <2>2, Upstream
  <2>. QED  BY <1>1, <2>1, <2>2, <2>3 DEF Torn, d
<1>9. Rebuilt'
  BY <1>1, <1>3, <1>4, <1>5, TheTables DEF Rebuilt, d
<1>. QED  BY <1>3, <1>6, <1>7, <1>8, <1>9

-----------------------------------------------------------------------------
(* What a gold job finds to read.                                          *)
LEMMA GoldInput ==
    ASSUME IInv, NEW j \in Jobs("gold"), run["gold"] # 0
    PROVE  /\ j.table \in GoldJobTables /\ j.table \in GoldTable /\ j.table \in Task
           /\ run["gold"] \in Day
           /\ Input("gold", j) = silver[Reads(j.table)][run["gold"]]
           /\ Input("gold", j) \in 0..MaxEvents
<1>1. /\ j.table \in GoldJobTables /\ j.table \in GoldTable /\ j.table \in Task
      /\ run["gold"] \in Day
  BY GoldJobs, VariantIs, Numbers, Upstream, TheTables DEF GoldJobTables, IInv
<1>2. Input("gold", j) = silver[Reads(j.table)][run["gold"]]
  BY GoldJobs, VariantIs, TheTables DEF Input, Reads, IInv
<1>3. Reads(j.table) \in SilverTable
  BY <1>1, Upstream
<1>4. silver[Reads(j.table)][run["gold"]] \in 0..MaxEvents
  BY <1>1, <1>3 DEF IInv, Types, TypeOK
<1>. QED  BY <1>1, <1>2, <1>4

(* The files of a gold partition are written from silver as it is now.     *)
LEMMA WriteGoldKeeps ==
    ASSUME IInv, NEW j \in Jobs("gold"), WriteGold(j)
    PROVE  IInv'
<1>. USE DEF IInv
<1>. DEFINE t == j.table
            d == run["gold"]
            i == Input("gold", j)
<1>1. /\ i > 0 /\ d # 0 /\ task[t] = "todo"
      /\ gold' = [gold EXCEPT ![t][d] = i]
      /\ task' = [task EXCEPT ![t] = "written"]
      /\ UNCHANGED <<variant, bronze, due, run, tries, held, based, caught, silver, bq, lost, budget>>
  BY DEF WriteGold, Active
<1>2. /\ t \in GoldJobTables /\ t \in GoldTable /\ t \in Task /\ d \in Day
      /\ i = silver[Reads(t)][d] /\ i \in 0..MaxEvents
  BY <1>1, GoldInput
<1>. HIDE DEF t, d, i
<1>3. /\ gold \in [GoldTable -> [Day -> 0..MaxEvents]]
      /\ task \in [Task -> {"todo", "torn", "written", "done", "failed"}]
  BY DEF Types, TypeOK
<1>4. /\ gold' \in [GoldTable -> [Day -> 0..MaxEvents]]
      /\ task' \in [Task -> {"todo", "torn", "written", "done", "failed"}]
      /\ \A g \in GoldTable, e \in Day : gold'[g][e] = IF g = t /\ e = d THEN i ELSE gold[g][e]
      /\ \A u \in Task : task'[u] = IF u = t THEN "written" ELSE task[u]
  <2>. HIDE DEF IInv
  <2>. QED  BY <1>1, <1>2, <1>3
<1>5. Types'
  BY <1>1, <1>4 DEF Types, TypeOK
<1>6. GoldJobTables' = GoldJobTables
  BY <1>1 DEF GoldJobTables, Jobs
<1>7. \A u \in SilverTable : u # t /\ task'[u] = task[u]
  BY <1>2, <1>4, TheTables
<1>8. Tasks'
  BY <1>1, <1>2, <1>4, <1>6, <1>7, TheTables, Upstream DEF Tasks, d
<1>9. i <= bronze[d] /\ (Reads(t) = Whales /\ silver[Enriched][d] > 0 => i <= silver[Enriched][d])
  BY <1>2, Upstream DEF Versions
<1>10. Versions'
  <2>1. ASSUME NEW g \in GoldTable, NEW e \in Day
        PROVE  /\ gold'[g][e] <= bronze[e]
               /\ silver[Reads(g)][e] > 0 => gold'[g][e] <= silver[Reads(g)][e]
               /\ silver[Enriched][e] > 0 /\ Reads(g) = Whales
                     => gold'[g][e] <= silver[Enriched][e]
    <3>1. CASE g = t /\ e = d
      BY <1>2, <1>4, <1>9, <3>1
    <3>2. CASE ~(g = t /\ e = d)
      BY <1>4, <3>2 DEF Versions
    <3>. QED  BY <3>1, <3>2
  <2>. QED  BY <1>1, <2>1 DEF Versions
<1>11. Torn'
  <2>. SUFFICES ASSUME NEW u \in SilverTable, run["silver"] # 0, task[u] = "torn", NEW g \in GoldTable,
                       Reads(g) = u \/ (u = Enriched /\ Reads(g) = Whales)
                PROVE  gold'[g][run["silver"]] <= held[u]
    BY <1>1, <1>7 DEF Torn
  <2>1. run["silver"] \in Day
    BY Numbers, Upstream
  <2>2. CASE g = t /\ run["silver"] = d
    <3>1. silver[u][d] = 0 /\ (u = Enriched => silver[Whales][d] <= held[u])
      BY <2>2 DEF Torn
    <3>2. Reads(g) # u
      BY <1>1, <1>2, <2>2, <3>1
    <3>. QED  BY <1>2, <1>4, <2>1, <2>2, <3>1, <3>2
  <2>3. CASE ~(g = t /\ run["silver"] = d)
    BY <1>4, <2>1, <2>3 DEF Torn
  <2>. QED  BY <2>2, <2>3
<1>12. Rebuilt'
  BY <1>1, <1>7 DEF Rebuilt
<1>13. Loads'
  <2>. SUFFICES ASSUME NEW g \in GoldTable, NEW e \in Day,
                       \/ g \notin GoldJobTables
                       \/ d # e /\ e \notin lost["gold"]
                       \/ d = e /\ task'[g] = "done"
                PROVE  Loaded(g, e) >= gold'[g][e]
    BY <1>1, <1>6 DEF Loads, Loaded, d
  <2>1. ~(g = t /\ e = d)
    BY <1>2, <1>4
  <2>2. task'[g] = "done" => task[g] = "done"
    BY <1>4, TheTables
  <2>. QED  BY <1>4, <2>1, <2>2 DEF Loads, d
<1>. QED  BY <1>5, <1>8, <1>10, <1>11, <1>12, <1>13

(* The rows that are appended are not older than the files.                *)
LEMMA WriteGoldToBqKeeps ==
    ASSUME IInv, NEW j \in Jobs("gold"), WriteGoldToBq(j)
    PROVE  IInv'
<1>. USE DEF IInv
<1>. DEFINE t == j.table
            d == run["gold"]
            i == Input("gold", j)
<1>1. /\ i > 0 /\ d # 0 /\ bq' = Appended(j)
      /\ task' = [task EXCEPT ![t] = "done"]
      /\ UNCHANGED <<variant, bronze, due, run, tries, held, based, caught, silver, gold, lost, budget>>
  BY DEF WriteGoldToBq, Active
<1>2. /\ t \in GoldJobTables /\ t \in GoldTable /\ t \in Task /\ d \in Day
      /\ i = silver[Reads(t)][d] /\ i \in 0..MaxEvents
  BY <1>1, GoldInput
<1>3. /\ bq' \in [GoldTable -> [Day -> Seq(1..MaxEvents)]]
      /\ \A g \in GoldTable, e \in Day :
            IF g = t /\ e = d THEN Loaded(g, e)' = i ELSE Loaded(g, e)' = Loaded(g, e)
  BY <1>1, AppendStep
<1>. HIDE DEF t, d, i
<1>4. task \in [Task -> {"todo", "torn", "written", "done", "failed"}]
  BY DEF Types, TypeOK
<1>5. /\ task' \in [Task -> {"todo", "torn", "written", "done", "failed"}]
      /\ \A u \in Task : task'[u] = IF u = t THEN "done" ELSE task[u]
  <2>. HIDE DEF IInv
  <2>. QED  BY <1>1, <1>2, <1>4
<1>6. Types'
  <2>1. \A g \in GoldTable, e \in Day : bq'[g][e] \in Seq(1..MaxEvents)
    BY <1>3
  <2>. QED  BY <1>1, <1>3, <1>5, <2>1 DEF Types, TypeOK
<1>7. GoldJobTables' = GoldJobTables
  BY <1>1 DEF GoldJobTables, Jobs
<1>8. \A u \in SilverTable : u # t /\ task'[u] = task[u]
  BY <1>2, <1>5, TheTables
<1>9. Tasks'
  BY <1>1, <1>2, <1>5, <1>7, <1>8, TheTables, Upstream DEF Tasks, d
<1>10. Versions' /\ Torn' /\ Rebuilt'
  BY <1>1, <1>8 DEF Versions, Torn, Rebuilt
<1>11. Loads'
  <2>. SUFFICES ASSUME NEW g \in GoldTable, NEW e \in Day,
                       \/ g \notin GoldJobTables
                       \/ d # e /\ e \notin lost["gold"]
                       \/ d = e /\ task'[g] = "done"
                PROVE  Loaded(g, e)' >= gold[g][e]
    <3>1. \A g \in GoldTable, e \in Day : gold'[g][e] = gold[g][e]
      BY <1>1
    <3>. QED  BY <1>1, <1>7, <3>1 DEF Loads, d
  <2>1. CASE g = t /\ e = d
    <3>1. gold[t][d] <= i
      BY <1>1, <1>2 DEF Versions
    <3>2. i \in Nat /\ gold[t][d] \in Nat
      BY <1>2, Numbers
    <3>3. Loaded(g, e)' = i
      BY <1>3, <2>1
    <3>. QED  BY <2>1, <3>1, <3>2, <3>3
  <2>2. CASE ~(g = t /\ e = d)
    <3>1. Loaded(g, e)' = Loaded(g, e)
      BY <1>3, <2>2
    <3>2. task'[g] = "done" /\ e = d => task[g] = "done"
      BY <1>5, <2>2, TheTables
    <3>3. Loaded(g, e) >= gold[g][e]
      BY <3>2 DEF Loads, d
    <3>. QED  BY <3>1, <3>3
  <2>. QED  BY <2>1, <2>2
<1>. QED  BY <1>6, <1>9, <1>10, <1>11

-----------------------------------------------------------------------------
LEMMA InvInit == Init => IInv
<1>. SUFFICES ASSUME Init PROVE IInv
  OBVIOUS
<1>. USE DEF Init
<1>1. 0 \in 0..Days /\ 0 \in 0..Retries /\ 0 \in 0..MaxEvents
  BY LayerAssumption
<1>2. [events |-> MaxEvents, faults |-> MaxFaults] \in [events : 0..MaxEvents, faults : 0..MaxFaults]
  BY LayerAssumption
<1>3. <<>> \in Seq(1..MaxEvents)
  OBVIOUS
<1>4. Types
  <2>1. \A d \in Day : bronze[d] + budget.events <= MaxEvents
    BY LayerAssumption
  <2>. QED  BY <1>1, <1>2, <1>3, <2>1 DEF Types, TypeOK
<1>5. Tasks
  BY TheTables, Upstream DEF Tasks
<1>6. Versions
  BY Upstream DEF Versions
<1>7. Torn /\ Rebuilt
  BY Upstream DEF Torn, Rebuilt
<1>8. Loads
  BY DEF Loads, Loaded
<1>. QED  BY <1>4, <1>5, <1>6, <1>7, <1>8 DEF IInv

LEMMA InvStep == IInv /\ [Next]_vars => IInv'
<1>. SUFFICES ASSUME IInv, [Next]_vars PROVE IInv'
  OBVIOUS
<1>1. ASSUME NEW l \in Layer, NEW d \in Day, Start(l, d) \/ StartByHand(l, d) PROVE IInv'
  BY <1>1, StartKeeps
<1>2. ASSUME NEW j \in Jobs("silver"), Build(j) \/ WriteSilver(j) PROVE IInv'
  BY <1>2, BuildKeeps, WriteSilverKeeps
<1>3. ASSUME NEW readable, QualityCheck(readable) PROVE IInv'
  BY <1>3, QualityCheckKeeps
<1>4. ASSUME NEW j \in Jobs("gold"), WriteGold(j) \/ WriteGoldToBq(j) PROVE IInv'
  BY <1>4, WriteGoldKeeps, WriteGoldToBqKeeps
<1>5. ASSUME NEW l \in Layer, NEW j \in Jobs(l), NoInput(l, j) \/ Fail(l, j) PROVE IInv'
  BY <1>5, NoInputKeeps, FailKeeps
<1>6. ASSUME NEW d \in Day, BronzePublishes(d) PROVE IInv'
  BY <1>6, PublishesKeeps
<1>7. due \in [Layer -> SUBSET Day] /\ lost \in [Layer -> SUBSET Day]
  BY DEF IInv, Types, TypeOK
<1>8. CASE PublishSilver
  <2>1. run["silver"] \in Day
    BY <1>8, Numbers, Upstream DEF PublishSilver, Built, IInv
  <2>2. due' \in [Layer -> SUBSET Day] /\ lost' \in [Layer -> SUBSET Day]
    BY <1>7, <1>8, <2>1 DEF PublishSilver
  <2>3. lost["gold"] \subseteq lost'["gold"]
    BY <1>7, <1>8, Upstream DEF PublishSilver
  <2>. QED  BY <1>8, <2>2, <2>3, EndKeeps, Upstream DEF PublishSilver
<1>9. CASE GoldEnds
  BY <1>7, <1>9, EndKeeps, Upstream DEF GoldEnds
<1>10. ASSUME NEW l \in Layer, RunFails(l) PROVE IInv'
  <2>1. run[l] \in Day
    BY <1>10, Numbers DEF RunFails, IInv
  <2>2. /\ due' \in [Layer -> SUBSET Day] /\ lost' \in [Layer -> SUBSET Day]
        /\ lost["gold"] \subseteq lost'["gold"]
        /\ l = "gold" => run["gold"] \in lost'["gold"]
    BY <1>7, <1>10, <2>1, Upstream DEF RunFails
  <2>. QED  BY <1>10, <2>2, EndKeeps DEF RunFails
<1>11. CASE Work
  BY <1>1, <1>2, <1>3, <1>4, <1>5, <1>8, <1>9, <1>10, <1>11 DEF Work
<1>12. CASE UNCHANGED vars
  <2>1. UNCHANGED <<variant, bronze, due, run, task, tries, held, based, caught,
                    silver, gold, bq, lost, budget>>
    BY <1>12 DEF vars
  <2>2. GoldJobTables' = GoldJobTables
    BY <2>1 DEF GoldJobTables, Jobs
  <2>3. Types' /\ Tasks' /\ Loads'
    BY <2>1, <2>2 DEF IInv, Types, TypeOK, Tasks, Loads, Loaded
  <2>4. Versions' /\ Torn' /\ Rebuilt'
    BY <2>1 DEF IInv, Versions, Torn, Rebuilt
  <2>. QED  BY <2>3, <2>4 DEF IInv
<1>. QED  BY <1>1, <1>3, <1>5, <1>6, <1>11, <1>12 DEF Next

(* The inductive invariant holds in every state.                           *)
THEOREM Inductive == Spec => []IInv
BY InvInit, InvStep, PTL DEF Spec

(* Every variable has its type, and no day has more versions than were     *)
(* published.                                                              *)
THEOREM TypeCorrect == Spec => []TypeOK
<1>1. IInv => TypeOK
  BY DEF IInv, Types
<1>. QED  BY <1>1, Inductive, PTL

(* BigQuery is never behind the gold files of a day, unless its run is     *)
(* under way or known to have failed.                                      *)
THEOREM LoadedWhatIsWritten == Spec => []BigQueryKeepsUp
<1>1. IInv => BigQueryKeepsUp
  BY DEF IInv, Loads, BigQueryKeepsUp
<1>. QED  BY <1>1, Inductive, PTL

(* Silver is published with tables that its run rebuilt, but for the jobs  *)
(* whose exception was caught.                                             *)
THEOREM RebuiltBeforePublished == Spec => PublishedIsRebuilt
<1>. DEFINE Fresh == PublishSilver => \A t \in SilverTable \ caught :
                                          silver[t][run["silver"]] >= based
<1>1. IInv => Fresh
  <2>. SUFFICES ASSUME IInv, Built, NEW t \in SilverTable, t \notin caught
                PROVE  silver[t][run["silver"]] >= based
    BY DEF PublishSilver
  <2>1. task[t] = "done"
    <3>1. variant \in {"k8s", "gke", "local"}
      BY VariantIs DEF IInv
    <3>2. PICK j \in Jobs("silver") : j.table = t
      BY <3>1, SilverJobs
    <3>. QED  BY <3>2 DEF Built
  <2>. QED  BY <2>1 DEF IInv, Rebuilt, Built
<1>2. IInv => [Fresh]_vars
  BY <1>1
<1>. HIDE DEF Fresh
<1>3. Spec => [][Fresh]_vars
  BY <1>2, Inductive, PTL
<1>. QED  BY <1>3 DEF PublishedIsRebuilt, Fresh
=============================================================================
