-------------------------- MODULE WhaleBroadcastProofs --------------------------
(* Theorems about WhaleBroadcast, for every set of clients, limit, topic   *)
(* and number of lost sessions.                                            *)
EXTENDS WhaleBroadcast, FiniteSetTheorems, TLAPS

(* What the two functions of TypeOK's missing conjuncts hold.              *)
Types ==
    /\ TypeOK
    /\ sending \in [Task -> SUBSET Client]
    /\ owed \in [Client -> Seq(Int)]
    /\ lost \in Nat

-----------------------------------------------------------------------------
(* What the manager knows of a client.                                     *)

Starting == {"pool", "tokens", "labels", "redis", "search", "index", "serve"}

(* Nobody is connected before the server is up.                            *)
NobodyYet == phase \in Starting => conns = {}

(* A client that is not listed is owed nothing.                            *)
UnlistedOweNothing == \A c \in Client : c \notin conns => owed[c] = <<>>

(* No task has to do with a client that has not connected.                 *)
NewAreUnknown ==
    \A c \in Client : endpoint[c] = "new" => c \notin conns /\ \A b \in Task : c \notin sending[b]

Listing == NobodyYet /\ UnlistedOweNothing /\ NewAreUnknown /\ NoGapWhileListed

-----------------------------------------------------------------------------
(* What is open at each stage of the clean-up, unless one of the two       *)
(* exceptions cut it short.                                                *)

Clean == phase = "down" /\ broken \cap {"alerts", "es"} = {}

Release ==
    /\ phase \in Starting => task["alerts"] = "none"
    /\ "kafka" \in open => task["alerts"] \in {"idle", "send", "backoff", "closing", "failed"}
    /\ phase = "await" => task["alerts"] \in {"closing", "done", "failed"}
    /\ phase \in {"stop_ping", "close_es", "close_redis", "close_pool"} \/ Clean
          => task["alerts"] \in {"none", "done"}
    /\ phase \in {"close_es", "close_redis", "close_pool"} \/ Clean
          => task["ping"] \in {"none", "done"}
    /\ phase \in {"close_redis", "close_pool"} \/ Clean => "es" \notin open
    /\ phase = "close_pool" \/ Clean => ("redis" \in open => "redis" \in broken)
    /\ Clean => ("pool" \in open => "pool" \in broken)

IInv == Types /\ Listing /\ Release

-----------------------------------------------------------------------------
(* Initially nothing is open, and nobody is connected.                     *)
LEMMA InvInit == Init => IInv
<1>. SUFFICES ASSUME Init PROVE IInv
  OBVIOUS
<1>1. Types
  BY BroadcastAssumption, FS_EmptySet DEF Init, Types, TypeOK, Task, None
<1>2. Listing
  BY DEF Init, Listing, NobodyYet, UnlistedOweNothing, NewAreUnknown, NoGapWhileListed
<1>3. Release
  BY DEF Init, Release, Clean, Starting, Task
<1>. QED  BY <1>1, <1>2, <1>3 DEF IInv

-----------------------------------------------------------------------------
(* How a step changes each part of the state: the lemmas up to HIDE go     *)
(* through the disjuncts of Next, so every action is expanded for them,    *)
(* and only for them.                                                      *)
USE DEF Next, vars, lifeVars, connVars, kafkaVars, LifeStep, Startup, Shutdown, Alerts, Socket,
        TaskOnly, SetLink, Unlist, OpenPool, LoadTokens, LoadLabels, ConnectRedis, OpenSearch,
        LoadIndex, Serve, StartupFails, StopRequested, EndpointsGone, CancelAlerts,
        AwaitAlerts, AwaitAlertsRaises, StopPing, Closes, CloseSearch, CloseRedis, ClosePool,
        Connect, Refuse, PeerCloses, PeerStalls, Keepalive, SeeDisconnect, EndpointFails,
        Send, SendFails, BroadcastDone, Ping, CreateConsumer, CreateConsumerFails,
        PollAlert, PollError, Retry, CloseConsumer, Assign, SessionLost

LEMMA LifeTypes ==
    ASSUME Types, [Next]_vars
    PROVE  /\ phase' \in {"pool", "tokens", "labels", "redis", "search", "index", "serve",
                  "up", "closing", "cancel", "await", "stop_ping", "close_es", "close_redis",
                  "close_pool", "down"}
           /\ open' \subseteq {"pool", "redis", "es", "kafka"}
           /\ broken' \subseteq {"alerts", "es", "redis", "pool"}
BY DEF Types, TypeOK

LEMMA TaskTypes ==
    ASSUME Types, [Next]_vars
    PROVE  task' \in [Task -> {"none", "starting", "idle", "send", "backoff", "closing",
                               "done", "failed"}]
BY DEF Types, TypeOK, Task

LEMMA SendingStep ==
    ASSUME Types, [Next]_vars
    PROVE  \/ UNCHANGED sending
           \/ \E b \in Task : \E T \in SUBSET sending[b] : sending' = [sending EXCEPT ![b] = T]
           \/ \E b \in Task : sending' = [sending EXCEPT ![b] = conns] /\ task'[b] = "send"
BY DEF Types, TypeOK, Task

LEMMA SenderStep ==
    ASSUME Types, Release, [Next]_vars, NEW b \in Task, task[b] = "send"
    PROVE  task'[b] = "send" \/ sending'[b] = {}
<1>1. CASE b = "alerts"
  BY <1>1 DEF Types, TypeOK, Task, Release, Starting
<1>2. CASE b = "ping"
  BY <1>2 DEF Types, TypeOK, Task
<1>. QED  BY <1>1, <1>2 DEF Task

LEMMA EndpointTypes ==
    ASSUME Types, [Next]_vars
    PROVE  endpoint' \in [Client -> {"new", "serving", "ended"}]
BY DEF Types, TypeOK

LEMMA LinkTypes ==
    ASSUME Types, [Next]_vars
    PROVE  link' \in [Client -> {"up", "stuck", "lost"}]
BY DEF Types, TypeOK

LEMMA KafkaTypes ==
    ASSUME Types, [Next]_vars
    PROVE  origin' \in 0..Len(Topic) /\ position' \in {None} \cup (origin'..Len(Topic)) /\ lost' \in Nat
BY BroadcastAssumption DEF Types, TypeOK, None

LEMMA OwedStep ==
    ASSUME Types, [Next]_vars
    PROVE  \/ UNCHANGED owed
           \/ \E c \in Client : owed' = [owed EXCEPT ![c] = <<>>]
           \/ \E c \in Client : owed[c] # <<>> /\ owed' = [owed EXCEPT ![c] = Tail(@)]
           \/ /\ position \in Int
              /\ owed' = [c \in Client |->
                             IF c \in conns THEN Append(owed[c], position + 1) ELSE owed[c]]
<1>1. CASE UNCHANGED owed
  BY <1>1
<1>2. CASE \E c \in Client, b \in Task : Send(b, c) \/ SendFails(b, c)
  BY <1>2 DEF Types, TypeOK
<1>3. CASE PollAlert
  BY <1>3, BroadcastAssumption DEF Types, TypeOK, None
<1>4. CASE \E c \in Client : Socket(c)
  BY <1>4 DEF Types, TypeOK
<1>5. UNCHANGED owed \/ PollAlert \/ (\E c \in Client : Socket(c))
        \/ \E c \in Client, b \in Task : Send(b, c) \/ SendFails(b, c)
  OBVIOUS
<1>. QED  BY <1>1, <1>2, <1>3, <1>4, <1>5

LEMMA ConnsStep ==
    ASSUME Types, [Next]_vars
    PROVE  \/ conns' \subseteq conns
           \/ \E c \in Client : Cardinality(conns) < MaxConnections /\ conns' = conns \cup {c}
BY DEF Types, TypeOK

LEMMA ReleaseKafka ==
    ASSUME Types, Release, [Next]_vars
    PROVE  /\ phase' \in Starting => task'["alerts"] = "none"
           /\ "kafka" \in open' =>
                task'["alerts"] \in {"idle", "send", "backoff", "closing", "failed"}
<1>1. phase' \in Starting => task'["alerts"] = "none"
  BY DEF Types, TypeOK, Task, Release, Starting
<1>2. "kafka" \in open' =>
        task'["alerts"] \in {"idle", "send", "backoff", "closing", "failed"}
  BY DEF Types, TypeOK, Task, Release, Starting
<1>. QED  BY <1>1, <1>2

(* Outside lifespan a task that has ended stays so (but for a heartbeat    *)
(* while the server is up), and nothing is opened but the consumer.        *)
LEMMA OtherSteps ==
    ASSUME Types, [Next]_vars
    PROVE  \/ Startup \/ StartupFails \/ StopRequested \/ EndpointsGone
           \/ CancelAlerts \/ AwaitAlerts \/ AwaitAlertsRaises \/ StopPing
           \/ CloseSearch \/ CloseRedis \/ ClosePool
           \/ /\ phase' = phase /\ broken' = broken
              /\ open' \subseteq open \cup {"kafka"}
              /\ task["alerts"] \in {"none", "done"} => task'["alerts"] = task["alerts"]
              /\ task["alerts"] \in {"closing", "done", "failed"}
                    => task'["alerts"] \in {"closing", "done", "failed"}
              /\ task["ping"] \in {"none", "done"} => task'["ping"] = task["ping"] \/ phase = "up"
<1>. SUFFICES ASSUME \/ Alerts \/ CreateConsumer \/ CreateConsumerFails \/ PollError
                     \/ Ping \/ BroadcastDone("ping")
                     \/ Assign \/ SessionLost
                     \/ \E c \in Client : Socket(c)
                     \/ \E c \in Client, b \in Task : Send(b, c) \/ SendFails(b, c)
                     \/ UNCHANGED vars
              PROVE  /\ phase' = phase /\ broken' = broken
                     /\ open' \subseteq open \cup {"kafka"}
                     /\ task["alerts"] \in {"none", "done"} => task'["alerts"] = task["alerts"]
                     /\ task["alerts"] \in {"closing", "done", "failed"}
                           => task'["alerts"] \in {"closing", "done", "failed"}
                     /\ task["ping"] \in {"none", "done"}
                           => task'["ping"] = task["ping"] \/ phase = "up"
  OBVIOUS
<1>. QED  BY DEF Types, TypeOK, Task

LEMMA StartupRelease ==
    ASSUME Types, Release, Startup \/ StartupFails \/ StopRequested \/ EndpointsGone
    PROVE  phase' \in Starting \cup {"up", "closing", "cancel"}
BY DEF Starting

LEMMA CancelRelease ==
    ASSUME Types, Release, CancelAlerts \/ AwaitAlerts \/ AwaitAlertsRaises
    PROVE  \/ phase' = "await" /\ task'["alerts"] \in {"closing", "done", "failed"}
           \/ phase' = "stop_ping" /\ task'["alerts"] \in {"none", "done"}
           \/ phase' = "down" /\ ~Clean'
BY DEF Types, TypeOK, Task, Release, Clean

LEMMA CloseRelease ==
    ASSUME Types, Release, StopPing \/ CloseSearch \/ CloseRedis \/ ClosePool
    PROVE  /\ task'["alerts"] = task["alerts"] /\ task["alerts"] \in {"none", "done"}
           /\ task'["ping"] \in {"none", "done"}
           /\ \/ phase' = "close_es"
              \/ phase' = "close_redis" /\ "es" \notin open'
              \/ phase' = "close_pool" /\ "es" \notin open' /\ ("redis" \in open' => "redis" \in broken')
              \/ phase' = "down" /\ "es" \notin open' /\ ("redis" \in open' => "redis" \in broken')
                 /\ ("pool" \in open' => "pool" \in broken')
              \/ phase' = "down" /\ ~Clean'
BY DEF Types, TypeOK, Task, Release, Clean
(* The server is up, or closing, only after it has started.                *)
LEMMA PhaseStep ==
    ASSUME Types, [Next]_vars
    PROVE  /\ phase' \in Starting => phase \in Starting
           /\ phase' \in {"up", "closing"} => phase \in {"serve", "up", "closing"}
BY DEF Starting

(* A client enters the list by Connect and leaves it with nothing owed.    *)
LEMMA ListStep ==
    ASSUME Types, [Next]_vars, NEW c \in Client
    PROVE  \/ c \in conns' /\ c \in conns
           \/ c \notin conns' /\ c \notin conns
           \/ c \notin conns' /\ owed'[c] = <<>>
           \/ Connect(c) /\ c \in conns'
BY DEF Types, TypeOK

(* New connections are those of clients that have none.                    *)
LEMMA EndpointStep ==
    ASSUME Types, [Next]_vars, NEW c \in Client, endpoint'[c] = "new"
    PROVE  endpoint[c] = "new" /\ ~Connect(c)
BY DEF Types, TypeOK

(* What a client is owed and what is being sent to it change together.     *)
LEMMA AlertStep ==
    ASSUME Types, [Next]_vars, phase' \in {"up", "closing"}, NEW c \in Client,
           c \in conns'
    PROVE  \/ /\ owed'[c] = owed[c]
              /\ c \in sending'["alerts"] <=> c \in sending["alerts"]
              /\ current' = current \/ sending["alerts"] = {}
           \/ Send("alerts", c)
           \/ c \in conns /\ PollAlert
<1>1. ASSUME NEW d \in Client, NEW b \in Task, SendFails(b, d)
      PROVE  /\ owed'[c] = owed[c] /\ current' = current
             /\ c \in sending'["alerts"] <=> c \in sending["alerts"]
  BY <1>1 DEF Types, TypeOK, Task
<1>2. ASSUME NEW d \in Client, NEW b \in Task, Send(b, d), b # "alerts" \/ d # c
      PROVE  /\ owed'[c] = owed[c] /\ current' = current
             /\ c \in sending'["alerts"] <=> c \in sending["alerts"]
  BY <1>2 DEF Types, TypeOK, Task
<1>3. ASSUME NEW d \in Client, Socket(d)
      PROVE  owed'[c] = owed[c] /\ UNCHANGED <<sending, current>>
  BY <1>3 DEF Types, TypeOK
<1>4. CASE Startup \/ StartupFails \/ StopRequested \/ Shutdown
  BY <1>4
<1>5. CASE \/ Retry \/ CloseConsumer \/ BroadcastDone("alerts") \/ CreateConsumer
           \/ CreateConsumerFails \/ PollError \/ Ping \/ BroadcastDone("ping")
           \/ Assign \/ SessionLost \/ UNCHANGED vars
  BY <1>5 DEF Types, TypeOK, Task
<1>6. CASE PollAlert /\ c \notin conns
  BY <1>6
<1>. QED
  <2>. HIDE DEF Send, SendFails, Socket, Startup, StartupFails, StopRequested, Shutdown, PollAlert,
                Retry, CloseConsumer, BroadcastDone, CreateConsumer, CreateConsumerFails,
                PollError, Ping, Assign, SessionLost, vars
  <2>. QED  BY <1>1, <1>2, <1>3, <1>4, <1>5, <1>6

HIDE DEF Next, vars, lifeVars, connVars, kafkaVars, LifeStep, Startup, Shutdown, Alerts, Socket,
         TaskOnly, SetLink, Unlist, OpenPool, LoadTokens, LoadLabels, ConnectRedis, OpenSearch,
         LoadIndex, Serve, StartupFails, StopRequested, EndpointsGone, CancelAlerts,
         AwaitAlerts, AwaitAlertsRaises, StopPing, Closes, CloseSearch, CloseRedis, ClosePool,
         Connect, Refuse, PeerCloses, PeerStalls, Keepalive, SeeDisconnect, EndpointFails,
         Send, SendFails, BroadcastDone, Ping, CreateConsumer, CreateConsumerFails,
         PollAlert, PollError, Retry, CloseConsumer, Assign, SessionLost

-----------------------------------------------------------------------------
(* The three parts of the invariant are kept.                              *)
LEMMA TypesStep == Types /\ Release /\ [Next]_vars => Types'
<1>. SUFFICES ASSUME Types, Release, [Next]_vars PROVE Types'
  OBVIOUS
<1>. USE BroadcastAssumption
<1>1. conns' \subseteq Client /\ Cardinality(conns') <= MaxConnections
  <2>1. /\ IsFiniteSet(conns) /\ conns \subseteq Client
        /\ Cardinality(conns) \in Nat /\ Cardinality(conns) <= MaxConnections
    BY FS_Subset, FS_CardinalityType DEF Types, TypeOK
  <2>2. CASE conns' \subseteq conns
    <3>1. Cardinality(conns') <= Cardinality(conns) /\ Cardinality(conns') \in Nat
      BY <2>1, <2>2, FS_Subset, FS_CardinalityType
    <3>. QED  BY <2>1, <2>2, <3>1
  <2>3. ASSUME NEW c \in Client, Cardinality(conns) < MaxConnections, conns' = conns \cup {c}
        PROVE  conns' \subseteq Client /\ Cardinality(conns') <= MaxConnections
    <3>1. Cardinality(conns') \in {Cardinality(conns), Cardinality(conns) + 1}
      BY <2>1, <2>3, FS_AddElement
    <3>. QED  BY <2>1, <2>3, <3>1
  <2>. QED  BY <2>2, <2>3, ConnsStep
<1>2. sending' \in [Task -> SUBSET Client]
  BY SendingStep DEF Types, TypeOK
<1>3. \A b \in Task : sending'[b] # {} => task'[b] = "send"
  <2>. SUFFICES ASSUME NEW b \in Task, sending'[b] # {} PROVE task'[b] = "send"
    OBVIOUS
  <2>1. CASE sending[b] # {}
    BY <2>1, SenderStep DEF Types, TypeOK
  <2>2. CASE sending[b] = {}
    BY <2>2, SendingStep DEF Types
  <2>. QED  BY <2>1, <2>2
<1>4. owed' \in [Client -> Seq(Int)]
  <2>1. \A c \in Client : owed[c] \in Seq(Int)
    BY DEF Types
  <2>2. \A c \in Client : owed[c] # <<>> => Tail(owed[c]) \in Seq(Int)
    BY <2>1
  <2>3. position \in Int => \A c \in Client : Append(owed[c], position + 1) \in Seq(Int)
    BY <2>1
  <2>4. CASE UNCHANGED owed
    BY <2>4 DEF Types
  <2>5. ASSUME NEW c \in Client, NEW s \in Seq(Int), owed' = [owed EXCEPT ![c] = s]
        PROVE  owed' \in [Client -> Seq(Int)]
    BY <2>5 DEF Types
  <2>6. CASE /\ position \in Int
             /\ owed' = [c \in Client |->
                            IF c \in conns THEN Append(owed[c], position + 1) ELSE owed[c]]
    BY <2>1, <2>3, <2>6
  <2>7. <<>> \in Seq(Int)
    OBVIOUS
  <2>. QED  BY <2>2, <2>4, <2>5, <2>6, <2>7, OwedStep
<1>. QED
  BY <1>1, <1>2, <1>3, <1>4, LifeTypes, TaskTypes, EndpointTypes, LinkTypes, KafkaTypes
  DEF Types, TypeOK

LEMMA ReleaseStep == Types /\ Release /\ [Next]_vars => Release'
<1>. SUFFICES ASSUME Types, Release, [Next]_vars PROVE Release'
  OBVIOUS
<1>1. CASE Startup \/ StartupFails \/ StopRequested \/ EndpointsGone
  <2>1. phase' \notin {"await", "stop_ping", "close_es", "close_redis", "close_pool", "down"}
    BY <1>1, StartupRelease DEF Starting
  <2>. QED  BY <2>1, ReleaseKafka DEF Release, Clean
<1>2. CASE CancelAlerts \/ AwaitAlerts \/ AwaitAlertsRaises
  BY <1>2, CancelRelease, ReleaseKafka DEF Release, Clean
<1>3. CASE StopPing \/ CloseSearch \/ CloseRedis \/ ClosePool
  BY <1>3, CloseRelease, ReleaseKafka DEF Release, Clean
<1>4. CASE /\ phase' = phase /\ broken' = broken
           /\ open' \subseteq open \cup {"kafka"}
           /\ task["alerts"] \in {"none", "done"} => task'["alerts"] = task["alerts"]
           /\ task["alerts"] \in {"closing", "done", "failed"}
                 => task'["alerts"] \in {"closing", "done", "failed"}
           /\ task["ping"] \in {"none", "done"} => task'["ping"] = task["ping"] \/ phase = "up"
  BY <1>4, ReleaseKafka DEF Release, Clean
<1>. QED  BY <1>1, <1>2, <1>3, <1>4, OtherSteps

LEMMA ListingStep == Types /\ Types' /\ Listing /\ [Next]_vars => Listing'
<1>. SUFFICES ASSUME Types, Types', Listing, [Next]_vars PROVE Listing'
  OBVIOUS
<1>. USE DEF Listing
<1>1. ASSUME NEW c \in Client, Connect(c)
      PROVE  phase = "up" /\ endpoint[c] = "new"
  BY <1>1 DEF Connect
<1>2. NobodyYet'
  BY <1>1, PhaseStep, ListStep DEF NobodyYet, Starting, Types, TypeOK
<1>3. UnlistedOweNothing'
  <2>. SUFFICES ASSUME NEW c \in Client, c \notin conns' PROVE owed'[c] = <<>>
    BY DEF UnlistedOweNothing
  <2>1. CASE c \notin conns
    BY <2>1, OwedStep DEF UnlistedOweNothing, Types
  <2>2. CASE c \in conns
    BY <2>2, ListStep
  <2>. QED  BY <2>1, <2>2
<1>4. NewAreUnknown'
  <2>. SUFFICES ASSUME NEW c \in Client, endpoint'[c] = "new"
                PROVE  c \notin conns' /\ \A b \in Task : c \notin sending'[b]
    BY DEF NewAreUnknown
  <2>1. c \notin conns /\ \A b \in Task : c \notin sending[b]
    BY EndpointStep DEF NewAreUnknown
  <2>2. c \notin conns'
    BY <2>1, EndpointStep, ListStep
  <2>. QED  BY <2>1, <2>2, SendingStep DEF Types
<1>5. NoGapWhileListed'
  <2>. SUFFICES ASSUME phase' \in {"up", "closing"}, NEW c \in Client, c \in conns'
                PROVE  owed'[c] = IF c \in sending'["alerts"] THEN <<current'>> ELSE <<>>
    BY DEF NoGapWhileListed, Types, TypeOK
  <2>. "alerts" \in Task
    BY DEF Task
  <2>1. CASE c \in conns
    <3>1. phase \in {"up", "closing"}
      BY <2>1, PhaseStep DEF NobodyYet, Starting
    <3>2. owed[c] = IF c \in sending["alerts"] THEN <<current>> ELSE <<>>
      BY <2>1, <3>1 DEF NoGapWhileListed
    <3>3. CASE Send("alerts", c)
      <4>1. owed[c] = <<current>> /\ c \notin sending'["alerts"]
        BY <3>2, <3>3 DEF Send, Types
      <4>2. owed' = [owed EXCEPT ![c] = Tail(@)]
        BY <3>3, <4>1 DEF Send
      <4>. QED  BY <4>1, <4>2 DEF Types
    <3>4. CASE PollAlert
      <4>1. sending["alerts"] = {}
        BY <3>4 DEF PollAlert, Types, TypeOK
      <4>2. CASE Topic[position + 1] = "bad"
        BY <3>2, <3>4, <4>1, <4>2 DEF PollAlert
      <4>3. CASE Topic[position + 1] # "bad"
        <5>1. owed'[c] = Append(<<>>, position + 1) /\ c \in sending'["alerts"] /\ current' = position + 1
          BY <2>1, <3>2, <3>4, <4>1, <4>3 DEF PollAlert, Types
        <5>. QED  BY <5>1
      <4>. QED  BY <4>2, <4>3
    <3>5. CASE /\ owed'[c] = owed[c]
               /\ c \in sending'["alerts"] <=> c \in sending["alerts"]
               /\ current' = current \/ sending["alerts"] = {}
      BY <3>2, <3>5
    <3>. QED  BY <3>3, <3>4, <3>5, AlertStep
  <2>2. CASE c \notin conns
    <3>1. endpoint[c] = "new"
      BY <1>1, <2>2, ListStep
    <3>2. owed[c] = <<>> /\ c \notin sending["alerts"]
      BY <2>2, <3>1 DEF UnlistedOweNothing, NewAreUnknown
    <3>3. ~Send("alerts", c)
      BY <3>2 DEF Send
    <3>. QED  BY <2>2, <3>2, <3>3, AlertStep
  <2>. QED  BY <2>1, <2>2
<1>. QED  BY <1>2, <1>3, <1>4, <1>5

(* IInv holds in every reachable state.                                    *)
LEMMA Invariance == Spec => []IInv
<1>1. IInv /\ [Next]_vars => IInv'
  BY TypesStep, ReleaseStep, ListingStep DEF IInv
<1>. QED  BY <1>1, InvInit, PTL DEF Spec

-----------------------------------------------------------------------------
(* The limit on connections holds, and what is being sent belongs to a     *)
(* broadcast that is under way.                                            *)
THEOREM TypeCorrect == Spec => []TypeOK
<1>1. IInv => TypeOK
  BY DEF IInv, Types
<1>. QED  BY <1>1, Invariance, PTL

(* Whatever joins, leaves, fails or is being sent, a client that the       *)
(* connection manager lists has missed no alert since it was accepted      *)
(* (core/ws_manager.py, main.py).                                          *)
THEOREM NoGap == Spec => []NoGapWhileListed
<1>1. IInv => NoGapWhileListed
  BY DEF IInv, Listing
<1>. QED  BY <1>1, Invariance, PTL

(* However far the start-up came and whatever failed at the end, lifespan  *)
(* leaves nothing open that it could close, but for the two exceptions it  *)
(* lets pass (main.py).                                                    *)
THEOREM NothingLeftOpen == Spec => []ReleasedWhenDown
<1>1. IInv => ReleasedWhenDown
  <2>. SUFFICES ASSUME IInv, Clean
                PROVE  /\ open \subseteq broken
                       /\ task["ping"] \in {"none", "done"} /\ task["alerts"] \in {"none", "done"}
    BY DEF ReleasedWhenDown, Clean
  <2>. QED  BY DEF IInv, Types, TypeOK, Release
<1>. QED  BY <1>1, Invariance, PTL
=============================================================================
