--------------------------- MODULE WhaleBroadcast ---------------------------
(***************************************************************************)
(* The API server's side of the whale alerts (src/src/backend/main.py,     *)
(* core/ws_manager.py, api/whales.py): the lifespan that opens and closes  *)
(* the server's resources, the task that reads the whale-alerts topic, the *)
(* heartbeat task, one endpoint coroutine per websocket, and the           *)
(* connection manager they share.                                          *)
(*                                                                         *)
(* All of it runs on one event loop, so a step is the code between two     *)
(* awaits that can suspend.  accept() does not suspend under uvicorn: a    *)
(* connection is checked, accepted and listed in one step.                 *)
(***************************************************************************)
EXTENDS Integers, Sequences, FiniteSets

CONSTANTS
    Client,         \* websockets; each connects at most once
    MaxConnections, \* ConnectionManager.max_connections
    Topic,          \* what is produced to whale-alerts, "bad" does not decode
    MaxReassign     \* bound of the model: group sessions that are lost

ASSUME BroadcastAssumption ==
    /\ IsFiniteSet(Client)
    /\ MaxConnections \in Nat
    /\ Topic \in Seq(STRING)
    /\ MaxReassign \in Nat

VARIABLES
    phase,      \* where lifespan stands
    open,       \* what lifespan and the alert task have opened and not closed
    broken,     \* what ended with an exception that lifespan had to meet
    task,       \* where the alert task and the heartbeat task stand
    sending,    \* per task, the sends its gather still waits for
    conns,      \* active_connections
    endpoint,   \* the coroutine whale_websocket of each client
    link,       \* what a send to the client would meet
    position,   \* records of Topic read or passed, None before an assignment
    origin,     \* where the last assignment started
    lost,       \* group sessions lost so far
    current,    \* the alert being broadcast, None between broadcasts
    owed        \* history: alerts broadcast since a listed client was accepted
                \* that it has not received

lifeVars == <<phase, open, broken>>
connVars == <<conns, endpoint, link>>
kafkaVars == <<position, origin, lost>>
vars == <<lifeVars, task, sending, connVars, kafkaVars, current, owed>>

None == -1      \* no position, no alert

Task == {"alerts", "ping"}

TypeOK ==
    /\ phase \in {"pool", "tokens", "labels", "redis", "search", "index", "serve",
                  "up", "closing", "cancel", "await", "stop_ping", "close_es", "close_redis", "close_pool", "down"}
    /\ open \subseteq {"pool", "redis", "es", "kafka"}
    /\ broken \subseteq {"alerts", "es", "redis", "pool"}
    /\ task \in [Task -> {"none", "starting", "idle", "send", "backoff", "closing",
                          "done", "failed"}]
    /\ \A b \in Task : sending[b] # {} => task[b] = "send"
    /\ conns \subseteq Client /\ Cardinality(conns) <= MaxConnections
    /\ endpoint \in [Client -> {"new", "serving", "ended"}]
    /\ link \in [Client -> {"up", "stuck", "lost"}]
    /\ origin \in 0..Len(Topic)
    /\ position \in {None} \cup (origin..Len(Topic))

Init ==
    /\ phase = "pool" /\ open = {} /\ broken = {}
    /\ task = [b \in Task |-> "none"]
    /\ sending = [b \in Task |-> {}]
    /\ conns = {}
    /\ endpoint = [c \in Client |-> "new"]
    /\ link = [c \in Client |-> "up"]
    /\ position = None /\ origin = 0 /\ lost = 0
    /\ current = None /\ owed = [c \in Client |-> <<>>]

-----------------------------------------------------------------------------
(* lifespan, before the yield.                                             *)

LifeStep(from, to) ==
    /\ phase = from /\ phase' = to
    /\ UNCHANGED <<task, sending, connVars, kafkaVars, current, owed>>

OpenPool == LifeStep("pool", "tokens") /\ open' = open \cup {"pool"} /\ UNCHANGED broken

(* What the CSV loaders write does not matter here, only that they return. *)
LoadTokens == LifeStep("tokens", "labels") /\ UNCHANGED <<open, broken>>
LoadLabels == LifeStep("labels", "redis") /\ UNCHANGED <<open, broken>>

(* RedisManager.connect never raises: without Redis there is no cache.     *)
ConnectRedis ==
    /\ LifeStep("redis", "search")
    /\ open' \in {open, open \cup {"redis"}}
    /\ UNCHANGED broken

OpenSearch == LifeStep("search", "index") /\ open' = open \cup {"es"} /\ UNCHANGED broken

(* load_tokens_to_es ignores what the bulk request raises, not what        *)
(* reading the file does.                                                  *)
LoadIndex == LifeStep("index", "serve") /\ UNCHANGED <<open, broken>>

(* The topic check ignores its errors; then the alert task is created.     *)
Serve ==
    /\ phase = "serve" /\ phase' = "up"
    /\ task' = [task EXCEPT !["alerts"] = "starting"]
    /\ UNCHANGED <<open, broken, sending, connVars, kafkaVars, current, owed>>

(* Mutant: nothing guards the start-up, its failure skips the clean-up.    *)
StartupFailsUnguarded ==
    \E p \in {"pool", "tokens", "labels", "search", "index"} :
        LifeStep(p, "down") /\ UNCHANGED <<open, broken>>

(* A step of the start-up raises, the constructor of the Elasticsearch     *)
(* client included: control passes to the finally clause.                  *)
StartupFails ==
    \E p \in {"pool", "tokens", "labels", "search", "index"} :
        LifeStep(p, "cancel") /\ UNCHANGED <<open, broken>>

-----------------------------------------------------------------------------
(* lifespan, after the yield.  uvicorn first closes the websockets, waits  *)
(* for their endpoints, and only then lets lifespan go on.                 *)

StopRequested == LifeStep("up", "closing") /\ UNCHANGED <<open, broken>>

EndpointsGone ==
    /\ \A c \in Client : endpoint[c] # "serving"
    /\ LifeStep("closing", "cancel")
    /\ UNCHANGED <<open, broken>>

(* Mutant: the task is awaited without having been cancelled.              *)
AwaitUncancelled ==
    /\ phase = "cancel"
    /\ phase' = IF task["alerts"] = "none" THEN "stop_ping" ELSE "await"
    /\ UNCHANGED <<open, broken, task, sending, connVars, kafkaVars, current, owed>>

(* task.cancel(): a running task goes to its finally clause, one that has  *)
(* not started yet ends, one that has ended stays as it is.                *)
CancelAlerts ==
    /\ phase = "cancel"
    /\ phase' = IF task["alerts"] = "none" THEN "stop_ping" ELSE "await"
    /\ task' = [task EXCEPT !["alerts"] =
                  CASE @ = "starting" -> "done"
                    [] @ \in {"idle", "send", "backoff"} -> "closing"
                    [] OTHER -> @]
    /\ sending' = [sending EXCEPT !["alerts"] = {}]
    /\ UNCHANGED <<open, broken, connVars, kafkaVars, current, owed>>

AwaitAlerts ==
    /\ task["alerts"] = "done"
    /\ LifeStep("await", "stop_ping")
    /\ UNCHANGED <<open, broken>>

(* suppress() lets only CancelledError pass: what the task raised ends the *)
(* finally clause, and the rest of it is skipped.                          *)
AwaitAlertsRaises ==
    /\ task["alerts"] = "failed"
    /\ LifeStep("await", "down")
    /\ broken' = broken \cup {"alerts"}
    /\ UNCHANGED open

StopPing ==
    /\ phase = "stop_ping" /\ phase' = "close_es"
    /\ task' = [task EXCEPT !["ping"] = IF @ = "none" THEN "none" ELSE "done"]
    /\ sending' = [sending EXCEPT !["ping"] = {}]
    /\ UNCHANGED <<open, broken, connVars, kafkaVars, current, owed>>

(* What is open is closed, or its close raises; a resource that was never  *)
(* opened is passed over.                                                  *)
Closes(r) ==
    \/ open' = open \ {r} /\ UNCHANGED broken
    \/ r \in open /\ broken' = broken \cup {r} /\ UNCHANGED open

(* An exception of es_client.close() is not caught.                        *)
CloseSearch ==
    \/ LifeStep("close_es", "close_redis") /\ open' = open \ {"es"} /\ UNCHANGED broken
    \/ /\ LifeStep("close_es", "down") /\ "es" \in open
       /\ broken' = broken \cup {"es"} /\ UNCHANGED open

CloseRedis == LifeStep("close_redis", "close_pool") /\ Closes("redis")

ClosePool == LifeStep("close_pool", "down") /\ Closes("pool")

-----------------------------------------------------------------------------
(* Websockets.                                                             *)

TaskOnly(b, l) ==
    /\ task' = [task EXCEPT ![b] = l]
    /\ UNCHANGED <<lifeVars, connVars, kafkaVars, owed>>

(* Mutant: the heartbeat is started by the server's start-up only.         *)
ConnectWithoutHeartbeat(c) ==
    /\ phase = "up" /\ endpoint[c] = "new"
    /\ Cardinality(conns) < MaxConnections
    /\ conns' = conns \cup {c}
    /\ endpoint' = [endpoint EXCEPT ![c] = "serving"]
    /\ UNCHANGED <<lifeVars, task, sending, link, kafkaVars, current, owed>>

(* Mutant: no limit.                                                       *)
ConnectUnlimited(c) ==
    /\ phase = "up" /\ endpoint[c] = "new"
    /\ conns' = conns \cup {c}
    /\ endpoint' = [endpoint EXCEPT ![c] = "serving"]
    /\ task' = [task EXCEPT !["ping"] = IF @ \in {"none", "done"} THEN "idle" ELSE @]
    /\ UNCHANGED <<lifeVars, sending, link, kafkaVars, current, owed>>

(* Checked, accepted and listed; the first connection starts the heartbeat.*)
Connect(c) ==
    /\ phase = "up" /\ endpoint[c] = "new"
    /\ Cardinality(conns) < MaxConnections
    /\ conns' = conns \cup {c}
    /\ endpoint' = [endpoint EXCEPT ![c] = "serving"]
    /\ task' = [task EXCEPT !["ping"] = IF @ \in {"none", "done"} THEN "idle" ELSE @]
    /\ UNCHANGED <<lifeVars, sending, link, kafkaVars, current, owed>>

(* Closed with 1008; WebSocketDisconnect leaves the endpoint.              *)
Refuse(c) ==
    /\ phase = "up" /\ endpoint[c] = "new"
    /\ Cardinality(conns) >= MaxConnections
    /\ endpoint' = [endpoint EXCEPT ![c] = "ended"]
    /\ UNCHANGED <<lifeVars, task, sending, conns, link, kafkaVars, current, owed>>

SetLink(c, from, to) ==
    /\ endpoint[c] = "serving" /\ link[c] \in from
    /\ link' = [link EXCEPT ![c] = to]
    /\ UNCHANGED <<lifeVars, task, sending, conns, endpoint, kafkaVars, current, owed>>

(* The peer closes or vanishes, or stops reading for good (one that is     *)
(* only slow is one whose sends take their time).                          *)
PeerCloses(c) == SetLink(c, {"up", "stuck"}, "lost")
PeerStalls(c) == SetLink(c, {"up"}, "stuck")

(* uvicorn gives up a peer that does not answer its pings, and every peer  *)
(* once the server is to stop.                                             *)
Keepalive(c) ==
    /\ link[c] = "stuck" \/ phase = "closing"
    /\ SetLink(c, {"up", "stuck"}, "lost")

(* disconnect: a connection that is not listed is left alone.              *)
Unlist(c) ==
    /\ conns' = conns \ {c}
    /\ owed' = [owed EXCEPT ![c] = <<>>]

(* receive_text raises WebSocketDisconnect.                                *)
SeeDisconnect(c) ==
    /\ endpoint[c] = "serving" /\ link[c] = "lost"
    /\ endpoint' = [endpoint EXCEPT ![c] = "ended"]
    /\ Unlist(c)
    /\ UNCHANGED <<lifeVars, task, sending, link, kafkaVars, current>>

(* Any other exception (a binary frame has no text) ends the endpoint and  *)
(* with it the socket, but the manager is not told.                        *)
EndpointFails(c) ==
    /\ endpoint[c] = "serving" /\ link[c] = "up"
    /\ endpoint' = [endpoint EXCEPT ![c] = "ended"]
    /\ link' = [link EXCEPT ![c] = "lost"]
    /\ UNCHANGED <<lifeVars, task, sending, conns, kafkaVars, current, owed>>

-----------------------------------------------------------------------------
(* broadcast: a gather over the connections of the moment it is called.    *)

Send(b, c) ==
    /\ c \in sending[b] /\ link[c] = "up"
    /\ sending' = [sending EXCEPT ![b] = @ \ {c}]
    /\ owed' = IF b = "alerts" /\ owed[c] # <<>> /\ Head(owed[c]) = current
               THEN [owed EXCEPT ![c] = Tail(@)] ELSE owed
    /\ UNCHANGED <<lifeVars, task, connVars, kafkaVars, current>>

(* Mutant: the failure is logged and nothing else.                         *)
SendFailsKeeping(b, c) ==
    /\ c \in sending[b] /\ link[c] = "lost"
    /\ sending' = [sending EXCEPT ![b] = @ \ {c}]
    /\ UNCHANGED <<lifeVars, task, connVars, kafkaVars, current, owed>>

(* The exception is swallowed, the connection removed and closed.          *)
SendFails(b, c) ==
    /\ c \in sending[b] /\ link[c] = "lost"
    /\ sending' = [sending EXCEPT ![b] = @ \ {c}]
    /\ Unlist(c)
    /\ UNCHANGED <<lifeVars, task, endpoint, link, kafkaVars, current>>

BroadcastDone(b) ==
    /\ task[b] = "send" /\ sending[b] = {}
    /\ TaskOnly(b, "idle")
    /\ current' = IF b = "alerts" THEN None ELSE current
    /\ UNCHANGED sending

(* _ping_loop wakes up; with no connection it sleeps again.                *)
Ping ==
    /\ task["ping"] = "idle" /\ conns # {}
    /\ sending' = [sending EXCEPT !["ping"] = conns]
    /\ TaskOnly("ping", "send")
    /\ UNCHANGED current

-----------------------------------------------------------------------------
(* consume_whale_alerts.                                                   *)

CreateConsumer ==
    /\ task["alerts"] = "starting"
    /\ task' = [task EXCEPT !["alerts"] = "idle"]
    /\ open' = open \cup {"kafka"}
    /\ UNCHANGED <<phase, broken, sending, connVars, kafkaVars, current, owed>>

(* Creating the consumer and subscribing are outside the try block.        *)
CreateConsumerFails ==
    /\ task["alerts"] = "starting"
    /\ TaskOnly("alerts", "failed")
    /\ UNCHANGED <<sending, current>>

(* poll returns a record: decoded and broadcast, or skipped.               *)
PollAlert ==
    /\ task["alerts"] = "idle" /\ position # None /\ position < Len(Topic)
    /\ position' = position + 1
    /\ IF Topic[position + 1] = "bad"
       THEN UNCHANGED <<task, sending, current, owed>>
       ELSE /\ current' = position + 1
            /\ sending' = [sending EXCEPT !["alerts"] = conns]
            /\ owed' = [c \in Client |->
                          IF c \in conns THEN Append(owed[c], position + 1) ELSE owed[c]]
            /\ task' = [task EXCEPT !["alerts"] = "send"]
    /\ UNCHANGED <<lifeVars, connVars, origin, lost>>

(* Mutant: the error leaves the loop, the finally clause closes.           *)
PollErrorLeaves ==
    /\ task["alerts"] = "idle" /\ TaskOnly("alerts", "closing") /\ UNCHANGED <<sending, current>>

(* poll raises, or returns an error event: back off for five seconds.      *)
PollError ==
    /\ task["alerts"] = "idle" /\ TaskOnly("alerts", "backoff") /\ UNCHANGED <<sending, current>>

Retry ==
    /\ task["alerts"] = "backoff" /\ TaskOnly("alerts", "idle") /\ UNCHANGED <<sending, current>>

CloseConsumer ==
    /\ task["alerts"] = "closing"
    /\ \/ task' = [task EXCEPT !["alerts"] = "done"] /\ open' = open \ {"kafka"}
       \/ task' = [task EXCEPT !["alerts"] = "failed"] /\ UNCHANGED open
    /\ UNCHANGED <<phase, broken, sending, connVars, kafkaVars, current, owed>>

-----------------------------------------------------------------------------
(* The broker.  A record of Topic may be produced at any time before it is *)
(* polled, and the end of the topic is what an assignment of a group       *)
(* without offsets starts from.                                            *)

(* auto.offset.reset is latest, and auto-commit stores a position now and  *)
(* then: a new session resumes anywhere from the last one's start on.      *)
Assign ==
    /\ "kafka" \in open /\ position = None
    /\ position' \in origin..Len(Topic)
    /\ origin' = position'
    /\ UNCHANGED <<lifeVars, task, sending, connVars, lost, current, owed>>

SessionLost ==
    /\ "kafka" \in open /\ position # None /\ lost < MaxReassign
    /\ position' = None /\ lost' = lost + 1
    /\ UNCHANGED <<lifeVars, task, sending, connVars, origin, current, owed>>

-----------------------------------------------------------------------------
Startup ==
    \/ OpenPool \/ LoadTokens \/ LoadLabels \/ ConnectRedis \/ OpenSearch \/ LoadIndex
    \/ Serve

Shutdown ==
    \/ EndpointsGone \/ CancelAlerts \/ AwaitAlerts \/ AwaitAlertsRaises \/ StopPing
    \/ CloseSearch \/ CloseRedis \/ ClosePool

Alerts == PollAlert \/ Retry \/ CloseConsumer \/ BroadcastDone("alerts")

Socket(c) ==
    \/ Connect(c) \/ Refuse(c) \/ PeerCloses(c) \/ PeerStalls(c)
    \/ Keepalive(c) \/ SeeDisconnect(c) \/ EndpointFails(c)

Next ==
    \/ Startup \/ StartupFails \/ StopRequested \/ Shutdown
    \/ Alerts \/ CreateConsumer \/ CreateConsumerFails \/ PollError
    \/ Ping \/ BroadcastDone("ping")
    \/ Assign \/ SessionLost
    \/ \E c \in Client : Socket(c)
    \/ \E c \in Client, b \in Task : Send(b, c) \/ SendFails(b, c)

(* A runnable coroutine runs, timers fire, an assignment arrives, uvicorn  *)
(* drops a silent peer; records are returned by poll now and then even if  *)
(* errors come between.  Peers, operators and failures owe nothing.        *)
Fairness ==
    /\ WF_vars(Startup) /\ WF_vars(Shutdown)
    /\ WF_vars(CreateConsumer \/ CreateConsumerFails)
    /\ SF_vars(PollAlert) /\ WF_vars(Retry \/ CloseConsumer \/ BroadcastDone("alerts"))
    /\ WF_vars(Ping) /\ WF_vars(BroadcastDone("ping")) /\ WF_vars(Assign)
    /\ \A c \in Client :
          /\ WF_vars(SeeDisconnect(c)) /\ WF_vars(Keepalive(c))
          /\ \A b \in Task : WF_vars(Send(b, c) \/ SendFails(b, c))

Spec == Init /\ [][Next]_vars /\ Fairness

-----------------------------------------------------------------------------
(* A client the manager lists has received every alert broadcast since it  *)
(* was accepted, in order, but for the one whose send is pending: a client *)
(* that missed one is never served on (_send_to_connection removes it, and *)
(* broadcast waits for all its sends before the next poll).                *)
NoGapWhileListed ==
    phase \in {"up", "closing"} =>
        \A c \in conns :
            owed[c] = IF c \in sending["alerts"] THEN <<current>> ELSE <<>>

(* Wherever the start-up failed and whatever was open when the server was  *)
(* stopped, lifespan's finally clause leaves nothing open but a resource   *)
(* whose own close raised; the two exceptions it does not catch, of the    *)
(* alert task and of Elasticsearch, are the only ways past the rest.       *)
ReleasedWhenDown ==
    phase = "down" /\ broken \cap {"alerts", "es"} = {} =>
        /\ open \subseteq broken
        /\ task["ping"] \in {"none", "done"} /\ task["alerts"] \in {"none", "done"}

(* While the server is up the alert task keeps catching up with the topic  *)
(* and finishing its broadcast: neither poll errors, nor a lost session,   *)
(* nor a client that does not read (until uvicorn drops it) stop it.       *)
StreamKeepsUp ==
    []<>(phase = "up" /\ task["alerts"] # "failed" =>
            position = Len(Topic) /\ sending["alerts"] = {})

(* A connection whose endpoint died without telling the manager does not   *)
(* hold its place for ever: a heartbeat's send fails and removes it.       *)
DeadConnectionLeaves ==
    \A c \in Client :
        (c \in conns /\ endpoint[c] = "ended") ~> (c \notin conns \/ phase # "up")

(* A stop request ends: every endpoint, both tasks and lifespan finish.    *)
ShutdownEnds == (phase = "closing") ~> (phase = "down")
=============================================================================
