------------------------------ MODULE WhaleFeed ------------------------------
(***************************************************************************)
(* The whale feed of the dashboard: frontend/src/hooks/useWhaleWebSocket.ts*)
(* against the backend.  Every connection asks for the stored whales over  *)
(* HTTP and opens a socket for the alerts; the answer is merged with what  *)
(* the socket has brought, and a connection that closes is replaced after  *)
(* a delay.  React's StrictMode unmounts and remounts the hook with its    *)
(* refs kept, so what the first mount left behind still runs.              *)
(*                                                                         *)
(* Whales are numbered in the order of their timestamps, in which the      *)
(* consumer commits them; their alerts come in any order, once, again or   *)
(* never.  An entry of the list that came as an alert has an id of its own:*)
(* the payload has no tx_hash.                                             *)
(***************************************************************************)
EXTENDS Integers, Sequences, FiniteSets, SequencesExt

CONSTANTS
    MaxWhales,      \* bound of the model: whales
    Limit,          \* MAX_ALERTS, and the limit of the history
    OfflineAfter,   \* attempts after which the status is offline
    MaxFaults,      \* bound of the model: losses and repetitions
    MaxRemounts     \* bound of the model: mounts after the first

ASSUME FeedAssumption ==
    /\ MaxWhales \in Nat \ {0} /\ Limit \in Nat \ {0} /\ OfflineAfter \in Nat
    /\ MaxFaults \in Nat /\ MaxRemounts \in Nat

VARIABLES
    stored,     \* whales the database has
    toAlert,    \* whales whose alert is not yet broadcast
    mounted,    \* mountedRef
    sock,       \* the connections, each with the request made for it
    current,    \* wsRef, 0 for none
    timers,     \* reconnect timers that run
    attempt,    \* reconnectAttempt
    status,
    list,       \* messages, the first on top
    budget      \* what is left of the bounds

vars == <<stored, toAlert, mounted, sock, current, timers, attempt, status, list, budget>>
backend == <<stored, toAlert>>
hook == <<mounted, current, timers, attempt, status>>

(* Two connections are kept apart: the one in use and the one before it,   *)
(* whose request may still be answered.                                    *)
Slot == {1, 2}
Whale == 1..MaxWhales

(* phase: "off", "connecting", "accepted" (by the backend, the open event  *)
(* is on its way), "open", "lost" (the close event is on its way).         *)
(* mail: alerts on their way.                                              *)
(* history: the request's answer, with read the number of whales in it.    *)
(* owed: whales stored when the request was made, and those alerted since  *)
(* the backend accepted the connection.                                    *)
NoSocket == [phase |-> "off", mail |-> <<>>, history |-> "none", read |-> 0,
             owed |-> {}]

TypeOK ==
    /\ stored \in 0..MaxWhales /\ toAlert \subseteq Whale
    /\ mounted \in BOOLEAN /\ current \in {0} \cup Slot
    /\ \A s \in Slot :
          /\ sock[s].phase \in {"off", "connecting", "accepted", "open", "lost"}
          /\ sock[s].history \in {"none", "asked", "answered", "failed", "merged"}
          /\ sock[s].mail \in Seq(Whale) /\ sock[s].owed \subseteq Whale
    /\ timers \in 0..2 /\ attempt \in 0..OfflineAfter + 1
    /\ status \in {"live", "reconnecting", "offline"}
    /\ list \in Seq([whale : Whale, live : BOOLEAN]) /\ Len(list) <= Limit
    /\ budget \in [faults : 0..MaxFaults, remounts : 0..MaxRemounts]

Init ==
    /\ stored \in 0..1 /\ toAlert = 1..stored
    /\ mounted = FALSE /\ current = 0
    /\ sock = [s \in Slot |-> NoSocket]
    /\ timers = 0 /\ attempt = 0
    /\ status = "offline"
    /\ list = <<>>
    /\ budget = [faults |-> MaxFaults, remounts |-> MaxRemounts]

(* Something goes wrong once more.                                         *)
Fault == budget.faults > 0 /\ budget' = [budget EXCEPT !.faults = @ - 1]

-----------------------------------------------------------------------------
(* The backend.                                                            *)

(* The consumer commits a whale.                                           *)
Store ==
    /\ stored < MaxWhales
    /\ stored' = stored + 1
    /\ toAlert' = toAlert \cup {stored'}
    /\ UNCHANGED <<hook, sock, list, budget>>

Registered(s) == sock[s].phase \in {"accepted", "open"}

(* An alert is broadcast, and may come again (a flush is repeated) ...     *)
Alert(k, again) ==
    /\ k \in toAlert
    /\ IF again THEN Fault /\ UNCHANGED toAlert
                ELSE toAlert' = toAlert \ {k} /\ UNCHANGED budget
    /\ sock' = [s \in Slot |->
                   IF Registered(s)
                   THEN [sock[s] EXCEPT !.mail = Append(@, k), !.owed = @ \cup {k}]
                   ELSE sock[s]]
    /\ UNCHANGED <<stored, hook, list>>

(* ... or is lost with the alert task.                                     *)
AlertLost(k) ==
    /\ k \in toAlert /\ Fault
    /\ toAlert' = toAlert \ {k}
    /\ UNCHANGED <<stored, hook, sock, list>>

Accept(s) ==
    /\ sock[s].phase = "connecting"
    /\ sock' = [sock EXCEPT ![s].phase = "accepted"]
    /\ UNCHANGED <<backend, hook, list, budget>>

(* GET /api/v1/whales, the newest of what is stored; or no answer.         *)
AnswerHistory(s) ==
    /\ sock[s].history = "asked"
    /\ sock' = [sock EXCEPT ![s].history = "answered", ![s].read = stored]
    /\ UNCHANGED <<backend, hook, list, budget>>

HistoryFails(s) ==
    /\ sock[s].history = "asked" /\ Fault
    /\ sock' = [sock EXCEPT ![s].history = "failed"]
    /\ UNCHANGED <<backend, hook, list>>

(* The connection breaks, or is refused; what was under way is gone.       *)
Break(s) ==
    /\ sock[s].phase \in {"connecting", "accepted", "open"} /\ Fault
    /\ sock' = [sock EXCEPT ![s].phase = "lost", ![s].mail = <<>>, ![s].owed = {}]
    /\ UNCHANGED <<backend, hook, list>>

-----------------------------------------------------------------------------
(* The hook.                                                               *)

Free(s) == sock[s].phase = "off" /\ sock[s].history \notin {"asked", "answered"}

(* A connection without handlers; only the request made for it may remain. *)
Ended(c) == [c EXCEPT !.phase = "off", !.mail = <<>>, !.owed = {},
                      !.history = IF @ \in {"asked", "answered"} THEN @ ELSE "none"]

(* connect: the request for the history and a new socket.                  *)
Connect ==
    /\ \E s \in Slot :
          /\ Free(s)
          /\ sock' = [sock EXCEPT ![s] = [NoSocket EXCEPT
                         !.phase = "connecting", !.owed = 1..stored, !.history = "asked"]]
          /\ current' = s
    /\ status' = "reconnecting"

Mount ==
    /\ ~mounted /\ current = 0
    /\ mounted' = TRUE
    /\ Connect
    /\ UNCHANGED <<backend, timers, attempt, list, budget>>

(* StrictMode: the refs keep their values.                                 *)
Remount ==
    /\ ~mounted /\ current # 0
    /\ budget.remounts > 0 /\ budget' = [budget EXCEPT !.remounts = @ - 1]
    /\ mounted' = TRUE
    /\ Connect
    /\ UNCHANGED <<backend, timers, attempt, list>>

(* Mutant: the timer is left running.                                      *)
UnmountWithTimer ==
    /\ mounted /\ mounted' = FALSE
    /\ sock' = [sock EXCEPT ![current] = Ended(@)]
    /\ UNCHANGED <<backend, timers, current, attempt, status, list, budget>>

(* The effect's clean-up: the timer, then the socket, without its onclose. *)
Unmount ==
    /\ mounted /\ mounted' = FALSE
    /\ timers' = IF timers > 0 THEN timers - 1 ELSE 0
    /\ sock' = [sock EXCEPT ![current] = Ended(@)]
    /\ UNCHANGED <<backend, current, attempt, status, list, budget>>

(* The entries of s at the positions that are kept, in the order of their  *)
(* timestamps, the newest first; equal timestamps stay as they were.       *)
Above(s, i, j) == s[j].whale > s[i].whale \/ (s[j].whale = s[i].whale /\ j < i)

Sorted(s, kept) ==
    LET place == [i \in kept |-> 1 + Cardinality({j \in kept : Above(s, i, j)})]
    IN  [k \in 1..Cardinality(kept) |-> s[CHOOSE i \in kept : place[i] = k]]

Cut(entries) == SubSeq(entries, 1, IF Len(entries) < Limit THEN Len(entries) ELSE Limit)

(* The newest of whales 1 to n, the newest first.                          *)
Newest(n) == [i \in 1..(IF n < Limit THEN n ELSE Limit) |->
                 [whale |-> n + 1 - i, live |-> FALSE]]

(* Mutant: the answer replaces the list.                                   *)
ReplaceBy(fetched) == fetched

(* setMessages of the history: entries with an id that is there are left   *)
(* out.                                                                    *)
MergeWith(fetched) ==
    LET all == list \o fetched
    IN  Cut(Sorted(all, {i \in DOMAIN all : i > Len(list) => all[i] \notin ToSet(list)}))

HistoryArrives(s) ==
    /\ sock[s].history = "answered"
    /\ sock' = [sock EXCEPT ![s].history = "merged", ![s].read = 0]
    /\ list' = IF mounted THEN MergeWith(Newest(sock[s].read)) ELSE list
    /\ UNCHANGED <<backend, hook, budget>>

(* Mutant: without the limit.                                              *)
PrependAll(k) == <<[whale |-> k, live |-> TRUE]>> \o list

(* setMessages of an alert.  Its id is new, so nothing looks like it.      *)
Prepend(k) == Cut(<<[whale |-> k, live |-> TRUE]>> \o list)

OnOpen(s) ==
    /\ sock[s].phase = "accepted"
    /\ sock' = [sock EXCEPT ![s].phase = "open"]
    /\ IF mounted THEN status' = "live" /\ attempt' = 0
                  ELSE UNCHANGED <<status, attempt>>
    /\ UNCHANGED <<backend, mounted, current, timers, list, budget>>

OnMessage(s) ==
    /\ sock[s].phase = "open" /\ sock[s].mail # <<>>
    /\ sock' = [sock EXCEPT ![s].mail = Tail(@)]
    /\ list' = IF mounted THEN Prepend(Head(sock[s].mail)) ELSE list
    /\ UNCHANGED <<backend, hook, budget>>

(* Mutant: no further attempts once offline.                               *)
GiveUpOffline ==
    /\ attempt' = IF attempt > OfflineAfter THEN attempt ELSE attempt + 1
    /\ status' = IF attempt >= OfflineAfter THEN "offline" ELSE "reconnecting"
    /\ timers' = IF attempt >= OfflineAfter THEN timers ELSE timers + 1

(* The attempts are counted up to where the count still matters.           *)
ScheduleReconnect ==
    /\ attempt' = IF attempt > OfflineAfter THEN attempt ELSE attempt + 1
    /\ status' = IF attempt >= OfflineAfter THEN "offline" ELSE "reconnecting"
    /\ timers' = timers + 1

OnClose(s) ==
    /\ sock[s].phase = "lost"
    /\ sock' = [sock EXCEPT ![s] = Ended(@)]
    /\ IF mounted
       THEN ScheduleReconnect
       ELSE UNCHANGED <<attempt, status, timers>>
    /\ UNCHANGED <<backend, mounted, current, list, budget>>

TimerFires ==
    /\ timers > 0 /\ timers' = timers - 1
    /\ IF mounted THEN Connect ELSE UNCHANGED <<sock, current, status>>
    /\ UNCHANGED <<backend, mounted, attempt, list, budget>>

-----------------------------------------------------------------------------
Progress ==
    \/ TimerFires
    \/ \E k \in Whale : Alert(k, FALSE)
    \/ \E s \in Slot : \/ Accept(s) \/ OnOpen(s) \/ OnMessage(s) \/ OnClose(s)
                       \/ AnswerHistory(s)
    \/ \E s \in Slot : HistoryArrives(s)

Next ==
    \/ Progress
    \/ Store \/ Mount \/ Remount \/ Unmount
    \/ \E k \in Whale : Alert(k, TRUE) \/ AlertLost(k)
    \/ \E s \in Slot : HistoryFails(s) \/ Break(s)

(* The browser delivers events and answers, and the backend, while it is   *)
(* up, accepts and answers.                                                *)
Spec == Init /\ [][Next]_vars /\ WF_vars(Progress)

-----------------------------------------------------------------------------
Live(s) == sock[s].phase # "off"

(* A mounted hook has one connection or one timer that will make one, and  *)
(* an unmounted hook has neither: however closes, timers and remounts fall,*)
(* it never listens twice and never stops trying.                          *)
OneConnection ==
    Cardinality({s \in Slot : Live(s)}) + timers = IF mounted THEN 1 ELSE 0

(* While the page is connected and the history it asked for was merged,    *)
(* every whale that was stored when it connected, or alerted since, is in  *)
(* the list or on its way, unless the list is full.  (Which entries a full *)
(* list keeps is not part of the promise.)                                 *)
NothingForgotten ==
    \A s \in Slot :
        mounted /\ s = current /\ sock[s].phase = "open" /\ sock[s].history = "merged" =>
            \/ Len(list) = Limit
            \/ sock[s].owed \subseteq ToSet(sock[s].mail) \cup {e.whale : e \in ToSet(list)}

(* When connections no longer break, a mounted feed is live in the end.    *)
FeedRecovers == <>[](mounted => status = "live")
=============================================================================
