---------------------------- MODULE WhaleFeedProofs ----------------------------
(* Theorems about WhaleFeed, for every number of whales, limit, fault and  *)
(* remount: the hook never listens twice, and no whale it is owed is lost. *)
EXTENDS WhaleFeed, FiniteSetTheorems, SequenceTheorems, TLAPS

(* sock keeps a record of each connection.                                 *)
SocketsAre(c) == c = [s \in Slot |-> c[s]] /\ \A s \in Slot : "phase" \in DOMAIN c[s]

(* The inductive invariant: which connection is the one, and when there is *)
(* a timer instead.  A connection that came to its end is off, so that a   *)
(* timer finds none, and the clean-up none but the current one.            *)
OneListener ==
    /\ timers \in Nat /\ mounted \in BOOLEAN
    /\ SocketsAre(sock)
    /\ mounted => current \in Slot
    /\ \/ mounted /\ timers = 0 /\ \A s \in Slot : Live(s) <=> s = current
       \/ timers = (IF mounted THEN 1 ELSE 0) /\ \A s \in Slot : ~Live(s)

(* It says what OneConnection counts.                                      *)
LEMMA ListenerCounts == OneListener => OneConnection
<1>. SUFFICES ASSUME OneListener PROVE OneConnection
  OBVIOUS
<1>. DEFINE L == {s \in Slot : Live(s)}
<1>1. CASE mounted /\ timers = 0 /\ \A s \in Slot : Live(s) <=> s = current
  <2>1. L = {current}
    BY <1>1 DEF OneListener
  <2>2. Cardinality(L) = 1
    BY <2>1, FS_Singleton
  <2>. QED  BY <1>1, <2>2 DEF OneConnection
<1>2. CASE timers = (IF mounted THEN 1 ELSE 0) /\ \A s \in Slot : ~Live(s)
  <2>1. L = {}
    BY <1>2
  <2>2. Cardinality(L) = 0
    BY <2>1, FS_EmptySet
  <2>. QED  BY <1>2, <2>2 DEF OneConnection, OneListener
<1>. QED  BY <1>1, <1>2 DEF OneListener

(* A connection made when there was none is the only one.                  *)
LEMMA ConnectStep ==
    ASSUME SocketsAre(sock), \A s \in Slot : ~Live(s), Connect
    PROVE  /\ SocketsAre(sock)' /\ current' \in Slot
           /\ \A s \in Slot : Live(s)' <=> s = current'
BY DEF Connect, Live, SocketsAre, NoSocket, Free, Slot

(* A connection that ends is off, the others stay as they are.             *)
LEMMA EndStep ==
    ASSUME SocketsAre(sock), NEW s \in Slot, sock' = [sock EXCEPT ![s] = Ended(@)]
    PROVE  SocketsAre(sock)' /\ ~Live(s)' /\ \A t \in Slot : t # s => (Live(t)' <=> Live(t))
BY DEF Ended, Live, SocketsAre

(* Steps that end no connection and make none.                             *)
LEMMA QuietStep ==
    ASSUME OneListener, UNCHANGED <<mounted, current, timers>>,
           SocketsAre(sock)', \A s \in Slot : Live(s)' <=> Live(s)
    PROVE  OneListener'
BY DEF OneListener, SocketsAre

(* Every step keeps the invariant.                                         *)
LEMMA ListenerStep == OneListener /\ [Next]_vars => OneListener'
<1>. SUFFICES ASSUME OneListener, [Next]_vars PROVE OneListener'
  OBVIOUS
<1>1. ASSUME NEW k, NEW again, Alert(k, again) PROVE OneListener'
  BY <1>1, QuietStep DEF Alert, hook, Registered, Live, OneListener, SocketsAre
<1>2. ASSUME NEW k, AlertLost(k) PROVE OneListener'
  BY <1>2, QuietStep DEF AlertLost, hook, Live, OneListener, SocketsAre
<1>3. ASSUME NEW s \in Slot, Accept(s) \/ AnswerHistory(s) \/ HistoryFails(s) PROVE OneListener'
  BY <1>3, QuietStep DEF Accept, AnswerHistory, HistoryFails, hook, Live, OneListener, SocketsAre
<1>4. ASSUME NEW s \in Slot, Break(s) PROVE OneListener'
  BY <1>4, QuietStep DEF Break, hook, Live, OneListener, SocketsAre
<1>5. ASSUME NEW s \in Slot, HistoryArrives(s) \/ OnMessage(s) PROVE OneListener'
  BY <1>5, QuietStep DEF HistoryArrives, OnMessage, hook, Live, OneListener, SocketsAre
<1>6. ASSUME NEW s \in Slot, OnOpen(s) PROVE OneListener'
  BY <1>6, QuietStep DEF OnOpen, Live, OneListener, SocketsAre
<1>7. ASSUME NEW s \in Slot, OnClose(s) PROVE OneListener'
  <2>1. Live(s) /\ mounted /\ timers = 0 /\ s = current
    BY <1>7 DEF OnClose, Live, OneListener, SocketsAre
  <2>2. timers' = 1 /\ mounted' = mounted /\ current' \in Slot
    BY <1>7, <2>1 DEF OnClose, ScheduleReconnect, OneListener
  <2>3. SocketsAre(sock)' /\ \A t \in Slot : ~Live(t)'
    BY <1>7, <2>1, EndStep DEF OnClose, OneListener
  <2>. QED  BY <1>7, <2>1, <2>2, <2>3 DEF OnClose, OneListener
<1>8. CASE TimerFires
  <2>1. mounted /\ timers = 1 /\ \A s \in Slot : ~Live(s)
    BY <1>8 DEF TimerFires, OneListener, SocketsAre
  <2>2. timers' = 0 /\ mounted' /\ Connect /\ mounted' = mounted
    BY <1>8, <2>1 DEF TimerFires
  <2>. QED  BY <2>1, <2>2, ConnectStep DEF OneListener, SocketsAre
<1>9. CASE Mount \/ Remount
  <2>1. ~mounted /\ timers = 0 /\ \A s \in Slot : ~Live(s)
    BY <1>9 DEF Mount, Remount, OneListener, SocketsAre
  <2>2. mounted' = TRUE /\ timers' = timers /\ Connect
    BY <1>9 DEF Mount, Remount
  <2>. QED  BY <2>1, <2>2, ConnectStep DEF OneListener, SocketsAre
<1>10. CASE Unmount
  <2>1. current \in Slot /\ mounted' = FALSE /\ timers' = 0
    BY <1>10 DEF Unmount, OneListener
  <2>2. SocketsAre(sock)' /\ \A s \in Slot : ~Live(s)'
    BY <1>10, <2>1, EndStep DEF Unmount, OneListener
  <2>. QED  BY <2>1, <2>2 DEF OneListener
<1>11. CASE Store \/ UNCHANGED vars
  BY <1>11, QuietStep DEF Store, vars, hook, Live, OneListener, SocketsAre
<1>. QED
  BY <1>1, <1>2, <1>3, <1>4, <1>5, <1>6, <1>7, <1>8, <1>9, <1>10, <1>11
  DEF Next, Progress

(* However closes, timers and remounts fall, a mounted hook has one        *)
(* connection or one timer that will make one, an unmounted hook has none  *)
(* (frontend/src/hooks/useWhaleWebSocket.ts).                              *)
THEOREM NeverListensTwice == Spec => []OneConnection
<1>1. ASSUME Init PROVE OneListener
  <2>1. SocketsAre(sock) /\ \A s \in Slot : ~Live(s)
    BY <1>1 DEF Init, NoSocket, Live, SocketsAre
  <2>2. timers = 0 /\ ~mounted /\ mounted \in BOOLEAN
    BY <1>1 DEF Init
  <2>. QED  BY <2>1, <2>2 DEF OneListener
<1>. QED
  BY <1>1, ListenerStep, ListenerCounts, PTL DEF Spec

-----------------------------------------------------------------------------
(* The list: what sorting, merging, prepending and cutting keep of it.     *)

(* Where an entry comes when those that are kept are sorted.               *)
Place(s, kept) == [i \in kept |-> 1 + Cardinality({j \in kept : Above(s, i, j)})]

(* Of two entries one is above the other and has fewer above it, so that   *)
(* no two share a place and every place is taken.                          *)
LEMMA PlacesAreTaken ==
    ASSUME NEW s, NEW kept, IsFiniteSet(kept), kept \subseteq Int,
           \A i \in kept : s[i].whale \in Int
    PROVE  Place(s, kept) \in Bijection(kept, 1..Cardinality(kept))
<1>. DEFINE over(i) == {j \in kept : Above(s, i, j)}
            n == Cardinality(kept)
            place == Place(s, kept)
<1>0. \A i, j, k \in kept :
         /\ ~Above(s, i, i)
         /\ Above(s, i, j) /\ Above(s, j, k) => Above(s, i, k)
         /\ i # j => Above(s, i, j) \/ Above(s, j, i)
  <2>. SUFFICES ASSUME NEW i \in kept, NEW j \in kept, NEW k \in kept
                PROVE  /\ ~Above(s, i, i)
                       /\ Above(s, i, j) /\ Above(s, j, k) => Above(s, i, k)
                       /\ i # j => Above(s, i, j) \/ Above(s, j, i)
    OBVIOUS
  <2>1. i \in Int /\ j \in Int /\ k \in Int
    OBVIOUS
  <2>2. s[i].whale \in Int /\ s[j].whale \in Int /\ s[k].whale \in Int
    OBVIOUS
  <2>. QED  BY <2>1, <2>2 DEF Above
<1>1. \A T \in SUBSET kept : IsFiniteSet(T) /\ Cardinality(T) \in Nat
  BY FS_Subset, FS_CardinalityType
<1>2. n \in Nat
  BY <1>1
<1>3. ASSUME NEW T \in SUBSET kept, NEW U \in SUBSET kept, NEW i \in U,
             T \subseteq U, i \notin T
      PROVE  Cardinality(T) < Cardinality(U)
  <2>1. IsFiniteSet(U) /\ Cardinality(T) <= Cardinality(U)
    BY <1>1, <1>3, FS_Subset
  <2>2. Cardinality(T) # Cardinality(U)
    BY <1>3, <2>1, FS_Subset
  <2>. QED  BY <1>1, <2>1, <2>2
<1>4. ASSUME NEW i \in kept PROVE place[i] \in 1..n
  <2>1. over(i) \in SUBSET kept /\ i \notin over(i)
    BY <1>0
  <2>2. Cardinality(over(i)) \in Nat /\ Cardinality(over(i)) < n
    BY <1>1, <1>3, <2>1
  <2>3. place[i] = 1 + Cardinality(over(i))
    BY DEF Place
  <2>. HIDE DEF over, place, n
  <2>. QED  BY <1>2, <2>2, <2>3
<1>5. ASSUME NEW i \in kept, NEW k \in kept, Above(s, i, k)
      PROVE  place[k] < place[i]
  <2>1. over(k) \subseteq over(i) /\ k \in over(i) /\ k \notin over(k)
    BY <1>0, <1>5
  <2>2. over(k) \in SUBSET kept /\ over(i) \in SUBSET kept
    OBVIOUS
  <2>3. place[k] = 1 + Cardinality(over(k)) /\ place[i] = 1 + Cardinality(over(i))
    BY DEF Place
  <2>. HIDE DEF over, place
  <2>4. Cardinality(over(k)) < Cardinality(over(i))
    BY <1>3, <2>1, <2>2
  <2>5. Cardinality(over(k)) \in Nat /\ Cardinality(over(i)) \in Nat
    BY <1>1, <2>2
  <2>. QED  BY <2>3, <2>4, <2>5
<1>6. ASSUME NEW i \in kept, NEW k \in kept, i # k PROVE place[i] # place[k]
  <2>1. Above(s, i, k) \/ Above(s, k, i)
    BY <1>0, <1>6
  <2>2. place[i] \in Int /\ place[k] \in Int
    BY <1>4
  <2>. HIDE DEF place
  <2>. QED  BY <1>5, <2>1, <2>2
<1>7. place \in Injection(kept, 1..n)
  <2>1. place = [i \in kept |-> place[i]]
    BY DEF Place
  <2>. HIDE DEF place, n
  <2>2. place \in [kept -> 1..n]
    BY <1>4, <2>1
  <2>. QED  BY <1>6, <2>2 DEF Injection, IsInjective
<1>8. IsFiniteSet(1..n) /\ Cardinality(1..n) = n
  BY <1>2, FS_Interval
<1>9. place \in Surjection(kept, 1..n)
  BY <1>7, <1>8, FS_Injection
<1>. QED  BY <1>7, <1>9 DEF Bijection

(* At the positions that are kept there are entries of E.                  *)
Keeps(s, kept, E) ==
    /\ IsFiniteSet(kept) /\ kept \subseteq Int
    /\ \A i \in kept : s[i] \in E /\ s[i].whale \in Int

(* Sorting loses nothing.                                                  *)
LEMMA SortedKeeps ==
    ASSUME NEW E, NEW s, NEW kept, Keeps(s, kept, E)
    PROVE  /\ Sorted(s, kept) \in Seq(E)
           /\ Len(Sorted(s, kept)) = Cardinality(kept)
           /\ ToSet(Sorted(s, kept)) = {s[i] : i \in kept}
<1>. DEFINE n == Cardinality(kept)
            at == [k \in 1..n |-> CHOOSE i \in kept : Place(s, kept)[i] = k]
<1>. USE DEF Keeps
<1>1. n \in Nat
  BY FS_CardinalityType
<1>2. Place(s, kept) \in Injection(kept, 1..n) /\ Place(s, kept) \in Surjection(kept, 1..n)
  BY PlacesAreTaken DEF Bijection
<1>3. ASSUME NEW k \in 1..n PROVE at[k] \in kept /\ Place(s, kept)[at[k]] = k
  BY <1>2 DEF Surjection
<1>4. Sorted(s, kept) = [k \in 1..n |-> s[at[k]]]
  BY DEF Sorted, Place
<1>5. ASSUME NEW i \in kept PROVE \E k \in 1..n : s[at[k]] = s[i]
  <2>1. Place(s, kept)[i] \in 1..n
    BY <1>2 DEF Surjection
  <2>2. at[Place(s, kept)[i]] = i
    BY <1>2, <1>3, <2>1 DEF Injection, IsInjective
  <2>. QED  BY <2>1, <2>2
<1>. HIDE DEF n, at
<1>6. Sorted(s, kept) \in [1..n -> E]
  BY <1>3, <1>4
<1>7. Sorted(s, kept) \in Seq(E) /\ Len(Sorted(s, kept)) = n
  BY <1>1, <1>6
<1>8. ToSet(Sorted(s, kept)) = {s[at[k]] : k \in 1..n}
  BY <1>4 DEF ToSet
<1>9. {s[at[k]] : k \in 1..n} = {s[i] : i \in kept}
  BY <1>3, <1>5
<1>. QED  BY <1>7, <1>8, <1>9 DEF n

(* Cutting keeps all of a short list and Limit entries of a long one.      *)
LEMMA CutKeeps ==
    ASSUME NEW E, NEW s \in Seq(E)
    PROVE  /\ Cut(s) \in Seq(E) /\ Len(Cut(s)) <= Limit
           /\ Len(s) >= Limit => Len(Cut(s)) = Limit
           /\ Len(Cut(s)) # Limit => Cut(s) = s
<1>. DEFINE n == IF Len(s) < Limit THEN Len(s) ELSE Limit
<1>1. Limit \in Nat \ {0} /\ Len(s) \in Nat
  BY FeedAssumption
<1>2. n \in Nat /\ n <= Len(s)
  BY <1>1
<1>3. \A i \in 1..n : s[i] \in E
  BY <1>1, <1>2, ElementOfSeq
<1>4. Cut(s) = SubSeq(s, 1, n)
  BY DEF Cut
<1>. HIDE DEF n
<1>5. Cut(s) \in Seq(E) /\ Len(Cut(s)) = n
  BY <1>2, <1>3, <1>4, SubSeqProperties
<1>6. ASSUME n # Limit PROVE Cut(s) = s
  <2>1. n = Len(s)
    BY <1>6 DEF n
  <2>. QED  BY <1>4, <2>1, SubSeqFull
<1>. QED  BY <1>1, <1>5, <1>6 DEF n

(* What the list is made of.                                               *)
Entry == [whale : Whale, live : BOOLEAN]

(* A list of entries within the limit.                                     *)
IsFeed(s) == s \in Seq(Entry) /\ Len(s) <= Limit

(* The whales of a list.                                                   *)
Whales(s) == {e.whale : e \in ToSet(s)}

(* No entry can come in without another one going.                         *)
Full(s) == Len(s) = Limit

(* s has all of r and the whales of W, or is full.                         *)
Covers(s, r, W) ==
    /\ IsFeed(s) /\ (Full(r) => Full(s))
    /\ Full(s) \/ Whales(r) \cup W \subseteq Whales(s)

(* The entries of a list are as many as its length, or fewer.              *)
LEMMA EntriesOf ==
    ASSUME NEW E, NEW s \in Seq(E)
    PROVE  /\ ToSet(s) = {s[i] : i \in 1..Len(s)} /\ ToSet(s) \subseteq E
           /\ IsFiniteSet(ToSet(s)) /\ Cardinality(ToSet(s)) <= Len(s)
<1>. DEFINE n == Len(s)
<1>1. n \in Nat /\ DOMAIN s = 1..n /\ s \in [1..n -> E]
  BY LenProperties
<1>2. ToSet(s) = {s[i] : i \in 1..n}
  BY <1>1 DEF ToSet
<1>. HIDE DEF n
<1>3. IsFiniteSet(1..n) /\ Cardinality(1..n) = n
  BY <1>1, FS_Interval
<1>4. s \in [1..n -> ToSet(s)]
  BY <1>1, <1>2
<1>5. s \in Surjection(1..n, ToSet(s))
  BY <1>2, <1>4 DEF Surjection
<1>6. IsFiniteSet(ToSet(s)) /\ Cardinality(ToSet(s)) <= n
  BY <1>3, <1>5, FS_Surjection
<1>. QED  BY <1>1, <1>2, <1>6 DEF n

(* The answer is merged: what was in the list stays and what is new comes  *)
(* in, unless the list is full; and an answer of Limit whales fills it.    *)
LEMMA MergeKeeps ==
    ASSUME IsFeed(list), NEW f \in Seq(Entry)
    PROVE  /\ IsFeed(MergeWith(f))
           /\ Full(list) => Full(MergeWith(f))
           /\ Full(MergeWith(f)) \/ ToSet(list) \cup ToSet(f) \subseteq ToSet(MergeWith(f))
           /\ Cardinality(ToSet(f)) = Limit => Full(MergeWith(f))
<1>. DEFINE all == list \o f
            n == Len(list)
            kept == {i \in DOMAIN all : i > n => all[i] \notin ToSet(list)}
            sorted == Sorted(all, kept)
<1>1. list \in Seq(Entry) /\ n \in Nat /\ Len(f) \in Nat /\ Limit \in Nat \ {0}
  BY FeedAssumption DEF IsFeed
<1>2. all \in Seq(Entry) /\ Len(all) = n + Len(f) /\ DOMAIN all = 1..n + Len(f)
  BY <1>1, ConcatProperties, LenProperties
<1>3. \A i \in 1..n + Len(f) : all[i] = IF i <= n THEN list[i] ELSE f[i - n]
  BY <1>1, ConcatProperties
<1>4. MergeWith(f) = Cut(sorted)
  BY DEF MergeWith
<1>5. kept \subseteq 1..n + Len(f) /\ 1..n \subseteq kept
  <2>. HIDE DEF all
  <2>. QED  BY <1>1, <1>2
<1>6. IsFiniteSet(kept) /\ kept \subseteq Int
  <2>1. IsFiniteSet(1..n + Len(f))
    BY <1>1, FS_Interval
  <2>2. kept \subseteq Int
    BY <1>1
  <2>. HIDE DEF kept, n
  <2>3. kept \in SUBSET (1..n + Len(f))
    BY <1>5
  <2>4. IsFiniteSet(kept)
    BY <2>1, <2>3, FS_Subset
  <2>. QED  BY <2>2, <2>4
<1>7. \A i \in kept : all[i] \in Entry /\ all[i].whale \in Int
  <2>1. \A i \in 1..n + Len(f) : all[i] \in Entry
    BY <1>2, ElementOfSeq
  <2>2. \A e \in Entry : e.whale \in Int
    BY DEF Entry, Whale
  <2>. HIDE DEF all, kept
  <2>. QED  BY <1>5, <2>1, <2>2
<1>8. /\ sorted \in Seq(Entry) /\ Len(sorted) = Cardinality(kept)
      /\ ToSet(sorted) = {all[i] : i \in kept}
  <2>1. Keeps(all, kept, Entry)
    <3>. HIDE DEF all, kept
    <3>. QED  BY <1>6, <1>7 DEF Keeps
  <2>. HIDE DEF all, kept
  <2>. QED  BY <2>1, SortedKeeps
<1>9. ToSet(list) \cup ToSet(f) \subseteq ToSet(sorted)
  <2>1. ToSet(list) = {list[i] : i \in 1..n} /\ ToSet(f) = {f[i] : i \in 1..Len(f)}
    BY <1>1, EntriesOf
  <2>2. ASSUME NEW e \in ToSet(list) PROVE e \in ToSet(sorted)
    <3>1. PICK i \in 1..n : e = list[i]
      BY <2>1
    <3>2. i \in kept /\ all[i] = e
      <4>1. i \in 1..n + Len(f) /\ i <= n
        BY <1>1
      <4>. HIDE DEF kept, all
      <4>. QED  BY <1>3, <1>5, <3>1, <4>1
    <3>. HIDE DEF kept, all, sorted
    <3>. QED  BY <1>8, <3>2
  <2>3. ASSUME NEW e \in ToSet(f), e \notin ToSet(list) PROVE e \in ToSet(sorted)
    <3>1. PICK i \in 1..Len(f) : e = f[i]
      BY <2>1
    <3>2. n + i \in 1..n + Len(f) /\ ~(n + i <= n) /\ (n + i) - n = i
      BY <1>1
    <3>3. all[n + i] = e
      <4>. HIDE DEF all
      <4>. QED  BY <1>3, <3>1, <3>2
    <3>4. n + i \in kept
      <4>. HIDE DEF all
      <4>. QED  BY <1>2, <2>3, <3>2, <3>3
    <3>. HIDE DEF kept, all, sorted
    <3>. QED  BY <1>8, <3>3, <3>4
  <2>. HIDE DEF sorted
  <2>. QED  BY <2>2, <2>3
<1>10. n <= Cardinality(kept)
  <2>1. IsFiniteSet(1..n) /\ Cardinality(1..n) = n
    <3>. HIDE DEF n
    <3>1. 1 \in Int /\ n \in Int /\ (1 > n => n = 0)
      BY <1>1
    <3>2. IsFiniteSet(1..n) /\ Cardinality(1..n) = IF 1 > n THEN 0 ELSE n - 1 + 1
      BY <3>1, FS_Interval
    <3>. QED  BY <3>1, <3>2
  <2>. HIDE DEF kept
  <2>. QED  BY <1>5, <1>6, <2>1, FS_Subset
<1>11. Cardinality(ToSet(f)) <= Cardinality(kept)
  <2>1. IsFiniteSet(ToSet(sorted)) /\ Cardinality(ToSet(sorted)) <= Len(sorted)
    BY <1>8, EntriesOf
  <2>2. Cardinality(ToSet(f)) <= Cardinality(ToSet(sorted))
    BY <1>9, <2>1, FS_Subset
  <2>3. Cardinality(ToSet(sorted)) \in Nat /\ Cardinality(ToSet(f)) \in Nat
    BY <1>1, <2>1, EntriesOf, FS_CardinalityType
  <2>4. Len(sorted) \in Nat /\ Len(sorted) = Cardinality(kept)
    BY <1>8, LenProperties
  <2>. HIDE DEF kept, sorted
  <2>. QED  BY <2>1, <2>2, <2>3, <2>4
<1>. HIDE DEF sorted, kept, all
<1>12. /\ Cut(sorted) \in Seq(Entry) /\ Len(Cut(sorted)) <= Limit
       /\ Len(sorted) >= Limit => Len(Cut(sorted)) = Limit
       /\ Len(Cut(sorted)) # Limit => Cut(sorted) = sorted
  BY <1>8, CutKeeps
<1>13. Cardinality(kept) \in Nat
  BY <1>6, FS_CardinalityType
<1>14. Full(MergeWith(f)) \/ ToSet(list) \cup ToSet(f) \subseteq ToSet(MergeWith(f))
  BY <1>4, <1>9, <1>12 DEF Full
<1>15. Full(list) => Full(MergeWith(f))
  BY <1>4, <1>8, <1>10, <1>12 DEF Full
<1>16. Cardinality(ToSet(f)) = Limit => Full(MergeWith(f))
  BY <1>4, <1>8, <1>11, <1>12 DEF Full
<1>. QED  BY <1>4, <1>12, <1>14, <1>15, <1>16 DEF IsFeed

(* The newest of whales 1 to n are all of them, or Limit different ones.   *)
LEMMA NewestAre ==
    ASSUME NEW n \in 0..MaxWhales
    PROVE  /\ Newest(n) \in Seq(Entry)
           /\ n <= Limit => Whales(Newest(n)) = 1..n
           /\ n > Limit => Cardinality(ToSet(Newest(n))) = Limit
<1>. DEFINE m == IF n < Limit THEN n ELSE Limit
            e == [i \in 1..m |-> [whale |-> n + 1 - i, live |-> FALSE]]
<1>1. n \in Nat /\ m \in Nat /\ m <= n /\ n <= MaxWhales /\ MaxWhales \in Nat /\ Limit \in Nat
  BY FeedAssumption
<1>2. Newest(n) = e
  BY DEF Newest
<1>3. ASSUME NEW i \in 1..m PROVE e[i] \in Entry /\ e[i].whale = n + 1 - i
  <2>1. e[i] = [whale |-> n + 1 - i, live |-> FALSE]
    OBVIOUS
  <2>2. n + 1 - i \in Whale
    BY <1>1 DEF Whale
  <2>. HIDE DEF e, m
  <2>. QED  BY <2>1, <2>2 DEF Entry
<1>4. e \in [1..m -> Entry]
  <2>1. e = [i \in 1..m |-> e[i]]
    OBVIOUS
  <2>. HIDE DEF e
  <2>. QED  BY <1>3, <2>1
<1>. HIDE DEF e
<1>5. e \in Seq(Entry) /\ Len(e) = m /\ DOMAIN e = 1..m
  BY <1>1, <1>4
<1>6. ToSet(e) = {e[i] : i \in 1..m}
  BY <1>5, EntriesOf
<1>7. ASSUME n <= Limit PROVE Whales(e) = 1..n
  <2>1. m = n
    BY <1>1, <1>7
  <2>2. ASSUME NEW w \in 1..n PROVE w \in Whales(e)
    <3>1. n + 1 - w \in 1..m /\ n + 1 - (n + 1 - w) = w
      BY <1>1, <2>1
    <3>2. e[n + 1 - w] \in ToSet(e) /\ e[n + 1 - w].whale = w
      BY <1>3, <1>6, <3>1
    <3>. QED  BY <3>2 DEF Whales
  <2>3. ASSUME NEW w \in Whales(e) PROVE w \in 1..n
    <3>1. PICK i \in 1..m : w = e[i].whale
      BY <1>6 DEF Whales
    <3>. QED  BY <1>1, <1>3, <2>1, <3>1
  <2>. QED  BY <2>2, <2>3
<1>8. Cardinality(ToSet(e)) = m
  <2>1. e \in [1..m -> ToSet(e)] /\ \A x \in ToSet(e) : \E i \in 1..m : e[i] = x
    BY <1>4, <1>6
  <2>2. ASSUME NEW i \in 1..m, NEW j \in 1..m, e[i] = e[j] PROVE i = j
    <3>1. n + 1 - i = n + 1 - j
      BY <1>3, <2>2
    <3>. QED  BY <1>1, <3>1
  <2>. HIDE DEF m
  <2>3. e \in Bijection(1..m, ToSet(e))
    BY <2>1, <2>2 DEF Bijection, Injection, Surjection, IsInjective
  <2>. QED  BY <1>1, <2>3, FS_CountingElements DEF ExistsBijection
<1>. QED  BY <1>1, <1>2, <1>5, <1>7, <1>8

(* Merging the answer: the whales of the list and of the answer are there. *)
LEMMA HistoryCovers ==
    ASSUME IsFeed(list), NEW n \in 0..MaxWhales
    PROVE  Covers(MergeWith(Newest(n)), list, 1..n)
<1>. DEFINE m == MergeWith(Newest(n))
<1>1. n \in Nat /\ Limit \in Nat
  BY FeedAssumption
<1>2. /\ IsFeed(m) /\ (Full(list) => Full(m))
      /\ Full(m) \/ ToSet(list) \cup ToSet(Newest(n)) \subseteq ToSet(m)
      /\ Cardinality(ToSet(Newest(n))) = Limit => Full(m)
  BY NewestAre, MergeKeeps
<1>. HIDE DEF m
<1>3. ASSUME n > Limit PROVE Covers(m, list, 1..n)
  BY <1>2, <1>3, NewestAre DEF Covers
<1>4. ASSUME n <= Limit PROVE Covers(m, list, 1..n)
  <2>1. Whales(Newest(n)) = 1..n
    BY <1>4, NewestAre
  <2>2. ToSet(list) \cup ToSet(Newest(n)) \subseteq ToSet(m) =>
            Whales(list) \cup Whales(Newest(n)) \subseteq Whales(m)
    BY DEF Whales
  <2>. QED  BY <1>2, <2>1, <2>2 DEF Covers
<1>. QED  BY <1>1, <1>3, <1>4 DEF m

(* An alert is in front of what was there.                                 *)
LEMMA PrependCovers ==
    ASSUME IsFeed(list), NEW k \in Whale
    PROVE  Covers(Prepend(k), list, {k})
<1>. DEFINE a == [whale |-> k, live |-> TRUE]
            p == <<a>> \o list
<1>1. list \in Seq(Entry) /\ Len(list) \in Nat /\ Limit \in Nat
  BY FeedAssumption DEF IsFeed
<1>2. a \in Entry /\ <<a>> \in Seq(Entry) /\ Len(<<a>>) = 1 /\ <<a>>[1] = a
  BY DEF Entry
<1>. HIDE DEF a
<1>3. /\ p \in Seq(Entry) /\ Len(p) = 1 + Len(list)
      /\ \A i \in 1..1 + Len(list) : p[i] = IF i <= 1 THEN <<a>>[i] ELSE list[i - 1]
  BY <1>1, <1>2, ConcatProperties
<1>4. Prepend(k) = Cut(p)
  BY DEF Prepend, a
<1>. HIDE DEF p
<1>5. /\ ToSet(p) = {p[i] : i \in 1..Len(p)}
      /\ ToSet(list) = {list[i] : i \in 1..Len(list)}
  BY <1>1, <1>3, EntriesOf
<1>6. a \in ToSet(p)
  <2>1. 1 \in 1..Len(p) /\ p[1] = a
    BY <1>1, <1>2, <1>3
  <2>. QED  BY <1>5, <2>1
<1>7. ASSUME NEW e \in ToSet(list) PROVE e \in ToSet(p)
  <2>1. PICK i \in 1..Len(list) : e = list[i]
    BY <1>5
  <2>2. i + 1 \in 1..1 + Len(list) /\ ~(i + 1 <= 1) /\ (i + 1) - 1 = i
    BY <1>1
  <2>3. p[i + 1] = e
    BY <1>3, <2>1, <2>2
  <2>. QED  BY <1>3, <1>5, <2>2, <2>3
<1>8. Whales(list) \cup {k} \subseteq Whales(p)
  <2>1. a.whale = k
    BY DEF a
  <2>. QED  BY <1>6, <1>7, <2>1 DEF Whales
<1>9. /\ Cut(p) \in Seq(Entry) /\ Len(Cut(p)) <= Limit
      /\ Len(p) >= Limit => Len(Cut(p)) = Limit
      /\ Len(Cut(p)) # Limit => Cut(p) = p
  BY <1>3, CutKeeps
<1>10. Full(list) => Full(Cut(p))
  BY <1>1, <1>3, <1>9 DEF Full
<1>. QED  BY <1>4, <1>8, <1>9, <1>10 DEF Covers, IsFeed, Full

-----------------------------------------------------------------------------
(* Types.                                                                  *)

(* What sock keeps.                                                        *)
Connection == [phase : {"off", "connecting", "accepted", "open", "lost"},
               mail : Seq(Whale),
               history : {"none", "asked", "answered", "failed", "merged"},
               read : 0..MaxWhales, owed : SUBSET Whale]

(* TypeOK with sock a function, OneListener for the bound of the timers,   *)
(* and only stored whales to alert.                                        *)
FeedTyped ==
    /\ stored \in 0..MaxWhales /\ toAlert \subseteq 1..stored
    /\ sock \in [Slot -> Connection]
    /\ current \in {0} \cup Slot
    /\ attempt \in 0..OfflineAfter + 1
    /\ status \in {"live", "reconnecting", "offline"}
    /\ IsFeed(list)
    /\ budget \in [faults : 0..MaxFaults, remounts : 0..MaxRemounts]

(* It says what TypeOK says.                                               *)
LEMMA FeedTypes == OneListener /\ FeedTyped => TypeOK
<1>. SUFFICES ASSUME OneListener, FeedTyped PROVE TypeOK
  OBVIOUS
<1>1. timers \in 0..2 /\ mounted \in BOOLEAN
  BY DEF OneListener
<1>2. toAlert \subseteq Whale
  BY FeedAssumption DEF FeedTyped, Whale
<1>3. ASSUME NEW s \in Slot
      PROVE  /\ sock[s].phase \in {"off", "connecting", "accepted", "open", "lost"}
             /\ sock[s].history \in {"none", "asked", "answered", "failed", "merged"}
             /\ sock[s].mail \in Seq(Whale) /\ sock[s].owed \subseteq Whale
  BY DEF FeedTyped, Connection
<1>. QED  BY <1>1, <1>2, <1>3 DEF FeedTyped, TypeOK, IsFeed, Entry

(* One more whale in the mail.                                             *)
LEMMA MailGrows ==
    ASSUME NEW m \in Seq(Whale), NEW k \in Whale
    PROVE  Append(m, k) \in Seq(Whale) /\ ToSet(m) \cup {k} \subseteq ToSet(Append(m, k))
<1>. DEFINE a == Append(m, k)
<1>1. /\ a \in Seq(Whale) /\ Len(a) = Len(m) + 1 /\ Len(m) \in Nat
      /\ \A i \in 1..Len(m) : a[i] = m[i]
      /\ a[Len(m) + 1] = k
  BY AppendProperties, LenProperties
<1>. HIDE DEF a
<1>2. ToSet(a) = {a[i] : i \in 1..Len(a)} /\ ToSet(m) = {m[i] : i \in 1..Len(m)}
  BY <1>1, EntriesOf
<1>3. k \in ToSet(a)
  <2>1. Len(m) + 1 \in 1..Len(a)
    BY <1>1
  <2>. QED  BY <1>1, <1>2, <2>1
<1>4. ASSUME NEW w \in ToSet(m) PROVE w \in ToSet(a)
  <2>1. PICK i \in 1..Len(m) : w = m[i]
    BY <1>2
  <2>2. i \in 1..Len(a) /\ a[i] = w
    BY <1>1, <2>1
  <2>. QED  BY <1>2, <2>2
<1>. QED  BY <1>1, <1>3, <1>4 DEF a

(* The first one is out, the others stay.                                  *)
LEMMA MailShrinks ==
    ASSUME NEW m \in Seq(Whale), m # <<>>
    PROVE  /\ Head(m) \in Whale /\ Tail(m) \in Seq(Whale)
           /\ ToSet(m) \subseteq {Head(m)} \cup ToSet(Tail(m))
<1>1. /\ Head(m) \in Whale /\ Tail(m) \in Seq(Whale) /\ Len(m) \in Nat
      /\ Len(Tail(m)) = Len(m) - 1
      /\ \A i \in 1..Len(Tail(m)) : Tail(m)[i] = m[i + 1]
      /\ Head(m) = m[1]
  BY HeadTailProperties, LenProperties
<1>2. /\ ToSet(m) = {m[i] : i \in 1..Len(m)}
      /\ ToSet(Tail(m)) = {Tail(m)[i] : i \in 1..Len(Tail(m))}
  BY <1>1, EntriesOf
<1>3. ASSUME NEW i \in 1..Len(m), i # 1 PROVE m[i] \in ToSet(Tail(m))
  <2>1. i - 1 \in 1..Len(Tail(m)) /\ (i - 1) + 1 = i
    BY <1>1, <1>3
  <2>2. Tail(m)[i - 1] = m[i]
    BY <1>1, <2>1
  <2>. QED  BY <1>2, <2>1, <2>2
<1>. QED  BY <1>1, <1>2, <1>3

(* The budget keeps its type.                                              *)
LEMMA FaultKeeps ==
    ASSUME FeedTyped, Fault
    PROVE  budget' \in [faults : 0..MaxFaults, remounts : 0..MaxRemounts]
BY FeedAssumption DEF FeedTyped, Fault

(* Every handler of a connection leaves a connection.                      *)
LEMMA ConnectionKept ==
    ASSUME FeedTyped, NEW s \in Slot
    PROVE  LET c == sock[s] IN
           /\ c \in Connection
           /\ Ended(c) \in Connection
           /\ \A p \in {"accepted", "open"} : [c EXCEPT !.phase = p] \in Connection
           /\ [c EXCEPT !.history = "answered", !.read = stored] \in Connection
           /\ [c EXCEPT !.history = "failed"] \in Connection
           /\ [c EXCEPT !.history = "merged", !.read = 0] \in Connection
           /\ [c EXCEPT !.phase = "lost", !.mail = <<>>, !.owed = {}] \in Connection
           /\ \A k \in Whale :
                 [c EXCEPT !.mail = Append(@, k), !.owed = @ \cup {k}] \in Connection
           /\ c.mail # <<>> => [c EXCEPT !.mail = Tail(@)] \in Connection
           /\ [NoSocket EXCEPT !.phase = "connecting", !.owed = 1..stored,
                               !.history = "asked"] \in Connection
<1>. DEFINE c == sock[s]
<1>1. c \in Connection /\ stored \in 0..MaxWhales /\ MaxWhales \in Nat
  BY FeedAssumption DEF FeedTyped
<1>2. <<>> \in Seq(Whale) /\ 0 \in 0..MaxWhales /\ 1..stored \in SUBSET Whale
  BY <1>1 DEF Whale
<1>3. c.mail \in Seq(Whale)
  BY <1>1 DEF Connection
<1>4. \A k \in Whale : Append(c.mail, k) \in Seq(Whale)
  BY <1>3, MailGrows
<1>5. c.mail # <<>> => Tail(c.mail) \in Seq(Whale)
  BY <1>3, MailShrinks
<1>. HIDE DEF c
<1>6. Ended(c) \in Connection
  BY <1>1, <1>2 DEF Connection, Ended
<1>7. \A p \in {"accepted", "open"} : [c EXCEPT !.phase = p] \in Connection
  BY <1>1 DEF Connection
<1>8. /\ [c EXCEPT !.history = "answered", !.read = stored] \in Connection
      /\ [c EXCEPT !.history = "failed"] \in Connection
      /\ [c EXCEPT !.history = "merged", !.read = 0] \in Connection
  BY <1>1, <1>2 DEF Connection
<1>9. [c EXCEPT !.phase = "lost", !.mail = <<>>, !.owed = {}] \in Connection
  BY <1>1, <1>2 DEF Connection
<1>10. \A k \in Whale :
          [c EXCEPT !.mail = Append(@, k), !.owed = @ \cup {k}] \in Connection
  BY <1>1, <1>4 DEF Connection
<1>11. c.mail # <<>> => [c EXCEPT !.mail = Tail(@)] \in Connection
  BY <1>1, <1>5 DEF Connection
<1>12. [NoSocket EXCEPT !.phase = "connecting", !.owed = 1..stored,
                        !.history = "asked"] \in Connection
  BY <1>2 DEF Connection, NoSocket
<1>. QED
  BY <1>1, <1>6, <1>7, <1>8, <1>9, <1>10, <1>11, <1>12 DEF c

(* And so does connect, for the slot it takes.                             *)
LEMMA ConnectTyped ==
    ASSUME FeedTyped, Connect
    PROVE  /\ sock' \in [Slot -> Connection] /\ current' \in {0} \cup Slot
           /\ status' \in {"live", "reconnecting", "offline"}
BY ConnectionKept DEF Connect, FeedTyped

(* Every step keeps the types.                                             *)
LEMMA TypedStep == OneListener /\ FeedTyped /\ [Next]_vars => FeedTyped'
<1>. SUFFICES ASSUME OneListener, FeedTyped, [Next]_vars PROVE FeedTyped'
  OBVIOUS
<1>0. MaxWhales \in Nat /\ OfflineAfter \in Nat /\ MaxRemounts \in Nat
  BY FeedAssumption
<1>1. CASE Store
  <2>1. /\ stored \in 0..MaxWhales /\ stored < MaxWhales /\ stored' = stored + 1
        /\ toAlert \subseteq 1..stored /\ toAlert' = toAlert \cup {stored'}
    BY <1>1 DEF Store, FeedTyped
  <2>2. stored' \in 0..MaxWhales /\ toAlert' \subseteq 1..stored'
    BY <1>0, <2>1
  <2>. QED  BY <1>1, <2>2 DEF Store, hook, FeedTyped
<1>2. ASSUME NEW k \in Whale, NEW again \in BOOLEAN, Alert(k, again) PROVE FeedTyped'
  <2>1. sock' \in [Slot -> Connection]
    BY <1>2, ConnectionKept DEF Alert
  <2>2. /\ budget' \in [faults : 0..MaxFaults, remounts : 0..MaxRemounts]
        /\ toAlert' \subseteq 1..stored
    <3>1. CASE again
      BY <1>2, <3>1, FaultKeeps DEF Alert, FeedTyped
    <3>2. CASE ~again
      BY <1>2, <3>2 DEF Alert, FeedTyped
    <3>. QED  BY <3>1, <3>2
  <2>. QED  BY <1>2, <2>1, <2>2 DEF Alert, hook, FeedTyped
<1>3. ASSUME NEW k \in Whale, AlertLost(k) PROVE FeedTyped'
  BY <1>3, FaultKeeps DEF AlertLost, hook, FeedTyped
<1>4. ASSUME NEW s \in Slot, Accept(s) \/ AnswerHistory(s) PROVE FeedTyped'
  <2>1. sock' \in [Slot -> Connection]
    BY <1>4, ConnectionKept DEF Accept, AnswerHistory, FeedTyped
  <2>. QED  BY <1>4, <2>1 DEF Accept, AnswerHistory, backend, hook, FeedTyped
<1>5. ASSUME NEW s \in Slot, HistoryFails(s) \/ Break(s) PROVE FeedTyped'
  <2>1. sock' \in [Slot -> Connection]
    BY <1>5, ConnectionKept DEF HistoryFails, Break, FeedTyped
  <2>2. budget' \in [faults : 0..MaxFaults, remounts : 0..MaxRemounts]
    BY <1>5, FaultKeeps DEF HistoryFails, Break
  <2>. QED  BY <1>5, <2>1, <2>2 DEF HistoryFails, Break, backend, hook, FeedTyped
<1>6. ASSUME NEW s \in Slot, HistoryArrives(s) PROVE FeedTyped'
  <2>1. sock' \in [Slot -> Connection]
    BY <1>6, ConnectionKept DEF HistoryArrives, FeedTyped
  <2>2. IsFeed(MergeWith(Newest(sock[s].read)))
    <3>1. sock[s].read \in 0..MaxWhales
      BY DEF FeedTyped, Connection
    <3>. QED  BY <3>1, HistoryCovers DEF Covers, FeedTyped
  <2>3. IsFeed(list')
    BY <1>6, <2>2 DEF HistoryArrives, FeedTyped
  <2>. QED  BY <1>6, <2>1, <2>3 DEF HistoryArrives, backend, hook, FeedTyped, IsFeed
<1>7. ASSUME NEW s \in Slot, OnMessage(s) PROVE FeedTyped'
  <2>1. sock' \in [Slot -> Connection]
    BY <1>7, ConnectionKept DEF OnMessage, FeedTyped
  <2>2. IsFeed(Prepend(Head(sock[s].mail)))
    <3>1. sock[s].mail \in Seq(Whale)
      BY DEF FeedTyped, Connection
    <3>2. Head(sock[s].mail) \in Whale
      BY <1>7, <3>1, MailShrinks DEF OnMessage
    <3>. QED  BY <3>2, PrependCovers DEF Covers, FeedTyped
  <2>3. IsFeed(list')
    BY <1>7, <2>2 DEF OnMessage, FeedTyped
  <2>. QED  BY <1>7, <2>1, <2>3 DEF OnMessage, backend, hook, FeedTyped, IsFeed
<1>8. ASSUME NEW s \in Slot, OnOpen(s) PROVE FeedTyped'
  <2>1. sock' \in [Slot -> Connection]
    BY <1>8, ConnectionKept DEF OnOpen, FeedTyped
  <2>2. attempt' \in 0..OfflineAfter + 1 /\ status' \in {"live", "reconnecting", "offline"}
    BY <1>0, <1>8 DEF OnOpen, FeedTyped
  <2>. QED  BY <1>8, <2>1, <2>2 DEF OnOpen, backend, FeedTyped
<1>9. ASSUME NEW s \in Slot, OnClose(s) PROVE FeedTyped'
  <2>1. sock' \in [Slot -> Connection]
    BY <1>9, ConnectionKept DEF OnClose, FeedTyped
  <2>2. attempt' \in 0..OfflineAfter + 1 /\ status' \in {"live", "reconnecting", "offline"}
    BY <1>0, <1>9 DEF OnClose, ScheduleReconnect, FeedTyped
  <2>. QED  BY <1>9, <2>1, <2>2 DEF OnClose, backend, FeedTyped
<1>10. CASE TimerFires
  <2>1. CASE mounted
    BY <1>10, <2>1, ConnectTyped DEF TimerFires, backend, FeedTyped
  <2>2. CASE ~mounted
    BY <1>10, <2>2 DEF TimerFires, backend, FeedTyped
  <2>. QED  BY <2>1, <2>2
<1>11. CASE Mount
  BY <1>11, ConnectTyped DEF Mount, backend, FeedTyped
<1>12. CASE Remount
  <2>1. budget' \in [faults : 0..MaxFaults, remounts : 0..MaxRemounts]
    BY <1>0, <1>12 DEF Remount, FeedTyped
  <2>. QED  BY <1>12, <2>1, ConnectTyped DEF Remount, backend, FeedTyped
<1>13. CASE Unmount
  <2>1. current \in Slot
    BY <1>13 DEF Unmount, OneListener
  <2>2. sock' \in [Slot -> Connection]
    BY <1>13, <2>1, ConnectionKept DEF Unmount, FeedTyped
  <2>. QED  BY <1>13, <2>2 DEF Unmount, backend, FeedTyped
<1>14. CASE UNCHANGED vars
  BY <1>14 DEF vars, FeedTyped
<1>. QED
  BY <1>1, <1>2, <1>3, <1>4, <1>5, <1>6, <1>7, <1>8, <1>9, <1>10, <1>11, <1>12,
     <1>13, <1>14 DEF Next, Progress

-----------------------------------------------------------------------------
(* What is owed.                                                           *)

(* What the clean-up, a close or a break has not reached yet.              *)
Going(s) == sock[s].phase \in {"connecting", "accepted", "open"}

(* The whales owed to a connection are, while its request is under way,    *)
(* those the database can still answer with; once answered, in the answer, *)
(* in the mail or in the list; once merged, in the mail or in the list.    *)
Covered(c, l, n) ==
    /\ c.history = "asked" => c.owed \subseteq 1..n
    /\ c.history = "answered" =>
          Full(l) \/ c.owed \subseteq (1..c.read) \cup ToSet(c.mail) \cup Whales(l)
    /\ c.history = "merged" => Full(l) \/ c.owed \subseteq ToSet(c.mail) \cup Whales(l)

(* The inductive invariant.                                                *)
NothingOwedIsLost == \A s \in Slot : Going(s) => Covered(sock[s], list, stored)

(* Covered still holds when the list has grown.                            *)
LEMMA CoveredStays ==
    ASSUME NEW c, NEW l, NEW m, NEW n \in Nat, NEW p \in Nat, NEW W,
           Covered(c, l, n), Covers(m, l, W), n <= p
    PROVE  Covered(c, m, p)
BY DEF Covered, Covers

(* Steps that leave the list, the whales and what is owed alone.           *)
LEMMA SameOwed ==
    ASSUME NothingOwedIsLost, UNCHANGED <<list, stored>>,
           \A s \in Slot : Going(s)' => Going(s) /\ sock'[s].history = sock[s].history
                                        /\ sock'[s].read = sock[s].read
                                        /\ sock'[s].mail = sock[s].mail
                                        /\ sock'[s].owed = sock[s].owed
    PROVE  NothingOwedIsLost'
BY DEF NothingOwedIsLost, Covered

(* A new connection is owed what is stored, and its answer is to come.     *)
LEMMA ConnectOwes ==
    ASSUME FeedTyped, NothingOwedIsLost, Connect, UNCHANGED <<list, stored>>
    PROVE  NothingOwedIsLost'
<1>1. PICK s \in Slot : sock' = [sock EXCEPT ![s] = [NoSocket EXCEPT
                         !.phase = "connecting", !.owed = 1..stored, !.history = "asked"]]
  BY DEF Connect
<1>2. sock'[s].history = "asked" /\ sock'[s].owed = 1..stored
  BY <1>1 DEF NoSocket, FeedTyped
<1>3. Covered(sock'[s], list, stored)
  BY <1>2 DEF Covered
<1>4. ASSUME NEW t \in Slot, t # s PROVE sock'[t] = sock[t]
  BY <1>1, <1>4 DEF FeedTyped
<1>. QED  BY <1>3, <1>4 DEF NothingOwedIsLost, Going

(* Every step keeps what is owed: an alert is in the mail of the same      *)
(* step, a message moves it to the list, the answer brings what was stored.*)
LEMMA OwedStep ==
    OneListener /\ FeedTyped /\ NothingOwedIsLost /\ [Next]_vars => NothingOwedIsLost'
<1>. SUFFICES ASSUME OneListener, FeedTyped, NothingOwedIsLost, [Next]_vars
              PROVE  NothingOwedIsLost'
  OBVIOUS
<1>0. /\ stored \in Nat /\ sock \in [Slot -> Connection] /\ IsFeed(list)
      /\ \A s \in Slot : sock[s] \in Connection
  BY FeedAssumption DEF FeedTyped
<1>1. CASE Store
  <2>1. Covers(list, list, {})
    BY <1>0 DEF Covers
  <2>2. stored' = stored + 1 /\ list' = list /\ sock' = sock
    BY <1>1 DEF Store
  <2>3. ASSUME NEW c, Covered(c, list, stored) PROVE Covered(c, list, stored + 1)
    BY <1>0, <2>1, <2>3, CoveredStays
  <2>. QED  BY <2>2, <2>3 DEF NothingOwedIsLost, Going
<1>2. ASSUME NEW k \in Whale, NEW again \in BOOLEAN, Alert(k, again)
      PROVE  NothingOwedIsLost'
  <2>1. k \in 1..stored /\ list' = list /\ stored' = stored
    BY <1>2 DEF Alert, FeedTyped
  <2>2. ASSUME NEW s \in Slot, Registered(s), Covered(sock[s], list, stored)
        PROVE  Covered(sock'[s], list, stored)
    <3>. DEFINE c == sock[s]
                d == [c EXCEPT !.mail = Append(@, k), !.owed = @ \cup {k}]
    <3>1. sock'[s] = d
      BY <1>2, <2>2 DEF Alert
    <3>2. c \in Connection /\ c.mail \in Seq(Whale)
      BY <1>0 DEF Connection
    <3>3. ToSet(c.mail) \cup {k} \subseteq ToSet(Append(c.mail, k))
      BY <3>2, MailGrows
    <3>. HIDE DEF c
    <3>4. /\ d.history = c.history /\ d.read = c.read /\ d.owed = c.owed \cup {k}
          /\ d.mail = Append(c.mail, k)
      BY <3>2 DEF Connection
    <3>. HIDE DEF d
    <3>5. Covered(c, list, stored)
      BY <2>2 DEF c
    <3>6. Covered(d, list, stored)
      BY <2>1, <3>3, <3>4, <3>5 DEF Covered
    <3>. QED  BY <3>1, <3>6
  <2>3. ASSUME NEW s \in Slot, ~Registered(s) PROVE sock'[s] = sock[s]
    BY <1>2, <2>3 DEF Alert
  <2>4. ASSUME NEW s \in Slot, sock'[s].phase \in {"connecting", "accepted", "open"}
        PROVE  Going(s)
    BY <1>0, <1>2, <2>4 DEF Alert, Going, Registered, Connection
  <2>5. ASSUME NEW s \in Slot, Going(s)' PROVE Covered(sock'[s], list, stored)
    BY <2>2, <2>3, <2>4, <2>5 DEF NothingOwedIsLost, Going
  <2>. QED  BY <2>1, <2>5 DEF NothingOwedIsLost
<1>3. ASSUME NEW k \in Whale, AlertLost(k) PROVE NothingOwedIsLost'
  BY <1>3, SameOwed DEF AlertLost, Going
<1>4. ASSUME NEW s \in Slot, Accept(s) \/ OnOpen(s) PROVE NothingOwedIsLost'
  <2>1. list' = list /\ stored' = stored /\ Going(s)
    BY <1>4 DEF Accept, OnOpen, backend, Going
  <2>2. /\ sock'[s].history = sock[s].history /\ sock'[s].read = sock[s].read
        /\ sock'[s].mail = sock[s].mail /\ sock'[s].owed = sock[s].owed
    BY <1>0, <1>4 DEF Accept, OnOpen, Connection
  <2>3. ASSUME NEW t \in Slot, t # s PROVE sock'[t] = sock[t]
    BY <1>0, <1>4, <2>3 DEF Accept, OnOpen
  <2>. QED  BY <2>1, <2>2, <2>3, SameOwed DEF Going
<1>5. ASSUME NEW s \in Slot, AnswerHistory(s) PROVE NothingOwedIsLost'
  <2>1. /\ sock[s].history = "asked"
        /\ sock' = [sock EXCEPT ![s].history = "answered", ![s].read = stored]
        /\ list' = list /\ stored' = stored
    BY <1>5 DEF AnswerHistory, backend
  <2>2. /\ sock'[s].history = "answered" /\ sock'[s].read = stored
        /\ sock'[s].owed = sock[s].owed /\ sock'[s].phase = sock[s].phase
    BY <1>0, <2>1 DEF Connection
  <2>3. ASSUME Going(s) PROVE Covered(sock'[s], list, stored)
    BY <2>1, <2>2, <2>3 DEF NothingOwedIsLost, Covered
  <2>4. ASSUME NEW t \in Slot, t # s PROVE sock'[t] = sock[t]
    BY <1>0, <2>1, <2>4
  <2>. QED  BY <2>1, <2>2, <2>3, <2>4 DEF NothingOwedIsLost, Going
<1>6. ASSUME NEW s \in Slot, HistoryFails(s) PROVE NothingOwedIsLost'
  <2>1. /\ sock' = [sock EXCEPT ![s].history = "failed"]
        /\ list' = list /\ stored' = stored
    BY <1>6 DEF HistoryFails, backend
  <2>2. sock'[s].history = "failed"
    BY <1>0, <2>1 DEF Connection
  <2>3. Covered(sock'[s], list, stored)
    BY <2>2 DEF Covered
  <2>4. ASSUME NEW t \in Slot, t # s PROVE sock'[t] = sock[t]
    BY <1>0, <2>1, <2>4
  <2>. QED  BY <2>1, <2>3, <2>4 DEF NothingOwedIsLost, Going
<1>7. ASSUME NEW s \in Slot, Break(s) PROVE NothingOwedIsLost'
  <2>1. list' = list /\ stored' = stored /\ sock'[s].phase = "lost"
    BY <1>0, <1>7 DEF Break, backend, Connection
  <2>2. ASSUME NEW t \in Slot, t # s PROVE sock'[t] = sock[t]
    BY <1>0, <1>7, <2>2 DEF Break
  <2>. QED  BY <2>1, <2>2, SameOwed DEF Going
<1>8. ASSUME NEW s \in Slot, HistoryArrives(s) PROVE NothingOwedIsLost'
  <2>. DEFINE c == sock[s]
              m == MergeWith(Newest(c.read))
  <2>1. /\ c.history = "answered" /\ c.read \in 0..MaxWhales
        /\ sock' = [sock EXCEPT ![s].history = "merged", ![s].read = 0]
        /\ list' = (IF mounted THEN m ELSE list) /\ stored' = stored
    BY <1>0, <1>8 DEF HistoryArrives, backend, Connection
  <2>2. /\ sock'[s].history = "merged" /\ sock'[s].mail = c.mail
        /\ sock'[s].owed = c.owed /\ sock'[s].phase = c.phase
    BY <1>0, <2>1 DEF Connection
  <2>3. ASSUME NEW t \in Slot, t # s PROVE sock'[t] = sock[t]
    BY <1>0, <2>1, <2>3
  <2>4. ASSUME NEW t \in Slot, Going(t) PROVE mounted /\ list' = m
    BY <2>1, <2>4 DEF OneListener, Going, Live
  <2>5. Covers(m, list, 1..c.read)
    BY <1>0, <2>1, HistoryCovers
  <2>. HIDE DEF m
  <2>6. ASSUME Covered(c, list, stored) PROVE Covered(sock'[s], m, stored)
    BY <2>1, <2>2, <2>5, <2>6 DEF Covered, Covers
  <2>7. ASSUME NEW d, Covered(d, list, stored) PROVE Covered(d, m, stored)
    <3>. HIDE DEF c
    <3>. QED  BY <1>0, <2>5, <2>7, CoveredStays
  <2>8. ASSUME NEW t \in Slot, Going(t)' PROVE Going(t)
    BY <2>2, <2>3, <2>8 DEF Going
  <2>9. ASSUME NEW t \in Slot, Going(t)' PROVE Covered(sock'[t], list', stored')
    <3>1. Going(t) /\ Covered(sock[t], list, stored)
      BY <2>8, <2>9 DEF NothingOwedIsLost
    <3>2. list' = m /\ stored' = stored
      BY <2>1, <2>4, <3>1
    <3>3. CASE t = s
      BY <2>6, <3>1, <3>2, <3>3
    <3>4. CASE t # s
      BY <2>3, <2>7, <3>1, <3>2, <3>4
    <3>. QED  BY <3>3, <3>4
  <2>. QED  BY <2>9 DEF NothingOwedIsLost
<1>9. ASSUME NEW s \in Slot, OnMessage(s) PROVE NothingOwedIsLost'
  <2>. DEFINE c == sock[s]
              k == Head(c.mail)
              m == Prepend(k)
  <2>1. /\ c.phase = "open" /\ c.mail # <<>> /\ c.mail \in Seq(Whale)
        /\ sock' = [sock EXCEPT ![s].mail = Tail(@)]
        /\ stored' = stored
    BY <1>0, <1>9 DEF OnMessage, backend, Connection
  <2>2. list' = m
    BY <1>9, <2>1 DEF OnMessage, OneListener, Live
  <2>3. k \in Whale /\ ToSet(c.mail) \subseteq {k} \cup ToSet(Tail(c.mail))
    BY <2>1, MailShrinks
  <2>4. /\ sock'[s].history = c.history /\ sock'[s].mail = Tail(c.mail)
        /\ sock'[s].owed = c.owed /\ sock'[s].phase = c.phase
        /\ sock'[s].read = c.read
    BY <1>0, <2>1 DEF Connection
  <2>5. ASSUME NEW t \in Slot, t # s PROVE sock'[t] = sock[t]
    BY <1>0, <2>1, <2>5
  <2>. HIDE DEF k
  <2>6. Covers(m, list, {k})
    BY <1>0, <2>3, PrependCovers
  <2>. HIDE DEF m
  <2>7. ASSUME Covered(c, list, stored) PROVE Covered(sock'[s], m, stored)
    BY <2>3, <2>4, <2>6, <2>7 DEF Covered, Covers
  <2>8. ASSUME NEW d, Covered(d, list, stored) PROVE Covered(d, m, stored)
    <3>. HIDE DEF c
    <3>. QED  BY <1>0, <2>6, <2>8, CoveredStays
  <2>9. ASSUME NEW t \in Slot, Going(t)' PROVE Covered(sock'[t], list', stored')
    <3>1. Going(t)
      BY <2>4, <2>5, <2>9 DEF Going
    <3>2. Covered(sock[t], list, stored)
      BY <3>1 DEF NothingOwedIsLost
    <3>3. CASE t = s
      BY <2>1, <2>2, <2>7, <3>2, <3>3
    <3>4. CASE t # s
      BY <2>1, <2>2, <2>5, <2>8, <3>2, <3>4
    <3>. QED  BY <3>3, <3>4
  <2>. QED  BY <2>9 DEF NothingOwedIsLost
<1>10. ASSUME NEW s \in Slot, OnClose(s) PROVE NothingOwedIsLost'
  <2>1. list' = list /\ stored' = stored /\ sock' = [sock EXCEPT ![s] = Ended(@)]
    BY <1>10 DEF OnClose, backend
  <2>2. sock'[s].phase = "off"
    BY <1>0, <2>1 DEF Ended, Connection
  <2>3. ASSUME NEW t \in Slot, t # s PROVE sock'[t] = sock[t]
    BY <1>0, <2>1, <2>3
  <2>. QED  BY <2>1, <2>2, <2>3, SameOwed DEF Going
<1>11. CASE Unmount
  <2>1. /\ current \in Slot /\ list' = list /\ stored' = stored
        /\ sock' = [sock EXCEPT ![current] = Ended(@)]
    BY <1>11 DEF Unmount, backend, OneListener
  <2>2. sock'[current].phase = "off"
    BY <1>0, <2>1 DEF Ended, Connection
  <2>3. ASSUME NEW t \in Slot, t # current PROVE sock'[t] = sock[t]
    BY <1>0, <2>1, <2>3
  <2>. QED  BY <2>1, <2>2, <2>3, SameOwed DEF Going
<1>12. CASE Mount \/ Remount
  BY <1>12, ConnectOwes DEF Mount, Remount, backend
<1>13. CASE TimerFires
  <2>1. CASE mounted
    BY <1>13, <2>1, ConnectOwes DEF TimerFires, backend
  <2>2. CASE ~mounted
    BY <1>13, <2>2, SameOwed DEF TimerFires, backend, Going
  <2>. QED  BY <2>1, <2>2
<1>14. CASE UNCHANGED vars
  BY <1>14, SameOwed DEF vars, Going
<1>. QED
  BY <1>1, <1>2, <1>3, <1>4, <1>5, <1>6, <1>7, <1>8, <1>9, <1>10, <1>11, <1>12,
     <1>13, <1>14 DEF Next, Progress

(* All of it holds at first.                                               *)
LEMMA FeedInit == Init => OneListener /\ FeedTyped /\ NothingOwedIsLost
<1>. SUFFICES ASSUME Init PROVE OneListener /\ FeedTyped /\ NothingOwedIsLost
  OBVIOUS
<1>0. /\ MaxWhales \in Nat \ {0} /\ Limit \in Nat /\ OfflineAfter \in Nat
      /\ MaxFaults \in Nat /\ MaxRemounts \in Nat
  BY FeedAssumption
<1>1. OneListener
  BY DEF Init, OneListener, SocketsAre, NoSocket, Live
<1>2. NothingOwedIsLost
  BY DEF Init, NothingOwedIsLost, Going, NoSocket
<1>3. NoSocket \in Connection
  BY <1>0 DEF NoSocket, Connection
<1>4. IsFeed(list)
  BY <1>0 DEF Init, IsFeed
<1>5. budget \in [faults : 0..MaxFaults, remounts : 0..MaxRemounts]
  BY <1>0 DEF Init
<1>6. stored \in 0..MaxWhales /\ toAlert \subseteq 1..stored
  BY <1>0 DEF Init
<1>7. sock \in [Slot -> Connection]
  BY <1>3 DEF Init
<1>8. attempt \in 0..OfflineAfter + 1 /\ current \in {0} \cup Slot /\ status = "offline"
  BY <1>0 DEF Init
<1>. QED  BY <1>1, <1>2, <1>4, <1>5, <1>6, <1>7, <1>8 DEF FeedTyped

(* The variables keep their types: the list within MAX_ALERTS, one timer   *)
(* at most, the attempts counted to where they matter                      *)
(* (frontend/src/hooks/useWhaleWebSocket.ts).                              *)
THEOREM FeedTypeCorrect == Spec => []TypeOK
BY FeedInit, ListenerStep, TypedStep, FeedTypes, PTL DEF Spec

(* While the page is connected and its history was merged, every whale     *)
(* stored when it connected, or alerted since, is listed or on its way, or *)
(* the list is full: the socket opens before the answer is read and the    *)
(* merge keeps both (frontend/src/hooks/useWhaleWebSocket.ts).             *)
THEOREM NothingIsForgotten == Spec => []NothingForgotten
<1>1. ASSUME NothingOwedIsLost PROVE NothingForgotten
  BY <1>1 DEF NothingOwedIsLost, NothingForgotten, Going, Covered, Full, Whales
<1>. QED
  BY <1>1, FeedInit, ListenerStep, TypedStep, OwedStep, PTL DEF Spec
=============================================================================
