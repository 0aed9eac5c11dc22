---------------------------- MODULE MarketDataProofs ----------------------------
(***************************************************************************)
(* Proofs about MarketData, for any names, assets, size of a slice,        *)
(* setting of the secondary streams and number of faults.                  *)
(***************************************************************************)
EXTENDS MarketData, FiniteSetTheorems, SequenceTheorems, TLAPS

Messages == SUBSET (Names \union Assets)

-----------------------------------------------------------------------------
(* Lemmas about queues *)

(* The content of a queue is the union of its messages. *)
LEMMA ContentIs ==
  ASSUME NEW q \in Seq(Messages), NEW x
  PROVE  x \in Content(q) <=> \E i \in 1..Len(q) : x \in q[i]
BY DEF Content

(* subscribe(): queueing a message adds what it subscribes to. *)
LEMMA QueuedContent ==
  ASSUME NEW q \in Seq(Messages), NEW message \in Messages
  PROVE  /\ Queued(q, message) \in Seq(Messages)
         /\ Content(Queued(q, message)) = Content(q) \union message
<1>1. CASE message = {}
  BY <1>1 DEF Queued
<1>2. CASE message # {}
  <2>1. Queued(q, message) = Append(q, message)
    BY <1>2 DEF Queued
  <2>2. /\ Append(q, message) \in Seq(Messages)
        /\ Len(Append(q, message)) = Len(q) + 1
        /\ \A i \in 1..Len(q) : Append(q, message)[i] = q[i]
        /\ Append(q, message)[Len(q) + 1] = message
    BY AppendProperties
  <2>3. \A x : x \in Content(Append(q, message)) <=> x \in Content(q) \/ x \in message
    <3> TAKE x
    <3>1. x \in Content(q) <=> \E i \in 1..Len(q) : x \in q[i]
      BY ContentIs
    <3>2. x \in Content(Append(q, message)) <=> \E i \in 1..(Len(q) + 1) : x \in Append(q, message)[i]
      BY <2>2, ContentIs
    <3>3. Len(q) \in Nat
      BY LenProperties
    <3>4. 1..(Len(q) + 1) = 1..Len(q) \union {Len(q) + 1}
      BY <3>3
    <3> QED
      BY <2>2, <3>1, <3>2, <3>4
  <2> QED
    BY <2>1, <2>2, <2>3
<1> QED
  BY <1>1, <1>2

(* Two messages that share a symbol, or a message that repeats one already *)
(* subscribed to, are not Separate.                                        *)
LEMMA SeparateIs ==
  ASSUME NEW q \in Seq(Messages), NEW done
  PROVE  Separate(q, done) <=>
           \A i \in 1..Len(q) :
             /\ q[i] \intersect done \subseteq Assets
             /\ \A j \in 1..Len(q) : j # i => q[i] \intersect q[j] \subseteq Assets
<1>1. DOMAIN q = 1..Len(q)
  BY LenProperties
<1> QED
  BY <1>1 DEF Separate

(* subscribe(): a message without symbols that were queued or sent before  *)
(* keeps the messages separate.                                            *)
LEMMA QueuedSeparate ==
  ASSUME NEW q \in Seq(Messages), NEW done, NEW message \in Messages,
         Separate(q, done),
         message \intersect (Content(q) \union done) \subseteq Assets
  PROVE  Separate(Queued(q, message), done)
<1>1. CASE message = {}
  BY <1>1 DEF Queued
<1>2. CASE message # {}
  <2> DEFINE r == Append(q, message)
  <2>1. Queued(q, message) = r
    BY <1>2 DEF Queued
  <2>2. /\ r \in Seq(Messages)
        /\ Len(r) = Len(q) + 1
        /\ \A i \in 1..Len(q) : r[i] = q[i]
        /\ r[Len(q) + 1] = message
    BY AppendProperties
  <2>3. Len(q) \in Nat
    BY LenProperties
  <2>4. \A i \in 1..Len(q) : q[i] \intersect message \subseteq Assets
    <3> TAKE i \in 1..Len(q)
    <3>1. \A x \in q[i] : x \in Content(q)
      BY ContentIs
    <3> QED
      BY <3>1
  <2>5. message \intersect done \subseteq Assets
    OBVIOUS
  <2>6. \A i \in 1..Len(q) :
          /\ q[i] \intersect done \subseteq Assets
          /\ \A j \in 1..Len(q) : j # i => q[i] \intersect q[j] \subseteq Assets
    BY SeparateIs
  <2> HIDE DEF r
  <2>7. ASSUME NEW i \in 1..Len(r)
        PROVE  /\ r[i] \intersect done \subseteq Assets
               /\ \A j \in 1..Len(r) : j # i => r[i] \intersect r[j] \subseteq Assets
    <3>1. CASE i \in 1..Len(q)
      <4>1. r[i] = q[i]
        BY <2>2, <3>1
      <4>2. ASSUME NEW j \in 1..Len(r), j # i
            PROVE  r[i] \intersect r[j] \subseteq Assets
        <5>1. CASE j \in 1..Len(q)
          BY <2>2, <2>6, <3>1, <4>1, <4>2, <5>1
        <5>2. CASE j = Len(q) + 1
          BY <2>2, <2>4, <3>1, <4>1, <5>2
        <5> QED
          BY <2>2, <2>3, <5>1, <5>2
      <4> QED
        BY <2>6, <3>1, <4>1, <4>2
    <3>2. CASE i = Len(q) + 1
      <4>1. r[i] = message
        BY <2>2, <3>2
      <4>2. ASSUME NEW j \in 1..Len(r), j # i
            PROVE  r[i] \intersect r[j] \subseteq Assets
        <5>1. j \in 1..Len(q)
          BY <2>2, <2>3, <3>2, <4>2
        <5>2. r[j] = q[j]
          BY <2>2, <5>1
        <5> QED
          BY <2>4, <4>1, <5>1, <5>2
      <4> QED
        BY <2>5, <4>1, <4>2
    <3> QED
      BY <2>2, <2>3, <3>1, <3>2
  <2> QED
    BY <2>1, <2>2, <2>7, SeparateIs
<1> QED
  BY <1>1, <1>2

(* check_subscribe_queue: what is sent and what is left are together what  *)
(* was in the queue, and stay separate.                                    *)
LEMMA SentSplit ==
  ASSUME NEW q \in Seq(Messages), NEW done, NEW n \in 1..Len(q)
  PROVE  LET front == UNION {q[i] : i \in 1..n}
             left == SubSeq(q, n + 1, Len(q)) IN
         /\ left \in Seq(Messages)
         /\ front \in Messages
         /\ front \union Content(left) = Content(q)
         /\ Separate(q, done) => Separate(left, done \union front)
<1> DEFINE front == UNION {q[i] : i \in 1..n}
           left == SubSeq(q, n + 1, Len(q))
<1>1. /\ Len(q) \in Nat
      /\ \A i \in 1..Len(q) : q[i] \in Messages
  BY LenProperties, ElementOfSeq
<1>2. n \in Nat /\ n >= 1 /\ n <= Len(q)
  BY <1>1
<1>3. /\ left \in Seq(Messages)
      /\ Len(left) = Len(q) - n
      /\ \A i \in 1..(Len(q) - n) : left[i] = q[n + i]
  <2>1. n + 1 \in 1..(Len(q) + 1)
    BY <1>1, <1>2
  <2>2. /\ left \in Seq(Messages)
        /\ Len(left) = IF n + 1 <= Len(q) THEN Len(q) - (n + 1) + 1 ELSE 0
        /\ \A i \in 1..(Len(q) - (n + 1) + 1) : left[i] = q[n + 1 + i - 1]
    <3>1. \A i \in (n + 1)..Len(q) : q[i] \in Messages
      BY <1>1, <1>2
    <3> QED
      BY <1>1, <1>2, <2>1, <3>1, SubSeqProperties
  <2> QED
    BY <1>1, <1>2, <2>2
<1>4. front \in Messages
  BY <1>1, <1>2 DEF Messages
<1>5. ASSUME NEW x
      PROVE  x \in front \union Content(left) <=> x \in Content(q)
  <2>1. x \in front <=> \E i \in 1..n : x \in q[i]
    OBVIOUS
  <2>2. x \in Content(q) <=> \E i \in 1..Len(q) : x \in q[i]
    BY ContentIs
  <2>3. x \in Content(left) <=> \E i \in 1..(Len(q) - n) : x \in q[n + i]
    BY <1>3, ContentIs
  <2>4. ASSUME NEW i \in 1..Len(q), x \in q[i]
        PROVE  x \in front \/ x \in Content(left)
    <3>1. CASE i <= n
      BY <1>1, <1>2, <2>1, <2>4, <3>1
    <3>2. CASE i > n
      <4>1. i - n \in 1..(Len(q) - n) /\ n + (i - n) = i
        BY <1>1, <1>2, <3>2
      <4> HIDE DEF left
      <4> QED
        BY <2>3, <2>4, <4>1
    <3> QED
      BY <1>1, <1>2, <3>1, <3>2
  <2>5. ASSUME NEW i \in 1..(Len(q) - n), x \in q[n + i]
        PROVE  x \in Content(q)
    <3>1. n + i \in 1..Len(q)
      BY <1>1, <1>2
    <3> QED
      BY <2>2, <2>5, <3>1
  <2>6. 1..n \subseteq 1..Len(q)
    BY <1>1, <1>2
  <2> HIDE DEF front, left
  <2> QED
    BY <2>1, <2>2, <2>3, <2>4, <2>5, <2>6
<1>6. ASSUME Separate(q, done)
      PROVE  Separate(left, done \union front)
  <2>1. \A i \in 1..Len(q) :
          /\ q[i] \intersect done \subseteq Assets
          /\ \A j \in 1..Len(q) : j # i => q[i] \intersect q[j] \subseteq Assets
    BY <1>6, SeparateIs
  <2>2. ASSUME NEW i \in 1..Len(left)
        PROVE  /\ left[i] \intersect (done \union front) \subseteq Assets
               /\ \A j \in 1..Len(left) : j # i => left[i] \intersect left[j] \subseteq Assets
    <3>1. /\ i \in 1..(Len(q) - n)
          /\ n + i \in 1..Len(q)
          /\ left[i] = q[n + i]
      BY <1>1, <1>2, <1>3
    <3>2. ASSUME NEW k \in 1..n
          PROVE  q[n + i] \intersect q[k] \subseteq Assets
      <4>1. k \in 1..Len(q) /\ k # n + i
        <5>1. k \in Nat /\ i \in Nat /\ k <= n /\ i >= 1 /\ n \in Nat
          BY <1>1, <1>2, <3>1
        <5>2. k \in 1..Len(q)
          BY <1>1, <1>2
        <5> QED
          BY <5>1, <5>2
      <4> QED
        BY <2>1, <3>1, <4>1
    <3>3. q[n + i] \intersect front \subseteq Assets
      BY <3>2
    <3>4. ASSUME NEW j \in 1..Len(left), j # i
          PROVE  left[i] \intersect left[j] \subseteq Assets
      <4>1. /\ n + j \in 1..Len(q)
            /\ n + j # n + i
            /\ left[j] = q[n + j]
        BY <1>1, <1>2, <1>3, <3>1, <3>4
      <4> QED
        BY <2>1, <3>1, <4>1
    <3> HIDE DEF front, left
    <3> QED
      BY <2>1, <3>1, <3>3, <3>4
  <2> QED
    BY <1>3, <2>2, SeparateIs
<1> HIDE DEF front, left
<1> QED
  BY <1>3, <1>4, <1>5, <1>6 DEF front, left

-----------------------------------------------------------------------------
(* Type correctness *)

(* core::Symbols places every symbol in a slice and moves none. *)
LEMMA PlacementsKeep ==
  ASSUME TypeOK, NEW names \in SUBSET Names, NEW placed \in Placements(New(names))
  PROVE  /\ placed \in [Names -> {0} \union Indices]
         /\ \A s \in New(names) : s \in Names /\ slice[s] = 0 /\ placed[s] # 0
         /\ \A s \in Names \ New(names) : placed[s] = slice[s]
BY DEF Placements, New

(* SymbolsUpdate: new symbols are queued by the streams that are ready.    *)
LEMMA SymbolsUpdateType ==
  ASSUME TypeOK, NEW names \in SUBSET Names, SymbolsUpdate(names)
  PROVE  /\ slice' \in [Names -> {0} \union Indices]
         /\ queue' \in [Streams -> Seq(Messages)]
<1>1. PICK placed \in Placements(New(names)) :
        /\ slice' = placed
        /\ SubscribeNew(placed, New(names))
  BY DEF SymbolsUpdate
<1>2. slice' \in [Names -> {0} \union Indices]
  BY <1>1, PlacementsKeep
<1>3. ASSUME NEW st \in Streams
      PROVE  (IF st \in ready THEN Queued(queue[st], InSlice(placed, st[2]) \intersect New(names))
              ELSE queue[st]) \in Seq(Messages)
  <2>1. InSlice(placed, st[2]) \intersect New(names) \in Messages
    BY DEF InSlice, Messages
  <2>2. queue[st] \in Seq(Messages)
    BY DEF TypeOK, Messages
  <2> QED
    BY <2>1, <2>2, QueuedContent
<1> QED
  BY <1>1, <1>2, <1>3 DEF SubscribeNew

(* begin(), bump(), retry() and check() keep the counts of requests. *)
LEMMA RequestsType ==
  ASSUME TypeOK, NEW stage \in Stages, NEW age \in Ages,
         \/ \E started \in Stages \union {"UNDEFINED", "DONE"} : Start(started)
         \/ requests[<<stage, age>>] > 0 /\ Retry(stage, age)
         \/ requests[<<stage, age>>] > 0 /\ Advance(stage, age)
         \/ requests[<<stage, age>>] > 0 /\ requests' = [requests EXCEPT ![<<stage, age>>] = @ - 1]
  PROVE  requests' \in [Stages \X Ages -> Nat]
<1>1. /\ requests \in [Stages \X Ages -> Nat]
      /\ <<stage, age>> \in Stages \X Ages
  BY DEF TypeOK
<1>2. ASSUME NEW started, Start(started)
      PROVE  requests' \in [Stages \X Ages -> Nat]
  <2>1. \A r \in Stages \X Ages : <<r[1], "new">> \in Stages \X Ages /\ <<r[1], "old">> \in Stages \X Ages
    BY DEF Ages
  <2>2. \A r \in Stages \X Ages :
          (IF r[2] = "new" THEN IF r[1] = started THEN 1 ELSE 0
           ELSE requests[<<r[1], "new">>] + requests[<<r[1], "old">>]) \in Nat
    BY <1>1, <2>1
  <2> QED
    BY <1>2, <2>2 DEF Start
<1>3. ASSUME requests[<<stage, age>>] > 0
      PROVE  \A r \in Stages \X Ages : requests[r] - (IF r = <<stage, age>> THEN 1 ELSE 0) \in Nat
  BY <1>1, <1>3
<1>4. CASE requests[<<stage, age>>] > 0 /\ Retry(stage, age)
  BY <1>1, <1>3, <1>4 DEF Retry
<1>5. CASE requests[<<stage, age>>] > 0 /\ Advance(stage, age)
  BY <1>1, <1>3, <1>5 DEF Advance
<1>6. CASE requests[<<stage, age>>] > 0 /\ requests' = [requests EXCEPT ![<<stage, age>>] = @ - 1]
  BY <1>1, <1>6
<1> QED
  BY <1>2, <1>4, <1>5, <1>6

(* StreamReady: what a stream queues is a queue of messages. *)
LEMMA ResubscribeType ==
  ASSUME TypeOK, NEW st \in Streams
  PROVE  /\ Resubscribe(st) \in Seq(Messages)
         /\ Content(Resubscribe(st)) = (Content(queue[st]) \union InSlice(slice, st[2]))
                                        \union IF st = FirstMarketData2 THEN assets_2 ELSE {}
<1>1. /\ queue[st] \in Seq(Messages)
      /\ InSlice(slice, st[2]) \in Messages
      /\ (IF st = FirstMarketData2 THEN assets_2 ELSE {}) \in Messages
  BY DEF TypeOK, Messages, InSlice
<1>2. /\ Queued(queue[st], InSlice(slice, st[2])) \in Seq(Messages)
      /\ Content(Queued(queue[st], InSlice(slice, st[2]))) = Content(queue[st]) \union InSlice(slice, st[2])
  BY <1>1, QueuedContent
<1> QED
  BY <1>1, <1>2, QueuedContent DEF Resubscribe

(* The initial state is well typed. *)
LEMMA InitTypeOK == Init => TypeOK
<1> SUFFICES ASSUME Init PROVE TypeOK
  OBVIOUS
<1>1. queue \in [Streams -> Seq(SUBSET (Names \union Assets))]
  BY DEF Init
<1>2. /\ requests \in [Stages \X Ages -> Nat]
      /\ slice \in [Names -> {0} \union Indices]
      /\ sent \in [Streams -> SUBSET (Names \union Assets)]
  BY DEF Init
<1>3. faults \in 0..MaxFaults
  BY MarketDataAssumption DEF Init
<1> QED
  BY <1>1, <1>2, <1>3 DEF Init, TypeOK

(* Every handler of Rest, the Controller and the streams leaves the state  *)
(* well typed.                                                             *)
LEMMA NextTypeOK == TypeOK /\ [Next]_vars => TypeOK'
<1> SUFFICES ASSUME TypeOK, [Next]_vars
             PROVE  TypeOK'
  OBVIOUS
<1> USE DEF TypeOK
<1>1. CASE RestConnected
  <2>1. download' \in Stages \union {"UNDEFINED", "DONE"}
    BY <1>1 DEF RestConnected, Stages
  <2>2. "EXCHANGE_INFO" \in Stages /\ "new" \in Ages
    BY DEF Stages, Ages
  <2>3. requests' \in [Stages \X Ages -> Nat]
    BY <1>1, <2>1, <2>2, RequestsType DEF RestConnected
  <2> QED
    BY <1>1, <2>1, <2>3 DEF RestConnected, streams
<1>2. CASE RestDisconnected
  <2>1. faults' \in 0..MaxFaults
    BY <1>2, MarketDataAssumption DEF RestDisconnected, Fault
  <2>2. download' \in Stages \union {"UNDEFINED", "DONE"}
    BY <1>2 DEF RestDisconnected
  <2> QED
    BY <1>2, <2>1, <2>2 DEF RestDisconnected, streams
<1>3. ASSUME NEW stage \in Stages, NEW age \in Ages, AckFailed(stage, age)
      PROVE  TypeOK'
  <2>1. requests' \in [Stages \X Ages -> Nat]
    BY <1>3, RequestsType DEF AckFailed
  <2>2. faults' \in 0..MaxFaults
    BY <1>3, MarketDataAssumption DEF AckFailed, Fault
  <2> QED
    BY <1>3, <2>1, <2>2 DEF AckFailed, streams
<1>4. ASSUME NEW stage \in Stages, NEW age \in Ages, Skip(stage, age)
      PROVE  TypeOK'
  <2>1. requests' \in [Stages \X Ages -> Nat]
    BY <1>4, RequestsType DEF Skip
  <2> QED
    BY <1>4, <2>1 DEF Skip, streams
<1>5. ASSUME NEW age \in Ages, ExchangeInfoAck(age)
      PROVE  TypeOK'
  <2>1. "EXCHANGE_INFO" \in Stages
    BY DEF Stages
  <2>2. requests' \in [Stages \X Ages -> Nat]
    BY <1>5, <2>1, RequestsType DEF ExchangeInfoAck
  <2>3. listed \in SUBSET Names
    BY MarketDataAssumption
  <2>4. slice' \in [Names -> {0} \union Indices] /\ queue' \in [Streams -> Seq(Messages)]
    BY <1>5, <2>3, SymbolsUpdateType DEF ExchangeInfoAck
  <2>5. download' \in Stages \union {"UNDEFINED", "DONE"}
    BY <1>5 DEF ExchangeInfoAck, Advance, Stages
  <2> QED
    BY <1>5, <2>2, <2>4, <2>5 DEF ExchangeInfoAck, Messages
<1>6. ASSUME NEW age \in Ages, NEW found \in SUBSET Assets, AssetIndexAck(age, found)
      PROVE  TypeOK'
  <2>1. "ASSET_INDEX" \in Stages
    BY DEF Stages
  <2>2. requests' \in [Stages \X Ages -> Nat]
    BY <1>6, <2>1, RequestsType DEF AssetIndexAck
  <2>3. assets' \subseteq Assets /\ assets_2' \subseteq assets'
    BY <1>6 DEF AssetIndexAck
  <2>4. queue' \in [Streams -> Seq(Messages)]
    <3>1. found \ assets \in Messages
      BY DEF Messages
    <3>2. queue \in [Streams -> Seq(Messages)]
      BY DEF Messages
    <3>3. CASE FirstMarketData2 \in Streams /\ Exists(FirstMarketData2)
      <4>1. Queued(queue[FirstMarketData2], found \ assets) \in Seq(Messages)
        BY <3>1, <3>2, <3>3, QueuedContent
      <4> QED
        BY <1>6, <3>2, <3>3, <4>1 DEF AssetIndexAck
    <3>4. CASE ~(FirstMarketData2 \in Streams /\ Exists(FirstMarketData2))
      BY <1>6, <3>2, <3>4 DEF AssetIndexAck
    <3> QED
      BY <3>3, <3>4
  <2>5. download' \in Stages \union {"UNDEFINED", "DONE"}
    BY <1>6 DEF AssetIndexAck, Advance, Stages
  <2> QED
    BY <1>6, <2>2, <2>3, <2>4, <2>5 DEF AssetIndexAck, Messages
<1>7. ASSUME NEW names \in SUBSET Wanted, Subscribe(names)
      PROVE  TypeOK'
  <2>1. names \in SUBSET Names
    BY MarketDataAssumption
  <2>2. slice' \in [Names -> {0} \union Indices] /\ queue' \in [Streams -> Seq(Messages)]
    BY <1>7, <2>1, SymbolsUpdateType DEF Subscribe
  <2> QED
    BY <1>7, <2>2 DEF Subscribe, rest, Messages
<1>8. ASSUME NEW st \in Streams, StreamReady(st)
      PROVE  TypeOK'
  <2>1. queue' \in [Streams -> Seq(Messages)]
    BY <1>8, ResubscribeType DEF StreamReady, Messages
  <2> QED
    BY <1>8, <2>1 DEF StreamReady, rest, Messages
<1>9. ASSUME NEW st \in Streams, StreamDisconnected(st)
      PROVE  TypeOK'
  <2>1. queue' \in [Streams -> Seq(SUBSET (Names \union Assets))]
    BY <1>9 DEF StreamDisconnected
  <2> QED
    BY <1>9, <2>1, MarketDataAssumption DEF StreamDisconnected, Fault, rest
<1>10. ASSUME NEW st \in Streams, StreamTimer(st)
       PROVE  TypeOK'
  <2>1. PICK n \in 1..Len(queue[st]) :
          /\ sent' = [sent EXCEPT ![st] = @ \union UNION {queue[st][i] : i \in 1..n}]
          /\ queue' = [queue EXCEPT ![st] = SubSeq(@, n + 1, Len(@))]
    BY <1>10 DEF StreamTimer
  <2>2. queue[st] \in Seq(Messages)
    BY DEF Messages
  <2>3. /\ SubSeq(queue[st], n + 1, Len(queue[st])) \in Seq(Messages)
        /\ UNION {queue[st][i] : i \in 1..n} \in Messages
    BY <2>2, SentSplit
  <2>4. queue' \in [Streams -> Seq(Messages)]
    BY <2>1, <2>3 DEF Messages
  <2>5. sent' \in [Streams -> Messages]
    BY <2>1, <2>3 DEF Messages
  <2> QED
    BY <1>10, <2>4, <2>5 DEF StreamTimer, rest, Messages
<1>11. ASSUME NEW s \in Listable, List(s)
       PROVE  TypeOK'
  BY <1>11 DEF List, rest, streams
<1>12. CASE UNCHANGED vars
  BY <1>12 DEF vars, rest, streams
<1> QED
  BY <1>1, <1>2, <1>3, <1>4, <1>5, <1>6, <1>7, <1>8, <1>9, <1>10, <1>11, <1>12 DEF Next

(* The type invariant: the state of Rest and of the streams, whatever      *)
(* happens.                                                                *)
THEOREM TypeCorrect == Spec => []TypeOK
<1>1. Init => TypeOK
  BY InitTypeOK
<1>2. TypeOK /\ [Next]_vars => TypeOK'
  BY NextTypeOK
<1> QED
  BY <1>1, <1>2, PTL DEF Spec

-----------------------------------------------------------------------------
(* The subscriptions of the streams *)

(* A stream that is not ready has subscribed to nothing and queues at most *)
(* asset indices.                                                          *)
Quiet(st) == sent[st] = {} /\ Content(queue[st]) \subseteq Assets

(* The inductive invariant: what a stream finds in its queue when it       *)
(* becomes ready must not be a symbol.                                     *)
SubscriptionInv ==
  /\ EverySymbolOnce
  /\ \A st \in Streams \ ready : Quiet(st)
  /\ AssetsAreCarried

(* SymbolsUpdate: a ready stream queues exactly the new symbols of its     *)
(* slice, which it had not subscribed to.                                  *)
LEMMA SymbolsUpdateKeeps ==
  ASSUME TypeOK, SubscriptionInv, NEW names \in SUBSET Names, SymbolsUpdate(names),
         UNCHANGED <<ready, sent, assets_2>>
  PROVE  SubscriptionInv'
<1>1. PICK placed \in Placements(New(names)) :
        /\ slice' = placed
        /\ SubscribeNew(placed, New(names))
  BY DEF SymbolsUpdate
<1> DEFINE new(st) == InSlice(placed, st[2]) \intersect New(names)
<1>2. /\ \A s \in New(names) : s \in Names /\ slice[s] = 0 /\ placed[s] # 0
      /\ \A s \in Names \ New(names) : placed[s] = slice[s]
  BY PlacementsKeep
<1>3. ASSUME NEW st \in ready
      PROVE  /\ queue'[st] = Queued(queue[st], new(st))
             /\ Content(queue'[st]) = Content(queue[st]) \union new(st)
             /\ InSlice(slice', st[2]) = InSlice(slice, st[2]) \union new(st)
             /\ new(st) \intersect InSlice(slice, st[2]) = {}
             /\ new(st) \in Messages
             /\ new(st) \subseteq Names
             /\ queue[st] \in Seq(Messages)
  <2>1. st \in Streams /\ st[2] \in Indices
    BY DEF TypeOK, Streams
  <2>2. st[2] # 0
    <3>1. Indices \subseteq Nat \ {0}
      BY MarketDataAssumption, FS_CardinalityType DEF Indices
    <3> QED
      BY <2>1, <3>1
  <2>3. queue'[st] = Queued(queue[st], new(st))
    BY <1>1, <1>3, <2>1 DEF SubscribeNew
  <2>4. new(st) \in Messages /\ new(st) \subseteq Names /\ queue[st] \in Seq(Messages)
    BY <2>1 DEF TypeOK, Messages, InSlice
  <2>5. InSlice(slice', st[2]) = InSlice(slice, st[2]) \union new(st)
    BY <1>1, <1>2, <2>2 DEF InSlice
  <2>6. new(st) \intersect InSlice(slice, st[2]) = {}
    BY <1>2, <2>2 DEF InSlice
  <2> QED
    BY <2>3, <2>4, <2>5, <2>6, QueuedContent
<1>4. ASSUME NEW st \in Streams \ ready
      PROVE  queue'[st] = queue[st]
  BY <1>1 DEF SubscribeNew
<1> HIDE DEF new
<1>5. EverySymbolOnce'
  <2> SUFFICES ASSUME NEW st \in ready
               PROVE  /\ InSlice(slice', st[2]) = (sent[st] \union Content(queue'[st])) \intersect Names
                      /\ Separate(queue'[st], sent[st])
    BY DEF EverySymbolOnce
  <2>1. /\ InSlice(slice, st[2]) = (sent[st] \union Content(queue[st])) \intersect Names
        /\ Separate(queue[st], sent[st])
    BY DEF SubscriptionInv, EverySymbolOnce
  <2>2. new(st) \intersect (Content(queue[st]) \union sent[st]) \subseteq Assets
    BY <1>3, <2>1
  <2>3. Separate(Queued(queue[st], new(st)), sent[st])
    BY <1>3, <2>1, <2>2, QueuedSeparate
  <2> QED
    BY <1>3, <2>1, <2>3
<1>6. (\A st \in Streams \ ready : Quiet(st))'
  BY <1>4 DEF SubscriptionInv, Quiet
<1>7. AssetsAreCarried'
  BY <1>3 DEF SubscriptionInv, AssetsAreCarried
<1> QED
  BY <1>5, <1>6, <1>7 DEF SubscriptionInv

(* AssetIndexAck: only the first MarketData2 queues something, and only     *)
(* asset indices.                                                          *)
LEMMA AssetIndexKeeps ==
  ASSUME TypeOK, SubscriptionInv, NEW age \in Ages, NEW found \in SUBSET Assets,
         AssetIndexAck(age, found)
  PROVE  SubscriptionInv'
<1> DEFINE new == found \ assets
<1>1. UNCHANGED <<slice, ready, sent>>
  BY DEF AssetIndexAck
<1>2. CASE ~(FirstMarketData2 \in Streams /\ Exists(FirstMarketData2))
  <2>1. UNCHANGED <<assets_2, queue>>
    BY <1>2 DEF AssetIndexAck
  <2> QED
    BY <1>1, <2>1 DEF SubscriptionInv, EverySymbolOnce, Quiet, AssetsAreCarried
<1>3. CASE FirstMarketData2 \in Streams /\ Exists(FirstMarketData2)
  <2>1. /\ assets_2' = assets_2 \union new
        /\ queue' = [queue EXCEPT ![FirstMarketData2] = Queued(@, new)]
    BY <1>3 DEF AssetIndexAck
  <2>2. /\ \A st \in Streams : queue[st] \in Seq(Messages)
        /\ queue \in [Streams -> Seq(Messages)]
        /\ ready \subseteq Streams
        /\ new \in Messages
        /\ new \subseteq Assets
    BY DEF TypeOK, Messages
  <2> HIDE DEF new
  <2>3. /\ queue'[FirstMarketData2] = Queued(queue[FirstMarketData2], new)
        /\ \A st \in Streams \ {FirstMarketData2} : queue'[st] = queue[st]
    BY <1>3, <2>1, <2>2
  <2>4. Content(queue'[FirstMarketData2]) = Content(queue[FirstMarketData2]) \union new
    BY <1>3, <2>2, <2>3, QueuedContent
  <2>5. ASSUME NEW st \in ready
        PROVE  /\ InSlice(slice, st[2]) = (sent[st] \union Content(queue'[st])) \intersect Names
               /\ Separate(queue'[st], sent[st])
    <3>1. /\ InSlice(slice, st[2]) = (sent[st] \union Content(queue[st])) \intersect Names
          /\ Separate(queue[st], sent[st])
      BY DEF SubscriptionInv, EverySymbolOnce
    <3>2. CASE st = FirstMarketData2
      <4>1. Separate(Queued(queue[FirstMarketData2], new), sent[FirstMarketData2])
        BY <1>3, <2>2, <3>1, <3>2, QueuedSeparate
      <4>2. new \intersect Names = {}
        BY <2>2, MarketDataAssumption
      <4> QED
        BY <2>3, <2>4, <3>1, <3>2, <4>1, <4>2
    <3>3. CASE st # FirstMarketData2
      BY <2>2, <2>3, <3>1, <3>3
    <3> QED
      BY <3>2, <3>3
  <2>6. EverySymbolOnce'
    BY <1>1, <2>5 DEF EverySymbolOnce
  <2>7. (\A st \in Streams \ ready : Quiet(st))'
    BY <1>1, <2>2, <2>3, <2>4 DEF SubscriptionInv, Quiet
  <2>8. AssetsAreCarried'
    BY <1>1, <2>1, <2>4 DEF SubscriptionInv, AssetsAreCarried
  <2> QED
    BY <2>6, <2>7, <2>8 DEF SubscriptionInv
<1> QED
  BY <1>2, <1>3

(* StreamReady: the stream carries its slice and, the first MarketData2,    *)
(* the asset indices; its queue held no symbol.                            *)
LEMMA StreamReadyKeeps ==
  ASSUME TypeOK, SubscriptionInv, NEW st \in Streams, StreamReady(st)
  PROVE  SubscriptionInv'
<1> DEFINE own == InSlice(slice, st[2])
           known == IF st = FirstMarketData2 THEN assets_2 ELSE {}
<1>1. /\ st \notin ready
      /\ ready' = ready \union {st}
      /\ queue' = [queue EXCEPT ![st] = Resubscribe(st)]
      /\ UNCHANGED <<slice, assets_2, sent>>
  BY DEF StreamReady
<1>2. /\ queue \in [Streams -> Seq(Messages)]
      /\ queue[st] \in Seq(Messages)
      /\ ready \subseteq Streams
      /\ own \in Messages
      /\ own \subseteq Names
      /\ known \in Messages
      /\ known \subseteq Assets
  BY DEF TypeOK, Messages, InSlice
<1>3. /\ queue'[st] = Resubscribe(st)
      /\ \A other \in Streams \ {st} : queue'[other] = queue[other]
  BY <1>1, <1>2
<1>4. /\ sent[st] = {}
      /\ Content(queue[st]) \subseteq Assets
  BY <1>1 DEF SubscriptionInv, Quiet
<1>5. Resubscribe(st) = Queued(Queued(queue[st], own), known)
  BY DEF Resubscribe
<1>6. Content(queue'[st]) = (Content(queue[st]) \union own) \union known
  BY <1>3, ResubscribeType
<1> HIDE DEF own, known
<1>7. /\ Queued(queue[st], own) \in Seq(Messages)
      /\ Content(Queued(queue[st], own)) = Content(queue[st]) \union own
  BY <1>2, QueuedContent
<1>8. Separate(queue[st], {})
  <2>1. \A i \in 1..Len(queue[st]) : queue[st][i] \subseteq Assets
    <3> TAKE i \in 1..Len(queue[st])
    <3>1. \A x \in queue[st][i] : x \in Content(queue[st])
      BY <1>2, ContentIs
    <3> QED
      BY <1>4, <3>1
  <2> QED
    BY <1>2, <2>1, SeparateIs
<1>9. Separate(Queued(queue[st], own), {})
  <2>1. own \intersect (Content(queue[st]) \union {}) \subseteq Assets
    BY <1>4
  <2> QED
    BY <1>2, <1>8, <2>1, QueuedSeparate
<1>10. Separate(queue'[st], {})
  <2>1. known \intersect (Content(Queued(queue[st], own)) \union {}) \subseteq Assets
    BY <1>2
  <2>2. Separate(Queued(Queued(queue[st], own), known), {})
    BY <1>2, <1>7, <1>9, <2>1, QueuedSeparate
  <2> QED
    BY <1>3, <1>5, <2>2
<1>11. own = (sent[st] \union Content(queue'[st])) \intersect Names
  BY <1>2, <1>4, <1>6, MarketDataAssumption
<1>12. EverySymbolOnce'
  BY <1>1, <1>2, <1>3, <1>4, <1>10, <1>11 DEF SubscriptionInv, EverySymbolOnce, own
<1>13. (\A other \in Streams \ ready : Quiet(other))'
  BY <1>1, <1>3 DEF SubscriptionInv, Quiet
<1>14. AssetsAreCarried'
  <2>1. CASE st = FirstMarketData2
    BY <1>1, <1>6, <2>1 DEF AssetsAreCarried, known
  <2>2. CASE st # FirstMarketData2
    BY <1>1, <1>2, <1>3, <2>2 DEF SubscriptionInv, AssetsAreCarried
  <2> QED
    BY <2>1, <2>2
<1> QED
  BY <1>12, <1>13, <1>14 DEF SubscriptionInv

(* StreamDisconnected: the stream is quiet. *)
LEMMA StreamDisconnectedKeeps ==
  ASSUME TypeOK, SubscriptionInv, NEW st \in Streams, StreamDisconnected(st)
  PROVE  SubscriptionInv'
<1>1. /\ ready' = ready \ {st}
      /\ queue' = [queue EXCEPT ![st] = << >>]
      /\ sent' = [sent EXCEPT ![st] = {}]
      /\ UNCHANGED <<slice, assets_2>>
  BY DEF StreamDisconnected
<1>2. /\ queue'[st] = << >>
      /\ sent'[st] = {}
      /\ \A other \in Streams \ {st} : queue'[other] = queue[other] /\ sent'[other] = sent[other]
      /\ ready \subseteq Streams
  BY <1>1 DEF TypeOK
<1>3. Content(<< >>) = {}
  BY DEF Content
<1>4. EverySymbolOnce'
  BY <1>1, <1>2 DEF SubscriptionInv, EverySymbolOnce
<1>5. (\A other \in Streams \ ready : Quiet(other))'
  BY <1>1, <1>2, <1>3 DEF SubscriptionInv, Quiet
<1>6. AssetsAreCarried'
  BY <1>1, <1>2 DEF SubscriptionInv, AssetsAreCarried
<1> QED
  BY <1>4, <1>5, <1>6 DEF SubscriptionInv

(* StreamTimer: what is sent leaves the queue. *)
LEMMA StreamTimerKeeps ==
  ASSUME TypeOK, SubscriptionInv, NEW st \in Streams, StreamTimer(st)
  PROVE  SubscriptionInv'
<1>1. PICK n \in 1..Len(queue[st]) :
        /\ sent' = [sent EXCEPT ![st] = @ \union UNION {queue[st][i] : i \in 1..n}]
        /\ queue' = [queue EXCEPT ![st] = SubSeq(@, n + 1, Len(@))]
  BY DEF StreamTimer
<1> DEFINE front == UNION {queue[st][i] : i \in 1..n}
           left == SubSeq(queue[st], n + 1, Len(queue[st]))
<1>2. UNCHANGED <<slice, ready, assets_2>> /\ st \in ready
  BY DEF StreamTimer
<1>3. /\ queue[st] \in Seq(Messages)
      /\ ready \subseteq Streams
  BY DEF TypeOK, Messages
<1>4. /\ queue'[st] = left
      /\ sent'[st] = sent[st] \union front
      /\ \A other \in Streams \ {st} : queue'[other] = queue[other] /\ sent'[other] = sent[other]
  BY <1>1 DEF TypeOK
<1>5. /\ front \union Content(left) = Content(queue[st])
      /\ Separate(queue[st], sent[st]) => Separate(left, sent[st] \union front)
  BY <1>3, SentSplit
<1> HIDE DEF front, left
<1>6. EverySymbolOnce'
  <2> SUFFICES ASSUME NEW other \in ready
               PROVE  /\ InSlice(slice, other[2]) = (sent'[other] \union Content(queue'[other])) \intersect Names
                      /\ Separate(queue'[other], sent'[other])
    BY <1>2 DEF EverySymbolOnce
  <2>1. /\ InSlice(slice, other[2]) = (sent[other] \union Content(queue[other])) \intersect Names
        /\ Separate(queue[other], sent[other])
    BY DEF SubscriptionInv, EverySymbolOnce
  <2>2. CASE other = st
    <3>1. sent'[st] \union Content(queue'[st]) = sent[st] \union Content(queue[st])
      BY <1>4, <1>5
    <3> QED
      BY <1>4, <1>5, <2>1, <2>2, <3>1
  <2>3. CASE other # st
    BY <1>3, <1>4, <2>1, <2>3
  <2> QED
    BY <2>2, <2>3
<1>7. (\A other \in Streams \ ready : Quiet(other))'
  BY <1>2, <1>4 DEF SubscriptionInv, Quiet
<1>8. AssetsAreCarried'
  <2>1. CASE st = FirstMarketData2
    BY <1>2, <1>4, <1>5, <2>1 DEF SubscriptionInv, AssetsAreCarried
  <2>2. CASE st # FirstMarketData2
    BY <1>2, <1>3, <1>4, <2>2 DEF SubscriptionInv, AssetsAreCarried
  <2> QED
    BY <2>1, <2>2
<1> QED
  BY <1>6, <1>7, <1>8 DEF SubscriptionInv

(* No stream exists in the initial state. *)
LEMMA InitSubscriptionInv == Init => SubscriptionInv
<1>1. Content(<< >>) = {}
  BY DEF Content
<1> QED
  BY <1>1 DEF Init, SubscriptionInv, EverySymbolOnce, Quiet, AssetsAreCarried

(* Every handler keeps the subscriptions in order. *)
LEMMA NextSubscriptionInv == TypeOK /\ SubscriptionInv /\ [Next]_vars => SubscriptionInv'
<1> SUFFICES ASSUME TypeOK, SubscriptionInv, [Next]_vars
             PROVE  SubscriptionInv'
  OBVIOUS
<1>1. ASSUME UNCHANGED streams
      PROVE  SubscriptionInv'
  BY <1>1 DEF streams, SubscriptionInv, EverySymbolOnce, Quiet, AssetsAreCarried
<1>2. CASE RestConnected \/ RestDisconnected
  BY <1>1, <1>2 DEF RestConnected, RestDisconnected
<1>3. ASSUME NEW stage \in Stages, NEW age \in Ages, AckFailed(stage, age) \/ Skip(stage, age)
      PROVE  SubscriptionInv'
  BY <1>1, <1>3 DEF AckFailed, Skip
<1>4. ASSUME NEW age \in Ages, ExchangeInfoAck(age)
      PROVE  SubscriptionInv'
  <2>1. listed \in SUBSET Names
    BY MarketDataAssumption DEF TypeOK
  <2> QED
    BY <1>4, <2>1, SymbolsUpdateKeeps DEF ExchangeInfoAck
<1>5. ASSUME NEW age \in Ages, NEW found \in SUBSET Assets, AssetIndexAck(age, found)
      PROVE  SubscriptionInv'
  BY <1>5, AssetIndexKeeps
<1>6. ASSUME NEW names \in SUBSET Wanted, Subscribe(names)
      PROVE  SubscriptionInv'
  <2>1. names \in SUBSET Names
    BY MarketDataAssumption
  <2> QED
    BY <1>6, <2>1, SymbolsUpdateKeeps DEF Subscribe
<1>7. ASSUME NEW st \in Streams, StreamReady(st) \/ StreamDisconnected(st) \/ StreamTimer(st)
      PROVE  SubscriptionInv'
  BY <1>7, StreamReadyKeeps, StreamDisconnectedKeeps, StreamTimerKeeps
<1>8. ASSUME NEW s \in Listable, List(s)
      PROVE  SubscriptionInv'
  BY <1>1, <1>8 DEF List
<1>9. CASE UNCHANGED vars
  BY <1>1, <1>9 DEF vars
<1> QED
  BY <1>2, <1>3, <1>4, <1>5, <1>6, <1>7, <1>8, <1>9 DEF Next

(* Every ready stream subscribes to every symbol of its slice exactly once. *)
THEOREM EverySymbolOnceSafe == Spec => []EverySymbolOnce
<1>1. Init => TypeOK /\ SubscriptionInv
  BY InitTypeOK, InitSubscriptionInv
<1>2. TypeOK /\ SubscriptionInv /\ [Next]_vars => (TypeOK /\ SubscriptionInv)'
  BY NextTypeOK, NextSubscriptionInv
<1>3. SubscriptionInv => EverySymbolOnce
  BY DEF SubscriptionInv
<1> QED
  BY <1>1, <1>2, <1>3, PTL DEF Spec

(* Every asset index the first MarketData2 knows is carried by it. *)
THEOREM AssetsAreCarriedSafe == Spec => []AssetsAreCarried
<1>1. Init => TypeOK /\ SubscriptionInv
  BY InitTypeOK, InitSubscriptionInv
<1>2. TypeOK /\ SubscriptionInv /\ [Next]_vars => (TypeOK /\ SubscriptionInv)'
  BY NextTypeOK, NextSubscriptionInv
<1>3. SubscriptionInv => AssetsAreCarried
  BY DEF SubscriptionInv
<1> QED
  BY <1>1, <1>2, <1>3, PTL DEF Spec

-----------------------------------------------------------------------------
(* What the completion of the download rests on *)

(* The request of the stage is in flight, and was made since the last       *)
(* (re)start; a connected Rest is downloading or has done so.               *)
DownloadIsComing ==
  /\ download \in Stages => requests[<<download, "new">>] > 0
  /\ connected => download # "UNDEFINED"

LEMMA NextDownloadIsComing == TypeOK /\ DownloadIsComing /\ [Next]_vars => DownloadIsComing'
<1> SUFFICES ASSUME TypeOK, DownloadIsComing, [Next]_vars
             PROVE  DownloadIsComing'
  OBVIOUS
<1> USE DEF DownloadIsComing
<1>1. \A stage \in Stages, age \in Ages :
        <<stage, age>> \in Stages \X Ages /\ requests[<<stage, age>>] \in Nat
  BY DEF TypeOK
<1>2. "new" \in Ages
  BY DEF Ages
<1>3. CASE RestConnected
  <2>1. ASSUME download' \in Stages
        PROVE  requests'[<<download', "new">>] = 1
    <3>1. <<download', "new">> \in Stages \X Ages
      BY <1>2, <2>1
    <3> QED
      BY <1>3, <3>1 DEF RestConnected, Start
  <2>2. download' # "UNDEFINED"
    BY <1>3 DEF RestConnected
  <2> QED
    BY <2>1, <2>2
<1>4. CASE RestDisconnected
  BY <1>4 DEF RestDisconnected, Stages
<1>5. ASSUME NEW stage \in Stages, NEW age \in Ages, AckFailed(stage, age)
      PROVE  DownloadIsComing'
  <2>1. UNCHANGED <<download, connected>>
    BY <1>5 DEF AckFailed
  <2>2. ASSUME download \in Stages
        PROVE  requests'[<<download, "new">>] > 0
    <3>1. <<download, "new">> \in Stages \X Ages /\ requests[<<download, "new">>] \in Nat \ {0}
      BY <1>1, <1>2, <2>2
    <3>2. requests'[<<download, "new">>] =
            (requests[<<download, "new">>] - IF <<download, "new">> = <<stage, age>> THEN 1 ELSE 0)
            + IF <<download, "new">> = <<stage, "new">> /\ download = stage THEN 1 ELSE 0
      BY <1>5, <3>1 DEF AckFailed, Retry
    <3>3. CASE download = stage
      BY <3>1, <3>2, <3>3
    <3>4. CASE download # stage
      BY <3>1, <3>2, <3>4
    <3> QED
      BY <3>3, <3>4
  <2> QED
    BY <2>1, <2>2
<1>6. ASSUME NEW stage \in Stages, NEW age \in Ages, Skip(stage, age)
      PROVE  DownloadIsComing'
  <2>1. /\ requests' = [requests EXCEPT ![<<stage, age>>] = @ - 1]
        /\ download # stage \/ age = "old"
        /\ UNCHANGED <<download, connected>>
    BY <1>6 DEF Skip
  <2>2. <<download, "new">> # <<stage, age>>
    BY <2>1
  <2>3. requests'[<<download, "new">>] = requests[<<download, "new">>] \/ download \notin Stages
    BY <1>1, <1>2, <2>1, <2>2 DEF TypeOK
  <2> QED
    BY <2>1, <2>3
<1>7. ASSUME NEW stage \in Stages, NEW age \in Ages, download = stage, Advance(stage, age),
             UNCHANGED connected
      PROVE  DownloadIsComing'
  <2>1. PICK next \in {"ASSET_INDEX", "DONE"} :
          /\ next # stage
          /\ download' = next
          /\ requests' = [r \in Stages \X Ages |->
               (requests[r] - IF r = <<stage, age>> THEN 1 ELSE 0)
               + IF r = <<next, "new">> THEN 1 ELSE 0]
    BY <1>7 DEF Advance, Stages
  <2>2. ASSUME next \in Stages
        PROVE  requests'[<<next, "new">>] > 0
    <3>1. <<next, "new">> \in Stages \X Ages /\ requests[<<next, "new">>] \in Nat
      BY <1>1, <1>2, <2>2
    <3>2. requests'[<<next, "new">>] = (requests[<<next, "new">>] - 0) + 1
      BY <2>1, <3>1
    <3> QED
      BY <3>1, <3>2
  <2> QED
    BY <2>1, <2>2
<1>8. ASSUME NEW age \in Ages, ExchangeInfoAck(age)
      PROVE  DownloadIsComing'
  BY <1>7, <1>8 DEF ExchangeInfoAck, Stages
<1>9. ASSUME NEW age \in Ages, NEW found \in SUBSET Assets, AssetIndexAck(age, found)
      PROVE  DownloadIsComing'
  BY <1>7, <1>9 DEF AssetIndexAck, Stages
<1>10. ASSUME UNCHANGED rest
       PROVE  DownloadIsComing'
  BY <1>10 DEF rest
<1>11. ASSUME NEW names \in SUBSET Wanted, Subscribe(names)
       PROVE  UNCHANGED rest
  BY <1>11 DEF Subscribe
<1>12. ASSUME NEW st \in Streams, StreamReady(st) \/ StreamDisconnected(st) \/ StreamTimer(st)
       PROVE  UNCHANGED rest
  BY <1>12 DEF StreamReady, StreamDisconnected, StreamTimer
<1>13. ASSUME NEW s \in Listable, List(s)
       PROVE  UNCHANGED rest
  BY <1>13 DEF List
<1>14. CASE UNCHANGED vars
  BY <1>10, <1>14 DEF vars
<1> QED
  BY <1>3, <1>4, <1>5, <1>6, <1>8, <1>9, <1>10, <1>11, <1>12, <1>13, <1>14 DEF Next

(* The download of the reference data never stalls: whatever requests fail, *)
(* however often Rest is disconnected and whichever late answers are        *)
(* skipped or used (rest.cpp: bump, retry, skip, check), the request of its *)
(* stage is in flight.  The safety part of DownloadCompletes.               *)
THEOREM DownloadIsComingSafe == Spec => []DownloadIsComing
<1>1. Init => DownloadIsComing
  BY DEF Init, DownloadIsComing, Stages
<1> QED
  BY <1>1, NextDownloadIsComing, TypeCorrect, PTL DEF Spec

===============================================================================
