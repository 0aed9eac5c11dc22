------------------------- MODULE AccountDownloadProofs -------------------------
(***************************************************************************)
(* Proofs about AccountDownload, for any orders, symbols, setting and      *)
(* number of faults.                                                       *)
(***************************************************************************)
EXTENDS AccountDownload, FiniteSetTheorems, TLAPS

-----------------------------------------------------------------------------
(* Type correctness *)

(* The stage after a stage is a state of download_. *)
LEMMA AfterType ==
  ASSUME NEW stage, NEW lost
  PROVE  After(stage, lost) \in States
BY DEF After, States, Latches

(* A request adds its latches, whether or not requests merge. *)
LEMMA RequestType ==
  ASSUME NEW requested \in SUBSET Latches, pending \subseteq Latches, Request(requested)
  PROVE  pending' \subseteq Latches
BY DEF Request

(* The initial state is well typed. *)
LEMMA InitTypeOK == Init => TypeOK
BY AccountDownloadAssumption DEF Init, TypeOK, States, Latches

(* Every handler of the DropCopy, the order-entry connections and every     *)
(* event of the server leaves the state well typed.                         *)
LEMMA NextTypeOK == TypeOK /\ [Next]_vars => TypeOK'
<1> SUFFICES ASSUME TypeOK, [Next]_vars
             PROVE  TypeOK'
    OBVIOUS
<1> USE DEF TypeOK
<1>1. CASE StreamReady
  <2>1. pending' \subseteq Latches
    BY <1>1, RequestType DEF StreamReady, Latches
  <2> QED
    BY <1>1, <2>1 DEF StreamReady, States, Latches
<1>2. CASE StreamDisconnected
  BY <1>2, AccountDownloadAssumption DEF StreamDisconnected, Fault, States, latches
<1>3. ASSUME NEW poll \in BOOLEAN, NEW check \in BOOLEAN, StreamTimer(poll, check)
      PROVE  TypeOK'
  <2> DEFINE lost == IF Complete /\ state = "open_orders" THEN details \union stale ELSE details
             next == IF Complete THEN After(state, lost) ELSE state
             found == next = "DONE" /\ check /\ ~(stale \subseteq lost)
             requested == (IF Complete THEN {next} \ {"DONE"} ELSE {})
                          \union (IF next = "DONE" /\ poll THEN {"balances"} ELSE {})
                          \union Wanted(found)
  <2>1. /\ state' = next
        /\ details' = IF found THEN lost \union stale ELSE lost
        /\ Request(requested)
        /\ UNCHANGED <<ready, outstanding, counter, inflight, stale, asked, fresh, faults>>
    BY <1>3 DEF StreamTimer
  <2>2. next \in States
    BY AfterType
  <2>3. Complete => next # "UNDEFINED"
    BY DEF After
  <2>4. requested \subseteq Latches
    BY <2>2, <2>3 DEF Wanted, States, Latches
  <2>5. pending' \subseteq Latches
    BY <2>1, <2>4, RequestType
  <2>6. lost \subseteq Orders
    OBVIOUS
  <2>7. details' \subseteq Orders
    BY <2>1, <2>6
  <2>8. polls' \in 0..MaxPolls
    BY <1>3, AccountDownloadAssumption DEF StreamTimer, MayPoll
  <2> HIDE DEF lost, next, found, requested
  <2> QED
    BY <2>1, <2>2, <2>5, <2>7, <2>8
<1>4. ASSUME NEW c \in Connections, Connected(c)
      PROVE  TypeOK'
  BY <1>4 DEF Connected, latches
<1>5. ASSUME NEW c \in Connections, Disconnected(c)
      PROVE  TypeOK'
  <2>1. inflight' \in [Queries -> Nat]
    BY <1>5 DEF Disconnected
  <2> QED
    BY <1>5, <2>1, AccountDownloadAssumption DEF Disconnected, Fault, latches
<1>6. ASSUME NEW c \in Connections, Timer(c)
      PROVE  TypeOK'
  <2>1. PICK l \in Latches :
          /\ pending' = pending \ {l}
          /\ outstanding' = {l}
          /\ inflight' = [q \in Queries |-> IF q \in QueriesOf(l) THEN inflight[q] + 1 ELSE inflight[q]]
          /\ counter' = counter + Counted(l)
          /\ details' = IF l = "stale_orders" THEN {} ELSE details
          /\ asked' = asked \union {l}
    BY <1>6 DEF Timer
  <2>2. IsFiniteSet(details)
    BY AccountDownloadAssumption, FS_Subset
  <2>3. Counted(l) \in Nat
    BY <2>2, FS_CardinalityType DEF Counted
  <2>4. inflight' \in [Queries -> Nat]
    BY <2>1
  <2>5. UNCHANGED <<state, ready, stale, fresh, polls, faults>>
    BY <1>6 DEF Timer
  <2> QED
    BY <2>1, <2>3, <2>4, <2>5
<1>7. ASSUME NEW q \in (Snapshots \union {"positions_pm"}) \ {"open_orders"}, AccountAck(q)
      PROVE  TypeOK'
  BY <1>7 DEF AccountAck, Answered, Commit, Queries
<1>8. ASSUME NEW open \in SUBSET Orders, OpenOrdersAck(open)
      PROVE  TypeOK'
  BY <1>8 DEF OpenOrdersAck, Answered, Commit, Queries, Snapshots
<1>9. ASSUME NEW s \in Symbols, TradesAck(s)
      PROVE  TypeOK'
  BY <1>9 DEF TradesAck, Answered, Commit, Queries
<1>10. ASSUME NEW o \in Orders, OrderAck(o)
       PROVE  TypeOK'
  BY <1>10 DEF OrderAck, Answered, Commit, Queries
<1>11. ASSUME NEW o \in Orders, LoseTrack(o)
       PROVE  TypeOK'
  BY <1>11, AccountDownloadAssumption DEF LoseTrack, Fault, latches
<1>12. CASE UNCHANGED vars
  BY <1>12 DEF vars
<1> QED
  BY <1>1, <1>2, <1>3, <1>4, <1>5, <1>6, <1>7, <1>8, <1>9, <1>10, <1>11, <1>12 DEF Next

(* The type invariant holds throughout. *)
THEOREM TypeCorrect == Spec => []TypeOK
<1>1. Init => TypeOK
  BY InitTypeOK
<1>2. TypeOK /\ [Next]_vars => TypeOK'
  BY NextTypeOK
<1> QED
  BY <1>1, <1>2, PTL DEF Spec

-----------------------------------------------------------------------------
(* The order queries in flight and their counter *)

Queried == {o \in Orders : inflight[o] > 0}

(* An order is neither a latch nor a symbol. *)
LEMMA OrdersApart ==
  ASSUME NEW o \in Orders
  PROVE  /\ o \in Queries
         /\ o \notin Symbols
         /\ o \notin Latches
BY QueriesAreDistinct DEF Queries

(* A handler that neither sends nor answers order queries, nor touches the  *)
(* latch of the stale orders, keeps the count exact.                        *)
LEMMA CounterUntouched ==
  ASSUME TypeOK, StaleCounterIsExact, counter' = counter,
         \A o \in Orders : inflight'[o] = inflight[o],
         "stale_orders" \in outstanding => "stale_orders" \in outstanding'
  PROVE  StaleCounterIsExact'
<1>1. Queried' = Queried
  BY DEF Queried
<1> QED
  BY <1>1 DEF StaleCounterIsExact, Queried

(* With no latch outstanding no order is queried. *)
LEMMA NoneQueried ==
  ASSUME TypeOK, StaleCounterIsExact, outstanding = {}
  PROVE  /\ counter = 0
         /\ \A o \in Orders : inflight[o] = 0
<1>1. counter = 0
  BY DEF StaleCounterIsExact, TypeOK
<1>2. IsFiniteSet(Queried)
  BY AccountDownloadAssumption, FS_Subset DEF Queried
<1>3. Queried = {}
  BY <1>1, <1>2, FS_EmptySet DEF StaleCounterIsExact, Queried
<1>4. \A o \in Orders : inflight[o] \in Nat
  BY OrdersApart DEF TypeOK
<1> QED
  BY <1>1, <1>3, <1>4 DEF Queried

(* The connection's timer sends a batch only when the last one is answered, *)
(* and counts the orders it queries.                                        *)
LEMMA TimerCounts ==
  ASSUME TypeOK, StaleCounterIsExact, NEW c \in Connections, Timer(c)
  PROVE  StaleCounterIsExact'
<1>1. PICK l \in Latches :
        /\ outstanding' = {l}
        /\ inflight' = [q \in Queries |-> IF q \in QueriesOf(l) THEN inflight[q] + 1 ELSE inflight[q]]
        /\ counter' = counter + Counted(l)
  BY DEF Timer
<1>2. counter = 0 /\ \A o \in Orders : inflight[o] = 0
  BY NoneQueried DEF Timer
<1>3. CASE l = "stale_orders"
  <2>1. QueriesOf(l) = details /\ Counted(l) = Cardinality(details)
    BY <1>3 DEF QueriesOf, Counted
  <2>2. \A o \in Orders : inflight'[o] = IF o \in details THEN 1 ELSE 0
    BY <1>1, <1>2, <2>1, OrdersApart
  <2>3. Queried' = details
    BY <2>2 DEF Queried, TypeOK
  <2>4. IsFiniteSet(details)
    BY AccountDownloadAssumption, FS_Subset DEF TypeOK
  <2>5. counter' = Cardinality(details)
    BY <1>1, <1>2, <2>1, <2>4, FS_CardinalityType
  <2> QED
    BY <1>1, <1>3, <2>2, <2>3, <2>5 DEF StaleCounterIsExact, Queried
<1>4. CASE l # "stale_orders"
  <2>1. \A o \in Orders : o \notin QueriesOf(l)
    BY <1>4, OrdersApart DEF QueriesOf
  <2>2. \A o \in Orders : inflight'[o] = 0
    BY <1>1, <1>2, <2>1, OrdersApart
  <2>3. Queried' = {}
    BY <2>2 DEF Queried
  <2>4. counter' = 0
    BY <1>1, <1>2, <1>4 DEF Counted
  <2> QED
    BY <2>2, <2>3, <2>4, FS_EmptySet DEF StaleCounterIsExact, Queried
<1> QED
  BY <1>3, <1>4

(* The answer for an order takes one from the count; the last one commits. *)
LEMMA OrderAckCounts ==
  ASSUME TypeOK, StaleCounterIsExact, NEW o \in Orders, OrderAck(o)
  PROVE  /\ StaleCounterIsExact'
         /\ counter' = Cardinality(Queried')
         /\ IsFiniteSet(Queried')
<1>1. o \in Queries /\ inflight[o] \in Nat /\ inflight[o] > 0 /\ inflight[o] <= 1
  BY OrdersApart DEF OrderAck, Answered, TypeOK, StaleCounterIsExact
<1>2. inflight' = [inflight EXCEPT ![o] = inflight[o] - 1] /\ inflight[o] - 1 = 0
  BY <1>1 DEF OrderAck, Answered
<1>3. \A p \in Orders : inflight'[p] = IF p = o THEN 0 ELSE inflight[p]
  BY <1>2, OrdersApart DEF TypeOK
<1>4. Queried' = Queried \ {o} /\ o \in Queried
  BY <1>1, <1>3 DEF Queried
<1>5. IsFiniteSet(Queried) /\ IsFiniteSet(Queried')
  BY AccountDownloadAssumption, FS_Subset DEF Queried
<1>6. Cardinality(Queried') = Cardinality(Queried) - 1
  BY <1>4, <1>5, FS_RemoveElement
<1>7. counter = Cardinality(Queried) /\ Cardinality(Queried) \in Nat /\ Cardinality(Queried') \in Nat
  BY <1>5, FS_CardinalityType DEF StaleCounterIsExact, Queried
<1>8. counter > 0 /\ counter' = counter - 1
  BY <1>6, <1>7 DEF OrderAck
<1>9. counter' > 0 => "stale_orders" \in outstanding'
  BY <1>7, <1>8 DEF OrderAck, StaleCounterIsExact
<1> QED
  BY <1>3, <1>5, <1>6, <1>7, <1>8, <1>9 DEF StaleCounterIsExact, Queried

(* Every step keeps the count exact. *)
LEMMA NextCounts == TypeOK /\ StaleCounterIsExact /\ [Next]_vars => StaleCounterIsExact'
<1> SUFFICES ASSUME TypeOK, StaleCounterIsExact, [Next]_vars
             PROVE  StaleCounterIsExact'
    OBVIOUS
<1>1. CASE StreamReady
  BY <1>1, CounterUntouched DEF StreamReady
<1>2. CASE StreamDisconnected
  BY <1>2, CounterUntouched DEF StreamDisconnected, latches
<1>3. ASSUME NEW poll \in BOOLEAN, NEW check \in BOOLEAN, StreamTimer(poll, check)
      PROVE  StaleCounterIsExact'
  BY <1>3, CounterUntouched DEF StreamTimer
<1>4. ASSUME NEW c \in Connections, Connected(c)
      PROVE  StaleCounterIsExact'
  BY <1>4, CounterUntouched DEF Connected, latches
<1>5. ASSUME NEW c \in Connections, Disconnected(c)
      PROVE  StaleCounterIsExact'
  <2>1. \A o \in Orders : inflight'[o] = inflight[o]
    BY <1>5, OrdersApart DEF Disconnected, TypeOK, Latches
  <2> QED
    BY <1>5, <2>1, CounterUntouched DEF Disconnected, latches
<1>6. ASSUME NEW c \in Connections, Timer(c)
      PROVE  StaleCounterIsExact'
  BY <1>6, TimerCounts
<1>7. ASSUME NEW q \in (Snapshots \union {"positions_pm"}) \ {"open_orders"}, AccountAck(q)
      PROVE  StaleCounterIsExact'
  <2>1. \A o \in Orders : o # q
    BY OrdersApart DEF Snapshots, Latches
  <2>2. \A o \in Orders : inflight'[o] = inflight[o]
    BY <1>7, <2>1, OrdersApart DEF AccountAck, Answered, TypeOK
  <2>3. q # "stale_orders"
    BY DEF Snapshots
  <2> QED
    BY <1>7, <2>2, <2>3, CounterUntouched DEF AccountAck, Commit
<1>8. ASSUME NEW open \in SUBSET Orders, OpenOrdersAck(open)
      PROVE  StaleCounterIsExact'
  <2>1. \A o \in Orders : inflight'[o] = inflight[o]
    BY <1>8, OrdersApart DEF OpenOrdersAck, Answered, TypeOK, Latches
  <2> QED
    BY <1>8, <2>1, CounterUntouched DEF OpenOrdersAck, Commit
<1>9. ASSUME NEW s \in Symbols, TradesAck(s)
      PROVE  StaleCounterIsExact'
  <2>1. \A o \in Orders : inflight'[o] = inflight[o]
    BY <1>9, OrdersApart DEF TradesAck, Answered, TypeOK
  <2> QED
    BY <1>9, <2>1, CounterUntouched DEF TradesAck, Commit
<1>10. ASSUME NEW o \in Orders, OrderAck(o)
       PROVE  StaleCounterIsExact'
  BY <1>10, OrderAckCounts
<1>11. ASSUME NEW o \in Orders, LoseTrack(o)
       PROVE  StaleCounterIsExact'
  BY <1>11, CounterUntouched DEF LoseTrack, latches
<1>12. CASE UNCHANGED vars
  BY <1>12, CounterUntouched DEF vars
<1> QED
  BY <1>1, <1>2, <1>3, <1>4, <1>5, <1>6, <1>7, <1>8, <1>9, <1>10, <1>11, <1>12 DEF Next

(* download_stale_orders_counter_ is exact, whatever disconnects and        *)
(* overlapping rounds of queries happen.                                    *)
THEOREM StaleCounterSafe == Spec => []StaleCounterIsExact
<1>1. Init => StaleCounterIsExact
  <2> SUFFICES ASSUME Init PROVE StaleCounterIsExact
      OBVIOUS
  <2>1. \A o \in Orders : inflight[o] = 0
    BY OrdersApart DEF Init
  <2>2. Queried = {}
    BY <2>1 DEF Queried
  <2> QED
    BY <2>1, <2>2, FS_EmptySet DEF Init, StaleCounterIsExact, Queried
<1>2. TypeOK /\ StaleCounterIsExact /\ [Next]_vars => StaleCounterIsExact'
  BY NextCounts
<1> QED
  BY <1>1, <1>2, TypeCorrect, PTL DEF Spec

-----------------------------------------------------------------------------
(* Answers on their way *)

(* A request not yet sent will have something to query. *)
HasSomethingToQuery ==
  /\ "stale_orders" \in pending => details # {}
  /\ "trades" \in pending => Symbols # {}

(* What is requested for a stage, or for lost orders, has something to query. *)
LEMMA StreamTimerRequests ==
  ASSUME TypeOK, HasSomethingToQuery, NEW poll, NEW check, StreamTimer(poll, check)
  PROVE  HasSomethingToQuery'
<1> DEFINE lost == IF Complete /\ state = "open_orders" THEN details \union stale ELSE details
           next == IF Complete THEN After(state, lost) ELSE state
           found == next = "DONE" /\ check /\ ~(stale \subseteq lost)
           requested == (IF Complete THEN {next} \ {"DONE"} ELSE {})
                        \union (IF next = "DONE" /\ poll THEN {"balances"} ELSE {})
                        \union Wanted(found)
<1>1. /\ details' = IF found THEN lost \union stale ELSE lost
      /\ pending' \subseteq pending \union requested
  BY DEF StreamTimer, Request
<1>2. details \subseteq lost /\ lost \subseteq details'
  BY <1>1
<1>3. "stale_orders" \in requested => details' # {}
  <2>1. CASE Complete /\ next = "stale_orders"
    <3>1. state = "open_orders" /\ lost # {}
      BY <2>1 DEF After
    <3> QED
      BY <3>1, <1>2
  <2>2. CASE found
    BY <2>2, <1>1
  <2>3. CASE ~(Complete /\ next = "stale_orders") /\ ~found
    BY <2>3 DEF Wanted
  <2> QED
    BY <2>1, <2>2, <2>3
<1>4. "trades" \in requested => Symbols # {}
  <2>1. CASE Complete /\ next = "trades"
    BY <2>1 DEF After
  <2>2. CASE ~(Complete /\ next = "trades")
    BY <2>2 DEF Wanted
  <2> QED
    BY <2>1, <2>2
<1> HIDE DEF lost, next, found, requested
<1> QED
  BY <1>1, <1>2, <1>3, <1>4 DEF HasSomethingToQuery

(* The latches whose answers a web socket may lose with the connection. *)
LostWithSocket == IF OrderEntry = "WebSocket" THEN {"balances", "positions"} ELSE {}

(* An outstanding latch has an answer coming, but for those of a web socket *)
(* and the trades RestTrade does not query.                                 *)
OnlySocketHangs ==
  /\ \A l \in (outstanding \intersect Queries) \ LostWithSocket : inflight[l] > 0
  /\ "stale_orders" \in outstanding => \E o \in Orders : inflight[o] > 0
  /\ "trades" \in outstanding =>
       OrderEntry = "WebSocket" \/ \E s \in Symbols : inflight[s] > 0

AnswerInv == StaleCounterIsExact /\ HasSomethingToQuery /\ OnlySocketHangs

(* A connection's timer sends at least one query for a latch, unless it is  *)
(* that of the trades beside a web socket.                                  *)
LEMMA TimerSends ==
  ASSUME TypeOK, HasSomethingToQuery, NEW c \in Connections, Timer(c)
  PROVE  HasSomethingToQuery' /\ OnlySocketHangs'
<1>1. PICK l \in Latches :
        /\ l \in pending
        /\ pending' = pending \ {l}
        /\ outstanding' = {l}
        /\ inflight' = [q \in Queries |-> IF q \in QueriesOf(l) THEN inflight[q] + 1 ELSE inflight[q]]
        /\ details' = IF l = "stale_orders" THEN {} ELSE details
  BY DEF Timer, FirstPending
<1>2. HasSomethingToQuery'
  BY <1>1 DEF HasSomethingToQuery
<1>3. \A q \in Queries : q \in QueriesOf(l) => inflight'[q] > 0
  BY <1>1 DEF TypeOK
<1>4. CASE l = "stale_orders"
  <2>1. \E o \in Orders : o \in QueriesOf(l)
    BY <1>1, <1>4 DEF HasSomethingToQuery, QueriesOf, TypeOK
  <2>2. l \notin Queries
    BY <1>4, QueriesAreDistinct DEF Queries, Snapshots, Latches
  <2> QED
    BY <1>1, <1>2, <1>3, <1>4, <2>1, <2>2, OrdersApart DEF OnlySocketHangs
<1>5. CASE l = "trades"
  <2>1. OrderEntry = "WebSocket" \/ \E s \in Symbols : s \in QueriesOf(l) /\ s \in Queries
    BY <1>1, <1>5 DEF HasSomethingToQuery, QueriesOf, Queries
  <2>2. l \notin Queries
    BY <1>5, QueriesAreDistinct DEF Queries, Snapshots, Latches
  <2> QED
    BY <1>1, <1>2, <1>3, <1>5, <2>1, <2>2 DEF OnlySocketHangs
<1>6. CASE l \notin {"stale_orders", "trades"}
  <2>1. l \in Queries /\ l \in QueriesOf(l)
    BY <1>6 DEF QueriesOf, Queries, Snapshots, Latches
  <2> QED
    BY <1>1, <1>2, <1>3, <1>6, <2>1 DEF OnlySocketHangs
<1> QED
  BY <1>4, <1>5, <1>6

(* An answer takes back only its own query and latch. *)
LEMMA AnswerCommits ==
  ASSUME TypeOK, OnlySocketHangs, NEW q \in Queries, NEW l \in Latches,
         Answered(q), outstanding' = outstanding \ {l},
         \/ q = l
         \/ q \in Symbols /\ l = "trades"
  PROVE  OnlySocketHangs'
<1>1. \A p \in Queries : p # q => inflight'[p] = inflight[p]
  BY DEF Answered, TypeOK
<1>2. \A o \in Orders : o # q /\ o \in Queries
  BY OrdersApart
<1>3. \A s \in Symbols : q = l => s # q
  BY QueriesAreDistinct
<1>4. \A s \in Symbols : s \in Queries
  BY DEF Queries
<1>5. \A m \in Latches : q \in Symbols => m # q
  BY QueriesAreDistinct
<1> QED
  BY <1>1, <1>2, <1>3, <1>4, <1>5 DEF OnlySocketHangs, TypeOK

(* The answer for an order leaves another in flight unless it commits. *)
LEMMA OrderAckCommits ==
  ASSUME TypeOK, StaleCounterIsExact, OnlySocketHangs, NEW o \in Orders, OrderAck(o)
  PROVE  OnlySocketHangs'
<1>1. counter' = Cardinality(Queried') /\ IsFiniteSet(Queried')
  BY OrderAckCounts
<1>2. \A p \in Queries : p # o => inflight'[p] = inflight[p]
  BY DEF OrderAck, Answered, TypeOK
<1>3. \A s \in Symbols : s # o /\ s \in Queries
  BY QueriesAreDistinct DEF Queries
<1>4. \A m \in Latches : m # o
  BY OrdersApart
<1>5. outstanding' \subseteq outstanding
  BY DEF OrderAck, Commit
<1>6. "stale_orders" \in outstanding' => \E p \in Orders : inflight'[p] > 0
  <2>1. "stale_orders" \in outstanding' => counter' # 0
    BY DEF OrderAck, Commit
  <2>2. counter' # 0 => Queried' # {}
    BY <1>1, FS_EmptySet
  <2> QED
    BY <2>1, <2>2 DEF Queried
<1> QED
  BY <1>2, <1>3, <1>4, <1>5, <1>6 DEF OnlySocketHangs, TypeOK

(* Every step keeps answers coming. *)
LEMMA NextAnswers == TypeOK /\ AnswerInv /\ [Next]_vars => AnswerInv'
<1> SUFFICES ASSUME TypeOK, AnswerInv, [Next]_vars
             PROVE  HasSomethingToQuery' /\ OnlySocketHangs'
    BY NextCounts DEF AnswerInv
<1> USE DEF AnswerInv
<1>1. CASE StreamReady
  BY <1>1 DEF StreamReady, Request, HasSomethingToQuery, OnlySocketHangs
<1>2. CASE StreamDisconnected
  BY <1>2 DEF StreamDisconnected, latches, HasSomethingToQuery, OnlySocketHangs
<1>3. ASSUME NEW poll \in BOOLEAN, NEW check \in BOOLEAN, StreamTimer(poll, check)
      PROVE  HasSomethingToQuery' /\ OnlySocketHangs'
  <2>1. OnlySocketHangs'
    BY <1>3 DEF StreamTimer, OnlySocketHangs
  <2> QED
    BY <1>3, <2>1, StreamTimerRequests
<1>4. ASSUME NEW c \in Connections, Connected(c)
      PROVE  HasSomethingToQuery' /\ OnlySocketHangs'
  BY <1>4 DEF Connected, latches, HasSomethingToQuery, OnlySocketHangs
<1>5. ASSUME NEW c \in Connections, Disconnected(c)
      PROVE  HasSomethingToQuery' /\ OnlySocketHangs'
  <2>1. \A q \in Queries \ LostWithSocket : inflight'[q] = inflight[q]
    BY <1>5 DEF Disconnected, Connections, LostWithSocket, TypeOK
  <2>2. \A q \in Orders \union Symbols : q \in Queries \ LostWithSocket
    BY QueriesAreDistinct DEF Queries, Latches, LostWithSocket
  <2> QED
    BY <1>5, <2>1, <2>2 DEF Disconnected, latches, HasSomethingToQuery, OnlySocketHangs
<1>6. ASSUME NEW c \in Connections, Timer(c)
      PROVE  HasSomethingToQuery' /\ OnlySocketHangs'
  BY <1>6, TimerSends
<1>7. ASSUME NEW q \in (Snapshots \union {"positions_pm"}) \ {"open_orders"}, AccountAck(q)
      PROVE  HasSomethingToQuery' /\ OnlySocketHangs'
  <2>1. q \in Queries /\ q \in Latches
    BY DEF Queries, Snapshots, Latches
  <2> QED
    BY <1>7, <2>1, AnswerCommits DEF AccountAck, Commit, HasSomethingToQuery
<1>8. ASSUME NEW open \in SUBSET Orders, OpenOrdersAck(open)
      PROVE  HasSomethingToQuery' /\ OnlySocketHangs'
  <2>1. "open_orders" \in Queries /\ "open_orders" \in Latches
    BY DEF Queries, Snapshots, Latches
  <2> QED
    BY <1>8, <2>1, AnswerCommits DEF OpenOrdersAck, Commit, HasSomethingToQuery
<1>9. ASSUME NEW s \in Symbols, TradesAck(s)
      PROVE  HasSomethingToQuery' /\ OnlySocketHangs'
  <2>1. s \in Queries /\ "trades" \in Latches
    BY DEF Queries, Latches
  <2> QED
    BY <1>9, <2>1, AnswerCommits DEF TradesAck, Commit, HasSomethingToQuery
<1>10. ASSUME NEW o \in Orders, OrderAck(o)
       PROVE  HasSomethingToQuery' /\ OnlySocketHangs'
  BY <1>10, OrderAckCommits DEF OrderAck, HasSomethingToQuery
<1>11. ASSUME NEW o \in Orders, LoseTrack(o)
       PROVE  HasSomethingToQuery' /\ OnlySocketHangs'
  BY <1>11 DEF LoseTrack, latches, HasSomethingToQuery, OnlySocketHangs
<1>12. CASE UNCHANGED vars
  BY <1>12 DEF vars, HasSomethingToQuery, OnlySocketHangs
<1> QED
  BY <1>1, <1>2, <1>3, <1>4, <1>5, <1>6, <1>7, <1>8, <1>9, <1>10, <1>11, <1>12 DEF Next

(* Whatever the class of the connection, a latch can be left outstanding    *)
(* without an answer in two ways only: the balances or positions of a web   *)
(* socket, whose answer was lost with the connection (web_socket.cpp:268),  *)
(* and the trades, whose query RestTrade has disabled.                      *)
THEOREM OnlySocketHangsSafe == Spec => []OnlySocketHangs
<1>1. Init => HasSomethingToQuery /\ OnlySocketHangs
  BY DEF Init, HasSomethingToQuery, OnlySocketHangs
<1>2. Init /\ StaleCounterIsExact => AnswerInv
  BY <1>1 DEF AnswerInv
<1>3. TypeOK /\ AnswerInv /\ [Next]_vars => AnswerInv'
  BY NextAnswers
<1>4. AnswerInv => OnlySocketHangs
  BY DEF AnswerInv
<1> QED
  BY <1>2, <1>3, <1>4, TypeCorrect, StaleCounterSafe, PTL DEF Spec

(* Without a web socket no latch is ever left outstanding without an answer *)
(* on its way, so none can block the account.                               *)
THEOREM AnswerIsComingSafe ==
  ASSUME OrderEntry # "WebSocket"
  PROVE  Spec => []AnswerIsComing
<1>1. OnlySocketHangs => AnswerIsComing
  BY DEF OnlySocketHangs, AnswerIsComing, LostWithSocket
<1> QED
  BY <1>1, OnlySocketHangsSafe, PTL

-----------------------------------------------------------------------------
(* Fresh snapshots *)

(* A stage's latch is requested, in flight or committed on this stream; the *)
(* stages before it are committed.                                          *)
FreshInv ==
  /\ asked \ fresh \subseteq outstanding
  /\ state \in Latches => state \in pending \union asked
  /\ state \notin {"UNDEFINED", "balances"} => "balances" \in fresh
  /\ state \notin {"UNDEFINED", "balances", "positions"} => "positions" \in fresh
  /\ state \in {"stale_orders", "trades", "DONE"} => "open_orders" \in fresh

(* A stage is complete only when its latch is committed on this stream.     *)
LEMMA CompleteIsFresh ==
  ASSUME FreshInv, Complete
  PROVE  state \in fresh
BY DEF FreshInv, Complete, HasResponse

(* The timer of the stream enters a stage with a request of its own.        *)
LEMMA StreamTimerFresh ==
  ASSUME TypeOK, FreshInv, Merges = FALSE, NEW poll, NEW check, StreamTimer(poll, check)
  PROVE  FreshInv'
<1> DEFINE lost == IF Complete /\ state = "open_orders" THEN details \union stale ELSE details
           next == IF Complete THEN After(state, lost) ELSE state
<1>1. /\ state' = next
      /\ pending \subseteq pending'
      /\ Complete => {next} \ {"DONE"} \subseteq pending'
      /\ UNCHANGED <<outstanding, asked, fresh>>
  BY DEF StreamTimer, Request
<1>2. CASE Complete
  <2>1. state \in fresh /\ state \in Latches
    BY <1>2, CompleteIsFresh DEF Complete
  <2>2. next \in States \ {"UNDEFINED", "balances"}
    BY <1>2 DEF After, States, Latches
  <2>3. state' \in Latches => state' \in pending'
    BY <1>1, <1>2 DEF Latches
  <2>4. next = "positions" => state = "balances"
    BY <1>2, <2>1 DEF After, Latches
  <2>5. next \in {"positions_pm", "open_orders"} => state \in {"positions", "positions_pm"}
    BY <1>2, <2>1 DEF After, Latches
  <2>6. next \in {"stale_orders", "trades", "DONE"} => state \in {"open_orders", "stale_orders", "trades"}
    BY <1>2, <2>1 DEF After, Latches
  <2> HIDE DEF next
  <2> QED
    BY <1>1, <2>1, <2>2, <2>3, <2>4, <2>5, <2>6 DEF FreshInv, States, Latches
<1>3. CASE ~Complete
  BY <1>1, <1>3 DEF FreshInv
<1> QED
  BY <1>2, <1>3

(* An answer commits what was asked. *)
LEMMA CommitFresh ==
  ASSUME FreshInv, NEW l, Commit(l), UNCHANGED <<state, pending, asked>>
  PROVE  FreshInv'
BY DEF FreshInv, Commit

(* Every step keeps the stages in order. *)
LEMMA NextFresh ==
  ASSUME Merges = FALSE
  PROVE  TypeOK /\ FreshInv /\ [Next]_vars => FreshInv'
<1> SUFFICES ASSUME TypeOK, FreshInv, [Next]_vars
             PROVE  FreshInv'
    OBVIOUS
<1>1. CASE StreamReady
  BY <1>1 DEF StreamReady, Request, FreshInv, Latches
<1>2. CASE StreamDisconnected
  BY <1>2 DEF StreamDisconnected, latches, FreshInv, Latches
<1>3. ASSUME NEW poll \in BOOLEAN, NEW check \in BOOLEAN, StreamTimer(poll, check)
      PROVE  FreshInv'
  BY <1>3, StreamTimerFresh
<1>4. ASSUME NEW c \in Connections, Connected(c)
      PROVE  FreshInv'
  BY <1>4 DEF Connected, latches, FreshInv
<1>5. ASSUME NEW c \in Connections, Disconnected(c)
      PROVE  FreshInv'
  BY <1>5 DEF Disconnected, latches, FreshInv
<1>6. ASSUME NEW c \in Connections, Timer(c)
      PROVE  FreshInv'
  <2>1. PICK l \in Latches :
          /\ pending' = pending \ {l}
          /\ outstanding' = {l}
          /\ asked' = asked \union {l}
    BY <1>6 DEF Timer
  <2>2. outstanding = {} /\ UNCHANGED <<state, fresh>>
    BY <1>6 DEF Timer
  <2> QED
    BY <2>1, <2>2 DEF FreshInv
<1>7. ASSUME NEW q \in (Snapshots \union {"positions_pm"}) \ {"open_orders"}, AccountAck(q)
      PROVE  FreshInv'
  BY <1>7, CommitFresh DEF AccountAck
<1>8. ASSUME NEW open \in SUBSET Orders, OpenOrdersAck(open)
      PROVE  FreshInv'
  BY <1>8, CommitFresh DEF OpenOrdersAck
<1>9. ASSUME NEW s \in Symbols, TradesAck(s)
      PROVE  FreshInv'
  BY <1>9, CommitFresh DEF TradesAck
<1>10. ASSUME NEW o \in Orders, OrderAck(o)
       PROVE  FreshInv'
  <2>1. CASE UNCHANGED <<outstanding, fresh>>
    BY <1>10, <2>1 DEF OrderAck, FreshInv
  <2>2. CASE Commit("stale_orders")
    BY <1>10, <2>2, CommitFresh DEF OrderAck
  <2> QED
    BY <1>10, <2>1, <2>2 DEF OrderAck
<1>11. ASSUME NEW o \in Orders, LoseTrack(o)
       PROVE  FreshInv'
  BY <1>11 DEF LoseTrack, latches, FreshInv
<1>12. CASE UNCHANGED vars
  BY <1>12 DEF vars, FreshInv
<1> QED
  BY <1>1, <1>2, <1>3, <1>4, <1>5, <1>6, <1>7, <1>8, <1>9, <1>10, <1>11, <1>12 DEF Next

(* Where a request made while one is in flight is remembered, READY means   *)
(* that every snapshot was queried after the user stream connected.         *)
THEOREM SnapshotIsFreshSafe ==
  ASSUME Merges = FALSE
  PROVE  Spec => []SnapshotIsFresh
<1>1. Init => FreshInv
  BY DEF Init, FreshInv, Latches
<1>2. TypeOK /\ FreshInv /\ [Next]_vars => FreshInv'
  BY NextFresh
<1>3. FreshInv => SnapshotIsFresh
  BY DEF FreshInv, SnapshotIsFresh, Snapshots
<1> QED
  BY <1>1, <1>2, <1>3, TypeCorrect, PTL DEF Spec

-----------------------------------------------------------------------------
(* Downloads that do not complete *)

(* A latch is outstanding and no query is in flight that could commit it. *)
Blocked ==
  /\ outstanding # {}
  /\ \A q \in Queries : inflight[q] = 0

(* The stage of the download waits for its latch. *)
StageWaits ==
  /\ state # "DONE"
  /\ state \in Latches => state \in pending \union outstanding

(* Nothing is sent or answered while the account is blocked. *)
LEMMA BlockedStep ==
  ASSUME TypeOK, Blocked, [Next]_vars
  PROVE  /\ Blocked'
         /\ outstanding' = outstanding
         /\ pending \subseteq pending'
<1> USE DEF Blocked
<1>1. CASE StreamReady
  BY <1>1 DEF StreamReady, Request
<1>2. CASE StreamDisconnected
  BY <1>2 DEF StreamDisconnected, latches
<1>3. ASSUME NEW poll \in BOOLEAN, NEW check \in BOOLEAN, StreamTimer(poll, check)
      PROVE  UNCHANGED <<inflight, outstanding>> /\ pending \subseteq pending'
  BY <1>3 DEF StreamTimer, Request
<1>4. ASSUME NEW c \in Connections, Connected(c) \/ Disconnected(c) \/ Timer(c)
      PROVE  Blocked' /\ outstanding' = outstanding /\ pending' = pending
  <2>1. \A q \in Queries : inflight'[q] = 0
    BY <1>4 DEF Connected, Disconnected, Timer, TypeOK
  <2> QED
    BY <1>4, <2>1 DEF Connected, Disconnected, Timer, latches
<1>5. ASSUME NEW q \in Queries PROVE ~Answered(q)
  BY DEF Answered
<1>6. /\ \A q \in (Snapshots \union {"positions_pm"}) \ {"open_orders"} : ~AccountAck(q)
      /\ \A open \in SUBSET Orders : ~OpenOrdersAck(open)
      /\ \A s \in Symbols : ~TradesAck(s)
      /\ \A o \in Orders : ~OrderAck(o)
  BY <1>5 DEF AccountAck, OpenOrdersAck, TradesAck, OrderAck, Queries, Snapshots
<1>7. ASSUME NEW o \in Orders, LoseTrack(o)
      PROVE  UNCHANGED <<inflight, latches>>
  BY <1>7 DEF LoseTrack
<1>8. CASE UNCHANGED vars
  BY <1>8 DEF vars
<1> QED
  BY <1>1, <1>2, <1>3, <1>4, <1>6, <1>7, <1>8 DEF Next, latches

(* A download begun while the account is blocked stays in its first stage.  *)
LEMMA StageWaitsStep ==
  ASSUME TypeOK, Blocked, StageWaits, [Next]_vars
  PROVE  StageWaits'
<1> USE DEF StageWaits
<1>1. outstanding' = outstanding /\ pending \subseteq pending'
  BY BlockedStep
<1>2. CASE StreamReady
  BY <1>2 DEF StreamReady, Request
<1>3. CASE StreamDisconnected
  BY <1>3 DEF StreamDisconnected, Latches
<1>4. ASSUME NEW poll \in BOOLEAN, NEW check \in BOOLEAN, StreamTimer(poll, check)
      PROVE  state' = state
  BY <1>4 DEF StreamTimer, Complete, HasResponse
<1>5. CASE ~StreamReady /\ ~StreamDisconnected
  <2>1. state' = state
    BY <1>4, <1>5 DEF Next, Connected, Disconnected, Timer, AccountAck, OpenOrdersAck, TradesAck,
       OrderAck, LoseTrack, vars
  <2> QED
    BY <1>1, <2>1
<1> QED
  BY <1>2, <1>3, <1>5

(* Once the answer to the outstanding latch is lost the account is blocked  *)
(* for as long as the process lives, and a download that begins after it    *)
(* never completes (web_socket.cpp:262 leaves the latches as they are).     *)
THEOREM LostAnswerBlocks ==
  Spec => [](Blocked => /\ []Blocked
                        /\ state = "UNDEFINED" => [](state # "DONE"))
<1>1. TypeOK /\ Blocked /\ [Next]_vars => Blocked'
  BY BlockedStep
<1>2. TypeOK /\ Blocked /\ StageWaits /\ [Next]_vars => StageWaits'
  BY StageWaitsStep
<1>3. state = "UNDEFINED" => StageWaits
  BY DEF StageWaits, Latches
<1>4. StageWaits => state # "DONE"
  BY DEF StageWaits
<1> QED
  BY <1>1, <1>2, <1>3, <1>4, TypeCorrect, PTL DEF Spec

(* A Portfolio account never leaves the first stage of its download: its    *)
(* timer looks at the latches only when READY (drop_copy_portfolio.cpp:133).*)
THEOREM PortfolioNeverCompletes ==
  ASSUME OrderEntry = "OrderEntryPortfolio"
  PROVE  Spec => [](state \in {"UNDEFINED", "balances"})
<1> DEFINE FirstStage == state \in {"UNDEFINED", "balances"}
<1>1. Init => FirstStage
  BY DEF Init
<1>2. FirstStage /\ [Next]_vars => FirstStage'
  <2> SUFFICES ASSUME FirstStage, [Next]_vars PROVE FirstStage'
    OBVIOUS
  <2>1. ASSUME NEW poll \in BOOLEAN, NEW check \in BOOLEAN, StreamTimer(poll, check)
        PROVE  state' = state
    BY <2>1 DEF StreamTimer, Complete, MarginPortfolio
  <2>2. CASE StreamReady \/ StreamDisconnected
    BY <2>2 DEF StreamReady, StreamDisconnected
  <2>3. CASE ~StreamReady /\ ~StreamDisconnected
    BY <2>1, <2>3 DEF Next, Connected, Disconnected, Timer, AccountAck, OpenOrdersAck, TradesAck,
       OrderAck, LoseTrack, vars
  <2> QED
    BY <2>2, <2>3
<1> QED
  BY <1>1, <1>2, PTL DEF Spec

(* The trades of an account with the WebSocket API are never answered: no   *)
(* query is sent for them.                                                  *)
TradesWait ==
  /\ \A s \in Symbols : inflight[s] = 0
  /\ state # "DONE"
  /\ state = "trades" => "trades" \in pending \union outstanding

LEMMA TradesWaitStep ==
  ASSUME OrderEntry = "WebSocket", Symbols # {}, TypeOK, TradesWait, [Next]_vars
  PROVE  TradesWait'
<1> USE DEF TradesWait
<1>1. \A s \in Symbols : s \in Queries /\ s \notin Orders /\ s \notin Latches
  BY QueriesAreDistinct DEF Queries
<1>2. CASE StreamReady
  BY <1>2 DEF StreamReady, Request
<1>3. CASE StreamDisconnected
  BY <1>3 DEF StreamDisconnected, latches
<1>4. ASSUME NEW poll \in BOOLEAN, NEW check \in BOOLEAN, StreamTimer(poll, check)
      PROVE  TradesWait'
  <2> DEFINE lost == IF Complete /\ state = "open_orders" THEN details \union stale ELSE details
             next == IF Complete THEN After(state, lost) ELSE state
  <2>1. /\ state' = next
        /\ pending \subseteq pending'
        /\ Complete => {next} \ {"DONE"} \subseteq pending' \union outstanding'
        /\ UNCHANGED <<outstanding, inflight>>
    BY <1>4 DEF StreamTimer, Request
  <2>2. CASE Complete
    <3>1. state \in Latches \ {"trades"}
      BY <2>2 DEF Complete, HasResponse
    <3>2. next # "DONE"
      BY <2>2, <3>1 DEF After, Latches
    <3> HIDE DEF next
    <3> QED
      BY <2>1, <2>2, <3>2
  <2>3. CASE ~Complete
    BY <2>1, <2>3
  <2> QED
    BY <2>2, <2>3
<1>5. ASSUME NEW c \in Connections, Connected(c)
      PROVE  TradesWait'
  BY <1>5 DEF Connected, latches
<1>6. ASSUME NEW c \in Connections, Disconnected(c)
      PROVE  TradesWait'
  <2>1. \A s \in Symbols : inflight'[s] = inflight[s]
    BY <1>1, <1>6 DEF Disconnected, TypeOK, Latches
  <2> QED
    BY <1>6, <2>1 DEF Disconnected, latches
<1>7. ASSUME NEW c \in Connections, Timer(c)
      PROVE  TradesWait'
  <2>1. PICK l \in Latches :
          /\ pending' = pending \ {l}
          /\ outstanding' = {l}
          /\ inflight' = [q \in Queries |-> IF q \in QueriesOf(l) THEN inflight[q] + 1 ELSE inflight[q]]
    BY <1>7 DEF Timer
  <2>2. outstanding = {} /\ UNCHANGED state
    BY <1>7 DEF Timer
  <2>3. \A s \in Symbols : s \notin QueriesOf(l)
    BY <1>1 DEF QueriesOf, TypeOK
  <2> QED
    BY <1>1, <2>1, <2>2, <2>3
<1>8. ASSUME NEW q \in Queries, Answered(q)
      PROVE  \A s \in Symbols : inflight'[s] = 0
  BY <1>1, <1>8 DEF Answered, TypeOK
<1>9. ASSUME NEW l, l # "trades", Commit(l), UNCHANGED <<state, pending>>
      PROVE  /\ state' # "DONE"
             /\ state' = "trades" => "trades" \in pending' \union outstanding'
  BY <1>9 DEF Commit
<1>10. ASSUME NEW q \in (Snapshots \union {"positions_pm"}) \ {"open_orders"}, AccountAck(q)
       PROVE  TradesWait'
  <2>1. q \in Queries /\ q # "trades"
    BY DEF Queries, Snapshots
  <2> QED
    BY <1>8, <1>9, <1>10, <2>1 DEF AccountAck
<1>11. ASSUME NEW open \in SUBSET Orders, OpenOrdersAck(open)
       PROVE  TradesWait'
  <2>1. "open_orders" \in Queries
    BY DEF Queries, Snapshots
  <2> QED
    BY <1>8, <1>9, <1>11, <2>1 DEF OpenOrdersAck
<1>12. ASSUME NEW s \in Symbols
       PROVE  ~TradesAck(s)
  BY DEF TradesAck, Answered
<1>13. ASSUME NEW o \in Orders, OrderAck(o)
       PROVE  TradesWait'
  <2>1. \A s \in Symbols : inflight'[s] = 0
    BY <1>8, <1>13 DEF OrderAck, Queries
  <2>2. CASE Commit("stale_orders")
    BY <1>9, <1>13, <2>1, <2>2 DEF OrderAck
  <2>3. CASE UNCHANGED <<outstanding, fresh>>
    BY <1>13, <2>1, <2>3 DEF OrderAck
  <2> QED
    BY <1>13, <2>2, <2>3 DEF OrderAck
<1>14. ASSUME NEW o \in Orders, LoseTrack(o)
       PROVE  TradesWait'
  BY <1>14 DEF LoseTrack, latches
<1>15. CASE UNCHANGED vars
  BY <1>15 DEF vars
<1> QED
  BY <1>2, <1>3, <1>4, <1>5, <1>6, <1>7, <1>10, <1>11, <1>12, <1>13, <1>14, <1>15 DEF Next

(* With the WebSocket API a download that includes the trades of any symbol *)
(* never completes: RestTrade has disabled their query (rest_trade.cpp:544) *)
(* but not the stage that waits for it (drop_copy_classic.cpp:271), so the  *)
(* account is never READY, whatever the connections and the exchange do.    *)
THEOREM SocketTradesNeverComplete ==
  ASSUME OrderEntry = "WebSocket", Symbols # {}
  PROVE  Spec => [](state # "DONE")
<1>1. Init => TradesWait
  BY DEF Init, TradesWait, Queries
<1>2. TypeOK /\ TradesWait /\ [Next]_vars => TradesWait'
  BY TradesWaitStep
<1>3. TradesWait => state # "DONE"
  BY DEF TradesWait
<1> QED
  BY <1>1, <1>2, <1>3, TypeCorrect, PTL DEF Spec

-----------------------------------------------------------------------------
(* Lost orders *)

(* The lost orders that were noted wait for a request not yet sent.         *)
NotedIsAsked == details # {} => "stale_orders" \in pending

LEMMA StreamTimerAsks ==
  ASSUME Merges = FALSE, NotedIsAsked, NEW poll, NEW check, StreamTimer(poll, check)
  PROVE  NotedIsAsked'
<1> DEFINE lost == IF Complete /\ state = "open_orders" THEN details \union stale ELSE details
           next == IF Complete THEN After(state, lost) ELSE state
           found == next = "DONE" /\ check /\ ~(stale \subseteq lost)
           requested == (IF Complete THEN {next} \ {"DONE"} ELSE {})
                        \union (IF next = "DONE" /\ poll THEN {"balances"} ELSE {})
                        \union Wanted(found)
<1>1. /\ details' = IF found THEN lost \union stale ELSE lost
      /\ pending' = pending \union requested
  BY DEF StreamTimer, Request
<1>2. CASE found
  <2>1. "stale_orders" \in requested
    BY <1>2 DEF Wanted
  <2> HIDE DEF requested
  <2>2. "stale_orders" \in pending'
    BY <1>1, <2>1
  <2> QED
    BY <2>2 DEF NotedIsAsked
<1>3. CASE ~found /\ Complete /\ state = "open_orders"
  <2>1. lost # {} => next = "stale_orders"
    BY <1>3 DEF After
  <2>2. lost # {} => "stale_orders" \in requested
    BY <1>3, <2>1
  <2> QED
    BY <1>1, <1>3, <2>2 DEF NotedIsAsked
<1>4. CASE ~found /\ ~(Complete /\ state = "open_orders")
  <2>1. details' = details
    BY <1>1, <1>4
  <2> QED
    BY <1>1, <2>1 DEF NotedIsAsked
<1> QED
  BY <1>2, <1>3, <1>4

(* check_stale_orders does not ask again for an order that is already in    *)
(* details_stale_orders (drop_copy_classic.cpp:649): that loses none, as a  *)
(* request is always pending while an order is noted, also for one that is  *)
(* noted while the queries of an earlier round are in flight.  So the stage *)
(* of the stale orders never ends with one left, and the "Unexpected" of    *)
(* drop_copy_classic.cpp:630 is not reached.  It needs a                    *)
(* core::limit::Request that remembers a request made while one is in       *)
(* flight (Merges = FALSE), and is false without.                           *)
THEOREM LostOrderIsAsked ==
  ASSUME Merges = FALSE
  PROVE  Spec => []NotedIsAsked
<1>1. Init => NotedIsAsked
  BY DEF Init, NotedIsAsked
<1>2. NotedIsAsked /\ [Next]_vars => NotedIsAsked'
  <2> SUFFICES ASSUME NotedIsAsked, [Next]_vars PROVE NotedIsAsked'
    OBVIOUS
  <2>1. CASE StreamReady
    BY <2>1 DEF StreamReady, Request, NotedIsAsked
  <2>2. CASE StreamDisconnected
    BY <2>2 DEF StreamDisconnected, latches, NotedIsAsked
  <2>3. ASSUME NEW poll \in BOOLEAN, NEW check \in BOOLEAN, StreamTimer(poll, check)
        PROVE  NotedIsAsked'
    BY <2>3, StreamTimerAsks
  <2>4. ASSUME NEW c \in Connections, Connected(c) \/ Disconnected(c)
        PROVE  NotedIsAsked'
    BY <2>4 DEF Connected, Disconnected, latches, NotedIsAsked
  <2>5. ASSUME NEW c \in Connections, Timer(c)
        PROVE  NotedIsAsked'
    BY <2>5 DEF Timer, NotedIsAsked
  <2>6. ASSUME NEW q, AccountAck(q) \/ TradesAck(q)
        PROVE  NotedIsAsked'
    BY <2>6 DEF AccountAck, TradesAck, NotedIsAsked
  <2>7. ASSUME NEW open, OpenOrdersAck(open)
        PROVE  NotedIsAsked'
    BY <2>7 DEF OpenOrdersAck, NotedIsAsked
  <2>8. ASSUME NEW o, OrderAck(o) \/ LoseTrack(o)
        PROVE  NotedIsAsked'
    BY <2>8 DEF OrderAck, LoseTrack, latches, NotedIsAsked
  <2>9. CASE UNCHANGED vars
    BY <2>9 DEF vars, latches, NotedIsAsked
  <2> QED
    BY <2>1, <2>2, <2>3, <2>4, <2>5, <2>6, <2>7, <2>8, <2>9 DEF Next
<1> QED
  BY <1>1, <1>2, PTL DEF Spec

===============================================================================
