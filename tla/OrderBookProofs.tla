----------------------------- MODULE OrderBookProofs -----------------------------
(***************************************************************************)
(* Proofs about OrderBook, for any streams, ids and number of faults.      *)
(***************************************************************************)
EXTENDS OrderBook, TLAPS

-----------------------------------------------------------------------------
(* Lemmas about events *)

(* The ids of an event are ids of the exchange. *)
LEMMA EventIds ==
  ASSUME NEW n \in Events
  PROVE  /\ n \in Ids /\ n >= 1
         /\ FinalId(n) \in Ids
         /\ PreviousId(n) \in Ids
         /\ PreviousId(n) = FinalId(n) - 2
         /\ Changes(n) \subseteq Ids
BY OrderBookAssumption DEF Events, Ids, FinalId, PreviousId, Changes

(* Every id is one of the two of its event. *)
LEMMA EventOf ==
  ASSUME NEW x \in Nat, x >= 1
  PROVE  \E e \in Nat : e >= 1 /\ (x = 2 * e \/ x = 2 * e - 1)
<1> DEFINE e == (x + 1) \div 2
<1>1. e \in Nat /\ e >= 1 /\ (x = 2 * e \/ x = 2 * e - 1)
  BY SMT
<1> QED
  BY <1>1

-----------------------------------------------------------------------------
(* Type correctness *)

(* What the sequencer, the book and the queue are after a step. *)
SequencerTypeOK ==
  /\ synced \in BOOLEAN
  /\ last \in Ids
  /\ buffer \subseteq Events
  /\ image \subseteq Ids
  /\ asked \in BOOLEAN
  /\ book \in [changes : SUBSET Ids, sequence : Ids]
  /\ queue \in Nat

LEMMA ResubscribeType ==
  ASSUME SequencerTypeOK, Resubscribe
  PROVE  SequencerTypeOK'
<1>1. queue' \in Nat
  BY DEF SequencerTypeOK, Resubscribe, Request
<1>2. last' \in Ids
  BY OrderBookAssumption DEF Resubscribe, Ids
<1>3. synced' \in BOOLEAN /\ asked' \in BOOLEAN
  BY DEF Resubscribe
<1> QED
  BY <1>1, <1>2, <1>3 DEF SequencerTypeOK, Resubscribe

(* A snapshot is held, discarded or published. *)
LEMMA ResolveType ==
  ASSUME SequencerTypeOK, NEW s \in Ids, NEW events \in SUBSET Events, Resolve(s, events)
  PROVE  SequencerTypeOK'
<1>1. CASE Hold(s, events)
  BY <1>1 DEF Hold, SequencerTypeOK
<1>2. CASE TooOld(s, events)
  <2>1. CASE /\ buffer' = events
             /\ image' = {}
             /\ asked' = TRUE
             /\ Request
             /\ UNCHANGED <<synced, last, book>>
    <3>1. queue' \in Nat
      BY <2>1 DEF SequencerTypeOK, Request
    <3> QED
      BY <2>1, <3>1 DEF SequencerTypeOK
  <2> QED
    BY <1>2, <2>1, ResubscribeType DEF TooOld
<1>3. CASE Synchronise(s, events)
  <2>1. PICK m \in events :
          /\ synced' = TRUE
          /\ last' = FinalId(m)
          /\ buffer' = {} /\ image' = {} /\ asked' = FALSE
          /\ PublishSnapshot(s, events)
          /\ queue' = queue
    BY <1>3 DEF Synchronise
  <2>2. last' \in Ids
    BY <2>1, EventIds
  <2>3. 1..s \subseteq Ids
    BY OrderBookAssumption DEF Ids
  <2>4. UNION {Changes(n) : n \in {m_1 \in events : FinalId(m_1) > s}} \subseteq Ids
    BY EventIds
  <2>5. book' \in [changes : SUBSET Ids, sequence : Ids]
    BY <2>1, <2>2, <2>3, <2>4 DEF PublishSnapshot
  <2> QED
    BY <2>1, <2>2, <2>5 DEF SequencerTypeOK
<1> QED
  BY <1>1, <1>2, <1>3 DEF Resolve

(* An event goes to clients, to the buffer or clears the sequencer. *)
LEMMA SequenceType ==
  ASSUME SequencerTypeOK, NEW n \in Events, Sequence(n)
  PROVE  SequencerTypeOK'
<1>1. FinalId(n) \in Ids /\ Changes(n) \subseteq Ids
  BY EventIds
<1>2. CASE synced /\ SyncedUpdate(n)
  <2>1. CASE PublishUpdate(n) /\ last' = FinalId(n) /\ UNCHANGED <<synced, buffer, image, asked, queue>>
    BY <1>1, <2>1 DEF SequencerTypeOK, PublishUpdate
  <2>2. CASE UNCHANGED <<sequencer, book, queue>>
    BY <2>2 DEF SequencerTypeOK, sequencer
  <2> QED
    BY <1>2, <2>1, <2>2, ResubscribeType DEF SyncedUpdate
<1>3. CASE ~synced /\ UnsyncedUpdate(n)
  <2>1. buffer \union {n} \in SUBSET Events
    BY DEF SequencerTypeOK
  <2>2. CASE Collect(buffer \union {n})
    BY <2>1, <2>2 DEF Collect, SequencerTypeOK, Request
  <2>3. CASE \E s \in image : Resolve(s, buffer \union {n})
    BY <2>1, <2>3, ResolveType DEF SequencerTypeOK
  <2> QED
    BY <1>3, <2>2, <2>3, ResubscribeType DEF UnsyncedUpdate
<1> QED
  BY <1>2, <1>3 DEF Sequence

(* The event a stream delivers next is one of the bound. *)
LEMMA NextEvent ==
  ASSUME TypeOK, NEW st \in Streams, FinalId(position[st] + 1) <= issued
  PROVE  position[st] + 1 \in Events
<1>1. position[st] \in Nat /\ issued \in Nat /\ issued <= MaxId /\ MaxId \in Nat
  BY OrderBookAssumption DEF TypeOK, Ids
<1>2. 2 * (position[st] + 1) <= MaxId
  BY <1>1 DEF FinalId
<1>3. position[st] + 1 \in Ids /\ position[st] + 1 > 0
  BY <1>1, <1>2 DEF Ids
<1> QED
  BY <1>2, <1>3 DEF Events

LEMMA FaultType ==
  ASSUME TypeOK, Fault
  PROVE  faults' \in 0..MaxFaults
BY OrderBookAssumption DEF TypeOK, Fault

(* Variables have their types: in particular no request is sent that is     *)
(* not in the queue and no answer used twice (rest.cpp).                    *)
THEOREM TypeCorrect == Spec => []TypeOK
<1>1. Init => TypeOK
  <2> SUFFICES ASSUME Init PROVE TypeOK
    OBVIOUS
  <2>1. 0 \in Ids /\ 0 \in 0..MaxFaults /\ 0 \in Nat
    BY OrderBookAssumption DEF Ids
  <2> QED
    BY <2>1 DEF Init, TypeOK
<1>2. TypeOK /\ [Next]_vars => TypeOK'
  <2> SUFFICES ASSUME TypeOK, [Next]_vars PROVE TypeOK'
    OBVIOUS
  <2> USE OrderBookAssumption
  <2>1. SequencerTypeOK
    BY DEF TypeOK, SequencerTypeOK
  <2>2. SequencerTypeOK' /\ UNCHANGED <<issued, stream, rest, faults>> => TypeOK'
    BY DEF TypeOK, SequencerTypeOK, stream, rest
  <2>3. CASE Change
    BY <2>3 DEF Change, TypeOK, stream, sequencer, rest, Ids
  <2>4. CASE AnswerDepth
    BY <2>4 DEF AnswerDepth, TypeOK, stream, sequencer
  <2>5. CASE Timeout
    BY <2>5, FaultType DEF Timeout, TypeOK, stream, rest
  <2>6. ASSUME NEW st \in Streams, StreamReady(st)
        PROVE  TypeOK'
    <3>1. issued \div 2 \in Ids
      BY DEF TypeOK, Ids
    <3> QED
      BY <2>6, <3>1 DEF StreamReady, TypeOK, sequencer, rest
  <2>7. ASSUME NEW st \in Streams, StreamDisconnected(st)
        PROVE  TypeOK'
    <3>1. 0 \in Ids
      BY DEF Ids
    <3> QED
      BY <2>7, <3>1 DEF StreamDisconnected, Fault, TypeOK, sequencer, rest
  <2>8. ASSUME NEW st \in Streams, DepthUpdate(st)
        PROVE  TypeOK'
    <3> DEFINE n == position[st] + 1
    <3>1. n \in Events
      BY <2>8, NextEvent DEF DepthUpdate
    <3>2. n \in Ids /\ FinalId(n) \in Ids
      BY <3>1, EventIds
    <3> HIDE DEF n
    <3>3. /\ position' = [position EXCEPT ![st] = n]
          /\ received' = received \union {n}
          /\ UNCHANGED <<issued, ready, rest, faults>>
      BY <2>8 DEF DepthUpdate, n
    <3>4. SequencerTypeOK' /\ mbp_last_update_id' \in Ids
      <4>1. CASE UNCHANGED <<mbp_last_update_id, sequencer, book, queue>>
        BY <2>1, <4>1 DEF SequencerTypeOK, sequencer, TypeOK
      <4>2. CASE mbp_last_update_id' = FinalId(n) /\ Sequence(n)
        BY <2>1, <3>1, <3>2, <4>2, SequenceType
      <4> QED
        BY <2>8, <4>1, <4>2 DEF DepthUpdate, n
    <3> QED
      BY <3>1, <3>2, <3>3, <3>4 DEF TypeOK, SequencerTypeOK, rest
  <2>9. CASE RestReady
    BY <2>9 DEF RestReady, TypeOK, stream, sequencer
  <2>10. CASE RestDisconnected
    BY <2>10, FaultType DEF RestDisconnected, TypeOK, stream, sequencer
  <2>11. CASE RestTimer
    BY <2>11 DEF RestTimer, TypeOK, stream, sequencer
  <2>12. ASSUME NEW s \in Ids, DepthAck(s)
         PROVE  TypeOK'
    <3>1. SequencerTypeOK'
      <4>1. CASE UNCHANGED <<sequencer, book, queue>>
        BY <2>1, <4>1 DEF SequencerTypeOK, sequencer
      <4>2. CASE Resolve(s, buffer)
        BY <2>1, <4>2, ResolveType DEF SequencerTypeOK
      <4> QED
        BY <2>12, <4>1, <4>2 DEF DepthAck
    <3>2. answers' \in [Ids -> Nat]
      BY <2>12 DEF DepthAck, TypeOK
    <3> QED
      BY <2>12, <3>1, <3>2 DEF DepthAck, TypeOK, SequencerTypeOK, stream
  <2>13. CASE DepthAckFailed
    BY <2>13 DEF DepthAckFailed, Fault, TypeOK, stream, sequencer
  <2>14. CASE UNCHANGED vars
    BY <2>14 DEF vars, TypeOK, stream, sequencer, rest
  <2> QED
    BY <2>3, <2>4, <2>5, <2>6, <2>7, <2>8, <2>9, <2>10, <2>11, <2>12, <2>13, <2>14 DEF Next
<1> QED
  BY <1>1, <1>2, PTL DEF Spec

-----------------------------------------------------------------------------
(* The book *)

(* The buffer has no gaps and ends with the event mbp_update saw last. *)
Collected(events, id) ==
  /\ \A a, b \in events : \A k \in Nat : a <= k /\ k <= b => k \in events
  /\ events # {} => /\ \A n \in events : FinalId(n) <= id
                    /\ \E n \in events : FinalId(n) = id

(* The inductive invariant: a sequencer that is synced has published, and   *)
(* one that is not has collected, up to the event mbp_update saw last.      *)
BookInv ==
  /\ BookIsExact
  /\ synced => /\ last = book.sequence
               /\ last = mbp_last_update_id
               /\ \E k \in Nat : last = 2 * k
               /\ buffer = {}
  /\ Collected(buffer, mbp_last_update_id)

(* An event that is not older than the buffer and fits it extends it. *)
LEMMA CollectedNext ==
  ASSUME NEW events \in SUBSET Events, NEW id \in Ids, Collected(events, id),
         NEW n \in Events, FinalId(n) >= id,
         events = {} \/ n \in events \/ n - 1 \in events
  PROVE  Collected(events \union {n}, FinalId(n))
<1>1. n \in Nat /\ FinalId(n) \in Nat /\ id \in Nat
  BY EventIds DEF Ids
<1>2. \A m \in events : m \in Nat /\ FinalId(m) <= FinalId(n) /\ m <= n
  <2> TAKE m \in events
  <2>1. m \in Nat /\ FinalId(m) \in Nat
    BY EventIds DEF Ids
  <2>2. FinalId(m) <= id
    BY DEF Collected
  <2> QED
    BY <1>1, <2>1, <2>2 DEF FinalId
<1>3. ASSUME NEW a \in events \union {n}, NEW b \in events \union {n}, NEW k \in Nat, a <= k, k <= b
      PROVE  k \in events \union {n}
  <2>1. CASE a \in events /\ b \in events
    BY <1>3, <2>1 DEF Collected
  <2>2. CASE a = n
    <3>1. k = n
      BY <1>1, <1>2, <1>3, <2>2
    <3> QED
      BY <3>1
  <2>3. CASE a \in events /\ b = n
    <3>1. CASE k = n
      BY <3>1
    <3>2. CASE k # n
      <4>1. n \in events \/ (n - 1 \in events /\ k <= n - 1)
        BY <1>1, <1>3, <2>3, <3>2
      <4> QED
        BY <1>3, <2>3, <4>1 DEF Collected
    <3> QED
      BY <3>1, <3>2
  <2> QED
    BY <2>1, <2>2, <2>3
<1>4. /\ \A m \in events \union {n} : FinalId(m) <= FinalId(n)
      /\ \E m \in events \union {n} : FinalId(m) = FinalId(n)
  BY <1>1, <1>2
<1> QED
  BY <1>3, <1>4 DEF Collected

(* publish_snapshot: a snapshot and the events after it are the book at the *)
(* final id of the last one, if the events have no gaps and the first of    *)
(* them is not after the snapshot.                                          *)
LEMMA SnapshotIsExact ==
  ASSUME NEW s \in Ids, NEW events \in SUBSET Events, NEW id \in Ids, Collected(events, id),
         NEW m \in events, FinalId(m) >= s, \A n \in events : n <= m,
         NEW n0 \in events, PreviousId(n0) <= s
  PROVE  1..s \union UNION {Changes(n) : n \in {n_1 \in events : FinalId(n_1) > s}} = 1..FinalId(m)
<1> DEFINE after == {n_1 \in events : FinalId(n_1) > s}
<1>1. /\ s \in Nat
      /\ \A n \in events : n \in Nat /\ n >= 1
  BY EventIds DEF Ids
<1>2. ASSUME NEW x \in 1..s
      PROVE  x \in 1..FinalId(m)
  BY <1>1 DEF FinalId
<1>3. ASSUME NEW n \in after, NEW x \in Changes(n)
      PROVE  x \in 1..FinalId(m)
  BY <1>1 DEF FinalId, Changes
<1>4. ASSUME NEW x \in 1..FinalId(m), ~(x \in 1..s)
      PROVE  \E n \in after : x \in Changes(n)
  <2>1. x \in Nat /\ x >= 1 /\ x > s /\ x <= 2 * m /\ m \in Nat
    BY <1>1, <1>4 DEF FinalId
  <2>2. PICK e \in Nat : e >= 1 /\ (x = 2 * e \/ x = 2 * e - 1)
    BY <2>1, EventOf
  <2>3. n0 \in Nat /\ 2 * n0 - 2 <= s
    BY <1>1 DEF PreviousId
  <2>4. n0 <= e /\ e <= m
    BY <1>1, <2>1, <2>2, <2>3
  <2>5. e \in events
    BY <2>2, <2>4 DEF Collected
  <2>6. FinalId(e) > s
    BY <1>1, <2>1, <2>2 DEF FinalId
  <2>7. x \in Changes(e)
    BY <2>2 DEF Changes
  <2> QED
    BY <2>5, <2>6, <2>7
<1> HIDE DEF after
<1>5. \A x : x \in UNION {Changes(n) : n \in after} <=> \E n \in after : x \in Changes(n)
  OBVIOUS
<1>6. 1..s \union UNION {Changes(n) : n \in after} = 1..FinalId(m)
  BY <1>2, <1>3, <1>4, <1>5
<1> QED
  BY <1>6 DEF after

(* BadState: the book is left as it is. *)
LEMMA ResubscribeInv ==
  ASSUME BookIsExact, Resubscribe
  PROVE  BookInv' /\ ~synced'
BY DEF BookIsExact, Resubscribe, BookInv, Collected

(* A snapshot meets the events collected. *)
LEMMA ResolveInv ==
  ASSUME SequencerTypeOK, BookIsExact, ~synced, mbp_last_update_id' \in Ids,
         NEW s \in Ids, NEW events \in SUBSET Events,
         Collected(events, mbp_last_update_id'), Resolve(s, events)
  PROVE  BookInv'
<1>1. CASE UNCHANGED <<synced, last, book>> /\ buffer' = events
  BY <1>1 DEF BookInv, BookIsExact
<1>2. CASE Synchronise(s, events)
  <2>1. PICK m \in events :
          /\ FinalId(m) >= s
          /\ \A n \in events : n <= m
          /\ \E n \in events : PreviousId(n) <= s
          /\ synced' = TRUE
          /\ last' = FinalId(m)
          /\ buffer' = {}
          /\ PublishSnapshot(s, events)
    BY <1>2 DEF Synchronise
  <2>2. PICK n0 \in events : PreviousId(n0) <= s
    BY <2>1
  <2>3. 1..s \union UNION {Changes(n) : n \in {n_1 \in events : FinalId(n_1) > s}} = 1..FinalId(m)
    BY <2>1, <2>2, SnapshotIsExact
  <2>4. book' = [changes |-> 1..FinalId(m), sequence |-> FinalId(m)]
    BY <2>1, <2>3 DEF PublishSnapshot
  <2>5. m \in Nat
    BY EventIds DEF Ids
  <2>6. FinalId(m) = mbp_last_update_id'
    <3>1. PICK n \in events : FinalId(n) = mbp_last_update_id'
      BY DEF Collected
    <3>2. FinalId(m) <= mbp_last_update_id' /\ n <= m /\ n \in Nat
      BY <2>1, EventIds DEF Collected, Ids
    <3> QED
      BY <2>5, <3>1, <3>2 DEF FinalId
  <2>7. \E k \in Nat : last' = 2 * k
    BY <2>1, <2>5 DEF FinalId
  <2>8. BookIsExact' /\ last' = book'.sequence
    BY <2>1, <2>4 DEF BookIsExact
  <2>9. Collected({}, mbp_last_update_id')
    BY DEF Collected
  <2> QED
    BY <2>1, <2>6, <2>7, <2>8, <2>9 DEF BookInv
<1>3. CASE Resubscribe
  BY <1>3, ResubscribeInv
<1> QED
  BY <1>1, <1>2, <1>3 DEF Resolve, Hold, TooOld

(* An event that is not stale. *)
LEMMA SequenceInv ==
  ASSUME SequencerTypeOK, BookInv, mbp_last_update_id \in Ids,
         NEW n \in Events, ~Stale(n), mbp_last_update_id' = FinalId(n), Sequence(n)
  PROVE  BookInv'
<1>1. /\ n \in Nat /\ n >= 1 /\ FinalId(n) \in Ids /\ FinalId(n) \in Nat
      /\ mbp_last_update_id \in Nat
      /\ FinalId(n) >= mbp_last_update_id
  BY EventIds DEF Ids, Stale
<1>2. BookIsExact
  BY DEF BookInv
<1>3. CASE synced /\ SyncedUpdate(n)
  <2>1. last = book.sequence /\ last \in Nat
    BY <1>3 DEF BookInv, SequencerTypeOK, Ids
  <2>2. CASE /\ PreviousId(n) = last /\ last' = FinalId(n) /\ PublishUpdate(n)
             /\ UNCHANGED <<synced, buffer, image, asked, queue>>
    <3>1. 1..last \union Changes(n) = 1..FinalId(n)
      BY <1>1, <2>1, <2>2 DEF PreviousId, FinalId, Changes
    <3>2. BookIsExact' /\ last' = book'.sequence
      BY <1>2, <2>1, <2>2, <3>1 DEF BookIsExact, PublishUpdate
    <3>3. \E k \in Nat : last' = 2 * k
      BY <1>1, <2>2 DEF FinalId
    <3>4. Collected(buffer', mbp_last_update_id')
      BY <1>3, <2>2 DEF BookInv, Collected
    <3> QED
      BY <1>3, <2>2, <3>2, <3>3, <3>4 DEF BookInv
  <2>3. CASE FinalId(n) = last /\ UNCHANGED <<sequencer, book, queue>>
    <3>1. mbp_last_update_id' = mbp_last_update_id
      BY <1>3, <2>3 DEF BookInv
    <3> QED
      BY <2>3, <3>1 DEF BookInv, BookIsExact, sequencer
  <2> QED
    BY <1>2, <1>3, <2>2, <2>3, ResubscribeInv DEF SyncedUpdate
<1>4. CASE ~synced /\ UnsyncedUpdate(n)
  <2>1. CASE Resubscribe
    BY <1>2, <2>1, ResubscribeInv
  <2>2. CASE buffer = {} \/ n \in buffer \/ n - 1 \in buffer
    <3>1. buffer \union {n} \in SUBSET Events
      BY DEF SequencerTypeOK
    <3>2. Collected(buffer \union {n}, mbp_last_update_id')
      BY <1>1, <2>2, CollectedNext DEF SequencerTypeOK, BookInv
    <3>3. CASE Collect(buffer \union {n})
      BY <1>2, <1>4, <3>2, <3>3 DEF Collect, BookInv, BookIsExact
    <3>4. CASE \E s \in image : Resolve(s, buffer \union {n})
      BY <1>1, <1>2, <1>4, <3>1, <3>2, <3>4, ResolveInv DEF SequencerTypeOK
    <3> QED
      BY <1>4, <2>2, <3>3, <3>4 DEF UnsyncedUpdate
  <2> QED
    BY <1>4, <2>1, <2>2 DEF UnsyncedUpdate
<1> QED
  BY <1>3, <1>4 DEF Sequence

LEMMA BookInvInductive == Spec => [](TypeOK /\ BookInv)
<1>1. Init => BookInv
  <2> SUFFICES ASSUME Init PROVE BookInv
    OBVIOUS
  <2>1. 1..0 = {}
    OBVIOUS
  <2> QED
    BY <2>1 DEF Init, BookInv, BookIsExact, Collected
<1>2. TypeOK /\ TypeOK' /\ BookInv /\ [Next]_vars => BookInv'
  <2> SUFFICES ASSUME TypeOK, TypeOK', BookInv, [Next]_vars PROVE BookInv'
    OBVIOUS
  <2>1. SequencerTypeOK
    BY DEF TypeOK, SequencerTypeOK
  <2>2. UNCHANGED <<synced, last, buffer, book, mbp_last_update_id>> => BookInv'
    BY DEF BookInv, BookIsExact
  <2>3. ASSUME NEW st \in Streams, DepthUpdate(st)
        PROVE  BookInv'
    <3> DEFINE n == position[st] + 1
    <3>1. n \in Events
      BY <2>3, NextEvent DEF DepthUpdate
    <3> HIDE DEF n
    <3>2. CASE UNCHANGED <<mbp_last_update_id, sequencer, book, queue>>
      BY <2>2, <3>2 DEF sequencer
    <3>3. CASE ~Stale(n) /\ mbp_last_update_id' = FinalId(n) /\ Sequence(n)
      BY <2>1, <3>1, <3>3, SequenceInv DEF TypeOK
    <3> QED
      BY <2>3, <3>2, <3>3 DEF DepthUpdate, n
  <2>4. ASSUME NEW s \in Ids, DepthAck(s)
        PROVE  BookInv'
    <3>1. CASE UNCHANGED <<sequencer, book, queue>>
      BY <2>2, <2>4, <3>1 DEF DepthAck, sequencer, stream
    <3>2. CASE ~synced /\ Resolve(s, buffer)
      <4>1. mbp_last_update_id' = mbp_last_update_id
        BY <2>4 DEF DepthAck, stream
      <4> QED
        BY <2>1, <3>2, <4>1, ResolveInv DEF BookInv, TypeOK
    <3> QED
      BY <2>4, <3>1, <3>2 DEF DepthAck
  <2>5. CASE \/ Change \/ AnswerDepth \/ RestReady \/ RestDisconnected \/ RestTimer
             \/ DepthAckFailed
    BY <2>2, <2>5 DEF Change, AnswerDepth, RestReady, RestDisconnected, RestTimer,
                      DepthAckFailed, stream, sequencer
  <2>6. CASE Timeout
    BY <2>2, <2>6 DEF Timeout, stream
  <2>7. CASE \E st \in Streams : StreamReady(st) \/ StreamDisconnected(st)
    BY <2>2, <2>7 DEF StreamReady, StreamDisconnected, sequencer
  <2>8. CASE UNCHANGED vars
    BY <2>2, <2>8 DEF vars, stream, sequencer
  <2> QED
    BY <2>3, <2>4, <2>5, <2>6, <2>7, <2>8 DEF Next
<1> QED
  BY <1>1, <1>2, TypeCorrect, PTL DEF Spec

(* What clients see is the book of the exchange at the sequence number      *)
(* published, after any losses, duplicates and late snapshots               *)
(* (market_data.cpp, rest.cpp: publish_update and publish_snapshot).        *)
THEOREM BookIsExactSafe == Spec => []BookIsExact
<1>1. BookInv => BookIsExact
  BY DEF BookInv
<1> QED
  BY <1>1, BookInvInductive, PTL

-----------------------------------------------------------------------------
(* Resynchronisation *)

(* mbp_update has seen every event delivered, or a later one. *)
ReceivedInv == \A n \in received : FinalId(n) <= mbp_last_update_id

LEMMA ReceivedInvInductive == Spec => []ReceivedInv
<1>1. Init => ReceivedInv
  BY DEF Init, ReceivedInv
<1>2. TypeOK /\ ReceivedInv /\ [Next]_vars => ReceivedInv'
  <2> SUFFICES ASSUME TypeOK, ReceivedInv, [Next]_vars PROVE ReceivedInv'
    OBVIOUS
  <2>1. UNCHANGED <<received, mbp_last_update_id>> => ReceivedInv'
    BY DEF ReceivedInv
  <2>2. ASSUME NEW st \in Streams, DepthUpdate(st)
        PROVE  ReceivedInv'
    <3> DEFINE n == position[st] + 1
    <3>1. n \in Events
      BY <2>2, NextEvent DEF DepthUpdate
    <3>2. FinalId(n) \in Nat /\ mbp_last_update_id \in Nat
      BY <3>1, EventIds DEF Ids, TypeOK
    <3> HIDE DEF n
    <3>3. mbp_last_update_id' >= mbp_last_update_id /\ mbp_last_update_id' >= FinalId(n) /\ mbp_last_update_id' \in Nat
      BY <2>2, <3>2 DEF DepthUpdate, Stale, n
    <3>4. \A k \in received : FinalId(k) \in Nat
      BY EventIds DEF TypeOK, Ids
    <3>5. received' = received \union {n}
      BY <2>2 DEF DepthUpdate, n
    <3> QED
      BY <3>2, <3>3, <3>4, <3>5 DEF ReceivedInv
  <2> QED
    BY <2>1, <2>2 DEF Next, Change, AnswerDepth, Timeout, StreamReady, StreamDisconnected, RestReady,
         RestDisconnected, RestTimer, DepthAck, DepthAckFailed, vars, stream
<1> QED
  BY <1>1, <1>2, TypeCorrect, PTL DEF Spec

(* One stream masks the gaps of the other: the sequencer is cleared only if *)
(* an event was delivered by neither (Instrument::mbp_update).              *)
THEOREM NoNeedlessResyncHolds == Spec => NoNeedlessResync
<1> DEFINE Gap == \E n \in Events \ received' : FinalId(n) > last /\ FinalId(n) < mbp_last_update_id'
<1>1. TypeOK /\ BookInv /\ ReceivedInv /\ [Next]_vars => [synced /\ ~synced' => Gap]_vars
  <2> SUFFICES ASSUME TypeOK, BookInv, ReceivedInv, [Next]_vars, synced, ~synced' PROVE Gap
    OBVIOUS
  <2>1. PICK st \in Streams : DepthUpdate(st)
    BY DEF Next, Change, AnswerDepth, Timeout, StreamReady, StreamDisconnected, RestReady,
         RestDisconnected, RestTimer, DepthAck, DepthAckFailed, vars, sequencer
  <2> DEFINE n == position[st] + 1
  <2>2. n \in Events
    BY <2>1, NextEvent DEF DepthUpdate
  <2>3. n \in Nat /\ FinalId(n) \in Nat /\ 2 * n <= MaxId
    BY <2>2 DEF Events, Ids, FinalId
  <2> HIDE DEF n
  <2>4. /\ ~Stale(n)
        /\ mbp_last_update_id' = FinalId(n)
        /\ received' = received \union {n}
        /\ Sequence(n)
    BY <2>1 DEF DepthUpdate, sequencer, n
  <2>5. PreviousId(n) # last /\ FinalId(n) # last
    BY <2>4 DEF Sequence, SyncedUpdate, sequencer
  <2>6. PICK k \in Nat : last = 2 * k
    BY DEF BookInv
  <2>7. last = mbp_last_update_id
    BY DEF BookInv
  <2>8. k + 1 < n
    BY <2>3, <2>4, <2>5, <2>6, <2>7 DEF Stale, FinalId, PreviousId
  <2>9. k + 1 \in Events
    BY <2>3, <2>8, OrderBookAssumption DEF Events, Ids
  <2>10. k + 1 \notin received'
    BY <2>3, <2>4, <2>6, <2>7, <2>8 DEF ReceivedInv, FinalId
  <2>11. FinalId(k + 1) > last /\ FinalId(k + 1) < mbp_last_update_id'
    BY <2>3, <2>4, <2>6, <2>8 DEF FinalId
  <2> QED
    BY <2>9, <2>10, <2>11
<1> QED
  BY <1>1, BookInvInductive, ReceivedInvInductive, PTL DEF Spec, NoNeedlessResync

-----------------------------------------------------------------------------
(* Requests *)

(* A request is queued, at the exchange, answered or failed, or a snapshot  *)
(* is held.                                                                 *)
Coming ==
  \/ queue + pending > 0 \/ \E s \in Ids : answers[s] > 0
  \/ image # {}
  \/ failed

(* What the sequencer remembers of its requests is true as well. *)
RequestInv ==
  /\ synced => ~asked
  /\ asked \/ (mbp_last_update_id > 0 /\ ~synced) => Coming

(* Whatever the sequencer does with an event, a snapshot is coming after it *)
(* or the sequencer is synced and wants none; the same for a snapshot.        *)
LEMMA ResolveComing ==
  ASSUME TypeOK, ~synced, UNCHANGED <<pending, failed>>, NEW s \in Ids, NEW events \in SUBSET Events,
         Resolve(s, events)
  PROVE  (Coming' /\ ~synced') \/ (synced' /\ ~asked')
<1>1. queue \in Nat /\ pending \in Nat
  BY DEF TypeOK
<1>2. Request => Coming'
  BY <1>1 DEF Request, Coming
<1>3. Hold(s, events) => Coming'
  BY DEF Hold, Coming
<1>4. TooOld(s, events) => Request /\ ~synced'
  BY DEF TooOld, Resubscribe
<1>5. Hold(s, events) => ~synced'
  BY DEF Hold
<1>6. Synchronise(s, events) => synced' /\ ~asked'
  BY DEF Synchronise
<1> QED
  BY <1>2, <1>3, <1>4, <1>5, <1>6 DEF Resolve

LEMMA SequenceComing ==
  ASSUME TypeOK, RequestInv, UNCHANGED <<pending, answers, failed>>, NEW n \in Events, Sequence(n)
  PROVE  (Coming' /\ ~synced') \/ (synced' /\ ~asked')
<1>1. queue \in Nat /\ pending \in Nat
  BY DEF TypeOK
<1>2. Request => Coming'
  BY <1>1 DEF Request, Coming
<1>3. CASE synced /\ SyncedUpdate(n)
  <2>1. CASE UNCHANGED <<synced, asked>>
    BY <1>3, <2>1 DEF RequestInv
  <2> QED
    BY <1>2, <1>3, <2>1 DEF SyncedUpdate, sequencer, Resubscribe
<1>4. CASE ~synced /\ UnsyncedUpdate(n)
  <2>1. CASE image = {} /\ Collect(buffer \union {n})
    <3>1. CASE asked
      BY <1>4, <2>1, <3>1 DEF RequestInv, Coming, Collect
    <3>2. CASE ~asked
      BY <1>2, <1>4, <2>1, <3>2 DEF Collect
    <3> QED
      BY <3>1, <3>2
  <2>2. CASE \E s \in image : Resolve(s, buffer \union {n})
    <3>1. PICK s \in Ids : Resolve(s, buffer \union {n})
      BY <2>2 DEF TypeOK
    <3>2. buffer \union {n} \in SUBSET Events
      BY DEF TypeOK
    <3> QED
      BY <1>4, <3>1, <3>2, ResolveComing
  <2> QED
    BY <1>2, <1>4, <2>1, <2>2 DEF UnsyncedUpdate, Resubscribe
<1> QED
  BY <1>3, <1>4 DEF Sequence

(* A book that is not synchronised has a snapshot coming, unless one failed *)
(* before (get_depth_ack: "XXX WHAT ???").                                  *)
THEOREM SnapshotIsComingSafe == Spec => []SnapshotIsComing
<1>1. Init => RequestInv
  BY DEF Init, RequestInv
<1>2. TypeOK /\ TypeOK' /\ RequestInv /\ [Next]_vars => RequestInv'
  <2> SUFFICES ASSUME TypeOK, TypeOK', RequestInv, [Next]_vars PROVE RequestInv'
    OBVIOUS
  <2>1. queue \in Nat /\ pending \in Nat /\ answers \in [Ids -> Nat] /\ issued \in Ids
    BY DEF TypeOK
  <2>2. UNCHANGED <<mbp_last_update_id, synced, asked>> /\ (Coming => Coming') => RequestInv'
    BY DEF RequestInv
  <2>3. ASSUME NEW st \in Streams, DepthUpdate(st)
        PROVE  RequestInv'
    <3> DEFINE n == position[st] + 1
    <3>1. n \in Events
      BY <2>3, NextEvent DEF DepthUpdate
    <3> HIDE DEF n
    <3>2. CASE UNCHANGED <<mbp_last_update_id, sequencer, book, queue>>
      BY <2>2, <2>3, <3>2 DEF sequencer, DepthUpdate, rest, Coming
    <3>3. CASE Sequence(n)
      BY <2>3, <3>1, <3>3, SequenceComing DEF DepthUpdate, rest, RequestInv
    <3> QED
      BY <2>3, <3>2, <3>3 DEF DepthUpdate, n
  <2>4. ASSUME NEW s \in Ids, DepthAck(s)
        PROVE  RequestInv'
    <3>1. CASE ~synced /\ Resolve(s, buffer)
      <4>1. buffer \in SUBSET Events
        BY DEF TypeOK
      <4> QED
        BY <2>4, <3>1, <4>1, ResolveComing DEF DepthAck, RequestInv
    <3>2. CASE synced /\ UNCHANGED <<sequencer, book, queue>>
      BY <2>4, <3>2 DEF DepthAck, RequestInv, sequencer, stream
    <3> QED
      BY <2>4, <3>1, <3>2 DEF DepthAck
  <2>5. CASE AnswerDepth
    <3>1. answers'[issued] = answers[issued] + 1 /\ answers[issued] \in Nat
      BY <2>1, <2>5 DEF AnswerDepth
    <3>2. Coming'
      BY <2>1, <3>1, <2>5 DEF Coming, AnswerDepth
    <3> QED
      BY <2>2, <2>5, <3>2 DEF AnswerDepth, stream, sequencer
  <2>6. CASE RestTimer
    <3>1. Coming'
      BY <2>1, <2>6 DEF RestTimer, Coming
    <3> QED
      BY <2>2, <2>6, <3>1 DEF RestTimer, stream, sequencer
  <2>7. CASE DepthAckFailed
    BY <2>2, <2>7 DEF DepthAckFailed, stream, sequencer, Coming
  <2>8. CASE Timeout
    BY <2>8 DEF Timeout, stream, rest, RequestInv, Coming
  <2>9. CASE \/ Change \/ RestReady \/ RestDisconnected
             \/ \E st \in Streams : StreamReady(st) \/ StreamDisconnected(st)
    BY <2>2, <2>9 DEF Change, RestReady, RestDisconnected, StreamReady, StreamDisconnected,
                      stream, sequencer, rest, Coming
  <2>10. CASE UNCHANGED vars
    BY <2>2, <2>10 DEF vars, stream, sequencer, rest, Coming
  <2> QED
    BY <2>3, <2>4, <2>5, <2>6, <2>7, <2>8, <2>9, <2>10 DEF Next
<1>3. RequestInv => SnapshotIsComing
  BY DEF RequestInv, SnapshotIsComing, Coming
<1> QED
  BY <1>1, <1>2, <1>3, TypeCorrect, PTL DEF Spec

-----------------------------------------------------------------------------
(* Refinement: clients see what BookReplica promises. *)

(* What the last event tells of the exchange and of the book: it is a       *)
(* change the exchange has made and, when the sequencer is not synced, one  *)
(* that was never published.                                                *)
TrackInv ==
  /\ mbp_last_update_id <= issued
  /\ ~synced => book.sequence = 0 \/ book.sequence < mbp_last_update_id

(* A snapshot leaves the book alone, or synchronises with an event.         *)
LEMMA ResolveEffect ==
  ASSUME NEW s, NEW events, ~synced, Resolve(s, events)
  PROVE  (~synced' /\ book' = book) \/ (synced' /\ events # {})
<1>1. Hold(s, events) => ~synced' /\ book' = book
  BY DEF Hold
<1>2. TooOld(s, events) => ~synced' /\ book' = book
  BY DEF TooOld, Resubscribe
<1>3. Synchronise(s, events) => synced' /\ events # {}
  BY DEF Synchronise
<1> QED
  BY <1>1, <1>2, <1>3 DEF Resolve

(* An event leaves the book alone, is published, or synchronises it.  The   *)
(* sequencer is cleared only by an event that is not the last one again.    *)
LEMMA SequenceEffect ==
  ASSUME NEW n, Sequence(n)
  PROVE  \/ UNCHANGED <<synced, book>>
         \/ ~synced' /\ book' = book /\ (synced => FinalId(n) # last)
         \/ synced' /\ ~synced
         \/ synced' /\ synced /\ last = PreviousId(n) /\ last' = FinalId(n)
<1>1. CASE synced /\ SyncedUpdate(n)
  BY <1>1 DEF SyncedUpdate, Resubscribe, sequencer
<1>2. CASE ~synced /\ UnsyncedUpdate(n)
  <2>1. ASSUME NEW s \in image, Resolve(s, buffer \union {n})
        PROVE  (~synced' /\ book' = book) \/ synced'
    BY <1>2, <2>1, ResolveEffect
  <2> QED
    BY <1>2, <2>1 DEF UnsyncedUpdate, Collect, Resubscribe
<1> QED
  BY <1>1, <1>2 DEF Sequence

(* A step that synchronises the book publishes it with a number that is     *)
(* greater than any before.                                                 *)
LEMMA SynchronisePublishes ==
  ASSUME TypeOK, TypeOK', BookInv', TrackInv, TrackInv',
         issued' = issued, ~synced, synced',
         mbp_last_update_id <= mbp_last_update_id', mbp_last_update_id' > 0
  PROVE  Replica!Publish
<1>1. book'.sequence = mbp_last_update_id' /\ book'.changes = 1..book'.sequence
  BY DEF BookInv, BookIsExact
<1>2. /\ book.sequence \in Nat /\ issued \in Nat
      /\ mbp_last_update_id \in Nat /\ mbp_last_update_id' \in Nat
  BY OrderBookAssumption DEF TypeOK, Ids
<1>3. book.sequence < book'.sequence
  BY <1>1, <1>2 DEF TrackInv
<1>4. book'.sequence \in book.sequence + 1..issued
  BY <1>1, <1>2, <1>3 DEF TrackInv
<1> QED
  BY <1>1, <1>4 DEF Replica!Publish

(* An event of a stream is published, makes the gateway lose track of the   *)
(* book, or changes nothing for clients.                                    *)
LEMMA DepthUpdateReplica ==
  ASSUME TypeOK, TypeOK', BookInv, BookInv', TrackInv, NEW st \in Streams, DepthUpdate(st)
  PROVE  TrackInv' /\ [Replica!Next]_(Replica!vars)
<1> DEFINE n == position[st] + 1
<1>1. n \in Events /\ FinalId(n) <= issued /\ issued' = issued
  BY NextEvent DEF DepthUpdate
<1>2. /\ FinalId(n) \in Nat /\ FinalId(n) > 0 /\ PreviousId(n) = FinalId(n) - 2
      /\ mbp_last_update_id \in Nat /\ book.sequence \in Nat /\ last \in Nat /\ issued \in Nat
      /\ last' \in Nat /\ synced \in BOOLEAN /\ synced' \in BOOLEAN
  <2>1. n \in Nat /\ n >= 1
    BY <1>1, EventIds DEF Ids
  <2>2. FinalId(n) \in Nat /\ FinalId(n) > 0 /\ PreviousId(n) = FinalId(n) - 2
    BY <2>1 DEF FinalId, PreviousId
  <2> QED
    BY <2>2 DEF TypeOK, Ids
<1> HIDE DEF n
<1>3. CASE UNCHANGED <<mbp_last_update_id, sequencer, book, queue>>
  BY <1>1, <1>3 DEF TrackInv, sequencer, Replica!vars
<1>4. CASE ~Stale(n) /\ mbp_last_update_id' = FinalId(n) /\ Sequence(n)
  <2>1. mbp_last_update_id <= mbp_last_update_id' /\ mbp_last_update_id' <= issued'
    BY <1>1, <1>2, <1>4 DEF Stale
  <2>2. synced => last = book.sequence /\ last = mbp_last_update_id
    BY DEF BookInv
  <2>3. CASE UNCHANGED <<synced, book>>
    BY <1>1, <1>2, <1>4, <2>1, <2>3 DEF TrackInv, Replica!vars
  <2>4. CASE ~synced' /\ book' = book /\ (synced => FinalId(n) # last)
    <3>1. TrackInv'
      BY <1>2, <1>4, <2>1, <2>2, <2>4 DEF TrackInv
    <3>2. CASE synced
      BY <1>1, <2>4, <3>1, <3>2 DEF Replica!Next, Replica!LoseTrack
    <3>3. CASE ~synced
      <4>1. synced' = synced
        BY <1>2, <2>4, <3>3
      <4> QED
        BY <1>1, <2>4, <3>1, <4>1 DEF Replica!vars
    <3> QED
      BY <3>2, <3>3
  <2>5. CASE synced' /\ ~synced
    <3>1. TrackInv'
      BY <2>1, <2>5 DEF TrackInv
    <3>2. Replica!Publish
      BY <1>1, <1>2, <1>4, <2>1, <2>5, <3>1, SynchronisePublishes
    <3> QED
      BY <3>1, <3>2 DEF Replica!Next
  <2>6. CASE synced' /\ synced /\ last = PreviousId(n) /\ last' = FinalId(n)
    <3>1. book'.sequence = last' /\ book'.changes = 1..book'.sequence
      BY <2>6 DEF BookInv, BookIsExact
    <3>2. book'.sequence \in book.sequence + 1..issued
      BY <1>1, <1>2, <2>2, <2>6, <3>1
    <3>3. TrackInv'
      BY <2>1, <2>6 DEF TrackInv
    <3> QED
      BY <1>1, <2>6, <3>1, <3>2, <3>3 DEF Replica!Next, Replica!Publish
  <2> QED
    BY <1>4, <2>3, <2>4, <2>5, <2>6, SequenceEffect
<1> QED
  BY <1>3, <1>4 DEF DepthUpdate, n

(* A snapshot synchronises the book, or changes nothing for clients.        *)
LEMMA DepthAckReplica ==
  ASSUME TypeOK, TypeOK', BookInv, BookInv', TrackInv, NEW s \in Ids, DepthAck(s)
  PROVE  TrackInv' /\ [Replica!Next]_(Replica!vars)
<1>1. issued' = issued /\ mbp_last_update_id' = mbp_last_update_id
  BY DEF DepthAck, stream
<1>2. CASE UNCHANGED <<sequencer, book, queue>>
  BY <1>1, <1>2 DEF TrackInv, sequencer, Replica!vars
<1>3. CASE ~synced /\ Resolve(s, buffer)
  <2>1. CASE ~synced' /\ book' = book
    <3>1. synced' = synced
      BY <1>3, <2>1 DEF TypeOK
    <3> QED
      BY <1>1, <2>1, <3>1 DEF TrackInv, Replica!vars
  <2>2. CASE synced' /\ buffer # {}
    <3>1. PICK n \in buffer : FinalId(n) = mbp_last_update_id
      BY <2>2 DEF BookInv, Collected
    <3>2. n \in Nat /\ n >= 1
      <4>1. n \in Events
        BY DEF TypeOK
      <4> QED
        BY <4>1, EventIds DEF Ids
    <3>3. mbp_last_update_id > 0
      BY <3>1, <3>2 DEF FinalId
    <3>4. TrackInv'
      BY <1>1, <2>2 DEF TrackInv
    <3>5. mbp_last_update_id <= mbp_last_update_id'
      BY <1>1 DEF TypeOK, Ids
    <3>6. Replica!Publish
      BY <1>1, <1>3, <2>2, <3>3, <3>4, <3>5, SynchronisePublishes
    <3> QED
      BY <3>4, <3>6 DEF Replica!Next
  <2> QED
    BY <1>3, <2>1, <2>2, ResolveEffect
<1> QED
  BY <1>2, <1>3 DEF DepthAck

(* A step of the system is one of BookReplica, or is not seen.              *)
LEMMA ReplicaStep ==
  ASSUME TypeOK, TypeOK', BookInv, BookInv', TrackInv, [Next]_vars
  PROVE  TrackInv' /\ [Replica!Next]_(Replica!vars)
<1>1. UNCHANGED <<issued, mbp_last_update_id, synced, book>>
        => TrackInv' /\ UNCHANGED Replica!vars
  BY DEF TrackInv, Replica!vars
<1>2. CASE Change
  <2>1. issued \in Nat /\ mbp_last_update_id \in Nat
    BY DEF TypeOK, Ids
  <2>2. TrackInv'
    BY <1>2, <2>1 DEF Change, TrackInv, stream, sequencer
  <2>3. Replica!Change
    BY <1>2 DEF Change, Replica!Change, sequencer
  <2> QED
    BY <2>2, <2>3 DEF Replica!Next
<1>3. ASSUME NEW st \in Streams, DepthUpdate(st)
      PROVE  TrackInv' /\ [Replica!Next]_(Replica!vars)
  BY <1>3, DepthUpdateReplica
<1>4. ASSUME NEW s \in Ids, DepthAck(s)
      PROVE  TrackInv' /\ [Replica!Next]_(Replica!vars)
  BY <1>4, DepthAckReplica
<1>5. CASE AnswerDepth \/ RestReady \/ RestDisconnected \/ RestTimer \/ DepthAckFailed
  BY <1>1, <1>5 DEF AnswerDepth, RestReady, RestDisconnected, RestTimer, DepthAckFailed,
                    stream, sequencer
<1>6. CASE Timeout
  BY <1>1, <1>6 DEF Timeout, stream
<1>7. CASE \E st \in Streams : StreamReady(st) \/ StreamDisconnected(st)
  BY <1>1, <1>7 DEF StreamReady, StreamDisconnected, sequencer
<1>8. CASE UNCHANGED vars
  BY <1>1, <1>8 DEF vars, stream, sequencer
<1> QED
  BY <1>2, <1>3, <1>4, <1>5, <1>6, <1>7, <1>8 DEF Next

(* The steps of ReplicaStep are taken in states with these invariants.      *)
LEMMA TrackInvInductive == Spec => []TrackInv
<1>1. Init => TrackInv
  BY OrderBookAssumption DEF Init, TrackInv
<1>2. TypeOK /\ TypeOK' /\ BookInv /\ BookInv' /\ TrackInv /\ [Next]_vars => TrackInv'
  BY ReplicaStep
<1> QED
  BY <1>1, <1>2, TypeCorrect, BookInvInductive, PTL DEF Spec

(* What clients see of the book of a symbol is what BookReplica promises:   *)
(* exact, and never behind what they have already seen, whatever the        *)
(* streams lose, repeat or deliver late (market_data.cpp, rest.cpp).        *)
THEOREM ImplementsBookReplica == Spec => ReplicaSpec
<1>1. Init => Replica!Init
  BY DEF Init, Replica!Init
<1>2. TypeOK /\ TypeOK' /\ BookInv /\ BookInv' /\ TrackInv /\ [Next]_vars => [Replica!Next]_(Replica!vars)
  BY ReplicaStep
<1> QED
  BY <1>1, <1>2, TypeCorrect, BookInvInductive, TrackInvInductive, PTL
     DEF Spec, ReplicaSpec, Replica!Spec

(* No update is published twice and none after a later one: what changes    *)
(* the book has a greater sequence number, also the snapshot that a         *)
(* resynchronisation publishes (rest.cpp: get_depth_ack).                   *)
THEOREM SequenceAdvances ==
  Spec => [][book' # book => book'.sequence > book.sequence]_vars
<1>1. /\ TypeOK /\ TypeOK' /\ BookInv /\ BookInv' /\ TrackInv /\ [Next]_vars
        => [book' # book => book'.sequence > book.sequence]_vars
  <2> SUFFICES ASSUME TypeOK, TypeOK', BookInv, BookInv', TrackInv, [Next]_vars, book' # book
               PROVE  book'.sequence > book.sequence
    OBVIOUS
  <2>1. /\ book \in [changes : SUBSET Ids, sequence : Ids]
        /\ book' \in [changes : SUBSET Ids, sequence : Ids]
    BY DEF TypeOK
  <2>2. book'.changes # book.changes \/ book'.sequence # book.sequence
    BY <2>1
  <2>3. Replica!Publish
    BY <2>2, ReplicaStep DEF Replica!Next, Replica!Change, Replica!LoseTrack, Replica!vars
  <2>4. book.sequence \in Nat /\ issued \in Nat
    BY DEF TypeOK, Ids
  <2> QED
    BY <2>3, <2>4 DEF Replica!Publish
<1> QED
  BY <1>1, TypeCorrect, BookInvInductive, TrackInvInductive, PTL DEF Spec

================================================================================
