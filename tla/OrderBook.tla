-------------------------------- MODULE OrderBook --------------------------------
(***************************************************************************)
(* The order book of one symbol.                                           *)
(*                                                                         *)
(* The exchange numbers every change of its book and sends, on each stream *)
(* that subscribed, an event for every two of them.  The primary and the   *)
(* secondary MarketData share the Instrument of the symbol: a check of the *)
(* update id, and the sequencer.  The sequencer collects events until Rest *)
(* has downloaded a snapshot they continue, and passes them on from then   *)
(* on; after a gap it is cleared and a new snapshot is requested, through  *)
(* a queue that Rest serves from its timer.                                *)
(*                                                                         *)
(* The sequencer (roq::market::mbp::Sequencer) is external: it may do what *)
(* the handlers are prepared for.  It has one request outstanding at most, *)
(* unless that times out.                                                  *)
(***************************************************************************)
EXTENDS Naturals, FiniteSets

CONSTANTS
  Streams,   \* the MarketData that carry the symbol: primary and secondary
  MaxId,     \* bound: changes of the book
  MaxFaults  \* bound: disconnects, failed and timed-out requests

ASSUME OrderBookAssumption ==
  /\ MaxId \in Nat
  /\ MaxFaults \in Nat

VARIABLES
  issued,      \* the exchange: the id of its last change
  ready,       \* the streams that are READY (and have subscribed)
  position,    \* the last event each of them has delivered
  mbp_last_update_id,  \* of Shared::Instrument
  synced,      \* sequencer: passes events on
  last,        \* sequencer: last_sequence() when it is synced
  buffer,      \* sequencer: events collected when it is not
  image,       \* sequencer: a snapshot that is ahead of the buffer (at most one)
  asked,       \* sequencer: a snapshot is requested
  book,        \* what clients see: the changes applied, and the sequence number published
  queue,       \* Shared::depth_request_queue
  rest_ready,  \* Rest is READY
  pending,     \* depth requests at the exchange
  answers,     \* depth answers on their way, by lastUpdateId
  received,    \* history: events that any stream has delivered
  failed,      \* history: a depth request has failed
  faults

stream == <<ready, position, mbp_last_update_id, received>>
sequencer == <<synced, last, buffer, image, asked>>
rest == <<rest_ready, pending, answers, failed>>
vars == <<issued, stream, sequencer, book, queue, rest, faults>>

-----------------------------------------------------------------------------
(* Helpers *)

Ids == 0..MaxId
Events == {n \in Ids : n > 0 /\ 2 * n <= MaxId}

(* first_update_id - 1, final_update_id and the changes of an event.  The  *)
(* final id of the event before is that of the stream, so is its own.      *)
PreviousId(n) == 2 * n - 2
FinalId(n) == 2 * n
Changes(n) == {2 * n - 1, 2 * n}

TypeOK ==
  /\ issued \in Ids
  /\ ready \subseteq Streams
  /\ position \in [Streams -> Ids]
  /\ mbp_last_update_id \in Ids
  /\ synced \in BOOLEAN
  /\ last \in Ids
  /\ buffer \subseteq Events
  /\ image \subseteq Ids
  /\ asked \in BOOLEAN
  /\ book \in [changes : SUBSET Ids, sequence : Ids]
  /\ queue \in Nat
  /\ rest_ready \in BOOLEAN
  /\ pending \in Nat
  /\ answers \in [Ids -> Nat]
  /\ received \subseteq Events
  /\ failed \in BOOLEAN
  /\ faults \in 0..MaxFaults

Init ==
  /\ issued = 0
  /\ ready = {}
  /\ position = [st \in Streams |-> 0]
  /\ mbp_last_update_id = 0
  /\ synced = FALSE
  /\ last = 0
  /\ buffer = {}
  /\ image = {}
  /\ asked = FALSE
  /\ book = [changes |-> {}, sequence |-> 0]
  /\ queue = 0
  /\ rest_ready = FALSE
  /\ pending = 0
  /\ answers = [s \in Ids |-> 0]
  /\ received = {}
  /\ failed = FALSE
  /\ faults = 0

Fault ==
  /\ faults < MaxFaults
  /\ faults' = faults + 1

-----------------------------------------------------------------------------
(* The callbacks of the sequencer, and the handlers of its exception.  The *)
(* update of the queue is separate: Request adds a symbol to it.           *)

Request == queue' = queue + 1

(* publish_update *)
PublishUpdate(n) == book' = [changes |-> book.changes \union Changes(n), sequence |-> FinalId(n)]

SnapshotWithoutUpdates(s, events) ==  \* mutant
  book' = [changes |-> 1..s, sequence |-> last']

(* publish_snapshot: the snapshot, then (apply_updates) the events after   *)
(* it, published as last_sequence().                                       *)
PublishSnapshot(s, events) ==
  book' = [changes  |-> 1..s \union UNION {Changes(n) : n \in {m \in events : FinalId(m) > s}},
           sequence |-> last']

ResubscribeLater ==  \* mutant
  /\ synced' = FALSE
  /\ last' = 0
  /\ buffer' = {}
  /\ image' = {}
  /\ asked' = FALSE
  /\ UNCHANGED <<book, queue>>

(* BadState: the sequencer is cleared and a snapshot requested. *)
Resubscribe ==
  /\ synced' = FALSE
  /\ last' = 0
  /\ buffer' = {}
  /\ image' = {}
  /\ asked' = FALSE
  /\ Request
  /\ UNCHANGED book

-----------------------------------------------------------------------------
(* The sequencer: external. *)

(* No snapshot yet: request one, unless that is done. *)
Collect(events) ==
  /\ buffer' = events
  /\ image' = {}
  /\ asked' = TRUE
  /\ IF asked THEN UNCHANGED queue ELSE Request
  /\ UNCHANGED <<synced, last, book>>

(* The snapshot is ahead of all events: keep it for the next one. *)
Hold(s, events) ==
  /\ events = {} \/ \A n \in events : FinalId(n) < s
  /\ buffer' = events
  /\ image' = {s}
  /\ asked' = FALSE
  /\ UNCHANGED <<synced, last, book, queue>>

(* It is older than the first event: request another one. *)
TooOld(s, events) ==
  /\ events # {} /\ \A n \in events : PreviousId(n) > s
  /\ \/ /\ buffer' = events
        /\ image' = {}
        /\ asked' = TRUE
        /\ Request
        /\ UNCHANGED <<synced, last, book>>
     \/ Resubscribe

(* The events continue it. *)
Synchronise(s, events) ==
  \E m \in events :
    /\ FinalId(m) >= s
    /\ \A n \in events : n <= m
    /\ \E n \in events : PreviousId(n) <= s
    /\ synced' = TRUE
    /\ last' = FinalId(m)
    /\ buffer' = {}
    /\ image' = {}
    /\ asked' = FALSE
    /\ PublishSnapshot(s, events)
    /\ UNCHANGED queue

Resolve(s, events) == Hold(s, events) \/ TooOld(s, events) \/ Synchronise(s, events)

(* An event of a sequencer that is synced: the next one, a duplicate (of   *)
(* the other stream), or a gap.                                            *)
SyncedUpdate(n) ==
  \/ /\ PreviousId(n) = last
     /\ last' = FinalId(n)
     /\ PublishUpdate(n)
     /\ UNCHANGED <<synced, buffer, image, asked, queue>>
  \/ /\ FinalId(n) = last
     /\ UNCHANGED <<sequencer, book, queue>>
  \/ /\ PreviousId(n) # last
     /\ FinalId(n) # last
     /\ Resubscribe

(* An event of one that is not: the buffer has no gaps. *)
UnsyncedUpdate(n) ==
  IF buffer = {} \/ n \in buffer \/ n - 1 \in buffer
  THEN IF image = {} THEN Collect(buffer \union {n})
       ELSE \E s \in image : Resolve(s, buffer \union {n})
  ELSE Resubscribe

(* sequencer_timeout: the next event may request a snapshot again. *)
Timeout ==
  /\ asked
  /\ Fault
  /\ asked' = FALSE
  /\ UNCHANGED <<issued, stream, synced, last, buffer, image, book, queue, rest>>

-----------------------------------------------------------------------------
(* MarketData *)

StreamReady(st) ==
  /\ st \notin ready
  /\ ready' = ready \union {st}
  /\ position' = [position EXCEPT ![st] = issued \div 2]
  /\ UNCHANGED <<issued, mbp_last_update_id, received, sequencer, book, queue, rest, faults>>

(* What the stream has not delivered is lost. *)
StreamDisconnected(st) ==
  /\ st \in ready
  /\ Fault
  /\ ready' = ready \ {st}
  /\ position' = [position EXCEPT ![st] = 0]
  /\ UNCHANGED <<issued, mbp_last_update_id, received, sequencer, book, queue, rest>>

NeverStale(n) == FALSE  \* mutant

(* Instrument::mbp_update refuses what is older; the same id passes. *)
Stale(n) == FinalId(n) < mbp_last_update_id

Sequence(n) == IF synced THEN SyncedUpdate(n) ELSE UnsyncedUpdate(n)

DepthUpdate(st) ==
  LET n == position[st] + 1 IN
  /\ st \in ready
  /\ FinalId(n) <= issued
  /\ position' = [position EXCEPT ![st] = n]
  /\ received' = received \union {n}
  /\ IF Stale(n)
     THEN UNCHANGED <<mbp_last_update_id, sequencer, book, queue>>
     ELSE /\ mbp_last_update_id' = FinalId(n)
          /\ Sequence(n)
  /\ UNCHANGED <<issued, ready, rest, faults>>

-----------------------------------------------------------------------------
(* Rest *)

RestReady ==
  /\ ~rest_ready
  /\ rest_ready' = TRUE
  /\ UNCHANGED <<issued, stream, sequencer, book, queue, pending, answers, failed, faults>>

RestDisconnectedClears ==  \* mutant
  /\ rest_ready
  /\ Fault
  /\ rest_ready' = FALSE
  /\ queue' = 0
  /\ UNCHANGED <<issued, stream, sequencer, book, pending, answers, failed>>

(* The queue is kept. *)
RestDisconnected ==
  /\ rest_ready
  /\ Fault
  /\ rest_ready' = FALSE
  /\ UNCHANGED <<issued, stream, sequencer, book, queue, pending, answers, failed>>

RestTimerRepeats ==  \* mutant
  /\ rest_ready
  /\ \E n \in 1..queue :
       /\ queue' = queue - n - 1
       /\ pending' = pending + n + 1
  /\ UNCHANGED <<issued, stream, sequencer, book, rest_ready, answers, failed, faults>>

(* Timer: check_request_queue sends what the rate limiter allows. *)
RestTimer ==
  /\ rest_ready
  /\ \E n \in 1..queue :
       /\ queue' = queue - n
       /\ pending' = pending + n
  /\ UNCHANGED <<issued, stream, sequencer, book, rest_ready, answers, failed, faults>>

DepthAckReplaces(s) ==  \* mutant
  /\ answers[s] > 0
  /\ answers' = [answers EXCEPT ![s] = @ - 1]
  /\ IF synced THEN book' = [changes |-> 1..s, sequence |-> s] /\ UNCHANGED <<sequencer, queue>>
     ELSE Resolve(s, buffer)
  /\ UNCHANGED <<issued, stream, rest_ready, pending, failed, faults>>

(* A snapshot is of use only to a sequencer that is not synced. *)
DepthAck(s) ==
  /\ answers[s] > 0
  /\ answers' = [answers EXCEPT ![s] = @ - 1]
  /\ IF synced THEN UNCHANGED <<sequencer, book, queue>> ELSE Resolve(s, buffer)
  /\ UNCHANGED <<issued, stream, rest_ready, pending, failed, faults>>

(* An error of the exchange, or of the connection: it is only logged. *)
DepthAckFailed ==
  /\ pending > 0
  /\ IF rest_ready THEN Fault ELSE UNCHANGED faults
  /\ pending' = pending - 1
  /\ failed' = TRUE
  /\ UNCHANGED <<issued, stream, sequencer, book, queue, rest_ready, answers>>

-----------------------------------------------------------------------------
(* The exchange *)

Change ==
  /\ issued < MaxId
  /\ issued' = issued + 1
  /\ UNCHANGED <<stream, sequencer, book, queue, rest, faults>>

AnswerDepth ==
  /\ pending > 0
  /\ pending' = pending - 1
  /\ answers' = [answers EXCEPT ![issued] = @ + 1]
  /\ UNCHANGED <<issued, stream, sequencer, book, queue, rest_ready, failed, faults>>

-----------------------------------------------------------------------------

Next ==
  \/ Change
  \/ AnswerDepth
  \/ Timeout
  \/ \E st \in Streams : StreamReady(st) \/ StreamDisconnected(st) \/ DepthUpdate(st)
  \/ RestReady
  \/ RestDisconnected
  \/ RestTimer
  \/ \E s \in Ids : DepthAck(s)
  \/ DepthAckFailed

Spec == Init /\ [][Next]_vars

(***************************************************************************)
(* Rest reconnects, its timer runs, the rate limiter does not refuse for   *)
(* ever and what was asked is answered or fails.                           *)
(***************************************************************************)
Fairness ==
  /\ WF_vars(RestReady)
  /\ WF_vars(RestTimer)
  /\ WF_vars(AnswerDepth)
  /\ \A s \in Ids : WF_vars(DepthAck(s))

FairSpec == Spec /\ Fairness

-----------------------------------------------------------------------------
(* Properties *)

(* What clients see is the book of the exchange as it was at the sequence   *)
(* number published: no change is missing, and none is in it that the       *)
(* number does not cover, whatever gaps, duplicates and late snapshots      *)
(* there were (market_data.cpp and rest.cpp: publish_update and             *)
(* publish_snapshot).                                                       *)
BookIsExact == book.changes = 1..book.sequence

(* The secondary stream masks the gaps of the primary and the other way     *)
(* round: the sequencer is cleared only if an event before the latest one   *)
(* was delivered by no stream (Instrument::mbp_update).                     *)
NoNeedlessResync ==
  [][synced /\ ~synced' =>
       \E n \in Events \ received' :
         FinalId(n) > last /\ FinalId(n) < mbp_last_update_id']_vars

(* Whatever the streams lose, repeat or deliver late, clients see what      *)
(* BookReplica promises: an exact copy that is never behind one they have   *)
(* already seen, also after a resynchronisation from a late snapshot.       *)
Replica == INSTANCE BookReplica WITH
  changed <- issued, copy <- book.changes, sequence <- book.sequence, following <- synced

ReplicaSpec == Replica!Spec

(* A book that is not synchronised has a snapshot coming, unless one failed *)
(* before (get_depth_ack: "XXX WHAT ???").                                  *)
SnapshotIsComing ==
  mbp_last_update_id > 0 /\ ~synced =>
    \/ queue + pending > 0 \/ \E s \in Ids : answers[s] > 0
    \/ image # {}
    \/ failed

(* ... and in the end a snapshot arrives that is not too old: the book is   *)
(* synchronised or waits for the next event only.                           *)
BookIsSynchronised == (mbp_last_update_id > 0) ~> (synced \/ image # {} \/ failed)

================================================================================
