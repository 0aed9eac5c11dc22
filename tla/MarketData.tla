------------------------------- MODULE MarketData -------------------------------
(***************************************************************************)
(* Reference data and the subscriptions of the public streams.             *)
(*                                                                         *)
(* Rest downloads the symbols (and the asset indices); clients subscribe   *)
(* to more.  The Controller places new symbols in slices, creates for      *)
(* every slice its streams (MarketData, with a secondary one if enabled,   *)
(* and MarketData2) and lets all streams subscribe to what is new.  A      *)
(* stream queues its subscriptions and sends them from the timer, as the   *)
(* rate limiter shared by all streams allows; it subscribes to its whole   *)
(* slice whenever it becomes ready.                                        *)
(*                                                                         *)
(* One message stands for those of all the channels of one call.           *)
(***************************************************************************)
EXTENDS Naturals, Sequences, FiniteSets

CONSTANTS
  Names,      \* names of symbols, as spelled in a subscription
  Listable,   \* those the exchange may list (in the lower case of create_symbol)
  Wanted,     \* those that clients may subscribe to
  Assets,     \* asset indices; empty when they are not downloaded
  PerStream,  \* setting ws.max_subscriptions_per_stream
  Secondary,  \* setting ws.enable_secondary
  MaxFaults   \* bound: disconnects and failed requests

ASSUME MarketDataAssumption ==
  /\ IsFiniteSet(Names)
  /\ Listable \subseteq Names
  /\ Wanted \subseteq Names
  /\ Names \intersect Assets = {}
  /\ PerStream \in Nat \ {0}
  /\ Secondary \in BOOLEAN
  /\ MaxFaults \in Nat

VARIABLES
  download,   \* download_.state() of Rest
  connected,  \* Rest is connected
  requests,   \* download requests in flight: made since the last (re)start, or before
  assets,     \* Rest::assets_
  slice,      \* core::Symbols: the slice of each known symbol, 0 for the others
  ready,      \* the streams that are READY
  queue,      \* subscribe_queue_ of each stream
  assets_2,   \* assets_ of the first MarketData2
  sent,       \* what each stream has subscribed to on its current connection
  listed,     \* the exchange: the symbols it lists, without discarded ones
  faults

rest == <<download, connected, requests, assets>>
streams == <<slice, ready, queue, assets_2, sent>>
vars == <<rest, streams, listed, faults>>

-----------------------------------------------------------------------------
(* Helpers *)

Stages == {"EXCHANGE_INFO", "ASSET_INDEX"}
Ages == {"new", "old"}

Indices == 1..Cardinality(Names)
Kinds == IF Secondary THEN {"A", "B", "2"} ELSE {"A", "2"}
Streams == Kinds \X Indices
FirstMarketData2 == <<"2", 1>>

TypeOK ==
  /\ download \in Stages \union {"UNDEFINED", "DONE"}
  /\ connected \in BOOLEAN
  /\ requests \in [Stages \X Ages -> Nat]
  /\ assets \subseteq Assets
  /\ slice \in [Names -> {0} \union Indices]
  /\ ready \subseteq Streams
  /\ queue \in [Streams -> Seq(SUBSET (Names \union Assets))]
  /\ assets_2 \subseteq assets
  /\ sent \in [Streams -> SUBSET (Names \union Assets)]
  /\ listed \subseteq Listable
  /\ faults \in 0..MaxFaults

InSlice(placed, i) == {s \in Names : placed[s] = i}

(* all_symbols: what is not new is ignored. *)
New(names) == {s \in names : slice[s] = 0}

(* core::Symbols: slices are filled one after the other. *)
Placements(new) ==
  {placed \in [Names -> {0} \union Indices] :
     /\ \A s \in Names : IF s \in new THEN placed[s] # 0 ELSE placed[s] = slice[s]
     /\ \A i \in Indices :
          /\ Cardinality(InSlice(placed, i)) <= PerStream
          /\ i > 1 /\ InSlice(placed, i) # {} => Cardinality(InSlice(placed, i - 1)) = PerStream}

(* ensure_symbol_slices: the streams of a slice are created with it. *)
Exists(st) == InSlice(slice, st[2]) # {}

(* Nothing is queued for an empty span. *)
Queued(messages, message) == IF message = {} THEN messages ELSE Append(messages, message)

(* Mutant: the start_from is dropped. *)
SubscribeWholeSlice(placed, new) ==
  queue' = [st \in Streams |->
    IF st \in ready THEN Queued(queue[st], InSlice(placed, st[2])) ELSE queue[st]]

(* subscribe(start_from) of every stream: only those that are ready. *)
SubscribeNew(placed, new) ==
  queue' = [st \in Streams |->
    IF st \in ready THEN Queued(queue[st], InSlice(placed, st[2]) \intersect new)
    ELSE queue[st]]

(* Controller: SymbolsUpdate. *)
SymbolsUpdate(names) ==
  \E placed \in Placements(New(names)) :
    /\ slice' = placed
    /\ SubscribeNew(placed, New(names))

Init ==
  /\ download = "UNDEFINED"
  /\ connected = FALSE
  /\ requests = [r \in Stages \X Ages |-> 0]
  /\ assets = {}
  /\ slice = [s \in Names |-> 0]
  /\ ready = {}
  /\ queue = [st \in Streams |-> << >>]
  /\ assets_2 = {}
  /\ sent = [st \in Streams |-> {}]
  /\ listed = {}
  /\ faults = 0

Fault ==
  /\ faults < MaxFaults
  /\ faults' = faults + 1

-----------------------------------------------------------------------------
(* Rest *)

(* download_.begin() and bump(): a stage is started (again). *)
Start(stage) ==
  requests' = [r \in Stages \X Ages |->
    IF r[2] = "new" THEN IF r[1] = stage THEN 1 ELSE 0
    ELSE requests[<<r[1], "new">>] + requests[<<r[1], "old">>]]

RestConnected ==
  /\ ~connected
  /\ connected' = TRUE
  /\ download' = IF download = "UNDEFINED" THEN "EXCHANGE_INFO" ELSE download
  /\ Start(download')
  /\ UNCHANGED <<assets, streams, listed, faults>>

(* A download under way is kept. *)
RestDisconnected ==
  /\ connected
  /\ Fault
  /\ connected' = FALSE
  /\ download' = IF download = "DONE" THEN "UNDEFINED" ELSE download
  /\ UNCHANGED <<requests, assets, streams, listed>>

NoRetry(stage, age) == requests' = [requests EXCEPT ![<<stage, age>>] = @ - 1]  \* mutant

(* download_.retry(): the request is made again, while its stage is on. *)
Retry(stage, age) ==
  requests' = [r \in Stages \X Ages |->
    (requests[r] - IF r = <<stage, age>> THEN 1 ELSE 0)
    + IF r = <<stage, "new">> /\ download = stage THEN 1 ELSE 0]

(* A network error (also of what was in flight when the connection was     *)
(* lost) or an error of the exchange.                                      *)
AckFailed(stage, age) ==
  /\ requests[<<stage, age>>] > 0
  /\ IF connected THEN Fault ELSE UNCHANGED faults
  /\ Retry(stage, age)
  /\ UNCHANGED <<download, connected, assets, streams, listed>>

(* download_.skip(): the answer comes after its stage.  Whether one to a   *)
(* request from before the last restart is used depends on core::Download. *)
Skip(stage, age) ==
  /\ connected
  /\ requests[<<stage, age>>] > 0
  /\ download # stage \/ age = "old"
  /\ requests' = [requests EXCEPT ![<<stage, age>>] = @ - 1]
  /\ UNCHANGED <<download, connected, assets, streams, listed, faults>>

AnswersAllAges(stage, age) ==  \* mutant
  /\ download' = "DONE"
  /\ requests' = [r \in Stages \X Ages |-> requests[r] - IF r[1] = stage THEN 1 ELSE 0]

(* download_.check(): on to the next stage; ASSET_INDEX is skipped when    *)
(* there is nothing to download.                                           *)
Advance(stage, age) ==
  LET next == IF stage = "EXCHANGE_INFO" /\ Assets # {} THEN "ASSET_INDEX" ELSE "DONE" IN
  /\ download' = next
  /\ requests' = [r \in Stages \X Ages |->
       (requests[r] - IF r = <<stage, age>> THEN 1 ELSE 0)
       + IF r = <<next, "new">> THEN 1 ELSE 0]

ExchangeInfoAck(age) ==
  /\ connected
  /\ requests[<<"EXCHANGE_INFO", age>>] > 0
  /\ download = "EXCHANGE_INFO"
  /\ SymbolsUpdate(listed)
  /\ Advance("EXCHANGE_INFO", age)
  /\ UNCHANGED <<connected, assets, ready, assets_2, sent, listed, faults>>

(* The new assets go to the first MarketData2, if there is one; it queues  *)
(* them, ready or not.                                                     *)
AssetIndexAck(age, found) ==
  /\ connected
  /\ requests[<<"ASSET_INDEX", age>>] > 0
  /\ download = "ASSET_INDEX"
  /\ assets' = assets \union found
  /\ LET new == found \ assets IN
     IF FirstMarketData2 \in Streams /\ Exists(FirstMarketData2)
     THEN /\ assets_2' = assets_2 \union new
          /\ queue' = [queue EXCEPT ![FirstMarketData2] = Queued(@, new)]
     ELSE UNCHANGED <<assets_2, queue>>
  /\ Advance("ASSET_INDEX", age)
  /\ UNCHANGED <<connected, slice, ready, sent, listed, faults>>

-----------------------------------------------------------------------------
(* Controller: a client subscribes. *)
Subscribe(names) ==
  /\ SymbolsUpdate(names)
  /\ UNCHANGED <<rest, ready, assets_2, sent, listed, faults>>

-----------------------------------------------------------------------------
(* MarketData and MarketData2 *)

AssetsForgotten(st) == Queued(queue[st], InSlice(slice, st[2]))  \* mutant
SliceForgotten(st) ==  \* mutant
  Queued(queue[st], IF st = FirstMarketData2 THEN assets_2 ELSE {})

(* What a stream queues when it becomes ready: all it should carry. *)
Resubscribe(st) ==
  Queued(Queued(queue[st], InSlice(slice, st[2])),
         IF st = FirstMarketData2 THEN assets_2 ELSE {})

StreamReady(st) ==
  /\ Exists(st)
  /\ st \notin ready
  /\ ready' = ready \union {st}
  /\ queue' = [queue EXCEPT ![st] = Resubscribe(st)]
  /\ UNCHANGED <<rest, slice, assets_2, sent, listed, faults>>

(* A connection is lost, or could not be made. *)
StreamDisconnected(st) ==
  /\ Exists(st)
  /\ Fault
  /\ ready' = ready \ {st}
  /\ queue' = [queue EXCEPT ![st] = << >>]
  /\ sent' = [sent EXCEPT ![st] = {}]
  /\ UNCHANGED <<rest, slice, assets_2, listed>>

(* Timer: check_subscribe_queue sends what the rate limiter allows. *)
StreamTimer(st) ==
  /\ st \in ready
  /\ \E n \in 1..Len(queue[st]) :
       /\ sent' = [sent EXCEPT ![st] = @ \union UNION {queue[st][i] : i \in 1..n}]
       /\ queue' = [queue EXCEPT ![st] = SubSeq(@, n + 1, Len(@))]
  /\ UNCHANGED <<rest, slice, ready, assets_2, listed, faults>>

-----------------------------------------------------------------------------
(* The exchange lists a symbol. *)
List(s) ==
  /\ s \notin listed
  /\ listed' = listed \union {s}
  /\ UNCHANGED <<rest, streams, faults>>

-----------------------------------------------------------------------------

Next ==
  \/ RestConnected
  \/ RestDisconnected
  \/ \E age \in Ages :
       \/ \E stage \in Stages : AckFailed(stage, age) \/ Skip(stage, age)
       \/ ExchangeInfoAck(age)
       \/ \E found \in SUBSET Assets : AssetIndexAck(age, found)
  \/ \E names \in SUBSET Wanted : Subscribe(names)
  \/ \E st \in Streams : StreamReady(st) \/ StreamDisconnected(st) \/ StreamTimer(st)
  \/ \E s \in Listable : List(s)

Spec == Init /\ [][Next]_vars

(***************************************************************************)
(* Connections that can be made are made, requests are answered, timers    *)
(* run and the rate limiter does not refuse for ever.  Faults, clients and *)
(* new listings are not fair.                                              *)
(***************************************************************************)
Fairness ==
  /\ WF_vars(RestConnected)
  /\ \A age \in Ages :
       /\ \A stage \in Stages : WF_vars(Skip(stage, age))
       /\ WF_vars(ExchangeInfoAck(age))
       /\ WF_vars(\E found \in SUBSET Assets : AssetIndexAck(age, found))
  /\ \A st \in Streams : WF_vars(StreamReady(st)) /\ WF_vars(StreamTimer(st))

FairSpec == Spec /\ Fairness

-----------------------------------------------------------------------------
(* Properties *)

(* What the messages of a queue subscribe to. *)
Content(messages) == UNION {messages[i] : i \in DOMAIN messages}

(* No symbol is in two messages, or in a message and done already. *)
Separate(messages, done) ==
  \A i \in DOMAIN messages :
    /\ messages[i] \intersect done \subseteq Assets
    /\ \A j \in DOMAIN messages \ {i} : messages[i] \intersect messages[j] \subseteq Assets

(* Every symbol of a slice is subscribed to exactly once on each ready      *)
(* stream of the slice: it has been sent or waits in exactly one message,   *)
(* and nothing else is.  New symbols may arrive while a slice is partly     *)
(* full, its streams are down or have sent only some of their messages.     *)
EverySymbolOnce ==
  \A st \in ready :
    /\ InSlice(slice, st[2]) = (sent[st] \union Content(queue[st])) \intersect Names
    /\ Separate(queue[st], sent[st])

(* What a stream queued while it was not ready (only asset indices are) is  *)
(* never sent on a connection that does not also subscribe to all of them:  *)
(* every asset index the first MarketData2 knows has been sent or waits.    *)
AssetsAreCarried ==
  FirstMarketData2 \in ready =>
    assets_2 \subseteq sent[FirstMarketData2] \union Content(queue[FirstMarketData2])

(* The reference data is downloaded, again after every reconnect and        *)
(* whatever requests failed (rest.cpp: bump, retry and reset).              *)
DownloadCompletes == []<>(download = "DONE")

(* Every symbol that is known is subscribed to in the end, on every stream  *)
(* of its slice, again whenever they reconnect.                             *)
KnownIsSubscribed ==
  []<>(\A s \in Names : \A k \in Kinds :
         slice[s] # 0 => s \in sent[<<k, slice[s]>>])

===============================================================================
