# A verification project for roq-binance-futures

The gateway connects trading clients of the roq platform to Binance Futures: it
downloads reference data, streams market data, keeps a private stream per
account ("drop copy", "user stream") and forwards order requests, over REST or
over the WebSocket API. This directory models the parts whose correctness
depends on the order in which events arrive, checks them with TLC on small
instances and proves the main results with TLAPS for all instances.

Paths below are relative to `src/src/roq/binance_futures/gateway/` unless they
start with `src/`.

## The system

One event loop runs everything: a handler (a message, an HTTP callback, a
connection event, the timer, a client's request) runs to its end before the next
one starts. So every handler is one action, and what makes the program hard is
not threads but the order of handlers: answers that arrive after a reconnect,
requests lost with a connection, flags that outlive the object that set them,
timers that act on what an earlier event left behind.

| part | state it keeps | operations | hard because |
|---|---|---|---|
| `Controller` (controller.cpp) | one connection object per account and kind, `drop_copy_zombies_` | routes client requests, reacts to listen keys and removals, drives the timer | removes objects other handlers are about to use |
| `WebSocket`, `OrderEntryClassic`, `OrderEntryPortfolio` | `ready_`, `download_`, listen key and its deadline, `open_orders_symbols_`, counters | order requests and their answers, listen keys, queries | late, lost and failed answers |
| `RestTrade` | the same, beside a `WebSocket` | open orders, stale orders, trades, cancel all | shares `Request` with the `WebSocket` |
| `DropCopyClassic`, `DropCopyPortfolio` | `download_`, `stop_` | private stream, stages of the download | is removed and replaced |
| `Request` (request.hpp) | one latch per kind of query, per account | `request`, `check_pending`, `commit` | one latch outstanding blocks all |
| `MarketData`, `MarketData2` | subscriptions, sequencers | public streams | gaps, duplicates |
| `Rest` | `download_` | reference data, order-book snapshots | retries |
| `Shared`, `Throttle` | symbols, queues, `suspend_until_` | used by all the others | - |
| `protocol/json` | none | parsers, encoder, maps | - |

What makes each of them correct, and where that is stated:

| part | correct if | stated as |
|---|---|---|
| `Controller` | removes exactly the dead streams; routes a request to the connection that knows its orders; gives every symbol a slice | `ZombiesAreDeadStreams`, `CancelAllCancels`, `EverySymbolOnce` |
| order-entry connections, `RestTrade` | accept only what was done, answer every request, keep a listen key alive | `AcceptedIsTrue`, `TooLateMeansDoneOrUnknown`, `EveryRequestIsAnswered`, `ServiceSpec`, `StreamHasDeadline` |
| `DropCopy...` | is replaced when its key expires; READY means a fresh and complete picture | `ExpiredIsReplaced`, `SnapshotIsFresh`, `DownloadCompletes` |
| `Request` | no latch waits for an answer that does not come | `AnswerIsComing`, `StaleCounterIsExact` |
| `MarketData`, `MarketData2` | carry all symbols of their slice, once | `EverySymbolOnce`, `AssetsAreCarried`, `KnownIsSubscribed` |
| order books | publish exactly the exchange's book and never go back; are synchronised again after a gap, and only then resynchronise | `BookIsExact`, `SnapshotIsComing`, `BookIsSynchronised`, `NoNeedlessResync`, `ReplicaSpec` |
| `Rest` | completes its download after any failure | `DownloadCompletes` of `MarketData` |
| fills: `DropCopy...` and the trade queries together | publish every fill, once, with the id of its order | `NoFillIsMissed`, `FillIsReportedOnce`, `LiveFillIsAttributed` |
| `protocol/json` encoder and maps, with the server's copy of an order | the order at the exchange and the one reported are the one asked for; a request names its own order | `OrderIsAsAsked`, `ReportedAsAsked`, `TooLateIsTrue` |
| `Throttle` | backs off after every 403 and 429 | not modelled |

How they interact. The Controller creates an order-entry connection per account:
`OrderEntryPortfolio` for margin mode PORTFOLIO, otherwise `WebSocket` with the
setting `ws_api` (then with a `RestTrade` beside it) or `OrderEntryClassic`
(controller.cpp:57-122). The connection acquires a listen key and sends
`ListenKeyUpdate` to the Controller, which creates the account's DropCopy. The
DropCopy asks, through the latches of the account's `Request`, for the queries
its download needs; the order-entry connection polls the latches from its timer.
When the exchange says that the key expired the DropCopy closes for good and
sends `Remove`; the Controller removes it at its next timer. Client requests go
to the order-entry connection, cancel-all with `ws_api` to `RestTrade`.

On the public side `Rest` downloads the symbols and sends `SymbolsUpdate` to the
Controller, as does a client's subscription; the Controller places the symbols
in slices, creates the streams of new slices and lets every stream subscribe.
The streams ask for order-book snapshots through a queue in `Shared`, which
`Rest` serves from its timer.

## Modules

| module | models |
|---|---|
| `StreamSlot` | what is promised of an account's user stream: absent, live or retired |
| `RequestService` | what is promised of a request: executed once at most, answered once at most, accepted only if it was executed |
| `BookReplica` | what is promised of an order book: an exact copy that never goes back |
| `UserStream` | listen keys and user streams of all accounts |
| `AccountDownload` | the download of one account through the latches |
| `OrderEntry` | order requests and cancel-all of one account |
| `MarketData` | reference data and the subscriptions of the public streams |
| `OrderBook` | the order book of one symbol on two streams, and its snapshots |
| `Fills` | the fills of an account, from the user stream and from the download |
| `OrderTerms` | the terms of orders through encoders, answers, events and maps |
| `MCOrderEntry`, `MCFills`, `MCOrderTerms` | constants of the runs |
| `UserStreamProofs`, `AccountDownloadProofs`, `OrderEntryProofs`, `MarketDataProofs`, `OrderBookProofs`, `FillsProofs`, `OrderTermsProofs` | the theorems |

The modules look at the same code from different sides and share no variables:
`AccountDownload` has all the stages of a download and the latches, `Fills` the
two stages that matter for fills and what they bring; `OrderEntry` has the
outcome of every request, also of the failed ones, `OrderTerms` what the
requests say. What a component promises to the others or to the clients is an
abstract specification that it is shown to implement: `UserStream` implements
`StreamSlot`, `OrderEntry` implements `RequestService` and `OrderBook` implements
`BookReplica`, each checked on a run and proved.

### UserStream

State to code: `download` is the state of `download_` of the order-entry
connection (`ready()` is "DONE"), `listen_key` and `refresh` are `listen_key_`
and `listen_key_refresh_` (unset, in the future, passed), `inflight` the
requests not yet answered, `drop_copy` the Controller's map (with the state of
the connection, `stop_` and an expiry event on its way), `zombies`
`drop_copy_zombies_`. `exchange` is the key the exchange issued last.

| action | code |
|---|---|
| `Connected`, `SocketDisconnected`, `RestDisconnected` | connection events; a socket forgets its requests, a REST client fails them |
| `SessionLogonAck`, `SocketListenKeyAck`, `RestListenKeyAck` | answers, with `download_.retry` on failure and `ListenKeyUpdate` on success |
| `DropCopyReady`, `ListenKeyExpired`, `DropCopyDisconnected` | the drop copy |
| `Elapse`, `Timer` | a deadline passes; the whole timer: zombies removed first, then refresh and automatic retry |
| `Accept`, `Reject`, `Expire`, `NotifyExpired` | the exchange: external |

The exchange: a start or a ping on a valid key renews it, otherwise a new key is
issued; the last key of the bound does not expire.

The refinement mapping is `Slot == INSTANCE StreamSlot WITH life <- life,
online <- online`: an account's slot is absent without a drop copy, retired with
`stop_` set and else live; it is online when the connection is up. `SlotSpec` is
`Slot!Spec`.

Runs. `user_stream` has a WebSocket and a Portfolio account together, two keys
each, a fault, two requests in flight: enough for a key to expire while an
older request is in flight and for one account's zombie to be removed while the
other refreshes. It checks safety, the refinement, that both accounts get their
first stream (`FirstStream`) and that the WebSocket account gets another when a
key expired (`SocketExpiredIsReplaced`). `user_stream_rest` shows that the latter
fails without the WebSocket API. Fairness: what the event loop delivers (timer,
answers, connections that can be made) happens in the end; faults, expiry and
the passing of a key are not fair.

Proved: the type invariant, that zombies are exactly the retired and
disconnected streams, that a stream has a deadline, that a retired stream never
reconnects (`NoRetryAfterExpiry`, which no run checks by itself as `SlotSpec`
implies it), and that `UserStream` implements `StreamSlot`. The inductive invariant `StreamInv` joins the first
two with a fact that `Init` makes true and each answer keeps: a stream exists
only once a deadline was set. `StreamKeyIsKnown` has an invariant of its own,
`KeyInv`: the exchange answers in order and never returns to an older key, so the
answers in flight lie between the key the connection holds and the last one
issued, in ascending order, and none follows a pending request. It allows a stream on an
older key than the connection holds: the exchange sends the event only when the key
expires, and that the stream is replaced then is `SocketExpiredIsReplaced` and
`ExpiredIsReplaced`.
`RestStreamIsNotReplaced` proves what `user_stream_rest` shows by an example: without
the WebSocket API an account whose stream was retired never has a live one
again. Its invariant `RestInv` says that an account with a stream holds a key, since
every key the exchange gives out is a real one; from then on
`RestListenKeyAck` passes nothing on. `StreamIsComingSafe` is what `FirstStream`
and `SocketExpiredIsReplaced` have of safety: a connection that acquires its key
has the request of its state in flight, since `Retry` issues again what failed and
a disconnect starts over; and one that is ready has a key to pass on and a
deadline to ask again, since every successful answer sets both. Its invariant
`ComingInv` adds that an answer with a key has a real one. Only model-checked:
that the stream then comes.

### AccountDownload

`state` is `download_.state()` of the DropCopy; `pending` and `outstanding` are
the latches of `Request`, `details` its `details_stale_orders`, `counter`
`download_stale_orders_counter_`, `inflight` the queries at the exchange,
`stale` the orders the server has lost track of (external: server::Dispatcher).
`asked` and `fresh` are history. `StreamTimer` is the DropCopy's timer,
`Timer(c)` a connection's: one latch per timer is sent, when none is outstanding
and the limiter agrees. The `...Ack` actions are the answers, also the failed
ones: they commit the same latch.

`core::limit::Request` is external. Whether it remembers or merges a request
made while the same one is in flight is not visible in this repository, so it is
the constant `Merges`; `SnapshotIsFresh` depends on it and is checked and proved
for `Merges = FALSE` only. The DropCopy may be connected before the order-entry
connection exists, which the program cannot do: the model allows more. A
replaced DropCopy is a reconnect. The balance poll of `OrderEntryPortfolio`
bypasses the latches and is left out. `find_order` is assumed to find a stale order.

Runs. Two orders and two symbols let the queries of one round overlap those of
the next; four faults allow two disconnects with a lost order before and after.
`download` checks safety and liveness, with two polls of
the balance (`MaxPolls`): a poll goes before every other latch, so the bound lets
it overtake each of them; polls that are due whenever the account is idle would
starve the others, and how often they are due is a matter of time that the model
does not have. `download_portfolio` and
`download_lost` are two ways in which a download never completes. A third has
no run and is proved (`SocketTradesNeverComplete`): `RestTrade` has disabled the
trade queries (rest_trade.cpp:544), so with the WebSocket API the latch of the
trades is sent and never committed (`QueriesOf`).
Fairness: timers run with their deadlines passed, the limiter does not refuse
for ever, connections are made, queries that were not lost are answered.

Proved: the type invariant; the exact counter (as a conjunction it is inductive
by itself); that an outstanding latch has an answer coming, from the invariant
that the latches have something to query: for every class of connection, but for
the balances and positions of a web socket and the trades beside one
(`OnlySocketHangs`), and so without exception for accounts without a web socket
(`AnswerIsComing`); and freshness with `FreshInv`, which says of every stage passed that its
latch was asked for and committed since the stream connected. `LostOrderIsAsked`
is the safety part of `StaleOrderIsResolved`: while a lost order is noted a
request for the stale orders is pending, so that the check which does not ask
again for a noted order loses none, and the stage does not end with one left
(the "Unexpected" of drop_copy_classic.cpp:630). It needs `Merges = FALSE`: a
request merged with the round in flight would leave an order noted then without
any. Two theorems say of
every instance what two runs show of one: once the answer to the outstanding latch
is lost, nothing is sent any more and a download that begins later never
completes (`LostAnswerBlocks`; `StageWaits` is its invariant), and a Portfolio
account never leaves its first stage (`PortfolioNeverCompletes`). A third,
`SocketTradesNeverComplete`, says that an account with the WebSocket API and a
download symbol is never READY: by the invariant `TradesWait` no query of trades is
ever in flight, so the latch of the last stage stays pending or outstanding.

### OrderEntry

`ready`, `symbols` (`open_orders_symbols_` of each connection), `awaiting` (the
callbacks and request ids still expected) and `snapshot` (the open-orders query)
belong to the gateway; `version` to the client; `sent`, `answers` and `exchange`
to the world; `executed`, `responses`, `cancelling`, `downloaded` and `orphans`
are history the properties speak of. The identity of a request (user, order,
version), kept in a callback over REST and encoded in the request id over the
WebSocket API (`WSAPIRequest`), is the request itself.

| action | code |
|---|---|
| `CreateOrder`, `ChangeOrder` | `order_place`, `order_modify`, `order_cancel` of the three classes |
| `CancelAllOrders` | routing by the Controller and `open_orders_cancel_all` |
| `Receive` | the acks, with `Status` for accepted, rejected and too late, `GuessError` for the error codes, `Silent` for what is not reported |
| `Fail` | `process_response`: 5xx, network error, time-out, unreadable answer (`Failures`), and its `handle_error` (`HandleError`: that of a cancel-all only logs) |
| `GetOpenOrders`, `OpenOrdersAck`, `OpenOrdersFailed` | the download of open orders |
| `Connected`, `Disconnected`, `Restart` | connections; a new process |
| `Execute`, `Lose`, `Trade`, `AnswerOpenOrders` | the exchange and the network: external |

The exchange executes requests in any order, may reject any, and may fill or
expire an order when it creates or modifies it. It may say of a change at any time
that it does not know the order (-2011, -2013; result "unknown"): before the
creation was executed, after the order is done, and, as the comment at
web_socket.cpp:895 reports, of an order that is open. `guess_error` makes that
TOO_LATE_TO_MODIFY_OR_CANCEL; a WebSocket cancel may escape it by
`test_cancel_bug_timeout`, whose time `OrderTerms` models and which is a choice
here.

How a response is read: TOO_LATE is `RequestStatus::REJECTED` with
TOO_LATE_TO_MODIFY_OR_CANCEL, REJECTED is REJECTED with any other error, FAILED is
any other status (ERROR, or that of a `NetworkError`). A 5xx is REJECTED like a
refusal, although the request may have been executed: the client cannot tell them
apart and neither can the model. `GetOpenOrders` may happen at
any time, which allows more than the latch does. An order whose creation was in
flight across a restart (`orphans`) is excluded from coverage: no handler can
know of it until it is listed. Orders without a client order id (not placed by
the gateway) and answers with an order status the parser does not know are left
out, and so is the merging of updates in server::oms.

Runs. `orders`: one order over the WebSocket API with overlapping requests, a
cancel-all, lost answers and a restart. `orders_live`: a REST account with one
order of two overlapping versions, a cancel-all, a fault and a restart, so that
an order can be created while the download of open orders is in flight or be
left by an earlier process; accepted changes are reported from the answer itself
(`FastAck`; with experimental.disable_fast_order_ack they are left to the user
stream). It has one symbol: that cancel-all of one leaves another alone is part
of `AcceptedCancelAllIsDone` and `OpenOrdersAreCovered` as proved. `cancel_all_socket` shows that cancel-all does not
cancel with `ws_api`; a Portfolio account beside the WebSocket API has no
`RestTrade` at all, which `CancelAllVia` shows and no run checks. The
runs set CHECK_DEADLOCK FALSE: once the client stops sending, the system really
stops. A cancel-all that is answered with a code other than 200 is acknowledged as
REJECTED (`Receive` of "error"); one that is answered with an HTTP error is a `Fail`
and only logged. `orders_live` also checks the refinement below. Fairness: a request that was not lost is executed, an answer is
delivered, an HTTP request that can no longer be answered times out.

Proved, for any orders, symbols, settings and bounds: the type invariant;
`AcceptedIsTrue` (every answer in flight is one of the executed outcomes);
`TooLateMeansDoneOrUnknown` (an executed outcome that found the order done is about
an order that is still done, because nothing reopens one; every other TOO_LATE
repeats the exchange's "unknown" in the answer to that very request, so the gateway
adds no wrong one of its own; that the order of such a one may be open is what
`guess_error` accepts); `AcceptedCancelAllIsDone`
(an order named in `cancelling` exists, so no creation can open it after the
cancel-all was executed); `OpenOrdersAreCovered` without `ws_api`, by the
invariant `InReach`: a symbol is in the set before the creation is sent, and an
order the exchange lists is either in the answer or already covered. With
`ws_api` the property is false: `cancel_all_socket` shows what comes of it.

`OrderEntry` implements `RequestService`, which knows neither connections nor
orders: every request is executed once at most, answered once at most, ACCEPTED only when
it was executed and TOO_LATE only when the exchange answered it, be it by a
refusal. The mapping takes the fate of a request from `sent`
and `executed` (`Fate`), the answers from `responses` (`Told`; FORWARDED is none);
a cancel-all issues a request for each symbol in one step, a restart gives up all
that are awaited. Proved for any orders, settings and bounds
(`ImplementsRequestService`) from `ServiceInv`: a number that appears anywhere was
used, a request on its way was not executed, none was executed with two outcomes, one that is
awaited was not answered, and only awaited answers are on their way. Its
consequence `AnswerIsFinal`: once a request was answered, as FAILED after a time-out
too, nothing that comes later answers it again. What the abstract specification
leaves open is what the code leaves open: REJECTED and FAILED are said of requests
that were refused, that were executed, or that still will be, since a server error is
reported like a refusal (#522).

Two theorems are what the liveness properties have of safety. `CancelIsComingSafe`
(without `ws_api`): an order that was open at a `CancelAllOrders` is open only while
the cancel-all of its symbol, of that call, is on its way, unless it was lost, refused or
failed. It joins `InReach`, which puts the request on its way at the call, with
`CancelsAreDone`: an order to be cancelled exists, so no creation can open it later.
`NoRequestIsForgotten` (over HTTP, with `FastAck`): an order request stops being
awaited only by an answer to the client or by a restart.

### MarketData

`download` is the state of `download_` of `Rest`, `requests` its requests in
flight, `slice` the contents of `core::Symbols` and `all_symbols` (0: not known),
`ready`, `queue` and `assets_2` belong to the streams, `sent` is what a stream has
subscribed to on its current connection. A stream is a kind ("A", "B" the
secondary, "2" MarketData2) and the number of its slice.

| action | code |
|---|---|
| `RestConnected`, `RestDisconnected` | begin or bump, and reset, of the download |
| `ExchangeInfoAck`, `AssetIndexAck`, `Skip`, `AckFailed` | the answers: processed, too late, or failed and retried |
| `Subscribe` | a client's subscription |
| `StreamReady`, `StreamDisconnected`, `StreamTimer` | the streams of a slice |
| `List` | the exchange: external |

`core::Symbols` and `core::Download` are external. Of the first only this is
used: slices are filled in order, to at most `PerStream` symbols, and no symbol
moves. Of the second: a request made before the last `bump` may be used or
skipped, both are allowed. After a reconnect old requests may still be answered,
which allows more than the HTTP client does. The messages of all channels of one
call are one message: they are queued together and dropped together, and the
properties do not tell channels apart. Names are as spelled in a subscription:
`create_symbol` puts those of the exchange in lower case, a client's are used as
they are. Time series and forced liquidations, off by default, are left out.

Run. `subscriptions`: three symbols, two of which the exchange may list at any
time and two of which clients may ask for (one is in both sets), two symbols per
slice, so that a second slice appears and either slice can be partly full when a
symbol arrives; two faults. Fairness: connections that can be made are made,
requests are answered, timers run and the rate limiter does not refuse for ever;
`AckFailed` is not fair, since answers can come instead.

Proved, for any names, assets, slice size, settings and faults: the type
invariant; `EverySymbolOnce` and `AssetsAreCarried`. `EverySymbolOnce` speaks of
ready streams only and is not inductive: `SubscriptionInv` adds that a stream
that is not ready has sent nothing and queues nothing but asset indices, because
`MarketData2` queues those even then. The lemmas are about queues: appending a
message adds its content, sending a prefix keeps the rest separate from what was
sent. `DownloadIsComingSafe` is the safety part of `DownloadCompletes`: the request
of the download's stage, made since the last connect, is in flight, whatever older
answers come in between, and a connected `Rest` has begun its download.

### OrderBook

`mbp_last_update_id` is the field of `Shared::Instrument`, `queue` is
`depth_request_queue` (only the entries of the one symbol), `rest_ready` is
`ready()` of `Rest`; `synced`, `last`, `buffer`, `image` and `asked` are the
sequencer's. `position` says what a stream has delivered, `pending` and
`answers` are depth requests. `book` is what clients have been told: the changes
in it and the sequence number published with it; `received` and `failed` are
history. A book is abstracted to the set of changes applied, price levels and
quantities are not modelled.

| action | code |
|---|---|
| `StreamReady`, `StreamDisconnected` | a stream subscribes and gets events from then on; what it has not delivered is lost |
| `DepthUpdate` | `MarketData::operator()(DepthUpdate)`: `Stale` (`mbp_update`), the sequencer, its callbacks and the handler of `BadState` |
| `RestReady`, `RestDisconnected`, `RestTimer` | `Rest`: the queue survives a disconnect, and is served as the rate limiter allows |
| `DepthAck`, `DepthAckFailed` | the snapshot meets the sequencer; a failure is only logged |
| `Change`, `AnswerDepth`, `Timeout` | the exchange and the sequencer's time-out: external |

`roq::market::mbp::Sequencer` is not part of this repository. It is modelled by
what its call sites are prepared for: it calls `publish_update` for the event
that continues the last, does nothing for a repeated one and throws `BadState`
at a gap; without a snapshot it collects events, which must be continuous, and
asks for a snapshot, once unless `sequencer_timeout` passes; a snapshot ahead of
the events is kept, one older than all of them makes it ask again or throw (both
are allowed), any other is published with the events after it.
`mbp_request_max_retries`, which stops the process after too many requests, has
its default 0 (no limit).

Run. `order_book`: two streams, eight changes in four events, three faults, so
that a gap of both streams can follow a synchronisation and hit the
resynchronisation as well, with an older snapshot still on its way. Events
of two changes each let a snapshot fall between the ids of an event. The bound
on changes really stops the system, so CHECK_DEADLOCK is FALSE. Fairness: `Rest`
connects again, its timer runs and the rate limiter does not refuse for ever, a
depth request is answered (or has failed) and answers are delivered. Streams
need not be fair: a book that waits for the next event (`image`) is
where liveness ends, in the code too.

Proved for any number of streams, changes and faults: the type invariant and the
other three safety properties. `BookInv`: a synchronised sequencer has published
up to `last`, which is also `mbp_last_update_id`, and buffers nothing; an
unsynchronised one buffers events without gaps up to `mbp_last_update_id`, so
that a snapshot and the events after it leave nothing out (`BookIsExact`).
`ReceivedInv`: no event
beyond `mbp_last_update_id` was received, so that a gap found by the sequencer
names an event no stream delivered (`NoNeedlessResync`). `RequestInv`: a sequencer
that has asked for a snapshot, or is not synchronised after an event, has one
queued, in flight, at hand or failed (`SnapshotIsComing`).

`OrderBook` implements `BookReplica`: the book of the exchange changes, clients have
a copy that is exact up to its sequence number, and each publication is of a later
state than the one before. The mapping is `changed <- issued`,
`copy <- book.changes`, `sequence <- book.sequence`, `following <- synced`; the run
checks it and `ImplementsBookReplica` proves it, with `SequenceAdvances` as the
consequence clients see. Beyond `BookInv` the proof needs `TrackInv`: no event is ahead of
the exchange, and a sequencer that has lost track has seen an event that was not
published, so that a late snapshot, which must reach that event, cannot take the book
back.

### Fills

The fills of one account, from the exchange to the client. `stage`, `pending`,
`outstanding` are the download and the latches of `AccountDownload` for the two
stages that matter here; `orders` and `queries` are the queries in flight;
`first` is `download_trades_is_first_`; `known` is what `find_order` finds;
`channel` holds the events of the user stream that are on their way.
`incremental`, `snapshot` and `attributed` are what has been published. `live`,
`restored`, `downloaded` and `since` are history: which fills the stream should
bring, and since when the fills of a symbol should be complete.

| action | code |
|---|---|
| `StreamReady`, `StreamDisconnected`, `StageCompletes` | `download_` of the DropCopy: open orders before trades |
| `OrderTradeUpdateClassic`, `OrderTradeUpdatePortfolio`, `ExecutionReport2`, `TradeLite` | the handlers; `Update` is the `OrderUpdate`, `Publish` the `TradeUpdate` |
| `GetOpenOrders`, `OpenOrdersAck`, `OpenOrdersFailed` | the open orders tell the server which orders are its clients' |
| `GetTrades`, `GetTradesDisabled`, `TradesAck`, `TradesFailed` | one query per symbol; `LookbackOf` is `get_download_trades_lookback` |
| `Restart` | a new process: the server knows no orders |
| `Tick`, `Place`, `Trade` | the clock, the clients and the exchange: external |

The exchange answers a query with what it found at some moment between the query
and the answer (`Returned`, `Listed`), at most `Limit` fills. Events of different
fills are delivered in any order, which allows more than a socket does. The local
clock that dates a query is the exchange's. A stage is taken to complete, also of
a Portfolio account, where the run `download_portfolio` shows that it does not.

What the code does and the properties leave out: `DropCopyPortfolio` publishes the
fill of ORDER_TRADE_UPDATE whatever `ws.trade_lite` says ("Prefer the trade-lite
feed (to the order-trade-update feed)?", flags/ws.json), so with that setting a
fill is published twice; with the setting, TRADE_LITE of an order the server does
not know is dropped, and so are the reports of margin orders (`Dropped`); there
is no second page of trades; `RestTrade` has disabled the trade queries; the
longer lookback of a restart is used until one symbol was answered, so that the
query of another that failed is repeated with the shorter one.

Run. `fills`: the three kinds of account with any setting of trade-lite, an
order on one of two download symbols, so that the answer of one symbol can come
before and after that of the other; `MaxEvents` bounds fills and faults
together, three: a fill can precede an outage and another follow it, or fall
into the download. The clock has three values, the lookbacks reach one and two
ticks back, and the limit is 1, so that a page can be full. The bounds stop the
system, so CHECK_DEADLOCK is FALSE.

Proved, for any orders, symbols, lookbacks, limit and bounds: the type invariant,
with the numbering of fills; `FillIsReportedOnce` (a fill was published or its
publishing event is on its way, never both, and the exchange sends one);
`LiveFillIsAttributed`; and `NoFillIsMissed`. The last needs three
facts more: from the stage of the trades on the open orders have been downloaded
(`StageInv`, `OrdersInv`), which is why no fill of an order of an earlier process
is dropped; a query goes back as far as is promised (`PromiseInv`); and what the
answer to a query does not cover has come, or comes, by the stream
(`ReportedInv`).

### OrderTerms

`form` is the `CreateOrder` of each order; `sent`, `answers` and `reports` are
the requests, answers and events of the user stream on their way, each delivered
in any order; `exchange` has the orders with a revision number; `young` are those
created within `misc.test_cancel_bug_timeout`. `stored` is the server's copy
of an order (`server::oms::Order`), `reported` and `response` are what the client
was told, `confirmed` the orders whose creation was acknowledged. `intent` and
`outdated` are history, and so are `asked`, `basis` and `guessed` of a request.

| action | code |
|---|---|
| `CreateOrder`, `ModifyOrder`, `CancelOrder` | the encoders: `PlaceJson`, `PlaceUrl`, `FilledIn`, `Changed`, `Rejected`; `OrderId` and `ClientOrderId` choose the name |
| `OrderPlaceAck`, `OrderModifyAck`, `OrderCancelAck` | the acks of the three classes: the Response, and the OrderUpdate if the settings ask for one; `CancelError` has the fix of the -2011 bug |
| `OrderTradeUpdate` | the OrderUpdate of the user stream |
| `Refuse`, `ExecutePlace`, `ExecuteModify`, `ExecuteCancel`, `NotFound`, `Trade`, `Elapse` | the exchange: external |

A price is a number on the grid, NaN is 0. `Encoders` is the protocol in use:
"json" over the WebSocket API, "url_full" for Classic and Portfolio with both
values, "url" for dapi, which accepts one value and takes the changed one. The
server registers its copy with the values of the CreateOrder (external), and with
REST may copy those of a Response without OrderUpdate: both outcomes are allowed.

What the model shows of the code, and the properties allow: a modify filled in
from a copy that an answer or event on its way has made out of date undoes the
earlier change (`outdated`; by default a WebSocket ack has no OrderUpdate, so the
copy is the stream's); dapi also drops an asked value that equals an outdated
copy, and refuses a modify of both values; IOC or FOK with post-only is sent
without post-only (`Contradictory`); an RPI order is reported as GTC; a modify
answered with FILLED is reported as too late. Not modelled: stop prices,
position sides, quantities filled.

Run. `order_terms`: two orders on different symbols that the exchange gave the
same id; one is a post-only, reduce-only sell or RPI with a time in force that RPI
overrides, the other a market order; one price and two quantities, as both
go through the same code; the encoders of the WebSocket API and of dapi
("url_full" is left to the proofs); three requests, so that a second modify can be
encoded before or after the answer to the first arrives.
`FastAck` without `AckUpdates` is the default of the code.

Proved, for any orders, forms, ids, encoders and settings: the type invariant
with `Identified` (the server knows an order by its own id or by none) and the
three other properties, from `IInv`. It says of everything that is in flight or
stored what it has to do with the order at the exchange: a copy, a report or an
answer that has the order's revision has its values (`Agrees`), a request names
the order it is about (`NamedInv`; ids are unique for a symbol only), what the
encoder filled in is what was asked for unless its basis is out of date
(`EncodedInv`), and an answer TOO_LATE is about an order that is done, or one
that is young and not yet found (`AnswerInv`). `Advances` is what every step of
the exchange keeps.

## Bounds

All bounds are constants named `Max...` and guard the actions they limit; the
proofs hold for every value. Histories are sets, so that runs with the same past
in another order are one state. The number of faults is chosen so that a fault
can hit both the first attempt and the repetition; in `user_stream`, where expiry
is a second way to fail, it is one. What two bounds would limit separately and
the states can tell apart only together is bounded jointly (`MaxEvents`).

## What is proved and what is not

Every invariant the passing runs check is proved as `THEOREM Spec => []Inv`, and so
are the action property `NoNeedlessResync` and the three refinements (`SlotSpec`,
`ServiceSpec`, `ReplicaSpec`), each by mapping the initial states and then every
action. Three theorems state of all instances what a failing run shows of one:
`RestStreamIsNotReplaced`, `LostAnswerBlocks`, `PortfolioNeverCompletes`; a fourth, of
which there is no run, is of the same kind: `SocketTradesNeverComplete`. Action
properties beyond those of the runs: `NoRetryAfterExpirySafe`, `AnswerIsFinal`,
`SequenceAdvances`, `NoRequestIsForgotten`. Assumptions
are only those the modules state on their constants, and the ones written in the
theorem (`Merges = FALSE`, `OrderEntry # "WebSocket"`, `WsApi = FALSE`, `FastAck`,
`Symbols # {}`, the class of the account): without them the property is false of the
code, except for `Merges`, where the behaviour of the external
`core::limit::Request` is not known.

Only model-checked, on the instances of the runs: the properties that something happens in the
end (`FirstStream`, `SocketExpiredIsReplaced`, `DownloadCompletes`,
`StaleOrderIsResolved`, `EveryRequestIsAnswered`, `CancelAllCancels`,
`KnownIsSubscribed`, `BookIsSynchronised`). They rest on fairness, thus on ENABLED,
which the prover does not handle. What each of them has of safety is proved, without
fairness: that what leads to the goal is always on its way.

| liveness, by TLC | its safety part, proved |
|---|---|
| `FirstStream`, `SocketExpiredIsReplaced` | `StreamIsComingSafe` |
| `DownloadCompletes` of `AccountDownload` | `AnswerIsComingSafe` |
| `StaleOrderIsResolved` | `LostOrderIsAsked` |
| `EveryRequestIsAnswered` | `NoRequestIsForgotten` |
| `CancelAllCancels` | `CancelIsComingSafe` |
| `DownloadCompletes` of `MarketData` | `DownloadIsComingSafe` |
| `KnownIsSubscribed` | `EverySymbolOnceSafe` |
| `BookIsSynchronised` | `SnapshotIsComingSafe` |

No property rests on a recursive definition. The abstract specifications state safety
only.

## Findings

| run | what it shows |
|---|---|
| `user_stream_rest` | without the WebSocket API an expired user stream is never replaced |
| `download_portfolio` | the download of a Portfolio account never leaves its first stage |
| `download_lost` | a disconnect of the WebSocket with a query in flight blocks all downloads of the account |
| `cancel_all_socket` | cancel-all with `ws_api` misses orders placed since the download |

## Not modelled

- `Throttle` (tools/throttle.cpp). It is a few lines: 403 suspends for ten
  minutes, 429 for five seconds unless `suspend_until_` was ever set, so a second
  429 does not back off. What obeys it, the interceptor of the HTTP client and
  the sockets, is not in this repository; there is nothing to compose it with.
- The values of balances and positions. The sources disagree in ways that can be
  read from the code: Portfolio's account status publishes `notional` as the
  quantity of a position (order_entry_portfolio.cpp:574), the WebSocket's balance
  is `available_balance` without margin mode (web_socket.cpp:408), elsewhere it is
  the wallet balance.
- The update id of the top of book, statistics, klines and their queue, forced
  liquidations.
- `countdown_cancel_all`: the constructor is fatal when cancel_on_disconnect is set.
- Signatures and text encoding (pure functions of external libraries),
  configuration and flags, bridges, `main`.

## Plan

Done: `UserStream` (implementing `StreamSlot`), `AccountDownload`, `OrderEntry`
(implementing `RequestService`), `MarketData`, `OrderBook` (implementing
`BookReplica`), `Fills`, `OrderTerms`, each with its proofs. Open:

1. A composition of `UserStream` and `AccountDownload`: replaced streams with the
   latches they left behind.
2. An abstract specification of `Request` and the latches, which `AccountDownload`
   and the two stages of `Fills` implement.
3. Balances and positions: snapshots of the download against the updates of the
   stream (`AccountUpdate`).
4. Market data beside the books: the update id of the top of book, statistics of
   `MarketData2`, klines and their queue.
