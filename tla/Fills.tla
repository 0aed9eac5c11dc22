--------------------------------- MODULE Fills ---------------------------------
(***************************************************************************)
(* How the fills of an account reach the client.                           *)
(*                                                                         *)
(* The DropCopy publishes them as they happen, from the events of the user *)
(* stream: from the update of the order, or with the setting ws.trade_lite *)
(* from the TRADE_LITE event.  What the stream missed is made up for by    *)
(* the download that follows each connect: first the open orders, which    *)
(* tell the server which orders are its own, then the trades of the        *)
(* download symbols, as far back as a setting says.                        *)
(*                                                                         *)
(* Module AccountDownload has all the stages of the download and what can  *)
(* keep a stage from completing.  Of the events, those of one fill are     *)
(* delivered in any order.                                                 *)
(***************************************************************************)
EXTENDS Naturals, FiniteSets

CONSTANTS
  OrderEntries,       \* order-entry classes an account may have
  Orders,
  SymbolOf,           \* the symbol of each order
  Download,           \* the setting download.symbols
  Lookback,           \* the setting download.trades_lookback
  LookbackOnRestart,  \* the setting download.trades_lookback_on_restart
  Limit,              \* the setting download.trades_limit, or 1000
  MaxTime,            \* bound: the clock
  MaxEvents           \* bound: fills, disconnects, failed queries and restarts

ASSUME FillsAssumption ==
  /\ OrderEntries \subseteq {"OrderEntryClassic", "OrderEntryPortfolio", "WebSocket"}
  /\ Lookback \in Nat \ {0}
  /\ LookbackOnRestart \in Nat
  /\ Limit \in Nat \ {0}
  /\ MaxTime \in Nat
  /\ MaxEvents \in Nat

VARIABLES
  orderEntry,   \* the account's order-entry class
  trade_lite,   \* the setting ws.trade_lite
  ours,         \* the orders of the gateway's clients
  margin,       \* the orders reported by executionReport (Portfolio only)
  clock,
  open,         \* orders open at the exchange
  trades,       \* the fills so far
  stage,        \* download_.state() of the DropCopy, "DISCONNECTED" without a stream
  channel,      \* events on their way on the user stream
  pending,      \* latches with a request not yet sent
  outstanding,  \* latches whose query was sent and not yet committed
  orders,       \* the open-orders query, with the open orders when it was sent
  queries,      \* the queries for trades that are not yet answered
  first,        \* download_trades_is_first_
  known,        \* orders find_order finds
  incremental,  \* INCREMENTAL trade updates published for each fill
  snapshot,     \* fills published as SNAPSHOT
  attributed,   \* fills published with the id of their order
  live,         \* history: fills of known orders on the present user stream
  restored,     \* history: were the open orders downloaded since the start?
  downloaded,   \* history: were trades downloaded since the start?
  since,        \* history: when the known fills of a download symbol begin
  faults

exchange == <<clock, open, trades>>
latches == <<stage, pending, outstanding>>
published == <<incremental, snapshot, attributed>>
history == <<live, restored, downloaded, since>>
settings == <<orderEntry, trade_lite, ours, margin>>
vars == <<settings, exchange, latches, channel, orders, queries, first, known,
          published, history, faults>>

Stages == {"open_orders", "trades"}
FillIds == 1..MaxEvents
Times == 0..MaxTime
Nothing == MaxTime + 1
Trades == [id : FillIds, order : Orders, time : Times]
Events == [type : {"ORDER_TRADE_UPDATE", "TRADE_LITE", "executionReport"}, trade : Trades]
Idle == [status |-> "none", open |-> {}]
Queries ==
  [symbol : Download, from : Times, to : Times, promised : Times, fresh : BOOLEAN,
   before : SUBSET Trades]

TypeOK ==
  /\ orderEntry \in OrderEntries
  /\ trade_lite \in BOOLEAN
  /\ ours \in SUBSET Orders
  /\ margin \in SUBSET Orders
  /\ clock \in Times
  /\ open \subseteq Orders
  /\ trades \subseteq Trades
  /\ stage \in Stages \union {"DISCONNECTED", "DONE"}
  /\ channel \subseteq Events
  /\ pending \subseteq Stages
  /\ outstanding \subseteq Stages
  /\ orders \in [status : {"none", "sent"}, open : SUBSET Orders]
  /\ queries \subseteq Queries
  /\ first \in BOOLEAN
  /\ known \subseteq ours
  /\ incremental \in [FillIds -> Nat]
  /\ snapshot \subseteq FillIds
  /\ attributed \subseteq FillIds
  /\ live \subseteq FillIds
  /\ restored \in BOOLEAN
  /\ downloaded \in BOOLEAN
  /\ since \in [Download -> 0..Nothing]
  /\ faults \in 0..MaxEvents

-----------------------------------------------------------------------------
(* Helpers *)

Connected == stage # "DISCONNECTED"

Portfolio == orderEntry = "OrderEntryPortfolio"

Back(lookback) == IF lookback < clock THEN clock - lookback ELSE 0

(* get_download_trades_lookback; the setting for a restart may be zero. *)
LookbackOf(isFirst) ==
  IF isFirst /\ LookbackOnRestart # 0 THEN LookbackOnRestart ELSE Lookback

(* Mutant: the trades are asked for before the open orders. *)
TradesFirst(s) ==
  CASE s = "DISCONNECTED" -> "trades"
    [] s = "trades"       -> "open_orders"
    [] OTHER              -> "DONE"

(* The order of the stages. *)
After(s) ==
  CASE s = "DISCONNECTED" -> "open_orders"
    [] s = "open_orders"  -> IF Download # {} THEN "trades" ELSE "DONE"
    [] OTHER              -> "DONE"

(* The events the exchange sends for a fill. *)
EventsOf(t) ==
  [type : IF t.order \in margin THEN {"executionReport"}
          ELSE {"ORDER_TRADE_UPDATE", "TRADE_LITE"},
   trade : {t}]

Init ==
  /\ orderEntry \in OrderEntries
  /\ trade_lite \in BOOLEAN
  /\ ours \in SUBSET Orders
  /\ margin \in IF Portfolio THEN SUBSET Orders ELSE {{}}
  /\ clock = 0
  /\ open = {}
  /\ trades = {}
  /\ stage = "DISCONNECTED"
  /\ channel = {}
  /\ pending = {}
  /\ outstanding = {}
  /\ orders = Idle
  /\ queries = {}
  /\ first = TRUE
  /\ known = {}
  /\ incremental = [i \in FillIds |-> 0]
  /\ snapshot = {}
  /\ attributed = {}
  /\ live = {}
  /\ restored = FALSE
  /\ downloaded = FALSE
  /\ since = [s \in Download |-> Nothing]
  /\ faults = 0

Bounded == Cardinality(trades) + faults < MaxEvents

Fault ==
  /\ Bounded
  /\ faults' = faults + 1

-----------------------------------------------------------------------------
(* The exchange *)

Tick ==
  /\ clock < MaxTime
  /\ clock' = clock + 1
  /\ UNCHANGED <<settings, open, trades, latches, channel, orders, queries, first, known,
                 published, history, faults>>

(* An order is placed.  The server registers one of ours before it is sent. *)
Place(o) ==
  /\ o \notin open
  /\ \A t \in trades : t.order # o
  /\ open' = open \union {o}
  /\ known' = known \union ({o} \intersect ours)
  /\ UNCHANGED <<settings, clock, trades, latches, channel, orders, queries, first,
                 published, history, faults>>

(* A fill; with the last one the order is done. *)
Trade(o, last) ==
  /\ o \in open
  /\ Bounded
  /\ LET t == [id |-> Cardinality(trades) + 1, order |-> o, time |-> clock]
     IN /\ trades' = trades \union {t}
        /\ channel' = IF Connected THEN channel \union EventsOf(t) ELSE channel
        /\ live' = IF Connected /\ o \in known THEN live \union {t.id} ELSE live
  /\ open' = IF last THEN open \ {o} ELSE open
  /\ UNCHANGED <<settings, clock, latches, orders, queries, first, known, published,
                 restored, downloaded, since, faults>>

(* The queries are executed at some time between the request and its       *)
(* answer.  What they find then lies between what there was before and     *)
(* what there is after; there is no second page.                           *)
Found(q) == {t \in trades : SymbolOf[t.order] = q.symbol /\ t.time \in q.from..q.to}

Listed(listing) ==
  /\ orders.open \intersect open \subseteq listing
  /\ listing \subseteq orders.open \union open

Returned(q, page) ==
  \E found \in SUBSET Found(q) :
    /\ q.before \subseteq found
    /\ page \subseteq found
    /\ IF Cardinality(found) > Limit THEN Cardinality(page) = Limit ELSE page = found

-----------------------------------------------------------------------------
(* The user stream: DropCopyClassic, DropCopyPortfolio *)

(* The stream is lost, and with it what was on its way. *)
Lost ==
  /\ stage' = "DISCONNECTED"
  /\ channel' = {}
  /\ live' = {}
  /\ since' = [s \in Download |-> Nothing]

StreamReady ==
  /\ ~Connected
  /\ stage' = After(stage)
  /\ pending' = pending \union {After(stage)}
  /\ UNCHANGED <<settings, exchange, outstanding, channel, orders, queries, first, known,
                 published, history, faults>>

StreamDisconnected ==
  /\ Connected
  /\ Fault
  /\ Lost
  /\ queries' = {[q EXCEPT !.fresh = FALSE] : q \in queries}
  /\ UNCHANGED <<settings, exchange, pending, outstanding, orders, first, known, published,
                 restored, downloaded>>

(* Timer: check_request_queue; the answer of the stage is in. *)
StageCompletes ==
  /\ stage \in Stages
  /\ stage \notin pending \union outstanding
  /\ stage' = After(stage)
  /\ pending' = pending \union ({After(stage)} \ {"DONE"})
  /\ UNCHANGED <<settings, exchange, outstanding, channel, orders, queries, first, known,
                 published, history, faults>>

(* The next event of a fill is delivered. *)
Deliver(type, t) ==
  /\ [type |-> type, trade |-> t] \in channel
  /\ channel' = channel \ {[type |-> type, trade |-> t]}
  /\ UNCHANGED <<settings, exchange, latches, orders, queries, first, snapshot, history, faults>>

(* The TradeUpdate carries the id of the order, if the server has it. *)
Publish(t, owners) ==
  /\ incremental' = [incremental EXCEPT ![t.id] = @ + 1]
  /\ attributed' = attributed \union (IF t.order \in owners THEN {t.id} ELSE {})

PublishNothing == UNCHANGED <<incremental, attributed>>

(* Mutant: the server forgets an order that is done. *)
UpdateForgets(t) ==
  known' = IF t.order \in open THEN known \union ({t.order} \intersect ours) ELSE known \ {t.order}

(* Mutant: the orders of others are taken in. *)
UpdateTakesAll(t) == known' = known \union {t.order}

(* The OrderUpdate: the server takes in the orders of its clients. *)
Update(t) == known' = known \union ({t.order} \intersect ours)

(* Mutant: the setting is not looked at. *)
PublishesAlways(t) ==
  /\ ~Portfolio
  /\ Deliver("ORDER_TRADE_UPDATE", t)
  /\ Update(t)
  /\ Publish(t, known')

OrderTradeUpdateClassic(t) ==
  /\ ~Portfolio
  /\ Deliver("ORDER_TRADE_UPDATE", t)
  /\ Update(t)
  /\ IF trade_lite THEN PublishNothing ELSE Publish(t, known')

(* Portfolio does not look at the setting. *)
OrderTradeUpdatePortfolio(t) ==
  /\ Portfolio
  /\ Deliver("ORDER_TRADE_UPDATE", t)
  /\ Update(t)
  /\ Publish(t, known')

ExecutionReport2(t) ==
  /\ Deliver("executionReport", t)
  /\ Update(t)
  /\ IF trade_lite THEN PublishNothing ELSE Publish(t, known')

(* The fill of an order the server does not find is not published. *)
TradeLite(t) ==
  /\ Deliver("TRADE_LITE", t)
  /\ UNCHANGED known
  /\ IF trade_lite /\ t.order \in known THEN Publish(t, known) ELSE PublishNothing

-----------------------------------------------------------------------------
(* The queries: OrderEntryClassic, OrderEntryPortfolio, RestTrade *)

(* A latch is sent when none is outstanding. *)
Send(l) ==
  /\ l \in pending
  /\ outstanding = {}
  /\ pending' = pending \ {l}
  /\ outstanding' = {l}

GetOpenOrders ==
  /\ Send("open_orders")
  /\ orders' = [status |-> "sent", open |-> open]
  /\ UNCHANGED <<settings, exchange, stage, channel, queries, first, known, published,
                 history, faults>>

(* before, fresh, promised: history. *)
TradesQuery(s) ==
  LET q == [symbol |-> s, from |-> Back(LookbackOf(first)), to |-> clock,
            promised |-> Back(LookbackOf(~downloaded)), fresh |-> Connected, before |-> {}]
  IN [q EXCEPT !.before = Found(q)]

(* One query per symbol. *)
GetTrades ==
  /\ orderEntry # "WebSocket"
  /\ "open_orders" \notin pending
  /\ Send("trades")
  /\ queries' = {[q EXCEPT !.fresh = FALSE] : q \in queries} \union
                 {TradesQuery(s) : s \in Download}
  /\ since' = [s \in Download |-> Nothing]
  /\ UNCHANGED <<settings, exchange, stage, channel, orders, first, known, published,
                 live, restored, downloaded, faults>>

(* RestTrade has disabled the query: the latch is never committed. *)
GetTradesDisabled ==
  /\ orderEntry = "WebSocket"
  /\ "open_orders" \notin pending
  /\ Send("trades")
  /\ first' = FALSE
  /\ UNCHANGED <<settings, exchange, stage, channel, orders, queries, known, published,
                 history, faults>>

(* Orders without a client order id are skipped. *)
OpenOrdersAck(listing) ==
  /\ orders.status = "sent"
  /\ Listed(listing)
  /\ known' = known \union (listing \intersect ours)
  /\ restored' = TRUE
  /\ orders' = Idle
  /\ outstanding' = outstanding \ {"open_orders"}
  /\ UNCHANGED <<settings, exchange, stage, pending, channel, queries, first, published,
                 live, downloaded, since, faults>>

OpenOrdersFailed ==
  /\ orders.status = "sent"
  /\ Fault
  /\ orders' = Idle
  /\ outstanding' = outstanding \ {"open_orders"}
  /\ UNCHANGED <<settings, exchange, stage, pending, channel, queries, first, known, published,
                 history>>

(* The fills of the answer are published, without the id of their order.   *)
(* The first answer commits the trades of all symbols.                     *)
TradesAck(q, page) ==
  /\ Returned(q, page)
  /\ queries' = queries \ {q}
  /\ outstanding' = outstanding \ {"trades"}
  /\ snapshot' = snapshot \union {t.id : t \in page}
  /\ first' = FALSE
  /\ downloaded' = TRUE
  /\ since' = IF q.fresh /\ Found(q) \subseteq page THEN [since EXCEPT ![q.symbol] = q.promised] ELSE since
  /\ UNCHANGED <<settings, exchange, stage, pending, channel, orders, known, incremental,
                 attributed, live, restored, faults>>

(* A failure is logged, and committed like a success. *)
TradesFailed(q) ==
  /\ Fault
  /\ queries' = queries \ {q}
  /\ outstanding' = outstanding \ {"trades"}
  /\ UNCHANGED <<settings, exchange, stage, pending, channel, orders, first, known, published,
                 history>>

(* The gateway is stopped and started again. *)
Restart ==
  /\ Fault
  /\ Lost
  /\ pending' = {}
  /\ outstanding' = {}
  /\ orders' = Idle
  /\ queries' = {}
  /\ first' = TRUE
  /\ known' = {}
  /\ incremental' = [i \in FillIds |-> 0]
  /\ snapshot' = {}
  /\ attributed' = {}
  /\ restored' = FALSE
  /\ downloaded' = FALSE
  /\ UNCHANGED <<settings, exchange>>

-----------------------------------------------------------------------------

Next ==
  \/ Tick
  \/ \E o \in Orders : Place(o) \/ \E last \in BOOLEAN : Trade(o, last)
  \/ \E q \in queries : TradesFailed(q) \/ \E page \in SUBSET Found(q) : TradesAck(q, page)
  \/ StreamReady
  \/ StreamDisconnected
  \/ StageCompletes
  \/ \E t \in trades :
       \/ OrderTradeUpdateClassic(t)
       \/ OrderTradeUpdatePortfolio(t)
       \/ ExecutionReport2(t)
       \/ TradeLite(t)
  \/ GetOpenOrders
  \/ GetTrades
  \/ GetTradesDisabled
  \/ \E listing \in SUBSET Orders : OpenOrdersAck(listing)
  \/ OpenOrdersFailed
  \/ Restart

Spec == Init /\ [][Next]_vars

-----------------------------------------------------------------------------
(* Properties *)

OnItsWay(t) == \E type \in {"ORDER_TRADE_UPDATE", "TRADE_LITE", "executionReport"} :
                 [type |-> type, trade |-> t] \in channel

(* Fills the stream does not bring with ws.trade_lite: TRADE_LITE is not   *)
(* published for an order the server does not have, and the report of a    *)
(* margin order is not published either.                                   *)
Dropped(t) ==
  /\ trade_lite
  /\ t.order \notin ours \/ ~restored \/ t.order \in margin

(* "Download trade history": once the download that follows a connect is   *)
(* complete, the client has every fill of a download symbol as far back as *)
(* the lookback goes - that for a restart, until trades were downloaded -  *)
(* or the fill is on its way.  Outages, the fills during the download, and *)
(* those of orders of an earlier process leave no gap.  A symbol whose     *)
(* query failed, or that has more fills than the limit, is not meant.      *)
NoFillIsMissed ==
  stage = "DONE" =>
    \A t \in trades :
      /\ SymbolOf[t.order] \in Download
      /\ t.time >= since[SymbolOf[t.order]]
      /\ ~Dropped(t)
      => t.id \in snapshot \/ incremental[t.id] > 0 \/ OnItsWay(t)

(* "Prefer the trade-lite feed (to the order-trade-update feed)": of the   *)
(* two events of a fill one is published, so a fill is not counted twice.  *)
(* Not true of Portfolio, whose handler of the order's update does not     *)
(* look at the setting.                                                    *)
FillIsReportedOnce == ~(Portfolio /\ trade_lite) => \A i \in FillIds : incremental[i] <= 1

(* A fill of an order the server knows, which happens while the stream is  *)
(* up, is published with the id of that order, so that it reaches the      *)
(* strategy that owns the order, or is on its way.  Only the stream can do *)
(* so: the download has no client order id.                                *)
LiveFillIsAttributed ==
  \A t \in trades :
    t.id \in live /\ ~(trade_lite /\ t.order \in margin)
      => t.id \in attributed \/ OnItsWay(t)

===============================================================================
