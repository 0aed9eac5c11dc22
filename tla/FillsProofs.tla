----------------------------- MODULE FillsProofs -----------------------------
(***************************************************************************)
(* What holds of Fills for every set of orders, every setting and every    *)
(* bound.                                                                  *)
(***************************************************************************)
EXTENDS Fills, FiniteSetTheorems, TLAPS

-----------------------------------------------------------------------------
(* Types *)

(* Fills are numbered from 1, without gaps, and the bound counts them. *)
Counted ==
  /\ IsFiniteSet(trades)
  /\ Cardinality(trades) + faults <= MaxEvents
  /\ \A t \in trades : t.id <= Cardinality(trades) /\ t.time <= clock
  /\ \A t, u \in trades : t.id = u.id => t = u

TypeInv == TypeOK /\ Counted

(* The fill that Trade makes. *)
NextFill(o) == [id |-> Cardinality(trades) + 1, order |-> o, time |-> clock]

LEMMA NextFillIsNew ==
  ASSUME FillsAssumption, TypeInv, Bounded, NEW o \in Orders
  PROVE  /\ Cardinality(trades) \in Nat
         /\ NextFill(o) \in Trades
         /\ NextFill(o) \notin trades
         /\ Counted /\ trades' = trades \union {NextFill(o)} /\ UNCHANGED <<clock, faults>> => Counted'
         /\ trades' = trades \union {NextFill(o)} => Cardinality(trades') = Cardinality(trades) + 1
<1>1. Cardinality(trades) \in Nat /\ IsFiniteSet(trades)
  BY FS_CardinalityType DEF TypeInv, Counted
<1>2. Cardinality(trades) + 1 <= MaxEvents /\ faults \in Nat /\ MaxEvents \in Nat /\ clock \in Times
  BY <1>1 DEF Bounded, TypeInv, TypeOK, FillsAssumption
<1>3. NextFill(o) \in Trades
  BY <1>1, <1>2 DEF NextFill, Trades, FillIds
<1>4. NextFill(o) \notin trades
  BY <1>1 DEF TypeInv, Counted, NextFill
<1>5. ASSUME trades' = trades \union {NextFill(o)}
      PROVE  IsFiniteSet(trades') /\ Cardinality(trades') = Cardinality(trades) + 1
  BY <1>1, <1>4, <1>5, FS_AddElement
<1>6. ASSUME trades' = trades \union {NextFill(o)}, UNCHANGED <<clock, faults>>
      PROVE  Counted'
  <2>1. Cardinality(trades') + faults' <= MaxEvents
    BY <1>1, <1>2, <1>5, <1>6 DEF Bounded
  <2>2. \A t \in trades' : t.id \in Nat /\ t.id <= Cardinality(trades') /\ t.time <= clock'
    <3>1. \A t \in trades : t.id \in Nat /\ t.id <= Cardinality(trades) /\ t.time <= clock
      BY DEF TypeInv, TypeOK, Counted, Trades, FillIds
    <3>2. NextFill(o).id = Cardinality(trades) + 1 /\ NextFill(o).time = clock /\ clock \in Nat
      BY <1>2 DEF NextFill, Times
    <3> QED
      BY <1>1, <1>5, <1>6, <3>1, <3>2
  <2>3. \A t, u \in trades' : t.id = u.id => t = u
    BY <1>1, <1>6 DEF TypeInv, TypeOK, Counted, NextFill, Trades, FillIds
  <2> QED
    BY <1>5, <1>6, <2>1, <2>2, <2>3 DEF Counted
<1> QED
  BY <1>1, <1>3, <1>4, <1>5, <1>6

LEMMA BackIsTime ==
  ASSUME FillsAssumption, clock \in Times, NEW b \in BOOLEAN
  PROVE  Back(LookbackOf(b)) \in Times
  BY DEF FillsAssumption, Back, LookbackOf, Times

LEMMA DeliverType ==
  ASSUME FillsAssumption, TypeInv, NEW type, NEW t \in trades, Deliver(type, t),
         known' \subseteq ours, PublishNothing \/ \E owners \in SUBSET ours : Publish(t, owners)
  PROVE  TypeInv'
<1>1. t \in Trades /\ t.id \in FillIds
  BY DEF TypeInv, TypeOK, Trades
<1>2. incremental' \in [FillIds -> Nat] /\ attributed' \subseteq FillIds
  BY <1>1 DEF PublishNothing, Publish, TypeInv, TypeOK
<1>3. /\ channel' \subseteq Events
      /\ UNCHANGED <<settings, exchange, latches, orders, queries, first, snapshot, history, faults>>
  BY DEF Deliver, TypeInv, TypeOK
<1> QED
  BY <1>2, <1>3 DEF TypeInv, TypeOK, Counted, settings, exchange, latches, history

LEMMA TypeInit ==
  ASSUME FillsAssumption, Init
  PROVE  TypeInv
<1>1. Idle \in [status : {"none", "sent"}, open : SUBSET Orders]
  BY DEF Idle
<1>2. margin \in SUBSET Orders
  BY DEF Init
<1>3. /\ [s \in Download |-> Nothing] \in [Download -> 0..Nothing]
      /\ 0 \in Times /\ 0 \in 0..MaxEvents
  BY DEF FillsAssumption, Nothing, Times
<1>4. TypeOK
  BY <1>1, <1>2, <1>3 DEF Init, TypeOK
<1>5. Counted
  BY FS_EmptySet DEF FillsAssumption, Init, Counted
<1> QED
  BY <1>4, <1>5 DEF TypeInv

(* An event updates the server's orders with one of ours, or not at all. *)
LEMMA UpdateType ==
  ASSUME TypeInv, NEW t \in trades, Update(t)
  PROVE  known' \subseteq ours
  BY DEF Update, TypeInv, TypeOK

(* A query that is no longer of the present user stream. *)
Outdated(q) == [q EXCEPT !.fresh = FALSE]

LEMMA OutdatedType ==
  ASSUME NEW q \in Queries
  PROVE  /\ Outdated(q) \in Queries
         /\ ~Outdated(q).fresh
         /\ Outdated(q).symbol = q.symbol /\ Outdated(q).from = q.from
         /\ Outdated(q).to = q.to /\ Outdated(q).promised = q.promised
<1> DEFINE P == SUBSET Trades
<1>1. q \in [symbol : Download, from : Times, to : Times, promised : Times, fresh : BOOLEAN, before : P]
  BY DEF Queries
<1> HIDE DEF P
<1>2. /\ Outdated(q) \in [symbol : Download, from : Times, to : Times, promised : Times,
                         fresh : BOOLEAN, before : P]
      /\ ~Outdated(q).fresh
      /\ Outdated(q).symbol = q.symbol /\ Outdated(q).from = q.from
      /\ Outdated(q).to = q.to /\ Outdated(q).promised = q.promised
  BY <1>1 DEF Outdated
<1> QED
  BY <1>2 DEF P, Queries

(* The queries of GetTrades are well formed. *)
LEMMA GetTradesType ==
  ASSUME FillsAssumption, TypeInv, GetTrades
  PROVE  TypeInv'
<1>1. clock \in Times /\ \A b \in BOOLEAN : Back(LookbackOf(b)) \in Times
  BY BackIsTime DEF TypeInv, TypeOK
<1>2. ASSUME NEW s \in Download
      PROVE  TradesQuery(s) \in Queries
  BY <1>1 DEF TradesQuery, Queries, Found, TypeInv, TypeOK, Connected
<1>3. \A q \in queries : Outdated(q) \in Queries
  BY OutdatedType DEF TypeInv, TypeOK
<1>4. queries' \subseteq Queries
  BY <1>2, <1>3 DEF GetTrades, Outdated
<1>5. pending' \subseteq Stages /\ outstanding' \subseteq Stages
  BY DEF GetTrades, Send, Stages, TypeInv, TypeOK
<1>6. since' \in [Download -> 0..Nothing]
  BY DEF GetTrades, Nothing, FillsAssumption
<1> QED
  BY <1>4, <1>5, <1>6 DEF GetTrades, TypeInv, TypeOK, Counted, settings, exchange, published

LEMMA StageType ==
  ASSUME TypeInv, [StreamReady \/ StageCompletes]_vars
  PROVE  TypeInv'
<1>1. After(stage) \in Stages \union {"DONE"} /\ (stage = "DISCONNECTED" => After(stage) = "open_orders")
  BY DEF After, Stages
<1>2. CASE StreamReady
  <2>1. stage' \in Stages /\ pending' \subseteq Stages
    BY <1>1, <1>2 DEF StreamReady, Connected, TypeInv, TypeOK, Stages
  <2> QED
    BY <1>2, <2>1 DEF StreamReady, TypeInv, TypeOK, Counted, settings, exchange, published, history
<1>3. CASE StageCompletes
  <2>1. stage' \in Stages \union {"DONE"} /\ pending' \subseteq Stages
    BY <1>1, <1>3 DEF StageCompletes, TypeInv, TypeOK
  <2> QED
    BY <1>3, <2>1 DEF StageCompletes, TypeInv, TypeOK, Counted, settings, exchange, published, history
<1>4. CASE UNCHANGED vars
  BY <1>4 DEF vars, TypeInv, TypeOK, Counted, settings, exchange, latches, published, history
<1> QED
  BY <1>2, <1>3, <1>4

(* A fault leaves room for the fills so far. *)
LEMMA FaultCounted ==
  ASSUME FillsAssumption, TypeInv, Fault, UNCHANGED exchange
  PROVE  Counted' /\ faults' \in 0..MaxEvents
<1>1. Cardinality(trades) \in Nat /\ faults \in Nat /\ MaxEvents \in Nat
  BY FS_CardinalityType DEF TypeInv, TypeOK, Counted, FillsAssumption
<1>2. faults' \in 0..MaxEvents /\ Cardinality(trades) + faults' <= MaxEvents
  BY <1>1 DEF Fault, Bounded
<1> QED
  BY <1>2 DEF TypeInv, Counted, exchange

LEMMA TypeStep ==
  ASSUME FillsAssumption, TypeInv, [Next]_vars
  PROVE  TypeInv'
<1>1. CASE Tick
  <2>1. clock' \in Times /\ clock' >= clock
    BY <1>1 DEF Tick, Times, TypeInv, TypeOK, FillsAssumption
  <2>2. Counted'
    BY <1>1, <2>1 DEF Tick, TypeInv, TypeOK, Counted, Trades, Times
  <2> QED
    BY <1>1, <2>1, <2>2 DEF Tick, TypeInv, TypeOK, settings, latches, published, history
<1>2. ASSUME NEW o \in Orders, Place(o)
      PROVE  TypeInv'
  BY <1>2 DEF Place, TypeInv, TypeOK, Counted, settings, latches, published, history
<1>3. ASSUME NEW o \in Orders, NEW last \in BOOLEAN, Trade(o, last)
      PROVE  TypeInv'
  <2>1. /\ trades' = trades \union {NextFill(o)}
        /\ channel' = IF Connected THEN channel \union EventsOf(NextFill(o)) ELSE channel
        /\ live' = IF Connected /\ o \in known THEN live \union {NextFill(o).id} ELSE live
        /\ open' = IF last THEN open \ {o} ELSE open
        /\ UNCHANGED <<settings, clock, latches, orders, queries, first, known, published,
                       restored, downloaded, since, faults>>
    BY <1>3 DEF Trade, NextFill
  <2>2. NextFill(o) \in Trades /\ Counted'
    BY <1>3, <2>1, NextFillIsNew DEF Trade, TypeInv
  <2>3. EventsOf(NextFill(o)) \subseteq Events /\ NextFill(o).id \in FillIds
    BY <2>2 DEF EventsOf, Events, Trades
  <2>4. trades' \subseteq Trades /\ channel' \subseteq Events /\ live' \subseteq FillIds /\ open' \subseteq Orders
    BY <2>1, <2>2, <2>3 DEF TypeInv, TypeOK
  <2> QED
    BY <2>1, <2>2, <2>4 DEF TypeInv, TypeOK, settings, latches, published
<1>4. ASSUME NEW q \in queries, TradesFailed(q)
      PROVE  TypeInv'
  BY <1>4, FaultCounted
     DEF TradesFailed, TypeInv, TypeOK, settings, exchange, published, history
<1>5. ASSUME NEW q \in queries, NEW page \in SUBSET Found(q), TradesAck(q, page)
      PROVE  TypeInv'
  <2>1. q \in Queries
    BY DEF TypeInv, TypeOK
  <2>2. since' \in [Download -> 0..Nothing]
    BY <1>5, <2>1 DEF TradesAck, TypeInv, TypeOK, Queries, Times, Nothing, FillsAssumption
  <2>3. snapshot' \subseteq FillIds
    BY <1>5 DEF TradesAck, Found, TypeInv, TypeOK, Trades
  <2> QED
    BY <1>5, <2>2, <2>3 DEF TradesAck, TypeInv, TypeOK, Counted, settings, exchange
<1>6. CASE StreamDisconnected
  <2>1. Counted' /\ faults' \in 0..MaxEvents
    BY <1>6, FaultCounted DEF StreamDisconnected
  <2>2. queries' \subseteq Queries
    BY <1>6, OutdatedType DEF StreamDisconnected, TypeInv, TypeOK, Outdated
  <2>3. since' \in [Download -> 0..Nothing]
    BY <1>6 DEF StreamDisconnected, Lost, Nothing, FillsAssumption
  <2> QED
    BY <1>6, <2>1, <2>2, <2>3 DEF StreamDisconnected, Lost, TypeInv, TypeOK, settings, exchange, published
<1>7. ASSUME NEW t \in trades,
             \/ OrderTradeUpdateClassic(t)
             \/ OrderTradeUpdatePortfolio(t)
             \/ ExecutionReport2(t)
      PROVE  TypeInv'
  <2>1. known' \subseteq ours
    BY <1>7, UpdateType DEF OrderTradeUpdateClassic, OrderTradeUpdatePortfolio, ExecutionReport2
  <2>2. PublishNothing \/ \E owners \in SUBSET ours : Publish(t, owners)
    BY <1>7, <2>1 DEF OrderTradeUpdateClassic, OrderTradeUpdatePortfolio, ExecutionReport2
  <2>3. \E type \in {"ORDER_TRADE_UPDATE", "executionReport"} : Deliver(type, t)
    BY <1>7 DEF OrderTradeUpdateClassic, OrderTradeUpdatePortfolio, ExecutionReport2
  <2> QED
    BY <2>1, <2>2, <2>3, DeliverType
<1>8. ASSUME NEW t \in trades, TradeLite(t)
      PROVE  TypeInv'
  BY <1>8, DeliverType DEF TradeLite, TypeInv, TypeOK
<1>9. CASE GetOpenOrders
  BY <1>9 DEF GetOpenOrders, Send, Stages, TypeInv, TypeOK, Counted, settings, exchange, published, history
<1>10. CASE GetTrades
  BY <1>10, GetTradesType
<1>11. CASE GetTradesDisabled
  BY <1>11 DEF GetTradesDisabled, Send, Stages, TypeInv, TypeOK, Counted, settings, exchange, published, history
<1>12. ASSUME NEW listing \in SUBSET Orders, OpenOrdersAck(listing)
       PROVE  TypeInv'
  BY <1>12 DEF OpenOrdersAck, Idle, TypeInv, TypeOK, Counted, settings, exchange, published
<1>13. CASE OpenOrdersFailed
  BY <1>13, FaultCounted DEF OpenOrdersFailed, Idle, TypeInv, TypeOK, settings, exchange, published, history
<1>14. CASE Restart
  <2>1. Counted' /\ faults' \in 0..MaxEvents
    BY <1>14, FaultCounted DEF Restart
  <2>2. since' \in [Download -> 0..Nothing]
    BY <1>14 DEF Restart, Lost, Nothing, FillsAssumption
  <2> QED
    BY <1>14, <2>1, <2>2 DEF Restart, Lost, Idle, TypeInv, TypeOK, settings, exchange
<1>15. CASE StreamReady \/ StageCompletes \/ UNCHANGED vars
  BY <1>15, StageType
<1> QED
  BY <1>1, <1>2, <1>3, <1>4, <1>5, <1>6, <1>7, <1>8, <1>9, <1>10, <1>11, <1>12, <1>13, <1>14, <1>15
     DEF Next

(* The state stays within its types, and no two fills have the same id. *)
LEMMA TypeInvariant == Spec => []TypeInv
<1>1. Init => TypeInv
  BY TypeInit, FillsAssumption
<1>2. TypeInv /\ [Next]_vars => TypeInv'
  BY TypeStep, FillsAssumption
<1> QED
  BY <1>1, <1>2, PTL DEF Spec

(* The variables of Fills keep their types. *)
THEOREM TypeCorrect == Spec => []TypeOK
<1>1. TypeInv => TypeOK
  BY DEF TypeInv
<1> QED
  BY <1>1, TypeInvariant, PTL

-----------------------------------------------------------------------------
(* A fill is published once *)

(* The event of a fill that is published: TRADE_LITE, or one of the other  *)
(* two, of which the exchange sends one.                                   *)
Published(e) == IF trade_lite THEN e.type = "TRADE_LITE" ELSE e.type # "TRADE_LITE"

ChannelInv ==
  \A e \in channel :
    /\ e.trade \in trades
    /\ e.type # "TRADE_LITE" => (e.type = "executionReport" <=> e.trade.order \in margin)

OnceInv ==
  ~(Portfolio /\ trade_lite) =>
    /\ \A i \in FillIds : incremental[i] <= 1
    /\ \A i \in FillIds : i > Cardinality(trades) => incremental[i] = 0
    /\ \A e \in channel : Published(e) => incremental[e.trade.id] = 0

LEMMA EventsOfType ==
  ASSUME NEW t \in Trades, NEW e \in EventsOf(t)
  PROVE  /\ e \in Events /\ e.trade = t
         /\ e.type # "TRADE_LITE" => (e.type = "executionReport" <=> e.trade.order \in margin)
  BY DEF EventsOf, Events

LEMMA ChannelInit ==
  ASSUME Init
  PROVE  ChannelInv /\ OnceInv
  BY DEF Init, ChannelInv, OnceInv, FillIds

LEMMA ChannelStep ==
  ASSUME FillsAssumption, TypeInv, ChannelInv, [Next]_vars
  PROVE  ChannelInv'
<1>1. ASSUME NEW o \in Orders, NEW last \in BOOLEAN, Trade(o, last)
      PROVE  ChannelInv'
  <2>1. NextFill(o) \in Trades
    BY <1>1, NextFillIsNew DEF Trade
  <2>2. /\ trades' = trades \union {NextFill(o)}
        /\ channel' \subseteq channel \union EventsOf(NextFill(o))
        /\ margin' = margin
    BY <1>1 DEF Trade, NextFill, settings
  <2> QED
    BY <2>1, <2>2, EventsOfType DEF ChannelInv
<1>2. ASSUME channel' \subseteq channel, UNCHANGED <<trades, margin>>
      PROVE  ChannelInv'
  BY <1>2 DEF ChannelInv
<1>3. ASSUME NEW t \in trades,
             \/ OrderTradeUpdateClassic(t)
             \/ OrderTradeUpdatePortfolio(t)
             \/ ExecutionReport2(t)
             \/ TradeLite(t)
      PROVE  channel' \subseteq channel /\ UNCHANGED <<trades, margin>>
  BY <1>3 DEF OrderTradeUpdateClassic, OrderTradeUpdatePortfolio, ExecutionReport2, TradeLite,
              Deliver, exchange, settings
<1>4. CASE ~(\E o \in Orders, last \in BOOLEAN : Trade(o, last))
  BY <1>2, <1>3, <1>4
     DEF Next, vars, Tick, Place, TradesFailed, TradesAck, StreamReady, StreamDisconnected, Lost,
         StageCompletes, GetOpenOrders, GetTrades, GetTradesDisabled, OpenOrdersAck,
         OpenOrdersFailed, Restart, exchange, settings
<1> QED
  BY <1>1, <1>4

(* One of the events of a fill is published: then no other one will be.    *)
LEMMA DeliverOnce ==
  ASSUME FillsAssumption, TypeInv, ChannelInv, OnceInv, ~(Portfolio /\ trade_lite),
         NEW type, NEW t \in trades, Deliver(type, t),
         \/ PublishNothing
         \/ (\E owners : Publish(t, owners)) /\ Published([type |-> type, trade |-> t])
  PROVE  OnceInv'
<1> DEFINE event == [type |-> type, trade |-> t]
<1>1. /\ event \in channel /\ event.trade = t /\ event.type = type
      /\ channel' = channel \ {event}
      /\ UNCHANGED <<trades, trade_lite, margin, orderEntry>>
  BY DEF Deliver, exchange, settings
<1>2. CASE PublishNothing
  BY <1>1, <1>2 DEF PublishNothing, OnceInv, Published, Portfolio
<1>3. CASE (\E owners : Publish(t, owners)) /\ Published(event)
  <2>1. incremental' = [incremental EXCEPT ![t.id] = @ + 1] /\ t.id \in FillIds
    BY <1>3 DEF Publish, TypeInv, TypeOK, Trades
  <2>2. incremental \in [FillIds -> Nat] /\ incremental[t.id] = 0
    BY <1>1, <1>3 DEF OnceInv, TypeInv, TypeOK
  <2>3. ASSUME NEW e \in channel', Published(e)'
        PROVE  e.trade.id # t.id
    <3>1. e \in channel /\ e # event /\ Published(e)
      BY <1>1, <2>3 DEF Published
    <3>2. e \in Events /\ event \in Events /\ e.trade \in trades
      BY <1>1, <3>1 DEF ChannelInv, TypeInv, TypeOK
    <3>3. CASE e.trade = t
      <4>1. e.type = event.type
        BY <1>1, <1>3, <3>1, <3>2, <3>3 DEF ChannelInv, Published, Events
      <4> QED
        BY <1>1, <3>1, <3>2, <3>3, <4>1 DEF Events
    <3>4. CASE e.trade # t
      BY <3>2, <3>4 DEF TypeInv, Counted
    <3> QED
      BY <3>3, <3>4
  <2>4. t.id <= Cardinality(trades) /\ t.id \in Nat
    BY <2>1 DEF TypeInv, Counted, FillIds
  <2>5. Cardinality(trades) \in Nat
    BY FS_CardinalityType DEF TypeInv, Counted
  <2>6. \A i \in FillIds : incremental'[i] <= 1
    BY <2>1, <2>2 DEF OnceInv
  <2>7. \A i \in FillIds : i > Cardinality(trades') => incremental'[i] = 0
    BY <1>1, <2>1, <2>4, <2>5 DEF OnceInv, FillIds
  <2>8. \A e \in channel' : Published(e)' => incremental'[e.trade.id] = 0
    <3> SUFFICES ASSUME NEW e \in channel', Published(e)'
                 PROVE  incremental'[e.trade.id] = 0
      OBVIOUS
    <3>1. e \in channel /\ Published(e) /\ e.trade.id \in FillIds
      BY <1>1 DEF Published, TypeInv, TypeOK, Events, Trades
    <3> QED
      BY <2>1, <2>2, <2>3, <3>1 DEF OnceInv
  <2> QED
    BY <2>6, <2>7, <2>8 DEF OnceInv
<1> QED
  BY <1>2, <1>3

LEMMA OnceStep ==
  ASSUME FillsAssumption, TypeInv, ChannelInv, OnceInv, [Next]_vars
  PROVE  OnceInv'
<1> SUFFICES ASSUME ~(Portfolio /\ trade_lite)', UNCHANGED settings
             PROVE  OnceInv'
  BY DEF OnceInv, Next, vars, Tick, Place, Trade, TradesFailed, TradesAck, StreamReady, StreamDisconnected,
         StageCompletes, GetOpenOrders, GetTrades, GetTradesDisabled, OpenOrdersAck, OpenOrdersFailed,
         Restart, OrderTradeUpdateClassic, OrderTradeUpdatePortfolio, ExecutionReport2, TradeLite, Deliver
<1>0. ~(Portfolio /\ trade_lite)
  BY DEF Portfolio, settings
<1>1. ASSUME NEW o \in Orders, NEW last \in BOOLEAN, Trade(o, last)
      PROVE  OnceInv'
  <2>1. /\ NextFill(o) \in Trades
        /\ Cardinality(trades) \in Nat
        /\ Cardinality(trades') = Cardinality(trades) + 1
    BY <1>1, NextFillIsNew DEF Trade, NextFill
  <2>2. /\ channel' \subseteq channel \union EventsOf(NextFill(o))
        /\ incremental' = incremental
    BY <1>1 DEF Trade, NextFill, published
  <2>3. NextFill(o).id \in FillIds /\ incremental[NextFill(o).id] = 0
    BY <1>0, <2>1 DEF OnceInv, NextFill, Trades
  <2>4. \A e \in EventsOf(NextFill(o)) : e.trade = NextFill(o)
    BY <2>1, EventsOfType
  <2>5. \A e \in channel' : Published(e)' => incremental'[e.trade.id] = 0
    BY <1>0, <2>2, <2>3, <2>4 DEF OnceInv, Published, settings
  <2>6. \A i \in FillIds : i > Cardinality(trades') => incremental'[i] = 0
    BY <1>0, <2>1, <2>2 DEF OnceInv, FillIds
  <2> QED
    BY <1>0, <2>2, <2>5, <2>6 DEF OnceInv
<1>2. ASSUME channel' \subseteq channel, UNCHANGED <<trades, incremental>>
      PROVE  OnceInv'
  BY <1>0, <1>2 DEF OnceInv, Published, settings
<1>3. CASE StreamDisconnected
  BY <1>2, <1>3 DEF StreamDisconnected, Lost, exchange, published
<1>4. CASE Restart
  BY <1>4 DEF Restart, Lost, OnceInv, FillIds
<1>5. ASSUME NEW t \in trades,
             OrderTradeUpdateClassic(t) \/ OrderTradeUpdatePortfolio(t) \/ ExecutionReport2(t) \/ TradeLite(t)
      PROVE  OnceInv'
  <2>1. CASE OrderTradeUpdateClassic(t)
    BY <1>0, <2>1, DeliverOnce DEF OrderTradeUpdateClassic, Published
  <2>2. CASE OrderTradeUpdatePortfolio(t)
    BY <1>0, <2>2, DeliverOnce DEF OrderTradeUpdatePortfolio, Published
  <2>3. CASE ExecutionReport2(t)
    BY <1>0, <2>3, DeliverOnce DEF ExecutionReport2, Published
  <2>4. CASE TradeLite(t)
    BY <1>0, <2>4, DeliverOnce DEF TradeLite, Published
  <2> QED
    BY <1>5, <2>1, <2>2, <2>3, <2>4
<1>6. CASE \/ Tick \/ StreamReady \/ StageCompletes \/ GetOpenOrders \/ GetTrades \/ GetTradesDisabled
           \/ OpenOrdersFailed \/ UNCHANGED vars
           \/ (\E o \in Orders : Place(o))
           \/ (\E listing \in SUBSET Orders : OpenOrdersAck(listing))
           \/ (\E q \in queries : TradesFailed(q))
           \/ (\E q \in queries : \E page \in SUBSET Found(q) : TradesAck(q, page))
  BY <1>2, <1>6 DEF vars, Tick, Place, TradesFailed, TradesAck, StreamReady, StageCompletes, GetOpenOrders,
                    GetTrades, GetTradesDisabled, OpenOrdersAck, OpenOrdersFailed, exchange, published
<1> QED
  BY <1>1, <1>3, <1>4, <1>5, <1>6 DEF Next

(* No fill is published twice as it happens: not by the update of its      *)
(* order and TRADE_LITE, nor after a reconnect (DropCopyClassic, and       *)
(* DropCopyPortfolio without ws.trade_lite).                               *)
THEOREM ReportedOnce == Spec => []FillIsReportedOnce
<1>1. Init => TypeInv /\ ChannelInv /\ OnceInv
  BY TypeInit, ChannelInit, FillsAssumption
<1>2. TypeInv /\ ChannelInv /\ OnceInv /\ [Next]_vars => (TypeInv /\ ChannelInv /\ OnceInv)'
  BY TypeStep, ChannelStep, OnceStep, FillsAssumption
<1>3. OnceInv => FillIsReportedOnce
  BY DEF OnceInv, FillIsReportedOnce
<1> QED
  BY <1>1, <1>2, <1>3, PTL DEF Spec

-----------------------------------------------------------------------------
(* A fill that is on its way will be published *)

(* The event by which a fill is published. *)
Carrier(t) ==
  [type |-> IF trade_lite THEN "TRADE_LITE"
            ELSE IF t.order \in margin THEN "executionReport" ELSE "ORDER_TRADE_UPDATE",
   trade |-> t]

Coming(t) ==
  /\ Carrier(t) \in channel
  /\ trade_lite => t.order \in known /\ t.order \notin margin

Handler(t) ==
  \/ OrderTradeUpdateClassic(t)
  \/ OrderTradeUpdatePortfolio(t)
  \/ ExecutionReport2(t)
  \/ TradeLite(t)

(* What no handler changes. *)
LEMMA HandlerFrame ==
  ASSUME TypeInv, NEW t \in trades, Handler(t)
  PROVE  /\ UNCHANGED <<settings, exchange, latches, orders, queries, first, snapshot, history, faults>>
         /\ known \subseteq known'
         /\ attributed \subseteq attributed'
         /\ \A i \in FillIds : incremental[i] > 0 => incremental'[i] > 0
<1>1. t.id \in FillIds /\ incremental \in [FillIds -> Nat]
  BY DEF TypeInv, TypeOK, Trades
<1>2. \E type \in {"ORDER_TRADE_UPDATE", "executionReport", "TRADE_LITE"} : Deliver(type, t)
  BY DEF Handler, OrderTradeUpdateClassic, OrderTradeUpdatePortfolio, ExecutionReport2, TradeLite
<1>3. Update(t) \/ UNCHANGED known
  BY DEF Handler, OrderTradeUpdateClassic, OrderTradeUpdatePortfolio, ExecutionReport2, TradeLite
<1>4. PublishNothing \/ \E owners \in {known, known'} : Publish(t, owners)
  BY DEF Handler, OrderTradeUpdateClassic, OrderTradeUpdatePortfolio, ExecutionReport2, TradeLite
<1>5. attributed \subseteq attributed' /\ \A i \in FillIds : incremental[i] > 0 => incremental'[i] > 0
  BY <1>1, <1>4 DEF PublishNothing, Publish
<1> QED
  BY <1>2, <1>3, <1>5 DEF Deliver, Update

(* A fill on its way stays so until it is published, with the id of its    *)
(* order when the server knows it.                                         *)
LEMMA HandlerPublishes ==
  ASSUME TypeInv, NEW t \in trades, Handler(t), NEW u \in trades, Coming(u)
  PROVE  \/ Coming(u)'
         \/ incremental'[u.id] > 0 /\ (u.order \in known => u.id \in attributed')
<1>1. /\ UNCHANGED <<trade_lite, ours, margin>>
      /\ known \subseteq known'
  BY HandlerFrame DEF settings
<1>2. t.id \in FillIds /\ incremental \in [FillIds -> Nat]
  BY DEF TypeInv, TypeOK, Trades
<1>3. ASSUME NEW type, Deliver(type, t), Carrier(u) # [type |-> type, trade |-> t]
      PROVE  Coming(u)'
  BY <1>1, <1>3 DEF Deliver, Coming, Carrier
<1>4. ASSUME NEW owners, Publish(t, owners), known \subseteq owners, u = t
      PROVE  incremental'[u.id] > 0 /\ (u.order \in known => u.id \in attributed')
  BY <1>2, <1>4 DEF Publish
<1>5. CASE OrderTradeUpdateClassic(t)
  BY <1>1, <1>3, <1>4, <1>5 DEF OrderTradeUpdateClassic, Carrier
<1>6. CASE OrderTradeUpdatePortfolio(t)
  BY <1>1, <1>3, <1>4, <1>6 DEF OrderTradeUpdatePortfolio, Carrier
<1>7. CASE ExecutionReport2(t)
  BY <1>1, <1>3, <1>4, <1>7 DEF ExecutionReport2, Carrier
<1>8. CASE TradeLite(t)
  BY <1>1, <1>3, <1>4, <1>8 DEF TradeLite, Carrier, Coming
<1> QED
  BY <1>5, <1>6, <1>7, <1>8 DEF Handler

LEMMA ComingIsOnItsWay ==
  ASSUME NEW t, Coming(t)
  PROVE  OnItsWay(t)
  BY DEF Coming, Carrier, OnItsWay

(* A fill made while the stream is up is on its way. *)
LEMMA FillIsComing ==
  ASSUME FillsAssumption, TypeInv, NEW o \in Orders, NEW last \in BOOLEAN, Trade(o, last), Connected,
         trade_lite => o \in known /\ o \notin margin
  PROVE  \A t : t = NextFill(o) => Coming(t)'
<1> SUFFICES ASSUME NEW t, t = NextFill(o)
             PROVE  Coming(t)'
  OBVIOUS
<1>1. /\ channel' = channel \union EventsOf(t)
      /\ UNCHANGED <<trade_lite, ours, margin, known>>
      /\ t.order = o
  BY DEF Trade, NextFill, settings
<1>2. Carrier(t) \in EventsOf(t)
  BY <1>1 DEF Carrier, EventsOf
<1> QED
  BY <1>1, <1>2 DEF Coming, Carrier

-----------------------------------------------------------------------------
(* Fills as they happen *)

LiveInv ==
  /\ \A i \in live : i <= Cardinality(trades)
  /\ \A t \in trades :
       t.id \in live =>
         /\ t.order \in known
         /\ \/ trade_lite /\ t.order \in margin
            \/ t.id \in attributed
            \/ Coming(t)

LEMMA LiveStep ==
  ASSUME FillsAssumption, TypeInv, LiveInv, [Next]_vars
  PROVE  LiveInv'
<1>1. ASSUME NEW o \in Orders, NEW last \in BOOLEAN, Trade(o, last)
      PROVE  LiveInv'
  <2>1. /\ NextFill(o) \in Trades
        /\ Cardinality(trades) \in Nat
        /\ Cardinality(trades') = Cardinality(trades) + 1
    BY <1>1, NextFillIsNew DEF Trade, NextFill
  <2>2. /\ trades' = trades \union {NextFill(o)}
        /\ channel \subseteq channel'
        /\ live' = IF Connected /\ o \in known THEN live \union {NextFill(o).id} ELSE live
        /\ UNCHANGED <<trade_lite, ours, margin, known, attributed>>
        /\ NextFill(o).id = Cardinality(trades) + 1 /\ NextFill(o).order = o
    BY <1>1 DEF Trade, NextFill, settings, published
  <2>3. \A i \in live' : i <= Cardinality(trades')
    BY <2>1, <2>2 DEF LiveInv, TypeInv, TypeOK, FillIds
  <2>4. ASSUME NEW t \in trades, t.id \in live'
        PROVE  t.order \in known' /\ ((trade_lite' /\ t.order \in margin') \/ t.id \in attributed' \/ Coming(t)')
    <3>1. t.id \in live
      <4>1. t.id \in Nat /\ t.id <= Cardinality(trades)
        BY DEF TypeInv, TypeOK, Counted, Trades, FillIds
      <4>2. t.id # NextFill(o).id
        BY <2>1, <2>2, <4>1
      <4> QED
        BY <2>2, <2>4, <4>2
    <3> QED
      BY <2>2, <3>1 DEF LiveInv, Coming, Carrier
  <2>5. ASSUME NEW t, t = NextFill(o), t.id \in live'
        PROVE  t.order \in known' /\ ((trade_lite' /\ t.order \in margin') \/ Coming(t)')
    <3>1. t.id \notin live
      BY <2>1, <2>2, <2>5 DEF LiveInv
    <3>2. Connected /\ o \in known
      BY <2>2, <2>5, <3>1
    <3>3. CASE trade_lite /\ o \in margin
      BY <2>2, <2>5, <3>2, <3>3
    <3>4. CASE ~(trade_lite /\ o \in margin)
      BY <1>1, <2>2, <2>5, <3>2, <3>4, FillIsComing
    <3> QED
      BY <3>3, <3>4
  <2> QED
    BY <2>2, <2>3, <2>4, <2>5 DEF LiveInv
<1>2. ASSUME known \subseteq known', UNCHANGED <<channel, live, trades, trade_lite, ours, margin, attributed>>
      PROVE  LiveInv'
  BY <1>2 DEF LiveInv, Coming, Carrier
<1>3. CASE StreamDisconnected \/ Restart
  BY <1>3 DEF StreamDisconnected, Restart, Lost, LiveInv
<1>4. ASSUME NEW t \in trades, Handler(t)
      PROVE  LiveInv'
  <2>1. /\ known \subseteq known' /\ attributed \subseteq attributed'
        /\ UNCHANGED <<live, trades, trade_lite, ours, margin>>
    BY <1>4, HandlerFrame DEF settings, exchange, history
  <2>2. ASSUME NEW u \in trades, u.id \in live
        PROVE  u.order \in known' /\ ((trade_lite' /\ u.order \in margin') \/ u.id \in attributed' \/ Coming(u)')
    BY <1>4, <2>1, <2>2, HandlerPublishes DEF LiveInv
  <2> QED
    BY <2>1, <2>2 DEF LiveInv
<1>5. CASE \/ Tick \/ StreamReady \/ StageCompletes \/ GetOpenOrders \/ GetTrades \/ GetTradesDisabled
           \/ OpenOrdersFailed \/ UNCHANGED vars
           \/ (\E o \in Orders : Place(o))
           \/ (\E listing \in SUBSET Orders : OpenOrdersAck(listing))
           \/ (\E q \in queries : TradesFailed(q))
           \/ (\E q \in queries : \E page \in SUBSET Found(q) : TradesAck(q, page))
  BY <1>2, <1>5 DEF vars, Tick, Place, TradesFailed, TradesAck, StreamReady, StageCompletes, GetOpenOrders,
                    GetTrades, GetTradesDisabled, OpenOrdersAck, OpenOrdersFailed, exchange, published,
                    settings, history
<1> QED
  BY <1>1, <1>3, <1>4, <1>5 DEF Next, Handler

(* A fill of a known order, made while the stream is up, is published with *)
(* the id of the order, in whatever order the events of the stream and the *)
(* answers of the download arrive.                                         *)
THEOREM LiveAttributed == Spec => []LiveFillIsAttributed
<1>1. Init => TypeInv /\ LiveInv
  BY TypeInit, FillsAssumption DEF Init, LiveInv
<1>2. TypeInv /\ LiveInv /\ [Next]_vars => (TypeInv /\ LiveInv)'
  BY TypeStep, LiveStep, FillsAssumption
<1>3. LiveInv => LiveFillIsAttributed
  BY ComingIsOnItsWay DEF LiveInv, LiveFillIsAttributed
<1> QED
  BY <1>1, <1>2, <1>3, PTL DEF Spec

-----------------------------------------------------------------------------
(* The download leaves no gap *)

(* The server knows each of its orders that can have a fill, once the open *)
(* orders are downloaded: those the query could not list were placed since.*)
OrdersInv ==
  /\ restored => open \intersect ours \subseteq known
  /\ orders.status = "sent" => (open \ orders.open) \intersect ours \subseteq known

(* From the stage of the trades on, no query for the open orders is about. *)
StageInv ==
  /\ orders.status = "sent" => "open_orders" \in outstanding
  /\ stage \in {"trades", "DONE"} => "open_orders" \notin pending \union outstanding
  /\ stage = "DONE" /\ Download # {} => "trades" \notin pending

(* A query goes back as far as is promised; RestTrade sends none. *)
PromiseInv ==
  /\ orderEntry # "WebSocket" => first = ~downloaded
  /\ orderEntry = "WebSocket" => queries = {} /\ since = [s \in Download |-> Nothing]
  /\ \A q \in queries : q.promised = q.from

(* The trades have been asked for since the open orders are known. *)
Settled == stage \in {"trades", "DONE"} /\ "trades" \notin pending

Reported(t) == t.id \in snapshot \/ incremental[t.id] > 0 \/ Coming(t) \/ Dropped(t)

(* What the answers do not cover came, or comes, by the stream. *)
ReportedInv ==
  Settled =>
    \A t \in trades :
      SymbolOf[t.order] \in Download =>
        /\ t.time >= since[SymbolOf[t.order]] => Reported(t)
        /\ \A q \in queries :
             q.fresh /\ q.symbol = SymbolOf[t.order] /\ t.time > q.to => Reported(t)

LEMMA OrdersStep ==
  ASSUME TypeInv, OrdersInv, [Next]_vars
  PROVE  OrdersInv'
<1>1. ASSUME NEW o \in Orders, Place(o)
      PROVE  OrdersInv'
  BY <1>1 DEF Place, OrdersInv, settings, history
<1>2. ASSUME open' \subseteq open, known \subseteq known', UNCHANGED <<ours, restored, orders>>
      PROVE  OrdersInv'
  BY <1>2 DEF OrdersInv
<1>3. ASSUME NEW listing \in SUBSET Orders, OpenOrdersAck(listing)
      PROVE  OrdersInv'
  BY <1>3 DEF OpenOrdersAck, Listed, Idle, OrdersInv, settings, exchange
<1>4. CASE GetOpenOrders
  BY <1>4 DEF GetOpenOrders, OrdersInv, settings, exchange, history
<1>5. CASE OpenOrdersFailed
  BY <1>5 DEF OpenOrdersFailed, Idle, OrdersInv, settings, exchange, history
<1>6. CASE Restart
  BY <1>6 DEF Restart, Idle, OrdersInv
<1>7. ASSUME NEW t \in trades, Handler(t)
      PROVE  OrdersInv'
  BY <1>2, <1>7, HandlerFrame DEF settings, exchange, history
<1>8. ASSUME NEW o \in Orders, NEW last \in BOOLEAN, Trade(o, last)
      PROVE  OrdersInv'
  BY <1>2, <1>8 DEF Trade, settings
<1>9. CASE \/ Tick \/ StreamReady \/ StreamDisconnected \/ StageCompletes \/ GetTrades \/ GetTradesDisabled
           \/ UNCHANGED vars
           \/ (\E q \in queries : TradesFailed(q))
           \/ (\E q \in queries : \E page \in SUBSET Found(q) : TradesAck(q, page))
  BY <1>2, <1>9 DEF vars, Tick, StreamReady, StreamDisconnected, StageCompletes, GetTrades, GetTradesDisabled,
                    TradesFailed, TradesAck, exchange, settings, history
<1> QED
  BY <1>1, <1>3, <1>4, <1>5, <1>6, <1>7, <1>8, <1>9 DEF Next, Handler

LEMMA StageStep ==
  ASSUME TypeInv, StageInv, [Next]_vars
  PROVE  StageInv'
<1>1. ASSUME UNCHANGED <<latches, orders>>
      PROVE  StageInv'
  BY <1>1 DEF StageInv, latches
<1>2. ASSUME NEW t \in trades, Handler(t)
      PROVE  StageInv'
  BY <1>1, <1>2, HandlerFrame
<1>3. CASE \/ Tick \/ UNCHANGED vars
           \/ (\E o \in Orders : Place(o) \/ \E last \in BOOLEAN : Trade(o, last))
  BY <1>1, <1>3 DEF vars, Tick, Place, Trade
<1>4. CASE StreamReady
  BY <1>4 DEF StreamReady, Connected, After, StageInv
<1>5. CASE StreamDisconnected
  BY <1>5 DEF StreamDisconnected, Lost, StageInv
<1>6. CASE StageCompletes
  BY <1>6 DEF StageCompletes, After, StageInv, Stages
<1>7. CASE GetOpenOrders
  BY <1>7 DEF GetOpenOrders, Send, StageInv
<1>8. CASE GetTrades \/ GetTradesDisabled
  BY <1>8 DEF GetTrades, GetTradesDisabled, Send, StageInv
<1>9. CASE \/ OpenOrdersFailed
           \/ (\E listing \in SUBSET Orders : OpenOrdersAck(listing))
  BY <1>9 DEF OpenOrdersFailed, OpenOrdersAck, Idle, StageInv
<1>10. CASE \/ (\E q \in queries : TradesFailed(q))
            \/ (\E q \in queries : \E page \in SUBSET Found(q) : TradesAck(q, page))
  BY <1>10 DEF TradesFailed, TradesAck, StageInv
<1>11. CASE Restart
  BY <1>11 DEF Restart, Lost, Idle, StageInv
<1> QED
  BY <1>2, <1>3, <1>4, <1>5, <1>6, <1>7, <1>8, <1>9, <1>10, <1>11 DEF Next, Handler

LEMMA PromiseStep ==
  ASSUME FillsAssumption, TypeInv, PromiseInv, [Next]_vars
  PROVE  PromiseInv'
<1>1. ASSUME queries' \subseteq queries, UNCHANGED <<orderEntry, first, downloaded, since>>
      PROVE  PromiseInv'
  BY <1>1 DEF PromiseInv
<1>2. ASSUME NEW t \in trades, Handler(t)
      PROVE  PromiseInv'
  BY <1>1, <1>2, HandlerFrame DEF settings, history
<1>3. CASE \/ Tick \/ StreamReady \/ StageCompletes \/ GetOpenOrders \/ OpenOrdersFailed \/ UNCHANGED vars
           \/ (\E o \in Orders : Place(o) \/ \E last \in BOOLEAN : Trade(o, last))
           \/ (\E listing \in SUBSET Orders : OpenOrdersAck(listing))
           \/ (\E q \in queries : TradesFailed(q))
  BY <1>1, <1>3 DEF vars, Tick, StreamReady, StageCompletes, GetOpenOrders, OpenOrdersFailed, Place, Trade,
                    OpenOrdersAck, TradesFailed, settings, history
<1>4. CASE StreamDisconnected
  <2>1. \A q \in queries : Outdated(q).promised = Outdated(q).from
    BY OutdatedType DEF TypeInv, TypeOK, PromiseInv
  <2>2. queries' = {Outdated(q) : q \in queries}
    BY <1>4 DEF StreamDisconnected, Outdated
  <2> QED
    BY <1>4, <2>1, <2>2 DEF StreamDisconnected, Lost, PromiseInv, settings
<1>5. CASE GetTrades
  <2>1. \A q \in queries : Outdated(q).promised = Outdated(q).from
    BY OutdatedType DEF TypeInv, TypeOK, PromiseInv
  <2>2. \A s \in Download : TradesQuery(s).promised = TradesQuery(s).from
    BY <1>5 DEF GetTrades, TradesQuery, PromiseInv
  <2>3. queries' = {Outdated(q) : q \in queries} \union {TradesQuery(s) : s \in Download}
    BY <1>5 DEF GetTrades, Outdated
  <2> QED
    BY <1>5, <2>1, <2>2, <2>3 DEF GetTrades, PromiseInv, settings
<1>6. CASE GetTradesDisabled
  BY <1>6 DEF GetTradesDisabled, PromiseInv, settings, history
<1>7. ASSUME NEW q \in queries, NEW page \in SUBSET Found(q), TradesAck(q, page)
      PROVE  PromiseInv'
  BY <1>7 DEF TradesAck, PromiseInv, settings
<1>8. CASE Restart
  BY <1>8 DEF Restart, Lost, PromiseInv, settings
<1> QED
  BY <1>2, <1>3, <1>4, <1>5, <1>6, <1>7, <1>8 DEF Next, Handler

(* What is reported stays so while the process and the stream live. *)
LEMMA ReportedStays ==
  ASSUME UNCHANGED <<trade_lite, ours, margin, orderEntry, restored, incremental>>,
         channel \subseteq channel', known \subseteq known', snapshot \subseteq snapshot',
         NEW t, Reported(t)
  PROVE  Reported(t)'
  BY DEF Reported, Coming, Carrier, Dropped

(* Whatever a step does that keeps what is reported and what is promised.  *)
LEMMA PromiseStays ==
  ASSUME ReportedInv, Settled' => Settled, UNCHANGED <<trades, since>>, queries' \subseteq queries,
         \A t \in trades : Reported(t) => Reported(t)'
  PROVE  ReportedInv'
  BY DEF ReportedInv

LEMMA TradeReported ==
  ASSUME FillsAssumption, TypeInv, OrdersInv, ReportedInv,
         NEW o \in Orders, NEW last \in BOOLEAN, Trade(o, last)
  PROVE  ReportedInv'
<1> SUFFICES ASSUME Settled'
             PROVE  ReportedInv'
  BY DEF ReportedInv
<1>1. /\ trades' = trades \union {NextFill(o)}
      /\ channel \subseteq channel'
      /\ o \in open
      /\ UNCHANGED <<settings, latches, queries, known, published, restored, since>>
  BY DEF Trade, NextFill
<1>2. Settled /\ Connected
  BY <1>1 DEF Settled, Connected, latches
<1>3. \A t : Reported(t) => Reported(t)'
  BY <1>1, ReportedStays DEF settings, published
<1>4. ASSUME NEW t, t = NextFill(o)
      PROVE  Reported(t)'
  <2>1. t.order = o
    BY <1>4 DEF NextFill
  <2>2. CASE trade_lite /\ (o \notin ours \/ ~restored \/ o \in margin)
    BY <1>1, <2>1, <2>2 DEF Reported, Dropped, settings
  <2>3. CASE ~(trade_lite /\ (o \notin ours \/ ~restored \/ o \in margin))
    <3>1. trade_lite => o \in known /\ o \notin margin
      BY <1>1, <2>3 DEF OrdersInv
    <3> QED
      BY <1>2, <1>4, <3>1, FillIsComing DEF Reported
  <2> QED
    BY <2>2, <2>3
<1> QED
  BY <1>1, <1>2, <1>3, <1>4 DEF ReportedInv

LEMMA AnswerReported ==
  ASSUME FillsAssumption, TypeInv, PromiseInv, ReportedInv,
         NEW q \in queries, NEW page \in SUBSET Found(q), TradesAck(q, page)
  PROVE  ReportedInv'
<1> SUFFICES ASSUME Settled'
             PROVE  ReportedInv'
  BY DEF ReportedInv
<1>1. /\ UNCHANGED <<settings, trades, stage, pending, channel, known, incremental, restored>>
      /\ queries' = queries \ {q}
      /\ snapshot' = snapshot \union {t.id : t \in page}
      /\ since' = IF q.fresh /\ Found(q) \subseteq page THEN [since EXCEPT ![q.symbol] = q.promised] ELSE since
  BY DEF TradesAck, exchange
<1>2. Settled
  BY <1>1 DEF Settled
<1>3. \A t : Reported(t) => Reported(t)'
  BY <1>1, ReportedStays DEF settings
<1>4. CASE ~(q.fresh /\ Found(q) \subseteq page)
  BY <1>1, <1>2, <1>3, <1>4 DEF ReportedInv
<1>5. CASE q.fresh /\ Found(q) \subseteq page
  <2>1. q \in Queries /\ since \in [Download -> 0..Nothing] /\ q.promised = q.from
    BY DEF TypeInv, TypeOK, PromiseInv
  <2>2. since' = [since EXCEPT ![q.symbol] = q.from] /\ q.symbol \in Download
        /\ q.from \in Nat /\ q.to \in Nat
    BY <1>1, <1>5, <2>1 DEF Queries, Times
  <2>3. ASSUME NEW t \in trades, SymbolOf[t.order] = q.symbol, t.time >= q.from
        PROVE  Reported(t)'
    <3>1. t.time \in Nat
      BY DEF TypeInv, TypeOK, Trades, Times
    <3>2. CASE t.time <= q.to
      <4>1. t \in Found(q)
        BY <2>2, <2>3, <3>1, <3>2 DEF Found
      <4> QED
        BY <1>1, <1>5, <4>1 DEF Reported
    <3>3. CASE t.time > q.to
      BY <1>2, <1>3, <1>5, <2>2, <2>3, <3>3 DEF ReportedInv
    <3> QED
      BY <2>2, <3>1, <3>2, <3>3
  <2>4. ASSUME NEW t \in trades, SymbolOf[t.order] \in Download, t.time >= since'[SymbolOf[t.order]]
        PROVE  Reported(t)'
    <3>1. CASE SymbolOf[t.order] = q.symbol
      BY <2>1, <2>2, <2>3, <2>4, <3>1
    <3>2. CASE SymbolOf[t.order] # q.symbol
      BY <1>2, <1>3, <2>1, <2>2, <2>4, <3>2 DEF ReportedInv
    <3> QED
      BY <3>1, <3>2
  <2> QED
    BY <1>1, <1>2, <1>3, <2>4 DEF ReportedInv
<1> QED
  BY <1>4, <1>5

LEMMA GetTradesReported ==
  ASSUME FillsAssumption, TypeInv, GetTrades
  PROVE  ReportedInv'
<1>1. /\ trades' = trades
      /\ since' = [s \in Download |-> Nothing]
      /\ queries' = {Outdated(q) : q \in queries} \union {TradesQuery(s) : s \in Download}
  BY DEF GetTrades, Outdated, exchange
<1>2. \A q \in queries' : q.fresh => q.to = clock
  <2>1. \A s \in Download : TradesQuery(s).to = clock
    BY DEF TradesQuery
  <2>2. \A q \in queries : ~Outdated(q).fresh
    BY OutdatedType DEF TypeInv, TypeOK
  <2> QED
    BY <1>1, <2>1, <2>2
<1>3. clock \in Nat /\ clock < Nothing /\ \A t \in trades : t.time \in Nat /\ t.time <= clock
  BY DEF TypeInv, TypeOK, Counted, Trades, Times, Nothing, FillsAssumption
<1> QED
  BY <1>1, <1>2, <1>3 DEF ReportedInv, Nothing, FillsAssumption

LEMMA ReportedStep ==
  ASSUME FillsAssumption, TypeInv, OrdersInv, StageInv, PromiseInv, ReportedInv, [Next]_vars
  PROVE  ReportedInv'
<1>1. ASSUME NEW o \in Orders, NEW last \in BOOLEAN, Trade(o, last)
      PROVE  ReportedInv'
  BY <1>1, TradeReported
<1>2. ASSUME NEW t \in trades, Handler(t)
      PROVE  ReportedInv'
  <2>1. /\ UNCHANGED <<settings, exchange, latches, queries, snapshot, history>>
        /\ \A i \in FillIds : incremental[i] > 0 => incremental'[i] > 0
    BY <1>2, HandlerFrame
  <2>2. ASSUME NEW u \in trades, Reported(u)
        PROVE  Reported(u)'
    <3>1. u.id \in FillIds
      BY DEF TypeInv, TypeOK, Trades
    <3>2. Dropped(u) => Dropped(u)'
      BY <2>1 DEF Dropped, settings, history
    <3> QED
      BY <1>2, <2>1, <2>2, <3>1, <3>2, HandlerPublishes DEF Reported
  <2>3. Settled' => Settled
    BY <2>1 DEF Settled, latches
  <2> QED
    BY <2>1, <2>2, <2>3, PromiseStays DEF exchange, history
<1>3. CASE \/ Tick \/ UNCHANGED vars
           \/ (\E o \in Orders : Place(o))
           \/ (\E q \in queries : TradesFailed(q))
           \/ GetOpenOrders \/ OpenOrdersFailed
  <2>1. /\ UNCHANGED <<settings, trades, channel, published, restored, since>>
        /\ known \subseteq known' /\ queries' \subseteq queries
    BY <1>3 DEF vars, Tick, Place, TradesFailed, GetOpenOrders, OpenOrdersFailed, exchange, history
  <2>2. \A t : Reported(t) => Reported(t)'
    BY <2>1, ReportedStays DEF settings, published
  <2>3. Settled' => Settled
    BY <1>3 DEF vars, Tick, Place, TradesFailed, GetOpenOrders, OpenOrdersFailed, Send, Settled, latches
  <2> QED
    BY <2>1, <2>2, <2>3, PromiseStays
<1>4. CASE StreamReady \/ StreamDisconnected \/ Restart
  <2>1. ~Settled'
    BY <1>4 DEF StreamReady, StreamDisconnected, Restart, Lost, Connected, After, Settled
  <2> QED
    BY <2>1 DEF ReportedInv
<1>5. CASE StageCompletes
  <2>1. /\ UNCHANGED <<settings, trades, channel, published, restored, since, queries, known>>
        /\ stage' = After(stage) /\ stage \in Stages
        /\ stage \notin pending /\ pending' = pending \union ({After(stage)} \ {"DONE"})
    BY <1>5 DEF StageCompletes, exchange, history
  <2>2. CASE Download = {}
    BY <2>2 DEF ReportedInv
  <2>3. CASE Download # {}
    <3>1. Settled' => Settled
      BY <2>1, <2>3 DEF After, Stages, Settled
    <3>2. \A t : Reported(t) => Reported(t)'
      BY <2>1, ReportedStays DEF settings, published
    <3> QED
      BY <2>1, <3>1, <3>2, PromiseStays
  <2> QED
    BY <2>2, <2>3
<1>6. CASE GetTrades
  BY <1>6, GetTradesReported
<1>7. CASE GetTradesDisabled
  <2>1. queries = {} /\ since = [s \in Download |-> Nothing] /\ UNCHANGED <<trades, since, queries>>
    BY <1>7 DEF GetTradesDisabled, PromiseInv, exchange, history
  <2>2. \A t \in trades : t.time \in Nat /\ t.time < Nothing
    BY DEF TypeInv, TypeOK, Trades, Times, Nothing, FillsAssumption
  <2> QED
    BY <2>1, <2>2 DEF ReportedInv, Nothing, FillsAssumption
<1>8. ASSUME NEW listing \in SUBSET Orders, OpenOrdersAck(listing)
      PROVE  ReportedInv'
  <2>1. ~Settled'
    BY <1>8 DEF OpenOrdersAck, StageInv, Settled
  <2> QED
    BY <2>1 DEF ReportedInv
<1>9. ASSUME NEW q \in queries, NEW page \in SUBSET Found(q), TradesAck(q, page)
      PROVE  ReportedInv'
  BY <1>9, AnswerReported
<1> QED
  BY <1>1, <1>2, <1>3, <1>4, <1>5, <1>6, <1>7, <1>8, <1>9 DEF Next, Handler

LEMMA MissedInit ==
  ASSUME Init
  PROVE  OrdersInv /\ StageInv /\ PromiseInv /\ ReportedInv
  BY DEF Init, Idle, OrdersInv, StageInv, PromiseInv, ReportedInv, Settled

(* A completed download has every fill as far back as the lookback goes,   *)
(* for every symbol whose query succeeded: those before the stream came up *)
(* from the answer, those since from the stream.  The argument is that     *)
(* every order of the gateway is known by the time the trades are asked    *)
(* for, so that from then on the stream brings all.                        *)
THEOREM NoneMissed == Spec => []NoFillIsMissed
<1> DEFINE Inv == TypeInv /\ OrdersInv /\ StageInv /\ PromiseInv /\ ReportedInv
<1>1. Init => Inv
  BY TypeInit, MissedInit, FillsAssumption
<1>2. Inv /\ [Next]_vars => Inv'
  BY TypeStep, OrdersStep, StageStep, PromiseStep, ReportedStep, FillsAssumption
<1>3. Inv => NoFillIsMissed
  <2> SUFFICES ASSUME Inv, stage = "DONE", NEW t \in trades, SymbolOf[t.order] \in Download,
                      t.time >= since[SymbolOf[t.order]], ~Dropped(t)
               PROVE  t.id \in snapshot \/ incremental[t.id] > 0 \/ OnItsWay(t)
    BY DEF NoFillIsMissed
  <2>1. Reported(t)
    BY DEF StageInv, ReportedInv, Settled
  <2> QED
    BY <2>1, ComingIsOnItsWay DEF Reported
<1> QED
  BY <1>1, <1>2, <1>3, PTL DEF Spec

===============================================================================
