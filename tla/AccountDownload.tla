---------------------------- MODULE AccountDownload ----------------------------
(***************************************************************************)
(* The download of an account's balances, positions and orders.            *)
(*                                                                         *)
(* The DropCopy of the account decides what is needed, stage by stage, and *)
(* asks for it through the latches of the account's Request object.  The   *)
(* order-entry connection (with the WebSocket API also RestTrade) polls    *)
(* the latches, sends the queries and commits a latch when the answer is   *)
(* in; the DropCopy polls the latches again to see whether its stage is    *)
(* complete.  Request outlives both: a reconnect finds the latches as they *)
(* were left.                                                              *)
(*                                                                         *)
(* Removal and replacement of a DropCopy (module UserStream) looks like a  *)
(* reconnect from here.                                                    *)
(***************************************************************************)
EXTENDS Naturals, FiniteSets

CONSTANTS
  OrderEntry,  \* the account's order-entry class
  Orders,      \* orders the server may lose track of
  Symbols,     \* setting download.symbols, empty when trades are not downloaded
  MaxPolls,    \* bound: polls of the balance, 0 when misc.poll_balance_freq is zero
  Merges,      \* does core::limit::Request merge a request into one in flight?
  MaxFaults    \* bound: disconnects, failed queries, orders lost track of

ASSUME AccountDownloadAssumption ==
  /\ OrderEntry \in {"OrderEntryClassic", "OrderEntryPortfolio", "WebSocket"}
  /\ IsFiniteSet(Orders)
  /\ MaxPolls \in Nat
  /\ Merges \in BOOLEAN
  /\ MaxFaults \in Nat

(* The latches of Request. *)
Latches == {"balances", "positions", "positions_pm", "open_orders", "stale_orders", "trades"}

Snapshots == {"balances", "positions", "open_orders"}

(* What a query is about: a snapshot, one order, the trades of one symbol. *)
Queries == (Snapshots \union {"positions_pm"}) \union (Orders \union Symbols)

ASSUME QueriesAreDistinct ==
  /\ Orders \intersect Symbols = {}
  /\ (Orders \union Symbols) \intersect Latches = {}

VARIABLES
  state,        \* download_.state() of the DropCopy: a latch, "UNDEFINED" or "DONE"
  ready,        \* the connections that are ready to send queries
  pending,      \* latches with a request not yet sent
  outstanding,  \* latches whose query was sent and not yet committed
  details,      \* Request::details_stale_orders
  counter,      \* download_stale_orders_counter_
  inflight,     \* queries sent and not yet answered
  stale,        \* orders the server has lost track of
  asked,        \* history: latches sent since the user stream connected
  fresh,        \* history: those of them that have been committed
  polls,        \* polls of the balance so far
  faults

latches == <<pending, outstanding, details>>
vars == <<state, ready, pending, outstanding, details, counter, inflight, stale,
          asked, fresh, polls, faults>>

-----------------------------------------------------------------------------
(* Helpers *)

Connections == IF OrderEntry = "WebSocket" THEN {"WebSocket", "RestTrade"} ELSE {OrderEntry}

(* The latches a connection polls, in order of priority. *)
Polls(c) ==
  CASE c = "OrderEntryClassic"   -> <<"balances", "positions", "open_orders", "stale_orders", "trades">>
    [] c = "OrderEntryPortfolio" -> <<"balances", "positions", "positions_pm", "open_orders", "stale_orders", "trades">>
    [] c = "WebSocket"           -> <<"balances", "positions">>
    [] c = "RestTrade"           -> <<"open_orders", "stale_orders", "trades">>

States == Latches \union {"UNDEFINED", "DONE"}

TypeOK ==
  /\ state \in States
  /\ ready \subseteq Connections
  /\ pending \subseteq Latches
  /\ outstanding \subseteq Latches
  /\ details \subseteq Orders
  /\ counter \in Nat
  /\ inflight \in [Queries -> Nat]
  /\ stale \subseteq Orders
  /\ asked \subseteq Latches
  /\ fresh \subseteq asked
  /\ polls \in 0..MaxPolls
  /\ faults \in 0..MaxFaults

(* Margin mode PORTFOLIO: DropCopyPortfolio, with the stage GET_POSITIONS_PM. *)
MarginPortfolio == OrderEntry = "OrderEntryPortfolio"

(* Mutant: the stage of the stale orders is never skipped. *)
AlwaysQueriesOrders(stage, lost) ==
  CASE stage = "balances"                                 -> "positions"
    [] stage = "positions" /\ MarginPortfolio             -> "positions_pm"
    [] stage = "positions" /\ ~MarginPortfolio            -> "open_orders"
    [] stage = "positions_pm"                             -> "open_orders"
    [] stage = "open_orders"                              -> "stale_orders"
    [] stage = "stale_orders" /\ Symbols # {}             -> "trades"
    [] OTHER                                              -> "DONE"

(* download_.check(): the stage that follows; one without work is skipped  *)
(* (download() returns 0).                                                 *)
After(stage, lost) ==
  CASE stage = "balances"                                 -> "positions"
    [] stage = "positions" /\ MarginPortfolio             -> "positions_pm"
    [] stage = "positions" /\ ~MarginPortfolio            -> "open_orders"
    [] stage = "positions_pm"                             -> "open_orders"
    [] stage = "open_orders" /\ lost # {}                 -> "stale_orders"
    [] stage = "open_orders" /\ lost = {} /\ Symbols # {} -> "trades"
    [] stage = "stale_orders" /\ Symbols # {}             -> "trades"
    [] OTHER                                              -> "DONE"

(* request(): asking again for what is in flight is remembered or merged. *)
Request(requested) ==
  pending' = pending \union (IF Merges THEN requested \ outstanding ELSE requested)

AnswersUnlessSent(l) == l \notin outstanding  \* mutant
HasResponse(l) == l \notin pending /\ l \notin outstanding

(* The queries sent for a latch; RestTrade has disabled those for trades. *)
QueriesOf(l) ==
  CASE l = "stale_orders" -> details
    [] l = "trades"       -> IF OrderEntry = "WebSocket" THEN {} ELSE Symbols
    [] OTHER              -> {l}

Init ==
  /\ state = "UNDEFINED"
  /\ ready = {}
  /\ pending = {}
  /\ outstanding = {}
  /\ details = {}
  /\ counter = 0
  /\ inflight = [q \in Queries |-> 0]
  /\ stale = {}
  /\ asked = {}
  /\ fresh = {}
  /\ polls = 0
  /\ faults = 0

Fault ==
  /\ faults < MaxFaults
  /\ faults' = faults + 1

-----------------------------------------------------------------------------
(* DropCopyClassic and DropCopyPortfolio *)

(* The user stream is connected: download_.begin(). *)
StreamReady ==
  /\ state = "UNDEFINED"
  /\ state' = "balances"
  /\ Request({"balances"})
  /\ asked' = {}
  /\ fresh' = {}
  /\ UNCHANGED <<ready, outstanding, details, counter, inflight, stale, polls, faults>>

StreamDisconnected ==
  /\ state # "UNDEFINED"
  /\ Fault
  /\ state' = "UNDEFINED"
  /\ UNCHANGED <<ready, latches, counter, inflight, stale, asked, fresh, polls>>

(* Portfolio looks at its latches only when it is already READY. *)
Complete ==
  /\ MarginPortfolio => state = "DONE"
  /\ state \in Latches
  /\ HasResponse(state)

(* Stale orders found when READY are asked for. *)
NotedOnly(found) == {}  \* mutant
Wanted(found) == IF found THEN {"stale_orders"} ELSE {}

(* Only Classic polls the balance through its latch. *)
MayPoll == ~MarginPortfolio /\ polls < MaxPolls

(* Timer: check_request_queue, then, when READY, refresh_balance and       *)
(* check_stale_orders.  poll, check: their deadlines have passed.          *)
StreamTimer(poll, check) ==
  /\ state # "UNDEFINED"
  /\ poll => MayPoll
  /\ LET lost == IF Complete /\ state = "open_orders" THEN details \union stale ELSE details
         next == IF Complete THEN After(state, lost) ELSE state
         found == next = "DONE" /\ check /\ ~(stale \subseteq lost)
     IN /\ state' = next
        /\ details' = IF found THEN lost \union stale ELSE lost
        /\ Request((IF Complete THEN {next} \ {"DONE"} ELSE {})
                   \union (IF next = "DONE" /\ poll THEN {"balances"} ELSE {})
                   \union Wanted(found))
        /\ polls' = IF next = "DONE" /\ poll THEN polls + 1 ELSE polls
  /\ UNCHANGED <<ready, outstanding, counter, inflight, stale, asked, fresh, faults>>

-----------------------------------------------------------------------------
(* OrderEntryClassic, OrderEntryPortfolio, WebSocket and RestTrade *)

Connected(c) ==
  /\ c \notin ready
  /\ ready' = ready \union {c}
  /\ UNCHANGED <<state, latches, counter, inflight, stale, asked, fresh, polls, faults>>

(* A web socket forgets its queries, a REST client answers them with an    *)
(* error.  The latches stay.                                               *)
Disconnected(c) ==
  /\ c \in ready
  /\ Fault
  /\ ready' = ready \ {c}
  /\ inflight' = IF c = "WebSocket"
                 THEN [inflight EXCEPT !["balances"] = 0, !["positions"] = 0]
                 ELSE inflight
  /\ UNCHANGED <<state, latches, counter, stale, asked, fresh, polls>>

(* check_pending(): a latch is sent when none is outstanding (the handler's *)
(* ready()) and the rate limiter agrees.                                   *)
FirstPending(c, l) ==
  /\ l \in pending
  /\ \E i \in DOMAIN Polls(c) :
       Polls(c)[i] = l /\ \A j \in 1..(i - 1) : Polls(c)[j] \notin pending

CountsOnce(l) == IF l = "stale_orders" THEN 1 ELSE 0  \* mutant
Counted(l) == IF l = "stale_orders" THEN Cardinality(details) ELSE 0

(* Timer: check_request_queue. *)
Timer(c) ==
  /\ c \in ready
  /\ outstanding = {}
  /\ \E l \in Latches :
       /\ FirstPending(c, l)
       /\ pending' = pending \ {l}
       /\ outstanding' = {l}
       /\ inflight' = [q \in Queries |-> IF q \in QueriesOf(l) THEN inflight[q] + 1 ELSE inflight[q]]
       /\ counter' = counter + Counted(l)
       /\ details' = IF l = "stale_orders" THEN {} ELSE details
       /\ asked' = asked \union {l}
  /\ UNCHANGED <<state, ready, stale, fresh, polls, faults>>

AnsweredAgain(q) == inflight' = [inflight EXCEPT ![q] = @ - 1]  \* mutant
Answered(q) ==
  /\ inflight[q] > 0
  /\ inflight' = [inflight EXCEPT ![q] = @ - 1]

CommitForgotten(l) == UNCHANGED <<outstanding, fresh>>  \* mutant
Commit(l) ==
  /\ outstanding' = outstanding \ {l}
  /\ fresh' = fresh \union (asked \intersect {l})

(* A failed query commits its latch like a good one. *)
AccountAck(q) ==
  /\ Answered(q)
  /\ Commit(q)
  /\ UNCHANGED <<state, ready, pending, details, counter, stale, asked, polls, faults>>

(* The answer for one symbol commits the trades of all. *)
TradesAck(s) ==
  /\ Answered(s)
  /\ Commit("trades")
  /\ UNCHANGED <<state, ready, pending, details, counter, stale, asked, polls, faults>>

(* The open orders of the account are tracked again; none when it failed. *)
OpenOrdersAck(open) ==
  /\ Answered("open_orders")
  /\ stale' = stale \ open
  /\ Commit("open_orders")
  /\ UNCHANGED <<state, ready, pending, details, counter, asked, polls, faults>>

(* The order is updated: with its status, or as REJECTED when the query    *)
(* failed.  The last answer commits.                                       *)
OrderAck(o) ==
  /\ Answered(o)
  /\ stale' = stale \ {o}
  /\ counter' = IF counter > 0 THEN counter - 1 ELSE 0
  /\ IF counter' = 0 THEN Commit("stale_orders") ELSE UNCHANGED <<outstanding, fresh>>
  /\ UNCHANGED <<state, ready, pending, details, asked, polls, faults>>

-----------------------------------------------------------------------------
(* The server *)

(* The server loses track of an order. *)
LoseTrack(o) ==
  /\ o \notin stale
  /\ Fault
  /\ stale' = stale \union {o}
  /\ UNCHANGED <<state, ready, latches, counter, inflight, asked, fresh, polls>>

-----------------------------------------------------------------------------

Next ==
  \/ StreamReady
  \/ StreamDisconnected
  \/ \E poll, check \in BOOLEAN : StreamTimer(poll, check)
  \/ \E c \in Connections : Connected(c) \/ Disconnected(c) \/ Timer(c)
  \/ \E q \in (Snapshots \union {"positions_pm"}) \ {"open_orders"} : AccountAck(q)
  \/ \E open \in SUBSET Orders : OpenOrdersAck(open)
  \/ \E s \in Symbols : TradesAck(s)
  \/ \E o \in Orders : OrderAck(o) \/ LoseTrack(o)

Spec == Init /\ [][Next]_vars

(***************************************************************************)
(* Connections that can be made are made, timers run and their deadlines   *)
(* pass, the rate limiter does not refuse for ever, every query that was   *)
(* not lost is answered.  Faults are not fair.                             *)
(***************************************************************************)
Fairness ==
  /\ WF_vars(StreamReady)
  /\ WF_vars(\E poll \in BOOLEAN : StreamTimer(poll, TRUE))
  /\ \A c \in Connections : WF_vars(Connected(c)) /\ WF_vars(Timer(c))
  /\ \A q \in (Snapshots \union {"positions_pm"}) \ {"open_orders"} : WF_vars(AccountAck(q))
  /\ WF_vars(\E open \in SUBSET Orders : OpenOrdersAck(open))
  /\ \A s \in Symbols : WF_vars(TradesAck(s))
  /\ \A o \in Orders : WF_vars(OrderAck(o))

FairSpec == Spec /\ Fairness

-----------------------------------------------------------------------------
(* Properties *)

(* An outstanding latch blocks all the others (Request::ready): there is    *)
(* always an answer on its way that will commit it.  A stale_orders request *)
(* for which no order is left to query would block the account for ever.    *)
AnswerIsComing ==
  /\ \A l \in outstanding \intersect Queries : inflight[l] > 0
  /\ "stale_orders" \in outstanding => \E o \in Orders : inflight[o] > 0
  /\ "trades" \in outstanding => \E s \in Symbols : inflight[s] > 0

(* download_stale_orders_counter_ counts the order queries in flight, so    *)
(* the "Unexpected" of get_order_ack is not reached, and stale_orders is    *)
(* committed exactly by the last of the answers, over any sequence of       *)
(* disconnects and overlapping rounds.                                      *)
StaleCounterIsExact ==
  /\ counter = Cardinality({o \in Orders : inflight[o] > 0})
  /\ \A o \in Orders : inflight[o] <= 1
  /\ counter > 0 => "stale_orders" \in outstanding

(* READY means that every snapshot was queried after the user stream        *)
(* connected: no answer left over from before a reconnect completes a       *)
(* stage, so no update falls between a snapshot and the stream.  This needs *)
(* a core::limit::Request that remembers a request made while one is in     *)
(* flight (Merges = FALSE).                                                 *)
SnapshotIsFresh == state = "DONE" => Snapshots \subseteq fresh

(* "Download orders (#39)": the download completes, again after every       *)
(* reconnect and whatever queries failed.                                   *)
DownloadCompletes == []<>(state = "DONE")

(* An order the server has lost track of is queried, or reported by the     *)
(* download, and tracked again, also when it was lost while the query for   *)
(* another order was in flight.                                             *)
StaleOrderIsResolved == \A o \in Orders : o \in stale ~> o \notin stale

===============================================================================
