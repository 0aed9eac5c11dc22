------------------------------- MODULE OrderEntry -------------------------------
(***************************************************************************)
(* The order requests of one account: create, modify, cancel, cancel all.  *)
(*                                                                         *)
(* The Controller routes a request to the account's order-entry connection *)
(* (cancel all, with the setting ws_api, to RestTrade).  A request is sent *)
(* to the exchange, executed there at some later time, in any order, or    *)
(* lost; its answer becomes a response to the client.  The connections     *)
(* keep the symbols a cancel-all has to name: those of the orders they     *)
(* placed and of the open orders they downloaded.                          *)
(***************************************************************************)
EXTENDS Naturals

CONSTANTS
  OrderEntry,   \* the account's order-entry class
  WsApi,        \* the setting ws_api
  FastAck,      \* not the setting experimental.disable_fast_order_ack
  Orders,
  Symbols,
  SymbolOf,     \* the symbol of each order
  MaxVersion,   \* bound: requests per order
  MaxCalls,     \* bound: CancelAllOrders
  MaxFaults,    \* bound: disconnects, lost and failed requests
  MaxRestarts   \* bound: restarts of the gateway

ASSUME OrderEntryAssumption ==
  /\ WsApi \in BOOLEAN
  /\ OrderEntry \in IF WsApi THEN {"WebSocket", "OrderEntryPortfolio"}
                    ELSE {"OrderEntryClassic", "OrderEntryPortfolio"}
  /\ FastAck \in BOOLEAN
  /\ SymbolOf \in [Orders -> Symbols]
  /\ MaxVersion \in Nat
  /\ MaxCalls \in Nat
  /\ MaxFaults \in Nat
  /\ MaxRestarts \in Nat

VARIABLES
  ready,       \* ready() of the order-entry connection
  symbols,     \* open_orders_symbols_ of each connection
  awaiting,    \* requests whose answer is still awaited by a connection
  snapshot,    \* the open-orders query and, when answered, its content
  version,     \* the version of the last request of each order
  sent,        \* requests on their way to the exchange
  answers,     \* answers on their way back
  exchange,    \* status of each order at the exchange
  executed,    \* history: requests executed by the exchange, with the outcome
  responses,   \* history: responses to the client
  calls,       \* CancelAllOrders so far
  cancelling,  \* history: the orders each CancelAllOrders has to cancel
  downloaded,  \* history: have open orders been downloaded since the start?
  orphans,     \* history: orders whose creation was in flight across a restart
  faults,
  restarts

gateway == <<ready, symbols, awaiting, snapshot>>
history == <<executed, responses, calls, cancelling, downloaded, orphans>>
vars == <<gateway, version, sent, answers, exchange, history, faults, restarts>>

Open == {"NEW", "PARTIALLY_FILLED"}
Done == {"FILLED", "CANCELED"}
Types == {"CREATE_ORDER", "MODIFY_ORDER", "CANCEL_ORDER"}
OrderRequests == [type : Types, about : Orders, version : 1..MaxVersion]
CancelAlls == [type : {"CANCEL_ALL"}, about : Symbols, version : 1..MaxCalls]
Requests == OrderRequests \union CancelAlls
Refusals == {"error", "unknown"}
Outcomes == [request : Requests, result : Open \union Done \union {"ok"} \union Refusals]

(* TOO_LATE is RequestStatus::REJECTED with TOO_LATE_TO_MODIFY_OR_CANCEL,   *)
(* REJECTED is REJECTED with any other error, FAILED is ERROR or the status *)
(* of a network error.                                                      *)
Responses ==
  [request : Requests, status : {"FORWARDED", "ACCEPTED", "REJECTED", "TOO_LATE", "FAILED"}]

-----------------------------------------------------------------------------
(* Helpers *)

(* A WebSocket account has a RestTrade connection at its side. *)
Connections == IF OrderEntry = "WebSocket" THEN {"WebSocket", "RestTrade"} ELSE {OrderEntry}

(* The connection that downloads the open orders. *)
DownloadVia == IF OrderEntry = "WebSocket" THEN "RestTrade" ELSE OrderEntry

(* The connection a cancel-all is routed to.  The Controller looks only at *)
(* ws_api: a Portfolio account may have no such connection.                *)
CancelAllVia == IF WsApi THEN "RestTrade" ELSE OrderEntry

TypeOK ==
  /\ ready \in BOOLEAN
  /\ symbols \in [Connections -> SUBSET Symbols]
  /\ awaiting \subseteq Requests
  /\ snapshot \in [status : {"none", "sent", "answered"}, open : SUBSET Orders]
  /\ version \in [Orders -> 0..MaxVersion]
  /\ sent \subseteq Requests
  /\ answers \subseteq Outcomes
  /\ exchange \in [Orders -> {"none"} \union Open \union Done]
  /\ executed \subseteq Outcomes
  /\ responses \subseteq Responses
  /\ calls \in 0..MaxCalls
  /\ cancelling \in [1..MaxCalls -> SUBSET Orders]
  /\ downloaded \in BOOLEAN
  /\ orphans \subseteq Orders
  /\ faults \in 0..MaxFaults
  /\ restarts \in 0..MaxRestarts

IsOpen(o) == exchange[o] \in Open

(* Are the orders of a symbol within reach of a cancel-all? *)
Covered(s) == CancelAllVia \in Connections /\ s \in symbols[CancelAllVia]

(* Requests that are answered by an HTTP callback. *)
ByRest(r) == OrderEntry # "WebSocket" \/ r.type = "CANCEL_ALL"

(* A request, or its answer, is on its way. *)
Underway(r) == r \in sent \/ \E answer \in answers : answer.request = r

Idle == [status |-> "none", open |-> {}]

RequestBehind(type, o) == [type |-> type, about |-> o, version |-> version[o]]  \* mutant
Request(type, o) == [type |-> type, about |-> o, version |-> version'[o]]

Init ==
  /\ ready = FALSE
  /\ symbols = [c \in Connections |-> {}]
  /\ awaiting = {}
  /\ snapshot = Idle
  /\ version = [o \in Orders |-> 0]
  /\ sent = {}
  /\ answers = {}
  /\ exchange = [o \in Orders |-> "none"]
  /\ executed = {}
  /\ responses = {}
  /\ calls = 0
  /\ cancelling = [n \in 1..MaxCalls |-> {}]
  /\ downloaded = FALSE
  /\ orphans = {}
  /\ faults = 0
  /\ restarts = 0

Fault ==
  /\ faults < MaxFaults
  /\ faults' = faults + 1

-----------------------------------------------------------------------------
(* Requests of the client *)

(* The request is sent and its answer awaited; the version grows. *)
Send(type, o) ==
  /\ ready
  /\ version[o] < MaxVersion
  /\ version' = [version EXCEPT ![o] = @ + 1]
  /\ sent' = sent \union {Request(type, o)}
  /\ awaiting' = awaiting \union {Request(type, o)}

CreateForgetsSymbol(o) ==  \* mutant
  /\ version[o] = 0
  /\ Send("CREATE_ORDER", o)
  /\ UNCHANGED <<ready, symbols, snapshot, answers, exchange, history, faults, restarts>>

(* order_place *)
CreateOrder(o) ==
  /\ version[o] = 0
  /\ Send("CREATE_ORDER", o)
  /\ symbols' = [symbols EXCEPT ![OrderEntry] = @ \union {SymbolOf[o]}]
  /\ UNCHANGED <<ready, snapshot, answers, exchange, history, faults, restarts>>

(* order_modify, order_cancel *)
ChangeOrder(type, o) ==
  /\ version[o] > 0
  /\ Send(type, o)
  /\ UNCHANGED <<ready, symbols, snapshot, answers, exchange, history, faults, restarts>>

(* open_orders_cancel_all: a request for each symbol in the connection's   *)
(* set, all of them when the client names none; each is acknowledged as    *)
(* FORWARDED at once.                                                      *)
ForwardAccepts == "ACCEPTED"  \* mutant
Forward == "FORWARDED"
CancelAllOrders(scope) ==
  /\ calls < MaxCalls
  /\ calls' = calls + 1
  /\ LET requests == [type : {"CANCEL_ALL"}, about : {s \in scope : Covered(s)}, version : {calls + 1}]
     IN /\ sent' = sent \union requests
        /\ awaiting' = awaiting \union requests
        /\ responses' = responses \union [request : requests, status : {Forward}]
  /\ cancelling' = [cancelling EXCEPT ![calls + 1] =
       IF downloaded THEN {o \in Orders \ orphans : IsOpen(o) /\ SymbolOf[o] \in scope} ELSE {}]
  /\ UNCHANGED <<ready, symbols, snapshot, version, answers, exchange, executed, downloaded,
                 orphans, faults, restarts>>

-----------------------------------------------------------------------------
(* Answers *)

(* guess_error takes an order that the exchange does not know (-2011,       *)
(* -2013) for one that is done.  A WebSocket does not while the order is    *)
(* new (test_cancel_bug_timeout): OrderTerms has the time, here it is left  *)
(* open.                                                                    *)
GuessError(type, result) ==
  IF result # "unknown" THEN {"REJECTED"}
  ELSE IF OrderEntry = "WebSocket" /\ type = "CANCEL_ORDER" THEN {"REJECTED", "TOO_LATE"}
  ELSE {"TOO_LATE"}

AcceptsCanceled(type, result) ==  \* mutant
  CASE result \in Refusals                             -> GuessError(type, result)
    [] type # "CREATE_ORDER" /\ result = "FILLED"      -> {"TOO_LATE"}
    [] OTHER                                           -> {"ACCEPTED"}

AcceptsNewOnly(type, result) ==  \* mutant
  CASE result \in Refusals                             -> GuessError(type, result)
    [] type = "MODIFY_ORDER" /\ result # "NEW"         -> {"TOO_LATE"}
    [] type = "CANCEL_ORDER" /\ result = "FILLED"      -> {"TOO_LATE"}
    [] OTHER                                           -> {"ACCEPTED"}

(* What an answer may be reported as. *)
Status(type, result) ==
  CASE result \in Refusals                             -> GuessError(type, result)
    [] type = "MODIFY_ORDER" /\ result \in Done        -> {"TOO_LATE"}
    [] type = "CANCEL_ORDER" /\ result = "FILLED"      -> {"TOO_LATE"}
    [] OTHER                                           -> {"ACCEPTED"}

(* An accepted modify or cancel is left to the user stream unless FastAck. *)
Silent(r, status) ==
  r.type \in {"MODIFY_ORDER", "CANCEL_ORDER"} /\ status = "ACCEPTED" /\ ~FastAck

Respond(r, status) ==
  responses' = IF Silent(r, status) THEN responses
               ELSE responses \union {[request |-> r, status |-> status]}

(* order_place_ack, order_modify_ack, order_cancel_ack,                    *)
(* open_orders_cancel_all_ack: the answer names its request.               *)
Receive(answer) ==
  /\ answer \in answers
  /\ answers' = answers \ {answer}
  /\ awaiting' = awaiting \ {answer.request}
  /\ \E status \in Status(answer.request.type, answer.result) : Respond(answer.request, status)
  /\ UNCHANGED <<ready, symbols, snapshot, version, sent, exchange, executed, calls, cancelling,
                 downloaded, orphans, faults, restarts>>

(* What a cancel-all that is refused or fails no longer has to cancel. *)
Excuse(r) ==
  cancelling' = IF r.type = "CANCEL_ALL"
                THEN [cancelling EXCEPT ![r.version] = {o \in @ : SymbolOf[o] # r.about}]
                ELSE cancelling

(* What is reported of a request that has no result: a server error is      *)
(* REJECTED, as a refusal is; a network error, a time-out or an answer that *)
(* cannot be read is FAILED.  A WebSocket only knows the errors it is sent. *)
Failures(r) == {"REJECTED"} \union (IF ByRest(r) THEN {"FAILED"} ELSE {})

FailuresAreLogged(r, status) ==  \* mutant
  UNCHANGED responses

(* handle_error: a cancel-all that failed is only logged. *)
HandleError(r, status) ==
  IF r.type = "CANCEL_ALL" THEN UNCHANGED responses ELSE Respond(r, status)

FailKeepsAnswer(r, status) ==  \* mutant
  /\ r \in awaiting
  /\ ByRest(r) \/ Underway(r)
  /\ status \in Failures(r)
  /\ IF Underway(r) THEN Fault ELSE UNCHANGED faults
  /\ awaiting' = awaiting \ {r}
  /\ HandleError(r, status)
  /\ Excuse(r)
  /\ UNCHANGED <<ready, symbols, snapshot, version, sent, answers, exchange, executed, calls,
                 downloaded, orphans, restarts>>

(* process_response: the request may have been executed, or still be.  One *)
(* over HTTP that was lost times out.                                       *)
Fail(r, status) ==
  /\ r \in awaiting
  /\ ByRest(r) \/ Underway(r)
  /\ status \in Failures(r)
  /\ IF Underway(r) THEN Fault ELSE UNCHANGED faults
  /\ awaiting' = awaiting \ {r}
  /\ answers' = {answer \in answers : answer.request # r}
  /\ HandleError(r, status)
  /\ Excuse(r)
  /\ UNCHANGED <<ready, symbols, snapshot, version, sent, exchange, executed, calls, downloaded,
                 orphans, restarts>>

-----------------------------------------------------------------------------
(* Open orders *)

GetOpenOrders ==
  /\ DownloadVia = OrderEntry => ready
  /\ snapshot.status = "none"
  /\ snapshot' = [Idle EXCEPT !.status = "sent"]
  /\ UNCHANGED <<ready, symbols, awaiting, version, sent, answers, exchange, history, faults, restarts>>

OpenOrdersAckReplaces ==  \* mutant
  /\ snapshot.status = "answered"
  /\ snapshot' = Idle
  /\ symbols' = [symbols EXCEPT ![DownloadVia] = {SymbolOf[o] : o \in snapshot.open}]
  /\ downloaded' = TRUE
  /\ orphans' = orphans \ snapshot.open
  /\ UNCHANGED <<ready, awaiting, version, sent, answers, exchange, executed, responses, calls,
                 cancelling, faults, restarts>>

(* The symbols of the open orders are collected.  A failure changes nothing. *)
OpenOrdersAck ==
  /\ snapshot.status = "answered"
  /\ snapshot' = Idle
  /\ symbols' = [symbols EXCEPT ![DownloadVia] = @ \union {SymbolOf[o] : o \in snapshot.open}]
  /\ downloaded' = TRUE
  /\ orphans' = orphans \ snapshot.open
  /\ UNCHANGED <<ready, awaiting, version, sent, answers, exchange, executed, responses, calls,
                 cancelling, faults, restarts>>

OpenOrdersFailed ==
  /\ snapshot.status # "none"
  /\ Fault
  /\ snapshot' = Idle
  /\ UNCHANGED <<ready, symbols, awaiting, version, sent, answers, exchange, history, restarts>>

-----------------------------------------------------------------------------
(* Connections and restarts *)

Connected ==
  /\ ~ready
  /\ ready' = TRUE
  /\ UNCHANGED <<symbols, awaiting, snapshot, version, sent, answers, exchange, history, faults, restarts>>

(* A web socket forgets its requests; those of a REST client fail. *)
Disconnected ==
  /\ ready
  /\ Fault
  /\ ready' = FALSE
  /\ awaiting' = {r \in awaiting : ByRest(r)}
  /\ answers' = {answer \in answers : ByRest(answer.request)}
  /\ UNCHANGED <<symbols, snapshot, version, sent, exchange, history, restarts>>

(* The process is restarted: nothing is persisted. *)
Restart ==
  /\ restarts < MaxRestarts
  /\ restarts' = restarts + 1
  /\ ready' = FALSE
  /\ symbols' = [c \in Connections |-> {}]
  /\ awaiting' = {}
  /\ answers' = {}
  /\ snapshot' = Idle
  /\ downloaded' = FALSE
  /\ orphans' = orphans \union {r.about : r \in {c \in sent : c.type = "CREATE_ORDER"}}
  /\ UNCHANGED <<version, sent, exchange, executed, responses, calls, cancelling, faults>>

-----------------------------------------------------------------------------
(* The exchange *)

(* What may become of a request.  An order may be rejected, fill or expire *)
(* at once; a modified order too.  Any change may be refused at any time,  *)
(* also as of an order the exchange does not know: one that is not created *)
(* yet, is done, or even is open ("there is an exchange bug").             *)
Results(r) ==
  CASE r.type = "CREATE_ORDER" ->
         IF exchange[r.about] = "none" THEN {"NEW", "FILLED", "CANCELED", "error"} ELSE {"error"}
    [] r.type = "MODIFY_ORDER" ->
         Refusals \union (IF IsOpen(r.about) THEN {exchange[r.about], "FILLED", "CANCELED"} ELSE {})
    [] r.type = "CANCEL_ORDER" ->
         Refusals \union (IF IsOpen(r.about) THEN {"CANCELED"} ELSE {})
                  \union (IF exchange[r.about] = "FILLED" THEN {"FILLED"} ELSE {})
    [] OTHER -> {"ok", "error"}

(* The orders after a request has had its result. *)
After(r, result) ==
  CASE result \in Refusals -> exchange
    [] result = "ok" -> [o \in Orders |->
         IF IsOpen(o) /\ SymbolOf[o] = r.about THEN "CANCELED" ELSE exchange[o]]
    [] OTHER -> [exchange EXCEPT ![r.about] = result]

Execute(r, result) ==
  /\ r \in sent
  /\ result \in Results(r)
  /\ LET outcome == [request |-> r, result |-> result]
     IN /\ sent' = sent \ {r}
        /\ exchange' = After(r, result)
        /\ executed' = executed \union {outcome}
        /\ answers' = IF r \in awaiting THEN answers \union {outcome} ELSE answers
  /\ IF result \in Refusals THEN Excuse(r) ELSE UNCHANGED cancelling
  /\ UNCHANGED <<gateway, version, responses, calls, downloaded, orphans, faults, restarts>>

(* A request never reaches the exchange. *)
Lose(r) ==
  /\ r \in sent
  /\ Fault
  /\ sent' = sent \ {r}
  /\ Excuse(r)
  /\ UNCHANGED <<gateway, version, answers, exchange, executed, responses, calls, downloaded,
                 orphans, restarts>>

(* An open order is matched, or expires. *)
Trade(o, status) ==
  /\ IsOpen(o)
  /\ exchange' = [exchange EXCEPT ![o] = status]
  /\ UNCHANGED <<gateway, version, sent, answers, history, faults, restarts>>

(* The exchange lists the orders that are open now. *)
AnswerOpenOrders ==
  /\ snapshot.status = "sent"
  /\ snapshot' = [status |-> "answered", open |-> {o \in Orders : IsOpen(o)}]
  /\ UNCHANGED <<ready, symbols, awaiting, version, sent, answers, exchange, history, faults, restarts>>

-----------------------------------------------------------------------------

ClientNext ==
  \/ \E o \in Orders : CreateOrder(o)
  \/ \E o \in Orders, type \in {"MODIFY_ORDER", "CANCEL_ORDER"} : ChangeOrder(type, o)
  \/ \E scope \in {Symbols} \union {{s} : s \in Symbols} : CancelAllOrders(scope)

ConnectionNext ==
  \/ \E answer \in answers : Receive(answer)
  \/ \E r \in awaiting : \E status \in Failures(r) : Fail(r, status)
  \/ GetOpenOrders
  \/ OpenOrdersAck
  \/ OpenOrdersFailed
  \/ Connected
  \/ Disconnected
  \/ Restart

ExchangeNext ==
  \/ \E r \in sent : \E result \in Results(r) : Execute(r, result)
  \/ \E r \in sent : Lose(r)
  \/ \E o \in Orders, status \in {"PARTIALLY_FILLED"} \union Done : Trade(o, status)
  \/ AnswerOpenOrders

Next == ClientNext \/ ConnectionNext \/ ExchangeNext

Spec == Init /\ [][Next]_vars

(***************************************************************************)
(* Every request that was not lost is executed, every answer is delivered, *)
(* and an HTTP request whose answer cannot come any more times out.  The   *)
(* client and the faults are not fair.                                     *)
(***************************************************************************)
Fairness ==
  /\ \A r \in Requests : WF_vars(\E result \in Results(r) : Execute(r, result))
  /\ \A r \in Requests : WF_vars(\E answer \in answers : answer.request = r /\ Receive(answer))
  /\ \A r \in Requests : WF_vars(r \notin sent /\ \E status \in Failures(r) : Fail(r, status))

FairSpec == Spec /\ Fairness

-----------------------------------------------------------------------------
(* Properties *)

(* "Incorrect OrderAck from modify response when order was canceled         *)
(* (#603)", "WSAPI modify request appeared successful but was rejected      *)
(* (#586)": a request reported as ACCEPTED was executed by the exchange, in *)
(* this very version, and left the order open if it was a modify, canceled  *)
(* if it was a cancel, however the requests of an order overlap.            *)
AcceptedIsTrue ==
  \A response \in responses :
    response.status = "ACCEPTED" =>
      \E outcome \in executed :
        /\ outcome.request = response.request
        /\ outcome.result \notin Refusals
        /\ response.request.type = "MODIFY_ORDER" => outcome.result \in Open
        /\ response.request.type = "CANCEL_ORDER" => outcome.result = "CANCELED"

(* TOO_LATE_TO_MODIFY_OR_CANCEL is reported of an order that is done, and   *)
(* stays so, or because the exchange said of this very request that it      *)
(* knows no such order (guess_error): the gateway itself, from an answer    *)
(* that overlaps another or comes late, never calls an order done that is   *)
(* still open.                                                              *)
TooLateMeansDoneOrUnknown ==
  \A response \in responses :
    response.status = "TOO_LATE" =>
      \/ exchange[response.request.about] \in Done
      \/ [request |-> response.request, result |-> "unknown"] \in executed

(* Has a request with this number been made? *)
Used(r) == r.version <= IF r.type = "CANCEL_ALL" THEN calls ELSE version[r.about]

(* What has become of a request, and the answers the client was given;      *)
(* FORWARDED is none.                                                       *)
Fate(r) ==
  IF r \in sent THEN "travelling"
  ELSE IF \E outcome \in executed : outcome.request = r /\ outcome.result \notin Refusals
       THEN "executed"
  ELSE IF \E outcome \in executed : outcome.request = r THEN "refused"
  ELSE IF Used(r) THEN "gone"
  ELSE "unused"

Told(r) ==
  {status \in {"ACCEPTED", "REJECTED", "TOO_LATE", "FAILED"} :
     [request |-> r, status |-> status] \in responses}

(* RequestService: a request is executed once at most and answered once at  *)
(* most, whatever is lost, delayed or given up; ACCEPTED tells that it was  *)
(* executed, TOO_LATE that the exchange has answered it, REJECTED and       *)
(* FAILED tell neither.  A late answer, after a failure was reported, is    *)
(* not reported again, and no request is repeated.                          *)
Service == INSTANCE RequestService WITH
  fate <- [r \in Requests |-> Fate(r)], told <- [r \in Requests |-> Told(r)]

ServiceSpec == Service!Spec

(* Cancel-all acknowledged as ACCEPTED for a symbol: no order of it that    *)
(* was open at the time of the call is open any more.                       *)
AcceptedCancelAllIsDone ==
  \A response \in responses :
    response.status = "ACCEPTED" /\ response.request.type = "CANCEL_ALL" =>
      \A o \in cancelling[response.request.version] :
        SymbolOf[o] = response.request.about => ~IsOpen(o)

(* Once the open orders were downloaded, every open order is within reach   *)
(* of CancelAllOrders: placed by this process, acknowledged or not, or      *)
(* taken over from an earlier one, while orders keep being created during   *)
(* the download.  (Not an order whose creation was in flight when the       *)
(* process was restarted: nothing tells the connection of it.)              *)
OpenOrdersAreCovered ==
  downloaded => \A o \in Orders \ orphans : IsOpen(o) => Covered(SymbolOf[o])

(* CancelAllOrders cancels: an order that was open at the call does not     *)
(* stay open, unless the request for its symbol is lost, refused or fails.  *)
CancelAllCancels ==
  \A o \in Orders, n \in 1..MaxCalls : o \in cancelling[n] ~> o \notin cancelling[n] \/ ~IsOpen(o)

(* A request stops being awaited only by an answer to the client or by the  *)
(* end of the process.                                                      *)
NoneIsForgotten ==
  [][\A r \in awaiting \intersect OrderRequests :
       r \in awaiting' \/ Told(r)' # {} \/ restarts' # restarts]_vars

(* The request of an order with this version awaits its answer. *)
Awaited(o, n) == \E r \in awaiting \intersect OrderRequests : r.about = o /\ r.version = n

(* Every request sent over HTTP is answered to the client, also when it is  *)
(* lost, times out or the connection breaks, unless the process ends first: *)
(* none is awaited for ever, and none is given up without an answer.        *)
EveryRequestIsAnswered ==
  /\ NoneIsForgotten
  /\ \A o \in Orders, n \in 1..MaxVersion : Awaited(o, n) ~> ~Awaited(o, n)

===============================================================================
