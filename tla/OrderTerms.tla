------------------------------ MODULE OrderTerms ------------------------------
(***************************************************************************)
(* What the client asks for and what the exchange makes of it: how the     *)
(* terms of an order travel, and how a request names the order it means.   *)
(*                                                                         *)
(* An order is placed from a CreateOrder.  A ModifyOrder may leave the     *)
(* price or the quantity unspecified (NaN); the encoder then fills in, or  *)
(* leaves out, the value by looking at the server's copy of the order.     *)
(* The copy is what was reported last, by the answers to requests and by   *)
(* the user stream, which overtake each other.                             *)
(*                                                                         *)
(* Prices and quantities are given on the grid of the reference data.      *)
(* Failed requests are the subject of module OrderEntry.                   *)
(***************************************************************************)
EXTENDS Naturals

CONSTANTS
  Encoders,    \* "json" (WebSocket), "url" (Classic, dapi), "url_full" (Classic, Portfolio)
  Orders,
  SymbolOf,    \* the symbol of each order
  IdOf,        \* the exchange's id of each order, unique for a symbol
  FormsOf,     \* what the CreateOrder of each order may ask for
  FastAck,     \* not the setting experimental.disable_fast_order_ack
  AckUpdates,  \* not rest.drop_order_update, with a WebSocket ws_api_2.allow_order_update
  Prices,
  Quantities,
  MaxRequests  \* bound: requests

NaN == 0
None == "none"

Symbols == {SymbolOf[o] : o \in Orders}
Ids == {IdOf[o] : o \in Orders}
ExternalOrderIds == {<<SymbolOf[o], IdOf[o]>> : o \in Orders}
Sides == {"BUY", "SELL"}
OrderTypes == {"LIMIT", "MARKET"}
TimesInForce == {"UNDEFINED", "GFD", "GTC", "IOC", "FOK", "GTX"}

(* A CreateOrder; encoder.cpp asserts that it has a price unless it is a market order. *)
Forms ==
  {f \in [side : Sides, order_type : OrderTypes, time_in_force : TimesInForce,
          post_only : BOOLEAN, rpi : BOOLEAN, reduce_only : BOOLEAN,
          price : Prices \union {NaN}, quantity : Quantities] :
     f.order_type = "MARKET" <=> f.price = NaN}

ASSUME OrderTermsAssumption ==
  /\ Encoders \subseteq {"json", "url", "url_full"}
  /\ Prices \subseteq Nat \ {NaN}
  /\ Quantities \subseteq Nat \ {NaN}
  /\ MaxRequests \in Nat
  /\ None \notin Orders
  /\ \A o \in Orders : IdOf[o] # None
  /\ \A o, p \in Orders : SymbolOf[o] = SymbolOf[p] /\ IdOf[o] = IdOf[p] => o = p
  /\ FastAck \in BOOLEAN
  /\ AckUpdates \in BOOLEAN
  /\ \A o \in Orders : FormsOf[o] \subseteq Forms

VARIABLES
  encoder,
  form,       \* the CreateOrder of each order
  force,      \* the setting misc.test_force_client_order_id
  requests,   \* requests so far
  sent,       \* requests on their way to the exchange
  exchange,   \* the orders at the exchange
  young,      \* orders created within misc.test_cancel_bug_timeout
  answers,    \* answers on their way back
  reports,    \* events of the user stream on their way
  stored,     \* the server's copy of each order
  reported,   \* the terms of each order as reported to the client
  confirmed,  \* orders whose creation was answered; with a WebSocket they have a time
  response,   \* history: the last response about each order
  intent,     \* history: the price and the quantity the client has asked for
  outdated    \* history: orders modified from an outdated copy

settings == <<encoder, form, force>>
market == <<exchange, young>>
client == <<stored, reported, confirmed, response>>
history == <<intent, outdated>>
vars == <<settings, requests, sent, market, answers, reports, client, history>>

Quotes == [price : Prices \union {NaN}, quantity : Quantities \union {NaN}]

Placed ==
  [type : {"order.place"}, about : Orders, version : 1..MaxRequests, confirmed : BOOLEAN,
   side : Sides, order_type : OrderTypes, reduce_only : BOOLEAN,
   time_in_force : TimesInForce \union {"RPI", None},
   price : Prices \union {NaN}, quantity : Quantities]

(* asked, basis, guessed: history. *)
Modified ==
  [type : {"order.modify"}, about : Orders, version : 1..MaxRequests, confirmed : BOOLEAN,
   symbol : Symbols, orderId : Ids \union {None},
   origClientOrderId : Orders \union {None}, side : Sides,
   price : Prices \union {NaN}, quantity : Quantities \union {NaN},
   asked : Quotes, basis : Nat, guessed : BOOLEAN]

Canceled ==
  [type : {"order.cancel"}, about : Orders, version : 1..MaxRequests, confirmed : BOOLEAN,
   symbol : Symbols, orderId : Ids \union {None},
   origClientOrderId : Orders \union {None}]

Reports ==
  [order : Orders, rev : Nat, price : Prices \union {NaN}, quantity : Quantities]

Results ==
  {"NEW", "FILLED", "CANCELED", "SAME_ORDER", "NO_SUCH_ORDER", "CANCEL_REJECTED", "refused"}

RequestTypes == {"order.place", "order.modify", "order.cancel"}

Answers ==
  [type : RequestTypes, about : Orders,
   version : 1..MaxRequests, confirmed : BOOLEAN, result : Results, report : Reports]

Errors ==
  {"ACCEPTED", "TOO_LATE_TO_MODIFY_OR_CANCEL", "MODIFY_HAS_NO_EFFECT", "UNKNOWN",
   "UNKNOWN_EXTERNAL_ORDER_ID", "INVALID_REQUEST_ARGS"}

TypeOK ==
  /\ encoder \in Encoders
  /\ form \in [Orders -> Forms]
  /\ force \in BOOLEAN
  /\ requests \in 0..MaxRequests
  /\ sent \subseteq Placed \union Modified \union Canceled
  /\ exchange \in [Orders ->
       [status : {None, "NEW", "FILLED", "CANCELED"}, side : Sides, order_type : OrderTypes,
        reduce_only : BOOLEAN, time_in_force : {"GTC", "IOC", "FOK", "GTX", "RPI"},
        price : Prices \union {NaN}, quantity : Quantities, rev : Nat]]
  /\ young \subseteq Orders
  /\ answers \subseteq Answers
  /\ reports \subseteq Reports
  /\ stored \in [Orders ->
       [placed : BOOLEAN, external_order_id : ExternalOrderIds \union {<<>>}, side : Sides,
        price : Prices \union {NaN}, quantity : Quantities, rev : Nat]]
  /\ reported \in [Orders ->
       [known : BOOLEAN, side : Sides, order_type : OrderTypes \union {"UNDEFINED"},
        time_in_force : TimesInForce]]
  /\ confirmed \subseteq Orders
  /\ response \in [Orders -> [type : RequestTypes \union {None}, confirmed : BOOLEAN, error : Errors]]
  /\ intent \in [Orders -> [price : Prices \union {NaN}, quantity : Quantities]]
  /\ outdated \subseteq Orders

Init ==
  /\ encoder \in Encoders
  /\ form \in [Orders -> Forms] /\ \A o \in Orders : form[o] \in FormsOf[o]
  /\ force \in IF encoder = "json" THEN BOOLEAN ELSE {FALSE}
  /\ requests = 0
  /\ sent = {}
  /\ exchange = [o \in Orders |->
       [status |-> None, side |-> form[o].side, order_type |-> form[o].order_type,
        reduce_only |-> FALSE, time_in_force |-> "GTC",
        price |-> form[o].price, quantity |-> form[o].quantity, rev |-> 0]]
  /\ young = {}
  /\ answers = {}
  /\ reports = {}
  /\ stored = [o \in Orders |->
       [placed |-> FALSE, external_order_id |-> <<>>, side |-> form[o].side,
        price |-> form[o].price, quantity |-> form[o].quantity, rev |-> 0]]
  /\ reported = [o \in Orders |->
       [known |-> FALSE, side |-> form[o].side, order_type |-> "UNDEFINED",
        time_in_force |-> "UNDEFINED"]]
  /\ confirmed = {}
  /\ response = [o \in Orders |-> [type |-> None, confirmed |-> FALSE, error |-> "UNKNOWN"]]
  /\ intent = [o \in Orders |-> [price |-> form[o].price, quantity |-> form[o].quantity]]
  /\ outdated = {}

-----------------------------------------------------------------------------
(* Maps and encoders *)

(* {TimeInForce, ExecutionInstruction, execution destination} => the exchange *)
TimeInForceOf(f) ==
  CASE f.rpi -> "RPI"
    [] ~f.rpi /\ f.time_in_force = "GTC" /\ f.post_only -> "GTX"
    [] ~f.rpi /\ f.time_in_force = "GFD" -> "UNDEFINED"
    [] OTHER -> f.time_in_force

(* Mutant: post-only orders are reported as good till canceled. *)
MappedAsGTC(tif) == IF tif \in {"GTX", "RPI"} THEN "GTC" ELSE tif

(* The exchange => TimeInForce *)
MappedTimeInForce(tif) == IF tif = "RPI" THEN "GTC" ELSE tif

(* order_place_url: LIMIT orders have a time in force and a price. *)
PlaceUrl(f) ==
  [side |-> f.side, order_type |-> f.order_type, reduce_only |-> f.reduce_only,
   quantity |-> f.quantity,
   time_in_force |-> IF f.order_type = "LIMIT" THEN TimeInForceOf(f) ELSE None,
   price |-> IF f.order_type = "LIMIT" THEN f.price ELSE NaN]

(* order_place_json: what is defined is sent. *)
PlaceJson(f) ==
  [side |-> f.side, order_type |-> f.order_type, reduce_only |-> f.reduce_only,
   quantity |-> f.quantity,
   time_in_force |-> IF TimeInForceOf(f) = "UNDEFINED" THEN None ELSE TimeInForceOf(f),
   price |-> f.price]

PlaceParams(f) == IF encoder = "json" THEN PlaceJson(f) ELSE PlaceUrl(f)

(* order_modify_json, order_modify_url with modify_order_full: both values. *)
FilledIn(asked, last) == IF asked = NaN THEN last ELSE asked

(* order_modify_url without modify_order_full: the value that changes. *)
Changed(asked, last) == IF asked # last THEN asked ELSE NaN

ModifyParam(asked, last) ==
  IF encoder = "url" THEN Changed(asked, last) ELSE FilledIn(asked, last)

(* Exactly one value may change; else Rejected is thrown. *)
Rejected(price, quantity) == encoder = "url" /\ (price = NaN <=> quantity = NaN)

(* Did the encoder depend on the server's copy? *)
Guessed(asked, last) ==
  IF encoder = "url" THEN asked # NaN /\ asked = last ELSE asked = NaN

(* Mutant: the prefix is sent too. *)
WholeId(external_order_id) == external_order_id

(* "SYMBOL#id", and the id in it *)
ExternalOrderId(o) == <<SymbolOf[o], IdOf[o]>>
OrderIdOf(external_order_id) == external_order_id[2]

(* The id the exchange gave to the order, once it is known, and with REST, *)
(* or without that id, the id the gateway gave it.                         *)
OrderId(o, forced) ==
  IF stored[o].external_order_id = <<>> \/ forced THEN None
  ELSE OrderIdOf(stored[o].external_order_id)

ClientOrderId(o, forced) ==
  IF encoder = "json" /\ OrderId(o, forced) # None THEN None ELSE o

GuessError(result) ==
  CASE result \in {"CANCEL_REJECTED", "NO_SUCH_ORDER"} -> "TOO_LATE_TO_MODIFY_OR_CANCEL"
    [] result = "SAME_ORDER" -> "MODIFY_HAS_NO_EFFECT"
    [] OTHER -> "UNKNOWN"

-----------------------------------------------------------------------------
(* Requests of the client *)

Send(r) ==
  /\ sent' = sent \union {r}
  /\ UNCHANGED <<settings, market, answers, reports, reported, confirmed, response, history>>

NextVersion ==
  /\ requests < MaxRequests
  /\ requests' = requests + 1

(* order_place.  The server has a copy of the order. *)
CreateOrder(o) ==
  /\ ~stored[o].placed
  /\ NextVersion
  /\ stored' = [stored EXCEPT ![o].placed = TRUE]
  /\ LET params == PlaceParams(form[o])
     IN Send([type |-> "order.place", about |-> o, version |-> requests', confirmed |-> FALSE,
              side |-> params.side, order_type |-> params.order_type,
              reduce_only |-> params.reduce_only, time_in_force |-> params.time_in_force,
              price |-> params.price, quantity |-> params.quantity])

(* order_modify *)
ModifyOrder(o, asked) ==
  LET last == stored[o]
      price == ModifyParam(asked.price, last.price)
      quantity == ModifyParam(asked.quantity, last.quantity)
  IN /\ stored[o].placed
     /\ NextVersion
     /\ UNCHANGED stored
     /\ IF Rejected(price, quantity)
        THEN /\ response' = [response EXCEPT ![o] =
                  [type |-> "order.modify", confirmed |-> o \in confirmed,
                   error |-> "INVALID_REQUEST_ARGS"]]
             /\ UNCHANGED <<settings, sent, market, answers, reports, reported, confirmed, history>>
        ELSE Send([type |-> "order.modify", about |-> o, version |-> requests',
                   confirmed |-> o \in confirmed, symbol |-> SymbolOf[o],
                   orderId |-> OrderId(o, FALSE), origClientOrderId |-> ClientOrderId(o, FALSE),
                   side |-> last.side, price |-> price, quantity |-> quantity,
                   asked |-> asked, basis |-> last.rev,
                   guessed |-> \/ Guessed(asked.price, last.price)
                               \/ Guessed(asked.quantity, last.quantity)])

(* order_cancel *)
CancelOrder(o) ==
  /\ stored[o].placed
  /\ NextVersion
  /\ UNCHANGED stored
  /\ Send([type |-> "order.cancel", about |-> o, version |-> requests',
           confirmed |-> o \in confirmed, symbol |-> SymbolOf[o],
           orderId |-> OrderId(o, force), origClientOrderId |-> ClientOrderId(o, force)])

-----------------------------------------------------------------------------
(* The exchange *)

Report(o) ==
  [order |-> o, rev |-> exchange'[o].rev, price |-> exchange'[o].price,
   quantity |-> exchange'[o].quantity]

(* The answer tells of an order; a change of it is an event too. *)
Answer(r, result, o, changed) ==
  /\ sent' = sent \ {r}
  /\ answers' = answers \union
       {[type |-> r.type, about |-> r.about, version |-> r.version, confirmed |-> r.confirmed,
         result |-> result, report |-> Report(o)]}
  /\ reports' = IF changed THEN reports \union {Report(o)}
                ELSE reports
  /\ UNCHANGED <<settings, requests, client>>

(* A request may always be refused. *)
Refuse(r) ==
  /\ r \in sent
  /\ UNCHANGED <<market, history>>
  /\ Answer(r, "refused", r.about, FALSE)

(* A limit order needs a time in force and a price. *)
ExecutePlace(r, status) ==
  /\ r \in sent
  /\ r.type = "order.place"
  /\ r.order_type = "LIMIT" => r.time_in_force \in {"GTC", "IOC", "FOK", "GTX", "RPI"}
  /\ r.order_type = "MARKET" => status # "NEW"
  /\ LET o == r.about
     IN /\ exchange' = [exchange EXCEPT ![o] =
             [status |-> status, side |-> r.side, order_type |-> r.order_type,
              reduce_only |-> r.reduce_only,
              time_in_force |-> IF r.order_type = "LIMIT" THEN r.time_in_force ELSE "GTC",
              price |-> r.price, quantity |-> r.quantity, rev |-> 0]]
        /\ young' = young \union {o}
        /\ UNCHANGED history
        /\ Answer(r, status, o, TRUE)

(* The order a request names: by the exchange's id if it has one. *)
Names(r, o) ==
  /\ exchange[o].status # None
  /\ SymbolOf[o] = r.symbol
  /\ IF r.orderId # None THEN IdOf[o] = r.orderId ELSE o = r.origClientOrderId

Open(o) == exchange[o].status = "NEW"

(* A value that is left open does not change. *)
Kept(value, old) == IF value = NaN THEN old ELSE value

After(r, o, status) ==
  [exchange[o] EXCEPT !.price = Kept(r.price, @), !.quantity = Kept(r.quantity, @),
                      !.status = status, !.rev = @ + 1]

ExecuteModify(r, o, status) ==
  /\ r \in sent
  /\ r.type = "order.modify"
  /\ Names(r, o)
  /\ Open(o)
  /\ r.side = exchange[o].side
  /\ LET after == After(r, o, status)
     IN IF after.price = exchange[o].price /\ after.quantity = exchange[o].quantity
        THEN /\ UNCHANGED <<market, history>>
             /\ Answer(r, "SAME_ORDER", o, FALSE)
        ELSE /\ exchange' = [exchange EXCEPT ![o] = after]
             /\ intent' = [intent EXCEPT ![r.about].price = Kept(r.asked.price, @),
                                         ![r.about].quantity = Kept(r.asked.quantity, @)]
             /\ outdated' = IF r.guessed /\ r.basis # exchange[o].rev
                            THEN outdated \union {r.about} ELSE outdated
             /\ UNCHANGED young
             /\ Answer(r, status, o, TRUE)

ExecuteCancel(r, o) ==
  /\ r \in sent
  /\ r.type = "order.cancel"
  /\ Names(r, o)
  /\ Open(o)
  /\ exchange' = [exchange EXCEPT ![o].status = "CANCELED"]
  /\ UNCHANGED <<young, history>>
  /\ Answer(r, "CANCELED", o, TRUE)

(* The order named is not there, or not open; with the bug, it is. *)
NotFound(r) ==
  /\ r \in sent
  /\ r.type # "order.place"
  /\ \A o \in Orders : Names(r, o) => ~Open(o) \/ (o \in young /\ r.type = "order.cancel")
  /\ UNCHANGED <<market, history>>
  /\ \/ Answer(r, IF r.type = "order.modify" THEN "NO_SUCH_ORDER" ELSE "CANCEL_REJECTED",
               r.about, FALSE)
     \/ \E o \in Orders : /\ Names(r, o)
                          /\ exchange[o].status = "FILLED"
                          /\ Answer(r, "FILLED", o, FALSE)

(* An open order is filled, or expires. *)
Trade(o, status) ==
  /\ Open(o)
  /\ exchange' = [exchange EXCEPT ![o].status = status]
  /\ reports' = reports \union {Report(o)}
  /\ UNCHANGED <<settings, requests, sent, young, answers, client, history>>

(* The order is no longer young: the exchange knows it, and the answers    *)
(* that it did not are in.  The time-out is assumed to be that long.       *)
Elapse(o) ==
  /\ \A answer \in answers : answer.about = o => answer.result # "CANCEL_REJECTED"
  /\ young' = young \ {o}
  /\ UNCHANGED <<settings, requests, sent, exchange, answers, reports, client, history>>

-----------------------------------------------------------------------------
(* Answers and reports *)

Noted(report) ==
  [stored EXCEPT ![report.order].external_order_id = ExternalOrderId(report.order)]

Copied(report) ==
  [Noted(report) EXCEPT ![report.order] =
     [@ EXCEPT !.price = report.price, !.quantity = report.quantity, !.rev = report.rev]]

(* Mutant: the quantity is not copied. *)
UpdateWithoutQuantity(report) ==
  LET o == report.order
  IN /\ stored' = [Noted(report) EXCEPT ![o] =
          [@ EXCEPT !.side = exchange[o].side, !.price = report.price, !.rev = report.rev]]
     /\ reported' = [reported EXCEPT ![o] =
          [known |-> TRUE, side |-> exchange[o].side, order_type |-> exchange[o].order_type,
           time_in_force |-> MappedTimeInForce(exchange[o].time_in_force)]]

(* The OrderUpdate of the server's copy, and of the client. *)
OrderUpdate(report) ==
  LET o == report.order
  IN /\ stored' = [Copied(report) EXCEPT ![o].side = exchange[o].side]
     /\ reported' = [reported EXCEPT ![o] =
          [known |-> TRUE, side |-> exchange[o].side, order_type |-> exchange[o].order_type,
           time_in_force |-> MappedTimeInForce(exchange[o].time_in_force)]]

(* Without an OrderUpdate the Response has the id of the order; with REST  *)
(* it has the price and the quantity too, which the server may copy.       *)
ResponseOnly(report) ==
  /\ UNCHANGED reported
  /\ \/ stored' = Noted(report)
     \/ encoder # "json" /\ stored' = Copied(report)

Respond(r, error) ==
  response' = [response EXCEPT ![r.about] =
    [type |-> r.type, confirmed |-> r.confirmed, error |-> error]]

Receive(answer) ==
  /\ answer \in answers
  /\ answers' = answers \ {answer}
  /\ UNCHANGED <<settings, requests, sent, market, reports, history>>

Error(answer, error) ==
  /\ Respond(answer, error)
  /\ UNCHANGED <<stored, reported, confirmed>>

(* The answer of a WebSocket always has an OrderUpdate, with the time. *)
OrderPlaceAck(answer) ==
  /\ answer.type = "order.place"
  /\ Receive(answer)
  /\ IF answer.result \in {"NEW", "FILLED", "CANCELED"}
     THEN /\ Respond(answer, "ACCEPTED")
          /\ confirmed' = confirmed \union {answer.about}
          /\ IF AckUpdates \/ encoder = "json" THEN OrderUpdate(answer.report)
             ELSE ResponseOnly(answer.report)
     ELSE Error(answer, GuessError(answer.result))

Accepted(answer) ==
  /\ UNCHANGED confirmed
  /\ IF FastAck
     THEN /\ Respond(answer, "ACCEPTED")
          /\ IF AckUpdates THEN OrderUpdate(answer.report) ELSE ResponseOnly(answer.report)
     ELSE UNCHANGED <<response, stored, reported>>

OrderModifyAck(answer) ==
  /\ answer.type = "order.modify"
  /\ Receive(answer)
  /\ CASE answer.result = "NEW" -> Accepted(answer)
       [] answer.result \in {"FILLED", "CANCELED"} -> Error(answer, "TOO_LATE_TO_MODIFY_OR_CANCEL")
       [] OTHER -> Error(answer, GuessError(answer.result))

(* Mutant: the -2011 bug is not known. *)
CancelErrorUnfixed(answer) == GuessError(answer.result)

(* The fix of the -2011 bug, of the WebSocket only. *)
CancelError(answer) ==
  LET o == answer.about
  IN IF encoder = "json" /\ answer.result = "CANCEL_REJECTED" /\ o \in confirmed /\ o \in young
     THEN "UNKNOWN_EXTERNAL_ORDER_ID"
     ELSE GuessError(answer.result)

OrderCancelAck(answer) ==
  /\ answer.type = "order.cancel"
  /\ Receive(answer)
  /\ CASE answer.result = "CANCELED" -> Accepted(answer)
       [] answer.result = "FILLED" -> Error(answer, "TOO_LATE_TO_MODIFY_OR_CANCEL")
       [] OTHER -> Error(answer, CancelError(answer))

OrderTradeUpdate(report) ==
  /\ report \in reports
  /\ reports' = reports \ {report}
  /\ OrderUpdate(report)
  /\ UNCHANGED <<settings, requests, sent, market, answers, confirmed, response, history>>

-----------------------------------------------------------------------------

ClientNext ==
  \E o \in Orders :
    \/ CreateOrder(o)
    \/ \E asked \in Quotes : ModifyOrder(o, asked)
    \/ CancelOrder(o)

ExchangeNext ==
  \/ \E r \in sent :
       \/ Refuse(r)
       \/ NotFound(r)
       \/ \E status \in {"NEW", "FILLED", "CANCELED"} :
            ExecutePlace(r, status) \/ \E o \in Orders : ExecuteModify(r, o, status)
       \/ \E o \in Orders : ExecuteCancel(r, o)
  \/ \E o \in Orders :
       \/ \E status \in {"FILLED", "CANCELED"} : Trade(o, status)
       \/ Elapse(o)

ServerNext ==
  \/ \E answer \in answers :
       OrderPlaceAck(answer) \/ OrderModifyAck(answer) \/ OrderCancelAck(answer)
  \/ \E report \in reports : OrderTradeUpdate(report)

Next == ClientNext \/ ExchangeNext \/ ServerNext

Spec == Init /\ [][Next]_vars

-----------------------------------------------------------------------------
(* Properties *)

Meaning(tif) ==
  [passive |-> tif \in {"GTX", "RPI"}, immediate |-> tif \in {"IOC", "FOK"}, whole |-> tif = "FOK"]

(* What the client means; an order that is both post-only and immediate    *)
(* is a contradiction.                                                     *)
Meant(f) ==
  [passive |-> f.rpi \/ f.post_only \/ f.time_in_force = "GTX",
   immediate |-> ~f.rpi /\ f.time_in_force \in {"IOC", "FOK"},
   whole |-> ~f.rpi /\ f.time_in_force = "FOK"]

Contradictory(f) == ~f.rpi /\ f.post_only /\ f.time_in_force \in {"IOC", "FOK"}

(* "Support RPI orders (#638)", "WSAPI did not use the reduceOnly flag     *)
(* when placing orders (#572)", "Support ModifyOrder (#423)": the order at *)
(* the exchange is the order the client asked for, however it was encoded, *)
(* and has the price and the quantity the client asked for last - those    *)
(* the client left open are not touched - unless a modify was encoded from *)
(* a copy of the order that was out of date.                               *)
OrderIsAsAsked ==
  \A o \in Orders :
    exchange[o].status # None =>
      /\ exchange[o].side = form[o].side
      /\ exchange[o].order_type = form[o].order_type
      /\ exchange[o].reduce_only = form[o].reduce_only
      /\ exchange[o].order_type = "LIMIT" /\ ~Contradictory(form[o]) =>
           Meaning(exchange[o].time_in_force) = Meant(form[o])
      /\ o \notin outdated =>
           exchange[o].price = intent[o].price /\ exchange[o].quantity = intent[o].quantity

(* What the client is told of the terms of its order is what it asked for, *)
(* after a trip through the maps of both directions.  An RPI order is      *)
(* reported as GTC.                                                        *)
ReportedAsAsked ==
  \A o \in Orders :
    reported[o].known =>
      /\ reported[o].side = form[o].side
      /\ reported[o].order_type = form[o].order_type
      /\ form[o].order_type = "LIMIT" /\ ~Contradictory(form[o]) /\ ~form[o].rpi =>
           Meaning(reported[o].time_in_force) = Meant(form[o])

(* "there is an exchange bug where the exchange claims to not know the     *)
(* order if the cancel request was sent a few msec after the order was     *)
(* confirmed": a client that waits for the confirmation of its order       *)
(* before it changes it is told TOO_LATE_TO_MODIFY_OR_CANCEL only when the *)
(* order is done.  With REST there is no fix of the bug.                   *)
TooLateIsTrue ==
  \A o \in Orders :
    /\ response[o].error = "TOO_LATE_TO_MODIFY_OR_CANCEL"
    /\ response[o].confirmed
    /\ encoder = "json" \/ response[o].type = "order.modify"
    => exchange[o].status \in {"FILLED", "CANCELED"}

===============================================================================
