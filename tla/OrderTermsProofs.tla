--------------------------- MODULE OrderTermsProofs ---------------------------
(***************************************************************************)
(* What holds of OrderTerms for every set of orders and forms, every       *)
(* setting and any number of requests.                                     *)
(***************************************************************************)
EXTENDS OrderTerms, TLAPS

-----------------------------------------------------------------------------
(* Types *)

LEMMA FormType ==
  ASSUME OrderTermsAssumption, NEW f \in Forms
  PROVE  /\ f \in [side : Sides, order_type : OrderTypes, time_in_force : TimesInForce,
                   post_only : BOOLEAN, rpi : BOOLEAN, reduce_only : BOOLEAN,
                   price : Prices \union {NaN}, quantity : Quantities]
         /\ f.order_type = "MARKET" <=> f.price = NaN
         /\ TimeInForceOf(f) \in TimesInForce \union {"RPI"}
<1>1. /\ f \in [side : Sides, order_type : OrderTypes, time_in_force : TimesInForce,
                post_only : BOOLEAN, rpi : BOOLEAN, reduce_only : BOOLEAN,
                price : Prices \union {NaN}, quantity : Quantities]
      /\ f.order_type = "MARKET" <=> f.price = NaN
  BY DEF Forms
<1>2. f.time_in_force \in TimesInForce
  BY <1>1
<1>3. TimeInForceOf(f) \in TimesInForce \union {"RPI"}
  BY <1>2 DEF TimeInForceOf, TimesInForce
<1> QED
  BY <1>1, <1>3

(* What a request has of the form. *)
SameTerms(t, f) ==
  /\ t.side = f.side
  /\ t.order_type = f.order_type
  /\ t.reduce_only = f.reduce_only
  /\ t.price = f.price
  /\ t.quantity = f.quantity
  /\ f.order_type = "LIMIT" /\ t.time_in_force \notin {None, "UNDEFINED"}
       => t.time_in_force = TimeInForceOf(f)

(* Whatever the encoder, the request has the terms of the form. *)
LEMMA PlaceParamsAreTheForm ==
  ASSUME OrderTermsAssumption, NEW f \in Forms
  PROVE  /\ SameTerms(PlaceParams(f), f)
         /\ PlaceParams(f).time_in_force \in TimesInForce \union {"RPI", None}
<1>1. /\ f.order_type \in OrderTypes
      /\ f.order_type = "MARKET" <=> f.price = NaN
      /\ TimeInForceOf(f) \in TimesInForce \union {"RPI"}
  BY FormType
<1>2. /\ SameTerms(PlaceUrl(f), f)
      /\ PlaceUrl(f).time_in_force \in TimesInForce \union {"RPI", None}
  BY <1>1 DEF PlaceUrl, SameTerms, OrderTypes
<1>3. /\ SameTerms(PlaceJson(f), f)
      /\ PlaceJson(f).time_in_force \in TimesInForce \union {"RPI", None}
  BY <1>1 DEF PlaceJson, SameTerms
<1> QED
  BY <1>2, <1>3 DEF PlaceParams

LEMMA TypeInit ==
  ASSUME OrderTermsAssumption, Init
  PROVE  TypeOK
<1>1. \A o \in Orders :
        /\ form[o] \in [side : Sides, order_type : OrderTypes, time_in_force : TimesInForce,
                        post_only : BOOLEAN, rpi : BOOLEAN, reduce_only : BOOLEAN,
                        price : Prices \union {NaN}, quantity : Quantities]
  BY FormType DEF Init
<1>2. exchange \in [Orders ->
       [status : {None, "NEW", "FILLED", "CANCELED"}, side : Sides, order_type : OrderTypes,
        reduce_only : BOOLEAN, time_in_force : {"GTC", "IOC", "FOK", "GTX", "RPI"},
        price : Prices \union {NaN}, quantity : Quantities, rev : Nat]]
  BY <1>1 DEF Init
<1>3. stored \in [Orders ->
       [placed : BOOLEAN, external_order_id : ExternalOrderIds \union {<<>>}, side : Sides,
        price : Prices \union {NaN}, quantity : Quantities, rev : Nat]]
  BY <1>1 DEF Init
<1>4. reported \in [Orders ->
       [known : BOOLEAN, side : Sides, order_type : OrderTypes \union {"UNDEFINED"},
        time_in_force : TimesInForce]]
  BY <1>1 DEF Init, TimesInForce
<1>5. /\ response \in [Orders -> [type : RequestTypes \union {None}, confirmed : BOOLEAN, error : Errors]]
      /\ intent \in [Orders -> [price : Prices \union {NaN}, quantity : Quantities]]
  BY <1>1 DEF Init, Errors
<1>6. force \in BOOLEAN
  BY DEF Init
<1>7. requests \in 0..MaxRequests
  BY DEF Init, OrderTermsAssumption
<1>8. /\ encoder \in Encoders /\ form \in [Orders -> Forms]
      /\ sent = {} /\ young = {} /\ answers = {} /\ reports = {} /\ confirmed = {} /\ outdated = {}
  BY DEF Init
<1> QED
  BY <1>2, <1>3, <1>4, <1>5, <1>6, <1>7, <1>8 DEF TypeOK

(* The server knows an order by its own id, or not yet. *)
Identified == \A o \in Orders : stored[o].external_order_id \in {<<>>, ExternalOrderId(o)}

TypeInv == TypeOK /\ Identified

LEMMA OrderIdType ==
  ASSUME OrderTermsAssumption, TypeInv, NEW o \in Orders, NEW b \in BOOLEAN
  PROVE  /\ OrderId(o, b) \in {None, IdOf[o]}
         /\ OrderId(o, b) = None => ClientOrderId(o, b) = o
         /\ ClientOrderId(o, b) \in {None, o}
<1>1. OrderIdOf(ExternalOrderId(o)) = IdOf[o]
  BY DEF OrderIdOf, ExternalOrderId
<1> QED
  BY <1>1 DEF OrderId, ClientOrderId, TypeInv, Identified

LEMMA RequestType ==
  ASSUME TypeOK, NEW r \in sent
  PROVE  /\ r.type \in RequestTypes /\ r.about \in Orders
         /\ r.version \in 1..MaxRequests /\ r.confirmed \in BOOLEAN
         /\ r.type = "order.place" => r \in Placed
         /\ r.type = "order.modify" => r \in Modified
         /\ r.type = "order.cancel" => r \in Canceled
<1>1. CASE r \in Placed
  BY <1>1 DEF Placed, RequestTypes
<1>2. CASE r \in Modified
  BY <1>2 DEF Modified, RequestTypes
<1>3. CASE r \in Canceled
  BY <1>3 DEF Canceled, RequestTypes
<1> QED
  BY <1>1, <1>2, <1>3 DEF TypeOK

(* The server's copies of the orders. *)
StoredOrders ==
  [placed : BOOLEAN, external_order_id : ExternalOrderIds \union {<<>>}, side : Sides,
   price : Prices \union {NaN}, quantity : Quantities, rev : Nat]

LEMMA StoredType == TypeOK => stored \in [Orders -> StoredOrders]
  BY DEF TypeOK, StoredOrders

(* A copy that is marked as placed is a copy, of the same order. *)
LEMMA MarkedType ==
  ASSUME NEW copy \in StoredOrders
  PROVE  /\ [copy EXCEPT !.placed = TRUE] \in StoredOrders
         /\ [copy EXCEPT !.placed = TRUE].external_order_id = copy.external_order_id
  BY DEF StoredOrders

LEMMA SendType ==
  ASSUME OrderTermsAssumption, TypeInv, NextVersion,
         NEW r \in Placed \union Modified \union Canceled, Send(r),
         \/ UNCHANGED stored
         \/ \E o \in Orders : stored' = [stored EXCEPT ![o].placed = TRUE]
  PROVE  TypeInv'
<1>1. requests' \in 0..MaxRequests
  BY DEF NextVersion, OrderTermsAssumption, TypeInv, TypeOK
<1>2. sent' \subseteq Placed \union Modified \union Canceled
  BY DEF Send, TypeInv, TypeOK
<1>3. /\ stored' \in [Orders -> StoredOrders]
      /\ \A o \in Orders : stored'[o].external_order_id = stored[o].external_order_id
  <2>1. stored \in [Orders -> StoredOrders]
    BY StoredType DEF TypeInv
  <2>2. CASE UNCHANGED stored
    BY <2>1, <2>2
  <2>3. CASE \E o \in Orders : stored' = [stored EXCEPT ![o].placed = TRUE]
    <3>1. PICK p \in Orders : stored' = [stored EXCEPT ![p].placed = TRUE]
      BY <2>3
    <3> DEFINE copy == [stored[p] EXCEPT !.placed = TRUE]
    <3>2. stored' = [stored EXCEPT ![p] = copy]
      BY <3>1
    <3>3. copy \in StoredOrders /\ copy.external_order_id = stored[p].external_order_id
      BY <2>1, MarkedType
    <3> HIDE DEF copy
    <3>4. stored'[p] = copy /\ \A o \in Orders \ {p} : stored'[o] = stored[o]
      BY <2>1, <3>2
    <3>5. stored' \in [Orders -> StoredOrders]
      BY <2>1, <3>2, <3>3
    <3> QED
      BY <3>3, <3>4, <3>5
  <2> QED
    BY <2>2, <2>3
<1>4. Identified'
  BY <1>3 DEF TypeInv, Identified, ExternalOrderId
<1> QED
  BY <1>1, <1>2, <1>3, <1>4 DEF Send, TypeInv, TypeOK, StoredOrders, settings, market, history

(* The request of each operation is well formed. *)
LEMMA CreateType ==
  ASSUME OrderTermsAssumption, TypeInv, NEW o \in Orders, CreateOrder(o)
  PROVE  TypeInv'
<1> DEFINE params == PlaceParams(form[o])
           r == [type |-> "order.place", about |-> o, version |-> requests', confirmed |-> FALSE,
                 side |-> params.side, order_type |-> params.order_type,
                 reduce_only |-> params.reduce_only, time_in_force |-> params.time_in_force,
                 price |-> params.price, quantity |-> params.quantity]
<1>1. /\ form[o] \in [side : Sides, order_type : OrderTypes, time_in_force : TimesInForce,
                      post_only : BOOLEAN, rpi : BOOLEAN, reduce_only : BOOLEAN,
                      price : Prices \union {NaN}, quantity : Quantities]
      /\ SameTerms(params, form[o])
      /\ params.time_in_force \in TimesInForce \union {"RPI", None}
  BY FormType, PlaceParamsAreTheForm DEF TypeInv, TypeOK
<1>2. requests' \in 1..MaxRequests
  BY DEF CreateOrder, NextVersion, OrderTermsAssumption, TypeInv, TypeOK
<1>3. /\ params.side \in Sides /\ params.order_type \in OrderTypes
      /\ params.reduce_only \in BOOLEAN
      /\ params.price \in Prices \union {NaN} /\ params.quantity \in Quantities
  BY <1>1 DEF SameTerms
<1> HIDE DEF params
<1>4. r \in Placed
  BY <1>1, <1>2, <1>3 DEF Placed
<1>5. Send(r) /\ NextVersion /\ stored' = [stored EXCEPT ![o].placed = TRUE]
  BY DEF CreateOrder, params
<1> HIDE DEF r
<1> QED
  BY <1>4, <1>5, SendType

LEMMA ModifyType ==
  ASSUME OrderTermsAssumption, TypeInv, NEW o \in Orders, NEW asked \in Quotes,
         ModifyOrder(o, asked)
  PROVE  TypeInv'
<1> DEFINE last == stored[o]
           price == ModifyParam(asked.price, last.price)
           quantity == ModifyParam(asked.quantity, last.quantity)
           guessed == Guessed(asked.price, last.price) \/ Guessed(asked.quantity, last.quantity)
           r == [type |-> "order.modify", about |-> o, version |-> requests',
                 confirmed |-> o \in confirmed, symbol |-> SymbolOf[o],
                 orderId |-> OrderId(o, FALSE), origClientOrderId |-> ClientOrderId(o, FALSE),
                 side |-> last.side, price |-> price, quantity |-> quantity,
                 asked |-> asked, basis |-> last.rev, guessed |-> guessed]
<1>1. requests' \in 1..MaxRequests
  BY DEF ModifyOrder, NextVersion, OrderTermsAssumption, TypeInv, TypeOK
<1>2. CASE Rejected(price, quantity)
  <2>1. /\ response' = [response EXCEPT ![o] =
              [type |-> "order.modify", confirmed |-> o \in confirmed,
               error |-> "INVALID_REQUEST_ARGS"]]
        /\ UNCHANGED <<settings, sent, market, answers, reports, reported, confirmed, history, stored>>
    BY <1>2 DEF ModifyOrder
  <2>2. response' \in [Orders -> [type : RequestTypes \union {None}, confirmed : BOOLEAN, error : Errors]]
    BY <2>1 DEF TypeInv, TypeOK, RequestTypes, Errors
  <2>3. requests' \in 0..MaxRequests
    BY <1>1 DEF OrderTermsAssumption
  <2> QED
    BY <2>1, <2>2, <2>3 DEF TypeInv, TypeOK, Identified, ExternalOrderId, settings, market, history
<1>3. CASE ~Rejected(price, quantity)
  <2>1. Send(r) /\ NextVersion /\ UNCHANGED stored
    BY <1>3 DEF ModifyOrder
  <2>2. /\ last.side \in Sides /\ last.rev \in Nat
        /\ last.price \in Prices \union {NaN} /\ last.quantity \in Quantities
        /\ asked.price \in Prices \union {NaN} /\ asked.quantity \in Quantities \union {NaN}
    BY DEF TypeInv, TypeOK, Quotes
  <2>3. price \in Prices \union {NaN} /\ quantity \in Quantities \union {NaN} /\ guessed \in BOOLEAN
    BY <2>2 DEF ModifyParam, Changed, FilledIn
  <2>4. /\ OrderId(o, FALSE) \in Ids \union {None} /\ ClientOrderId(o, FALSE) \in Orders \union {None}
        /\ SymbolOf[o] \in Symbols
    BY OrderIdType DEF Ids, Symbols
  <2> HIDE DEF last, price, quantity, guessed
  <2>5. r \in Modified
    <3> DEFINE c == o \in confirmed
               b == last.rev
    <3>1. c \in BOOLEAN /\ b \in Nat /\ asked \in Quotes /\ o \in Orders /\ last.side \in Sides
      BY <2>2
    <3> HIDE DEF c, b
    <3>2. [type |-> "order.modify", about |-> o, version |-> requests', confirmed |-> c,
           symbol |-> SymbolOf[o], orderId |-> OrderId(o, FALSE),
           origClientOrderId |-> ClientOrderId(o, FALSE), side |-> last.side,
           price |-> price, quantity |-> quantity, asked |-> asked, basis |-> b,
           guessed |-> guessed] \in Modified
      BY <1>1, <2>3, <2>4, <3>1, Zenon DEF Modified
    <3> QED
      BY <3>2 DEF c, b
  <2> HIDE DEF r
  <2> QED
    BY <2>1, <2>5, SendType
<1> QED
  BY <1>2, <1>3

LEMMA CancelType ==
  ASSUME OrderTermsAssumption, TypeInv, NEW o \in Orders, CancelOrder(o)
  PROVE  TypeInv'
<1> DEFINE r == [type |-> "order.cancel", about |-> o, version |-> requests',
                 confirmed |-> o \in confirmed, symbol |-> SymbolOf[o],
                 orderId |-> OrderId(o, force), origClientOrderId |-> ClientOrderId(o, force)]
<1>1. requests' \in 1..MaxRequests
  BY DEF CancelOrder, NextVersion, OrderTermsAssumption, TypeInv, TypeOK
<1>2. force \in BOOLEAN
  BY DEF TypeInv, TypeOK
<1>3. /\ OrderId(o, force) \in Ids \union {None} /\ ClientOrderId(o, force) \in Orders \union {None}
      /\ SymbolOf[o] \in Symbols
  BY <1>2, OrderIdType DEF Ids, Symbols
<1>4. r \in Canceled
  BY <1>1, <1>3 DEF Canceled
<1>5. Send(r) /\ NextVersion /\ UNCHANGED stored
  BY DEF CancelOrder
<1> HIDE DEF r
<1> QED
  BY <1>4, <1>5, SendType

ExchangeOrders ==
  [status : {None, "NEW", "FILLED", "CANCELED"}, side : Sides, order_type : OrderTypes,
   reduce_only : BOOLEAN, time_in_force : {"GTC", "IOC", "FOK", "GTX", "RPI"},
   price : Prices \union {NaN}, quantity : Quantities, rev : Nat]

(* A status that changes leaves an order. *)
LEMMA StatusType ==
  ASSUME exchange \in [Orders -> ExchangeOrders], NEW o \in Orders,
         NEW status \in {"FILLED", "CANCELED"},
         exchange' = [exchange EXCEPT ![o].status = status]
  PROVE  exchange' \in [Orders -> ExchangeOrders]
<1> DEFINE order == [exchange[o] EXCEPT !.status = status]
<1>1. exchange[o] \in ExchangeOrders
  OBVIOUS
<1>2. order \in ExchangeOrders
  BY <1>1 DEF ExchangeOrders
<1>3. exchange' = [exchange EXCEPT ![o] = order]
  OBVIOUS
<1> HIDE DEF order
<1> QED
  BY <1>2, <1>3

LEMMA ReportType ==
  ASSUME exchange' \in [Orders -> ExchangeOrders], NEW o \in Orders
  PROVE  Report(o) \in Reports
  BY DEF Report, Reports, ExchangeOrders

(* An answer is well formed if the order it tells of is. *)
LEMMA AnswerType ==
  ASSUME TypeInv, NEW r \in sent, NEW result \in Results, NEW o \in Orders, NEW changed \in BOOLEAN,
         exchange' \in [Orders -> ExchangeOrders],
         young' \subseteq Orders,
         intent' \in [Orders -> [price : Prices \union {NaN}, quantity : Quantities]],
         outdated' \subseteq Orders,
         Answer(r, result, o, changed)
  PROVE  TypeInv'
<1>1. Report(o) \in Reports
  BY ReportType
<1>2. /\ r.type \in RequestTypes /\ r.about \in Orders
      /\ r.version \in 1..MaxRequests /\ r.confirmed \in BOOLEAN
  BY RequestType DEF TypeInv
<1>3. answers' \subseteq Answers
  <2>1. [type |-> r.type, about |-> r.about, version |-> r.version, confirmed |-> r.confirmed,
         result |-> result, report |-> Report(o)] \in Answers
    BY <1>1, <1>2 DEF Answers
  <2> QED
    BY <2>1 DEF Answer, TypeInv, TypeOK
<1>4. reports' \subseteq Reports
  BY <1>1 DEF Answer, TypeInv, TypeOK
<1>5. sent' \subseteq Placed \union Modified \union Canceled
  BY DEF Answer, TypeInv, TypeOK
<1>6. UNCHANGED <<settings, requests, client>>
  BY DEF Answer
<1> QED
  BY <1>3, <1>4, <1>5, <1>6 DEF TypeInv, TypeOK, ExchangeOrders, Identified, ExternalOrderId, settings, client

LEMMA PlaceType ==
  ASSUME TypeInv, NEW r \in sent, NEW status \in {"NEW", "FILLED", "CANCELED"},
         ExecutePlace(r, status)
  PROVE  TypeInv'
<1>1. r \in Placed /\ r.about \in Orders
  BY RequestType DEF ExecutePlace, TypeInv
<1> DEFINE tif == IF r.order_type = "LIMIT" THEN r.time_in_force ELSE "GTC"
           e == [status |-> status, side |-> r.side, order_type |-> r.order_type,
                 reduce_only |-> r.reduce_only, time_in_force |-> tif,
                 price |-> r.price, quantity |-> r.quantity, rev |-> 0]
<1>2. tif \in {"GTC", "IOC", "FOK", "GTX", "RPI"}
  BY DEF ExecutePlace
<1>3. e \in ExchangeOrders
  BY <1>1, <1>2 DEF ExchangeOrders, Placed
<1>4. /\ exchange' = [exchange EXCEPT ![r.about] = e]
      /\ young' = young \union {r.about} /\ UNCHANGED history
      /\ Answer(r, status, r.about, TRUE)
  BY DEF ExecutePlace
<1> HIDE DEF e
<1>5. exchange' \in [Orders -> ExchangeOrders]
  BY <1>1, <1>3, <1>4 DEF TypeInv, TypeOK, ExchangeOrders
<1>6. status \in Results
  BY DEF Results
<1>7. /\ young' \subseteq Orders
      /\ intent' \in [Orders -> [price : Prices \union {NaN}, quantity : Quantities]]
      /\ outdated' \subseteq Orders
  BY <1>1, <1>4 DEF TypeInv, TypeOK, history
<1> QED
  BY <1>1, <1>4, <1>5, <1>6, <1>7, AnswerType

(* Another state of an order. *)
LEMMA AfterType ==
  ASSUME TypeOK, NEW r \in Modified, NEW o \in Orders, NEW status \in {"NEW", "FILLED", "CANCELED"}
  PROVE  /\ After(r, o, status) \in ExchangeOrders
         /\ After(r, o, status).price = Kept(r.price, exchange[o].price)
         /\ After(r, o, status).quantity = Kept(r.quantity, exchange[o].quantity)
         /\ After(r, o, status).rev = exchange[o].rev + 1
         /\ After(r, o, status).status = status
         /\ After(r, o, status).side = exchange[o].side
         /\ After(r, o, status).order_type = exchange[o].order_type
         /\ After(r, o, status).reduce_only = exchange[o].reduce_only
         /\ After(r, o, status).time_in_force = exchange[o].time_in_force
<1>1. exchange[o] \in ExchangeOrders
  BY DEF TypeOK, ExchangeOrders
<1>2. r.price \in Prices \union {NaN} /\ r.quantity \in Quantities \union {NaN}
  BY DEF Modified
<1> DEFINE e == exchange[o]
           price == Kept(r.price, e.price)
           quantity == Kept(r.quantity, e.quantity)
<1>3. price \in Prices \union {NaN} /\ quantity \in Quantities
  BY <1>1, <1>2 DEF Kept, ExchangeOrders
<1>4. After(r, o, status) =
        [e EXCEPT !.price = price, !.quantity = quantity, !.status = status, !.rev = e.rev + 1]
  BY <1>1 DEF After, ExchangeOrders
<1>5. /\ e \in ExchangeOrders
      /\ price = Kept(r.price, exchange[o].price) /\ quantity = Kept(r.quantity, exchange[o].quantity)
      /\ e = exchange[o]
  BY <1>1
<1> HIDE DEF e, price, quantity
<1>6. e.rev + 1 \in Nat /\ status \in {None, "NEW", "FILLED", "CANCELED"}
  BY <1>5 DEF ExchangeOrders
<1>7. After(r, o, status) =
        [status |-> status, side |-> e.side, order_type |-> e.order_type,
         reduce_only |-> e.reduce_only, time_in_force |-> e.time_in_force,
         price |-> price, quantity |-> quantity, rev |-> e.rev + 1]
  BY <1>4, <1>5 DEF ExchangeOrders
<1>8. After(r, o, status) \in ExchangeOrders
  BY <1>3, <1>5, <1>6, <1>7 DEF ExchangeOrders
<1> QED
  BY <1>5, <1>7, <1>8

LEMMA ModifiedType ==
  ASSUME TypeInv, NEW r \in sent, NEW o \in Orders, NEW status \in {"NEW", "FILLED", "CANCELED"},
         ExecuteModify(r, o, status)
  PROVE  TypeInv'
<1>1. r \in Modified /\ r.about \in Orders
  BY RequestType DEF ExecuteModify, TypeInv
<1> DEFINE after == After(r, o, status)
<1>2. after \in ExchangeOrders
  BY <1>1, AfterType DEF TypeInv
<1>3. exchange \in [Orders -> ExchangeOrders] /\ young \subseteq Orders /\ outdated \subseteq Orders
  BY DEF TypeInv, TypeOK, ExchangeOrders
<1>4. intent \in [Orders -> [price : Prices \union {NaN}, quantity : Quantities]]
  BY DEF TypeInv, TypeOK
<1>5. status \in Results /\ "SAME_ORDER" \in Results
  BY DEF Results
<1>6. CASE after.price = exchange[o].price /\ after.quantity = exchange[o].quantity
  <2>1. UNCHANGED <<market, history>> /\ Answer(r, "SAME_ORDER", o, FALSE)
    BY <1>6 DEF ExecuteModify
  <2> QED
    BY <1>3, <1>4, <1>5, <2>1, AnswerType DEF market, history
<1>7. CASE ~(after.price = exchange[o].price /\ after.quantity = exchange[o].quantity)
  <2>1. /\ exchange' = [exchange EXCEPT ![o] = after]
        /\ intent' = [intent EXCEPT ![r.about].price = Kept(r.asked.price, @),
                                    ![r.about].quantity = Kept(r.asked.quantity, @)]
        /\ outdated' \in {outdated, outdated \union {r.about}}
        /\ UNCHANGED young
        /\ Answer(r, status, o, TRUE)
    BY <1>7 DEF ExecuteModify
  <2>2. r.asked.price \in Prices \union {NaN} /\ r.asked.quantity \in Quantities \union {NaN}
    BY <1>1 DEF Modified, Quotes
  <2>3. intent' \in [Orders -> [price : Prices \union {NaN}, quantity : Quantities]]
    BY <1>1, <1>4, <2>1, <2>2 DEF Kept
  <2>4. exchange' \in [Orders -> ExchangeOrders]
    BY <1>2, <1>3, <2>1
  <2>5. young' \subseteq Orders /\ outdated' \subseteq Orders
    BY <1>1, <1>3, <2>1
  <2>6. Answer(r, status, o, TRUE)
    BY <2>1
  <2> QED
    BY <1>5, <2>3, <2>4, <2>5, <2>6, AnswerType
<1> QED
  BY <1>6, <1>7

LEMMA ExchangeType ==
  ASSUME TypeInv, ExchangeNext
  PROVE  TypeInv'
<1>1. /\ exchange \in [Orders -> ExchangeOrders] /\ young \subseteq Orders /\ outdated \subseteq Orders
      /\ intent \in [Orders -> [price : Prices \union {NaN}, quantity : Quantities]]
  BY DEF TypeInv, TypeOK, ExchangeOrders
<1>2. {"refused", "NO_SUCH_ORDER", "CANCEL_REJECTED", "FILLED", "CANCELED"} \subseteq Results
  BY DEF Results
<1>3. ASSUME NEW r \in sent, Refuse(r)
      PROVE  TypeInv'
  BY <1>1, <1>2, <1>3, AnswerType, RequestType DEF Refuse, market, history, TypeInv
<1>4. ASSUME NEW r \in sent, NotFound(r)
      PROVE  TypeInv'
  <2>1. UNCHANGED <<market, history>> /\ r.about \in Orders
    BY <1>4, RequestType DEF NotFound, TypeInv
  <2>2. PICK result \in Results, o \in Orders : Answer(r, result, o, FALSE)
    BY <1>2, <1>4, <2>1 DEF NotFound
  <2> QED
    BY <1>1, <2>1, <2>2, AnswerType DEF market, history
<1>5. ASSUME NEW r \in sent, NEW o \in Orders, ExecuteCancel(r, o)
      PROVE  TypeInv'
  <2>1. exchange' = [exchange EXCEPT ![o].status = "CANCELED"]
    BY <1>5 DEF ExecuteCancel
  <2>2. exchange' \in [Orders -> ExchangeOrders]
    BY <1>1, <2>1, StatusType
  <2> QED
    BY <1>1, <1>2, <1>5, <2>2, AnswerType DEF ExecuteCancel, history
<1>6. ASSUME NEW o \in Orders, NEW status \in {"FILLED", "CANCELED"}, Trade(o, status)
      PROVE  TypeInv'
  <2>1. /\ exchange' = [exchange EXCEPT ![o].status = status]
        /\ reports' = reports \union {Report(o)}
        /\ UNCHANGED <<settings, requests, sent, young, answers, client, history>>
    BY <1>6 DEF Trade
  <2>2. exchange' \in [Orders -> ExchangeOrders]
    BY <1>1, <2>1, StatusType
  <2>3. Report(o) \in Reports
    BY <2>2, ReportType
  <2> QED
    BY <2>1, <2>2, <2>3 DEF TypeInv, TypeOK, ExchangeOrders, Identified, ExternalOrderId, settings, client, history
<1>7. ASSUME NEW o \in Orders, Elapse(o)
      PROVE  TypeInv'
  BY <1>7 DEF Elapse, TypeInv, TypeOK, Identified, ExternalOrderId, settings, client, history
<1> QED
  BY <1>3, <1>4, <1>5, <1>6, <1>7, PlaceType, ModifiedType DEF ExchangeNext

(* What an answer or an event may do to the server's copies and to what is *)
(* reported.                                                               *)
Takes(report) ==
  \/ UNCHANGED <<stored, reported>>
  \/ ResponseOnly(report)
  \/ OrderUpdate(report)


LEMMA TakesEffect ==
  ASSUME TypeInv, NEW report \in Reports, Takes(report)
  PROVE  /\ stored' \in [Orders -> StoredOrders]
         /\ reported' \in [Orders ->
              [known : BOOLEAN, side : Sides, order_type : OrderTypes \union {"UNDEFINED"},
               time_in_force : TimesInForce]]
         /\ \A o \in Orders :
              /\ stored'[o].placed = stored[o].placed
              /\ stored'[o].external_order_id \in {stored[o].external_order_id, ExternalOrderId(o)}
              /\ \/ /\ stored'[o].rev = stored[o].rev
                    /\ stored'[o].price = stored[o].price
                    /\ stored'[o].quantity = stored[o].quantity
                 \/ /\ o = report.order
                    /\ stored'[o].rev = report.rev
                    /\ stored'[o].price = report.price
                    /\ stored'[o].quantity = report.quantity
              /\ \/ reported'[o] = reported[o]
                 \/ /\ o = report.order
                    /\ reported'[o].known
                    /\ reported'[o].side = exchange[o].side
                    /\ reported'[o].order_type = exchange[o].order_type
                    /\ reported'[o].time_in_force = MappedTimeInForce(exchange[o].time_in_force)
<1> DEFINE p == report.order
<1>1. /\ p \in Orders /\ report.rev \in Nat
      /\ report.price \in Prices \union {NaN} /\ report.quantity \in Quantities
  BY DEF Reports
<1>2. /\ stored \in [Orders -> StoredOrders]
      /\ reported \in [Orders ->
           [known : BOOLEAN, side : Sides, order_type : OrderTypes \union {"UNDEFINED"},
            time_in_force : TimesInForce]]
      /\ exchange[p] \in ExchangeOrders
  BY <1>1 DEF TypeInv, TypeOK, StoredOrders, ExchangeOrders
<1>3. ExternalOrderId(p) \in ExternalOrderIds
  BY <1>1 DEF ExternalOrderId, ExternalOrderIds
<1> DEFINE id == ExternalOrderId(p)
           side == exchange[p].side
           order_type == exchange[p].order_type
           tif == MappedTimeInForce(exchange[p].time_in_force)
<1>4. side \in Sides /\ order_type \in OrderTypes /\ tif \in TimesInForce
  BY <1>2 DEF ExchangeOrders, MappedTimeInForce, TimesInForce
<1>5. /\ Noted(report) = [stored EXCEPT ![p].external_order_id = id]
      /\ Copied(report) = [Noted(report) EXCEPT ![p] =
            [@ EXCEPT !.price = report.price, !.quantity = report.quantity, !.rev = report.rev]]
  BY DEF Noted, Copied
<1>6. Noted(report) \in [Orders -> StoredOrders]
  <2> DEFINE e == stored[p]
  <2>1. e \in StoredOrders /\ id \in ExternalOrderIds
    BY <1>1, <1>2, <1>3
  <2>2. Noted(report) = [stored EXCEPT ![p] = [e EXCEPT !.external_order_id = id]]
    BY <1>5
  <2> HIDE DEF e, p, id
  <2>3. [e EXCEPT !.external_order_id = id] =
          [placed |-> e.placed, external_order_id |-> id, side |-> e.side, price |-> e.price,
           quantity |-> e.quantity, rev |-> e.rev]
    BY <2>1 DEF StoredOrders
  <2>4. [e EXCEPT !.external_order_id = id] \in StoredOrders
    BY <2>1, <2>3 DEF StoredOrders
  <2> QED
    BY <1>1, <1>2, <2>2, <2>4
<1>7. /\ Noted(report)[p].placed = stored[p].placed /\ Noted(report)[p].external_order_id = id
      /\ Noted(report)[p].rev = stored[p].rev /\ Noted(report)[p].price = stored[p].price
      /\ Noted(report)[p].quantity = stored[p].quantity
      /\ \A o \in Orders \ {p} : Noted(report)[o] = stored[o]
  BY <1>1, <1>2, <1>5 DEF StoredOrders
<1>8. /\ Copied(report) \in [Orders -> StoredOrders]
      /\ Copied(report)[p].placed = stored[p].placed /\ Copied(report)[p].external_order_id = id
      /\ Copied(report)[p].rev = report.rev /\ Copied(report)[p].price = report.price
      /\ Copied(report)[p].quantity = report.quantity
      /\ \A o \in Orders \ {p} : Copied(report)[o] = stored[o]
  <2> DEFINE n == Noted(report)
  <2>1. n \in [Orders -> StoredOrders] /\ n[p] \in StoredOrders
    BY <1>1, <1>6
  <2>2. Copied(report) = [n EXCEPT ![p] =
            [n[p] EXCEPT !.price = report.price, !.quantity = report.quantity, !.rev = report.rev]]
    BY <1>5
  <2>3. /\ n[p].placed = stored[p].placed /\ n[p].external_order_id = id
        /\ \A o \in Orders \ {p} : n[o] = stored[o]
    BY <1>7
  <2> DEFINE e == n[p]
             x == report.price
             y == report.quantity
             z == report.rev
             f == [e EXCEPT !.price = x, !.quantity = y, !.rev = z]
  <2>4. e \in StoredOrders /\ x \in Prices \union {NaN} /\ y \in Quantities /\ z \in Nat
    BY <1>1, <2>1
  <2>5. Copied(report) = [n EXCEPT ![p] = f]
    BY <2>2
  <2>6. e.placed = stored[p].placed /\ e.external_order_id = id
    BY <2>3
  <2>7. f = [e EXCEPT !.price = x, !.quantity = y, !.rev = z]
    OBVIOUS
  <2> HIDE DEF e, x, y, z, n, p, id, f
  <2>8. f = [placed |-> e.placed, external_order_id |-> e.external_order_id,
             side |-> e.side, price |-> x, quantity |-> y, rev |-> z]
    BY <2>4, <2>7 DEF StoredOrders
  <2>9. f \in StoredOrders
    BY <2>4, <2>8 DEF StoredOrders
  <2>10. /\ Copied(report) \in [Orders -> StoredOrders] /\ Copied(report)[p] = f
         /\ \A o \in Orders \ {p} : Copied(report)[o] = stored[o]
    BY <1>1, <2>1, <2>3, <2>5, <2>9
  <2> QED
    BY <2>6, <2>8, <2>10 DEF x, y, z
<1>9. CASE UNCHANGED <<stored, reported>>
  BY <1>2, <1>9
<1>10. CASE ResponseOnly(report)
  <2>1. /\ stored' \in {Noted(report), Copied(report)}
        /\ UNCHANGED reported
    BY <1>10 DEF ResponseOnly
  <2> QED
    BY <1>1, <1>2, <1>6, <1>7, <1>8, <2>1
<1>11. CASE OrderUpdate(report)
  <2>1. /\ stored' = [Copied(report) EXCEPT ![p].side = side]
        /\ reported' = [reported EXCEPT ![p] =
             [known |-> TRUE, side |-> side, order_type |-> order_type, time_in_force |-> tif]]
    BY <1>11 DEF OrderUpdate
  <2> HIDE DEF p, id, side, order_type, tif
  <2>2. /\ stored' \in [Orders -> StoredOrders]
        /\ stored'[p].placed = stored[p].placed /\ stored'[p].external_order_id = id
        /\ stored'[p].rev = report.rev /\ stored'[p].price = report.price
        /\ stored'[p].quantity = report.quantity
        /\ \A o \in Orders \ {p} : stored'[o] = stored[o]
    BY <1>1, <1>4, <1>8, <2>1 DEF StoredOrders
  <2>3. /\ reported' \in [Orders ->
             [known : BOOLEAN, side : Sides, order_type : OrderTypes \union {"UNDEFINED"},
              time_in_force : TimesInForce]]
        /\ reported'[p].known /\ reported'[p].side = side /\ reported'[p].order_type = order_type
        /\ reported'[p].time_in_force = tif
        /\ \A o \in Orders \ {p} : reported'[o] = reported[o]
    BY <1>1, <1>2, <1>4, <2>1
  <2> QED
    BY <2>2, <2>3 DEF p, id, side, order_type, tif
<1> QED
  BY <1>9, <1>10, <1>11 DEF Takes

(* The answers that mean that the order cannot be changed any more. *)
TooLate == {"FILLED", "CANCELED", "NO_SUCH_ORDER", "CANCEL_REJECTED"}
Success == {"NEW", "FILLED", "CANCELED"}

(* The handlers of the answers: what they have in common. *)
LEMMA AckEffect ==
  ASSUME TypeInv, NEW answer \in answers,
         OrderPlaceAck(answer) \/ OrderModifyAck(answer) \/ OrderCancelAck(answer)
  PROVE  /\ answers' = answers \ {answer}
         /\ UNCHANGED <<settings, requests, sent, market, reports, history>>
         /\ Takes(answer.report)
         /\ UNCHANGED <<stored, reported>> \/ answer.result \in Success
         /\ \/ UNCHANGED confirmed
            \/ /\ confirmed' = confirmed \union {answer.about}
               /\ answer.result \in Success
               /\ answer.type = "order.place"
               /\ answer.report \in Reports
         /\ \/ UNCHANGED response
            \/ \E error \in Errors :
                 /\ Respond(answer, error)
                 /\ error = "TOO_LATE_TO_MODIFY_OR_CANCEL" =>
                      /\ answer.result \in TooLate
                      /\ ~ (/\ encoder = "json" /\ answer.type = "order.cancel"
                            /\ answer.result = "CANCEL_REJECTED"
                            /\ answer.about \in confirmed /\ answer.about \in young)
<1>1. answer \in Answers
  BY DEF TypeInv, TypeOK
<1>2. answer.result \in Results /\ answer.type \in RequestTypes /\ answer.report \in Reports
  BY <1>1 DEF Answers
<1>3. \A result \in Results :
        /\ GuessError(result) \in Errors
        /\ GuessError(result) = "TOO_LATE_TO_MODIFY_OR_CANCEL" => result \in {"NO_SUCH_ORDER", "CANCEL_REJECTED"}
  BY DEF GuessError, Results, Errors
<1>4. /\ "ACCEPTED" \in Errors /\ "TOO_LATE_TO_MODIFY_OR_CANCEL" \in Errors
      /\ "UNKNOWN_EXTERNAL_ORDER_ID" \in Errors
  BY DEF Errors
<1>5. CASE OrderPlaceAck(answer)
  <2>1. Receive(answer) /\ answer.type = "order.place"
    BY <1>5 DEF OrderPlaceAck
  <2>2. CASE answer.result \in Success
    BY <1>2, <1>4, <1>5, <2>1, <2>2 DEF OrderPlaceAck, Receive, Takes, Success
  <2>3. CASE answer.result \notin Success
    BY <1>2, <1>3, <1>5, <2>1, <2>3 DEF OrderPlaceAck, Receive, Takes, Success, Error, TooLate
  <2> QED
    BY <2>2, <2>3
<1>6. ASSUME Accepted(answer)
      PROVE  /\ UNCHANGED confirmed /\ Takes(answer.report)
             /\ UNCHANGED response \/ Respond(answer, "ACCEPTED")
  BY <1>6 DEF Accepted, Takes
<1>7. CASE OrderModifyAck(answer)
  <2>1. Receive(answer) /\ answer.type = "order.modify"
    BY <1>7 DEF OrderModifyAck
  <2>2. CASE answer.result = "NEW"
    BY <1>4, <1>6, <1>7, <2>1, <2>2 DEF OrderModifyAck, Receive, Success
  <2>3. CASE answer.result \in {"FILLED", "CANCELED"}
    BY <1>4, <1>7, <2>1, <2>3 DEF OrderModifyAck, Receive, Takes, Error, TooLate
  <2>4. CASE answer.result \notin Success
    <3>1. Error(answer, GuessError(answer.result))
      BY <1>7, <2>4 DEF OrderModifyAck, Success
    <3> QED
      BY <1>2, <1>3, <2>1, <3>1 DEF Receive, Takes, Error, TooLate
  <2> QED
    BY <2>2, <2>3, <2>4 DEF Success
<1>8. CASE OrderCancelAck(answer)
  <2>1. Receive(answer) /\ answer.type = "order.cancel"
    BY <1>8 DEF OrderCancelAck
  <2>2. CASE answer.result = "CANCELED"
    BY <1>4, <1>6, <1>8, <2>1, <2>2 DEF OrderCancelAck, Receive, Success
  <2>3. CASE answer.result = "FILLED"
    BY <1>4, <1>8, <2>1, <2>3 DEF OrderCancelAck, Receive, Takes, Error, TooLate
  <2>4. CASE answer.result \notin {"FILLED", "CANCELED"}
    <3>1. Error(answer, CancelError(answer))
      BY <1>8, <2>4 DEF OrderCancelAck
    <3>2. /\ CancelError(answer) \in Errors
          /\ CancelError(answer) = "TOO_LATE_TO_MODIFY_OR_CANCEL" =>
               /\ answer.result \in TooLate
               /\ ~ (/\ encoder = "json" /\ answer.result = "CANCEL_REJECTED"
                     /\ answer.about \in confirmed /\ answer.about \in young)
      BY <1>2, <1>3, <1>4 DEF CancelError, TooLate
    <3> QED
      BY <2>1, <3>1, <3>2 DEF Receive, Takes, Error
  <2> QED
    BY <2>2, <2>3, <2>4
<1> QED
  BY <1>5, <1>7, <1>8

LEMMA ServerType ==
  ASSUME TypeInv, ServerNext
  PROVE  TypeInv'
<1>1. ASSUME NEW report \in Reports, Takes(report), confirmed' \subseteq Orders,
             answers' \subseteq Answers, reports' \subseteq Reports,
             response' \in [Orders -> [type : RequestTypes \union {None}, confirmed : BOOLEAN, error : Errors]],
             UNCHANGED <<settings, requests, sent, market, history>>
      PROVE  TypeInv'
  <2>1. /\ stored' \in [Orders -> StoredOrders]
        /\ reported' \in [Orders ->
             [known : BOOLEAN, side : Sides, order_type : OrderTypes \union {"UNDEFINED"},
              time_in_force : TimesInForce]]
        /\ \A o \in Orders :
             stored'[o].external_order_id \in {stored[o].external_order_id, ExternalOrderId(o)}
    BY <1>1, TakesEffect
  <2>2. Identified'
    BY <2>1 DEF TypeInv, Identified, ExternalOrderId
  <2> QED
    BY <1>1, <2>1, <2>2 DEF TypeInv, TypeOK, StoredOrders, settings, market, history
<1>2. ASSUME NEW answer \in answers,
             OrderPlaceAck(answer) \/ OrderModifyAck(answer) \/ OrderCancelAck(answer)
      PROVE  TypeInv'
  <2>1. answer \in Answers
    BY DEF TypeInv, TypeOK
  <2>2. /\ answer.about \in Orders /\ answer.type \in RequestTypes /\ answer.confirmed \in BOOLEAN
        /\ answer.report \in Reports
    BY <2>1 DEF Answers
  <2>3. /\ answers' = answers \ {answer}
        /\ UNCHANGED <<settings, requests, sent, market, reports, history>>
        /\ Takes(answer.report)
        /\ confirmed' \in {confirmed, confirmed \union {answer.about}}
        /\ UNCHANGED response \/ \E error \in Errors : Respond(answer, error)
    BY <1>2, AckEffect
  <2>4. response' \in [Orders -> [type : RequestTypes \union {None}, confirmed : BOOLEAN, error : Errors]]
    <3>1. response \in [Orders -> [type : RequestTypes \union {None}, confirmed : BOOLEAN, error : Errors]]
      BY DEF TypeInv, TypeOK
    <3>2. CASE UNCHANGED response
      BY <3>1, <3>2
    <3>3. ASSUME NEW error \in Errors, Respond(answer, error)
          PROVE  response' \in [Orders -> [type : RequestTypes \union {None}, confirmed : BOOLEAN, error : Errors]]
      <4> DEFINE e == [type |-> answer.type, confirmed |-> answer.confirmed, error |-> error]
      <4>1. e \in [type : RequestTypes \union {None}, confirmed : BOOLEAN, error : Errors]
        BY <2>2
      <4>2. response' = [response EXCEPT ![answer.about] = e]
        BY <3>3 DEF Respond
      <4> HIDE DEF e
      <4> QED
        BY <2>2, <3>1, <4>1, <4>2
    <3> QED
      BY <2>3, <3>2, <3>3
  <2> QED
    BY <1>1, <2>2, <2>3, <2>4 DEF TypeInv, TypeOK
<1>3. ASSUME NEW report \in reports, OrderTradeUpdate(report)
      PROVE  TypeInv'
  <2>1. report \in Reports /\ Takes(report)
    BY <1>3 DEF OrderTradeUpdate, Takes, TypeInv, TypeOK
  <2> QED
    BY <1>1, <1>3, <2>1 DEF OrderTradeUpdate, TypeInv, TypeOK
<1> QED
  BY <1>2, <1>3 DEF ServerNext

(* The order-management copies and what is in flight keep their types, and *)
(* the server knows an order by no other order's id.                       *)
LEMMA TypeInvariant == Spec => []TypeInv
<1>1. ASSUME Init
      PROVE  TypeInv
  <2>1. Identified
    BY <1>1 DEF Init, Identified
  <2> QED
    BY <1>1, <2>1, TypeInit, OrderTermsAssumption DEF TypeInv
<1>2. TypeInv /\ [Next]_vars => TypeInv'
  <2>1. ASSUME TypeInv, UNCHANGED vars
        PROVE  TypeInv'
    BY <2>1 DEF vars, settings, market, client, history, TypeInv, TypeOK, Identified, ExternalOrderId
  <2>2. ASSUME TypeInv, ClientNext
        PROVE  TypeInv'
    BY <2>2, OrderTermsAssumption, CreateType, ModifyType, CancelType DEF ClientNext
  <2> QED
    BY <2>1, <2>2, ExchangeType, ServerType DEF Next
<1> QED
  BY <1>1, <1>2, PTL DEF Spec

-----------------------------------------------------------------------------
(* The inductive invariant *)

Done(o) == exchange[o].status \in {"FILLED", "CANCELED"}

(* What is known of an order is the order, or an earlier revision of it. *)
Agrees(copy, o) ==
  /\ copy.rev <= exchange[o].rev
  /\ copy.rev = exchange[o].rev =>
       copy.price = exchange[o].price /\ copy.quantity = exchange[o].quantity

PlaceInv(r) ==
  /\ stored[r.about].placed
  /\ exchange[r.about].status = None
  /\ ~r.confirmed
  /\ SameTerms(r, form[r.about])

(* The request names the order it is about. *)
NamedInv(r) ==
  /\ r.symbol = SymbolOf[r.about]
  /\ r.orderId \in {None, IdOf[r.about]}
  /\ r.orderId = None => r.origClientOrderId = r.about
  /\ r.confirmed => r.about \in confirmed

(* Only what the encoder fills in or leaves out depends on the copy. *)
EncodedInv(r) ==
  /\ r.basis <= exchange[r.about].rev
  /\ ~r.guessed => r.price = r.asked.price /\ r.quantity = r.asked.quantity
  /\ r.basis = exchange[r.about].rev =>
       /\ Kept(r.price, exchange[r.about].price) = Kept(r.asked.price, exchange[r.about].price)
       /\ Kept(r.quantity, exchange[r.about].quantity)
            = Kept(r.asked.quantity, exchange[r.about].quantity)

SentInv(r) ==
  /\ r.type = "order.place" => PlaceInv(r)
  /\ r.type # "order.place" => NamedInv(r)
  /\ r.type = "order.modify" => EncodedInv(r)

PlacedOnce ==
  \A r, s \in sent :
    r.type = "order.place" /\ s.type = "order.place" /\ r.about = s.about => r = s

ExchangeInv(o) ==
  /\ exchange[o].status = None =>
       /\ exchange[o].rev = 0
       /\ exchange[o].price = form[o].price /\ exchange[o].quantity = form[o].quantity
       /\ intent[o].price = form[o].price /\ intent[o].quantity = form[o].quantity
  /\ exchange[o].status # None =>
       /\ exchange[o].side = form[o].side
       /\ exchange[o].order_type = form[o].order_type
       /\ exchange[o].reduce_only = form[o].reduce_only
       /\ form[o].order_type = "LIMIT" => exchange[o].time_in_force = TimeInForceOf(form[o])
       /\ o \notin outdated =>
            exchange[o].price = intent[o].price /\ exchange[o].quantity = intent[o].quantity

ReportInv(report) ==
  /\ exchange[report.order].status # None
  /\ Agrees(report, report.order)

AnswerInv(answer) ==
  LET o == answer.about
  IN /\ answer.report.order = o
     /\ Agrees(answer.report, o)
     /\ answer.result \in Success => exchange[o].status # None
     /\ answer.confirmed => o \in confirmed
     /\ answer.confirmed /\ answer.result \in TooLate =>
          \/ Done(o)
          \/ answer.type = "order.cancel" /\ answer.result = "CANCEL_REJECTED" /\ o \in young

ClientInv(o) ==
  /\ Agrees(stored[o], o)
  /\ ~stored[o].placed => exchange[o].status = None
  /\ reported[o].known =>
       /\ exchange[o].status # None
       /\ reported[o].side = form[o].side
       /\ reported[o].order_type = form[o].order_type
       /\ form[o].order_type = "LIMIT" =>
            reported[o].time_in_force = MappedTimeInForce(TimeInForceOf(form[o]))
  /\ o \in confirmed => exchange[o].status # None
  /\ /\ response[o].error = "TOO_LATE_TO_MODIFY_OR_CANCEL"
     /\ response[o].confirmed
     /\ encoder = "json" \/ response[o].type = "order.modify"
     => Done(o)

IInv ==
  /\ TypeInv
  /\ \A r \in sent : SentInv(r)
  /\ PlacedOnce
  /\ \A o \in Orders : ExchangeInv(o) /\ ClientInv(o)
  /\ \A report \in reports : ReportInv(report)
  /\ \A answer \in answers : AnswerInv(answer)

LEMMA InitInv ==
  ASSUME OrderTermsAssumption, TypeInv, Init
  PROVE  IInv
<1>1. sent = {} /\ answers = {} /\ reports = {}
  BY DEF Init
<1>2. ASSUME NEW o \in Orders
      PROVE  ExchangeInv(o) /\ ClientInv(o)
  <2>1. /\ exchange[o].status = None /\ exchange[o].rev = 0
        /\ exchange[o].price = form[o].price /\ exchange[o].quantity = form[o].quantity
        /\ intent[o].price = form[o].price /\ intent[o].quantity = form[o].quantity
        /\ stored[o].rev = 0 /\ stored[o].price = form[o].price /\ stored[o].quantity = form[o].quantity
        /\ ~reported[o].known /\ o \notin confirmed /\ ~response[o].confirmed
    BY DEF Init
  <2> QED
    BY <2>1 DEF ExchangeInv, ClientInv, Agrees
<1> QED
  BY <1>1, <1>2 DEF IInv, PlacedOnce

(* No step of the exchange takes an order back to what it was. *)
Advances ==
  \A o \in Orders :
    /\ exchange[o].rev <= exchange'[o].rev
    /\ exchange'[o].rev = exchange[o].rev =>
         exchange'[o].price = exchange[o].price /\ exchange'[o].quantity = exchange[o].quantity
    /\ exchange[o].status # None =>
         /\ exchange'[o].status # None
         /\ exchange'[o].side = exchange[o].side
         /\ exchange'[o].order_type = exchange[o].order_type
         /\ exchange'[o].time_in_force = exchange[o].time_in_force
    /\ Done(o) => exchange'[o].status \in {"FILLED", "CANCELED"}

(* Copies remain copies when the order advances. *)
LEMMA AgreesStill ==
  ASSUME TypeOK, TypeOK', Advances, NEW o \in Orders, NEW copy, copy.rev \in Nat, Agrees(copy, o)
  PROVE  Agrees(copy, o)'
<1>1. exchange[o].rev \in Nat /\ exchange'[o].rev \in Nat
  BY DEF TypeOK
<1> QED
  BY <1>1 DEF Agrees, Advances

LEMMA ExchangeFrame ==
  ASSUME IInv, TypeInv', Advances, UNCHANGED <<settings, client>>,
         sent' \subseteq sent,
         \A r \in sent' : r.type = "order.place" => exchange'[r.about].status = None,
         \A o \in Orders : ~stored[o].placed => exchange'[o].status = None,
         \A o \in Orders : ExchangeInv(o)',
         \A report \in reports' : report \in reports \/ ReportInv(report)',
         \A answer \in answers' : answer \in answers \/ AnswerInv(answer)',
         \A answer \in answers :
           answer.result = "CANCEL_REJECTED" /\ answer.about \in young => answer.about \in young'
  PROVE  IInv'
<1>1. UNCHANGED <<encoder, form, force, stored, reported, confirmed, response>>
  BY DEF settings, client
<1>2. ASSUME NEW r \in sent'
      PROVE  SentInv(r)'
  <2>1. r \in sent /\ SentInv(r) /\ r.about \in Orders
    BY <1>2, RequestType DEF IInv, TypeInv
  <2>2. r.type = "order.place" => PlaceInv(r)'
    BY <1>1, <1>2, <2>1 DEF SentInv, PlaceInv
  <2>3. r.type # "order.place" => NamedInv(r)'
    BY <1>1, <2>1 DEF SentInv, NamedInv
  <2>4. ASSUME r.type = "order.modify"
        PROVE  EncodedInv(r)'
    <3>1. EncodedInv(r) /\ r.basis \in Nat
      BY <2>1, <2>4, RequestType DEF SentInv, IInv, TypeInv, Modified
    <3>2. exchange[r.about].rev \in Nat /\ exchange'[r.about].rev \in Nat
      BY <2>1 DEF IInv, TypeInv, TypeOK
    <3> QED
      BY <2>1, <3>1, <3>2 DEF EncodedInv, Advances
  <2> QED
    BY <2>2, <2>3, <2>4 DEF SentInv
<1>3. PlacedOnce'
  BY DEF PlacedOnce, IInv
<1>4. ASSUME NEW o \in Orders
      PROVE  ClientInv(o)'
  <2>1. ClientInv(o)
    BY <1>4 DEF IInv
  <2>2. stored[o].rev \in Nat
    BY DEF IInv, TypeInv, TypeOK
  <2>3. Agrees(stored[o], o)'
    <3>1. Agrees(stored[o], o)
      BY <2>1 DEF ClientInv
    <3>2. /\ stored[o].rev <= exchange'[o].rev
          /\ stored[o].rev = exchange'[o].rev =>
               stored[o].price = exchange'[o].price /\ stored[o].quantity = exchange'[o].quantity
      <4>1. exchange[o].rev \in Nat /\ exchange'[o].rev \in Nat
        BY DEF IInv, TypeInv, TypeOK
      <4> QED
        BY <2>2, <3>1, <4>1 DEF Agrees, Advances
    <3> QED
      BY <1>1, <3>2 DEF Agrees
  <2>4. stored[o].placed \/ exchange'[o].status = None
    OBVIOUS
  <2> QED
    BY <1>1, <2>1, <2>3, <2>4 DEF ClientInv, Advances, Done
<1>5. ASSUME NEW report \in reports'
      PROVE  ReportInv(report)'
  <2>1. CASE report \in reports
    <3>1. ReportInv(report) /\ report.order \in Orders /\ report.rev \in Nat
      BY <2>1 DEF IInv, TypeInv, TypeOK, Reports
    <3>2. Agrees(report, report.order)'
      BY <3>1, AgreesStill DEF ReportInv, IInv, TypeInv
    <3> QED
      BY <3>1, <3>2 DEF ReportInv, Advances
  <2> QED
    BY <1>5, <2>1
<1>6. ASSUME NEW answer \in answers'
      PROVE  AnswerInv(answer)'
  <2>1. CASE answer \in answers
    <3>1. /\ AnswerInv(answer) /\ answer.about \in Orders /\ answer.report \in Reports
          /\ answer.report.rev \in Nat
      BY <2>1 DEF IInv, TypeInv, TypeOK, Answers, Reports
    <3>2. Agrees(answer.report, answer.about)'
      BY <3>1, AgreesStill DEF AnswerInv, IInv, TypeInv
    <3> QED
      BY <1>1, <2>1, <3>1, <3>2 DEF AnswerInv, Advances, Done
  <2> QED
    BY <1>6, <2>1
<1> QED
  BY <1>2, <1>3, <1>4, <1>5, <1>6 DEF IInv


(* The answer to a request, once its effect is known. *)
LEMMA AnswerFrame ==
  ASSUME IInv, TypeInv', Advances,
         NEW r \in sent, NEW result \in Results, NEW changed \in BOOLEAN,
         Answer(r, result, r.about, changed),
         young \subseteq young',
         \A o \in Orders :
           exchange[o].status = None => exchange'[o].status = None \/ (r.type = "order.place" /\ o = r.about),
         \A o \in Orders : ExchangeInv(o)',
         changed \/ result \in Success => exchange'[r.about].status # None,
         r.confirmed /\ result \in TooLate =>
           \/ exchange'[r.about].status \in {"FILLED", "CANCELED"}
           \/ r.type = "order.cancel" /\ result = "CANCEL_REJECTED" /\ r.about \in young'
  PROVE  IInv'
<1> DEFINE o == r.about
           answer == [type |-> r.type, about |-> r.about, version |-> r.version,
                      confirmed |-> r.confirmed, result |-> result, report |-> Report(o)]
<1>1. /\ sent' = sent \ {r}
      /\ answers' = answers \union {answer}
      /\ reports' = IF changed THEN reports \union {Report(o)} ELSE reports
      /\ UNCHANGED <<settings, client>>
  BY DEF Answer
<1>2. SentInv(r) /\ r.about \in Orders /\ (r.type = "order.place" => PlaceInv(r))
  BY RequestType DEF IInv, TypeInv, SentInv
<1>3. /\ Report(o).order = o /\ Report(o).rev = exchange'[o].rev
      /\ Report(o).price = exchange'[o].price /\ Report(o).quantity = exchange'[o].quantity
  BY DEF Report
<1>4. exchange'[o].rev \in Nat
  BY <1>2 DEF TypeInv, TypeOK
<1>5. ASSUME NEW c, c = Report(o)
      PROVE  c.order = o /\ Agrees(c, o)'
  BY <1>3, <1>4, <1>5 DEF Agrees
<1>6. ASSUME changed, NEW c, c = Report(o)
      PROVE  ReportInv(c)'
  BY <1>5, <1>6 DEF ReportInv
<1>7. ASSUME NEW a, a = answer
      PROVE  AnswerInv(a)'
  <2>1. /\ a.type = r.type /\ a.about = o /\ a.confirmed = r.confirmed /\ a.result = result
        /\ a.report = Report(o)
    BY <1>7
  <2>2. r.confirmed => r.about \in confirmed'
    <3>1. r.type = "order.place" => ~r.confirmed
      BY <1>2 DEF PlaceInv
    <3> QED
      BY <1>1, <1>2, <3>1 DEF SentInv, NamedInv, client
  <2>3. a.report.order = o /\ Agrees(a.report, o)'
    <3>1. PICK c : c = a.report
      OBVIOUS
    <3> QED
      BY <2>1, <3>1, <1>5
  <2> HIDE DEF answer
  <2> QED
    BY <2>1, <2>2, <2>3 DEF AnswerInv, Done
<1>8. ASSUME NEW s \in sent', s.type = "order.place"
      PROVE  exchange'[s.about].status = None
  <2>1. s \in sent /\ s # r /\ PlaceInv(s) /\ s.about \in Orders
    BY <1>1, <1>8, RequestType DEF IInv, TypeInv, SentInv
  <2>2. ~(r.type = "order.place" /\ s.about = r.about)
    BY <1>8, <2>1 DEF IInv, PlacedOnce
  <2> QED
    BY <2>1, <2>2 DEF PlaceInv
<1>9. ASSUME NEW p \in Orders, ~stored[p].placed
      PROVE  exchange'[p].status = None
  <2>1. exchange[p].status = None
    BY <1>9 DEF IInv, ClientInv
  <2> QED
    BY <1>2, <1>9, <2>1 DEF PlaceInv
<1> HIDE DEF answer
<1>10. \A x \in reports' : x \in reports \/ ReportInv(x)'
  BY <1>1, <1>6
<1>11. \A x \in answers' : x \in answers \/ AnswerInv(x)'
  BY <1>1, <1>7
<1>12. sent' \subseteq sent
  BY <1>1
<1> QED
  BY <1>1, <1>8, <1>9, <1>10, <1>11, <1>12, ExchangeFrame


(* A request finds the order it is about, if it is there, and no other. *)
LEMMA NamesItsOrder ==
  ASSUME OrderTermsAssumption, IInv, NEW r \in sent, r.type # "order.place"
  PROVE  /\ r.about \in Orders
         /\ \A o \in Orders : Names(r, o) => o = r.about
         /\ exchange[r.about].status # None => Names(r, r.about)
<1>1. NamedInv(r) /\ r.about \in Orders
  BY RequestType DEF IInv, TypeInv, SentInv
<1>2. IdOf[r.about] # None
  BY <1>1 DEF OrderTermsAssumption
<1>3. ASSUME NEW o \in Orders, Names(r, o)
      PROVE  o = r.about
  BY <1>1, <1>2, <1>3 DEF Names, NamedInv, OrderTermsAssumption
<1> QED
  BY <1>1, <1>2, <1>3 DEF Names, NamedInv

LEMMA NothingChanges ==
  ASSUME IInv, TypeInv', NEW r \in sent, NEW result \in Results,
         UNCHANGED <<market, history>>, Answer(r, result, r.about, FALSE),
         result \in Success => exchange[r.about].status # None,
         r.confirmed /\ result \in TooLate =>
           \/ Done(r.about)
           \/ r.type = "order.cancel" /\ result = "CANCEL_REJECTED" /\ r.about \in young
  PROVE  IInv'
<1>1. UNCHANGED <<exchange, young, intent, outdated, form>>
  BY DEF Answer, market, history, settings
<1>2. Advances
  <2>1. \A o \in Orders : exchange[o].rev \in Nat
    BY DEF IInv, TypeInv, TypeOK
  <2> QED
    BY <1>1, <2>1 DEF Advances, Done
<1>3. \A o \in Orders : ExchangeInv(o)'
  BY <1>1 DEF IInv, ExchangeInv
<1> QED
  BY <1>1, <1>2, <1>3, AnswerFrame DEF Done

LEMMA PlaceInvariant ==
  ASSUME OrderTermsAssumption, IInv, TypeInv', NEW r \in sent,
         NEW status \in {"NEW", "FILLED", "CANCELED"}, ExecutePlace(r, status)
  PROVE  IInv'
<1>1. r \in Placed /\ r.about \in Orders /\ r.type = "order.place" /\ PlaceInv(r) /\ SameTerms(r, form[r.about])
  BY RequestType DEF ExecutePlace, IInv, TypeInv, SentInv, PlaceInv
<1> DEFINE o == r.about
           tif == IF r.order_type = "LIMIT" THEN r.time_in_force ELSE "GTC"
           e == [status |-> status, side |-> r.side, order_type |-> r.order_type,
                 reduce_only |-> r.reduce_only, time_in_force |-> tif,
                 price |-> r.price, quantity |-> r.quantity, rev |-> 0]
<1>2. /\ exchange' = [exchange EXCEPT ![o] = e]
      /\ young' = young \union {o} /\ UNCHANGED history
      /\ Answer(r, status, o, TRUE)
      /\ r.order_type = "LIMIT" => r.time_in_force \in {"GTC", "IOC", "FOK", "GTX", "RPI"}
  BY DEF ExecutePlace
<1>3. exchange \in [Orders -> ExchangeOrders] /\ UNCHANGED <<form, intent, outdated>>
  BY <1>2 DEF IInv, TypeInv, TypeOK, ExchangeOrders, Answer, settings, history
<1>4. /\ exchange'[o] = e
      /\ \A p \in Orders \ {o} : exchange'[p] = exchange[p]
      /\ exchange[o].status = None /\ None \notin {"NEW", "FILLED", "CANCELED"}
  BY <1>1, <1>2, <1>3 DEF PlaceInv, None
<1>5. exchange[o].rev = 0 /\ ExchangeInv(o)
  BY <1>1, <1>4 DEF IInv, ExchangeInv
<1>6. /\ e.status = status /\ e.side = r.side /\ e.order_type = r.order_type
      /\ e.reduce_only = r.reduce_only /\ e.time_in_force = tif
      /\ e.price = r.price /\ e.quantity = r.quantity /\ e.rev = 0
  OBVIOUS
<1>7. form[o].order_type = "LIMIT" => tif = TimeInForceOf(form[o])
  BY <1>1, <1>2 DEF SameTerms, None
<1>8. /\ r.side = form[o].side /\ r.order_type = form[o].order_type
      /\ r.reduce_only = form[o].reduce_only
      /\ r.price = form[o].price /\ r.quantity = form[o].quantity
  BY <1>1 DEF SameTerms
<1>9. /\ exchange[o].price = form[o].price /\ exchange[o].quantity = form[o].quantity
      /\ intent[o].price = form[o].price /\ intent[o].quantity = form[o].quantity
  BY <1>4, <1>5 DEF ExchangeInv
<1> HIDE DEF e, tif
<1>10. Advances
  <2>1. \A p \in Orders : exchange[p].rev \in Nat
    BY <1>3 DEF ExchangeOrders
  <2> SUFFICES ASSUME NEW p \in Orders
               PROVE  /\ exchange[p].rev <= exchange'[p].rev
                      /\ exchange'[p].rev = exchange[p].rev =>
                           exchange'[p].price = exchange[p].price /\ exchange'[p].quantity = exchange[p].quantity
                      /\ exchange[p].status # None =>
                           /\ exchange'[p].status # None
                           /\ exchange'[p].side = exchange[p].side
                           /\ exchange'[p].order_type = exchange[p].order_type
                           /\ exchange'[p].time_in_force = exchange[p].time_in_force
                      /\ Done(p) => exchange'[p].status \in {"FILLED", "CANCELED"}
    BY DEF Advances
  <2>2. CASE p = o
    BY <1>4, <1>5, <1>6, <1>8, <1>9, <2>2 DEF Done
  <2>3. CASE p # o
    BY <1>4, <2>1, <2>3 DEF Done
  <2> QED
    BY <2>2, <2>3
<1>11. ASSUME NEW p \in Orders
       PROVE  ExchangeInv(p)'
  <2>1. CASE p = o
    BY <1>3, <1>4, <1>6, <1>7, <1>8, <1>9, <2>1 DEF ExchangeInv
  <2>2. CASE p # o
    BY <1>3, <1>4, <2>2 DEF IInv, ExchangeInv
  <2> QED
    BY <2>1, <2>2
<1>12. /\ exchange'[r.about].status # None
       /\ \A p \in Orders : exchange[p].status = None => exchange'[p].status = None \/ p = r.about
       /\ ~r.confirmed /\ status \in Results /\ young \subseteq young'
  BY <1>1, <1>2, <1>4, <1>6 DEF PlaceInv, Results
<1> QED
  BY <1>1, <1>2, <1>10, <1>11, <1>12, AnswerFrame


(* A change of an open order that keeps its terms is an advance. *)
LEMMA ChangeOfOpen ==
  ASSUME IInv, TypeInv', NEW o \in Orders, exchange[o].status = "NEW",
         exchange'[o].status \in {"NEW", "FILLED", "CANCELED"},
         exchange'[o].side = exchange[o].side,
         exchange'[o].order_type = exchange[o].order_type,
         exchange'[o].reduce_only = exchange[o].reduce_only,
         exchange'[o].time_in_force = exchange[o].time_in_force,
         \/ /\ exchange'[o].rev = exchange[o].rev
            /\ exchange'[o].price = exchange[o].price
            /\ exchange'[o].quantity = exchange[o].quantity
         \/ exchange'[o].rev = exchange[o].rev + 1,
         \A p \in Orders \ {o} :
           exchange'[p] = exchange[p] /\ intent'[p] = intent[p] /\ (p \in outdated' <=> p \in outdated),
         UNCHANGED form,
         o \notin outdated' =>
           exchange'[o].price = intent'[o].price /\ exchange'[o].quantity = intent'[o].quantity
  PROVE  /\ Advances
         /\ \A p \in Orders : ExchangeInv(p)'
         /\ \A p \in Orders : exchange[p].status = None => exchange'[p].status = None
         /\ exchange'[o].status # None
<1>1. \A p \in Orders : exchange[p].rev \in Nat
  BY DEF IInv, TypeInv, TypeOK
<1>2. None \notin {"NEW", "FILLED", "CANCELED"}
  BY DEF None
<1>3. ASSUME NEW p \in Orders
      PROVE  /\ exchange[p].rev <= exchange'[p].rev
             /\ exchange'[p].rev = exchange[p].rev =>
                  exchange'[p].price = exchange[p].price /\ exchange'[p].quantity = exchange[p].quantity
             /\ exchange[p].status # None =>
                  /\ exchange'[p].status # None
                  /\ exchange'[p].side = exchange[p].side
                  /\ exchange'[p].order_type = exchange[p].order_type
                  /\ exchange'[p].time_in_force = exchange[p].time_in_force
             /\ Done(p) => exchange'[p].status \in {"FILLED", "CANCELED"}
  <2>1. CASE p = o
    BY <1>1, <1>2, <2>1 DEF Done
  <2>2. CASE p # o
    BY <1>1, <2>2 DEF Done
  <2> QED
    BY <2>1, <2>2
<1>4. ASSUME NEW p \in Orders
      PROVE  ExchangeInv(p)'
  <2>1. ExchangeInv(p)
    BY DEF IInv
  <2>2. CASE p = o
    BY <1>2, <2>1, <2>2 DEF ExchangeInv
  <2>3. CASE p # o
    BY <2>1, <2>3 DEF ExchangeInv
  <2> QED
    BY <2>2, <2>3
<1> QED
  BY <1>2, <1>3, <1>4 DEF Advances

LEMMA ModifyInvariant ==
  ASSUME OrderTermsAssumption, IInv, TypeInv', NEW r \in sent, NEW o \in Orders,
         NEW status \in {"NEW", "FILLED", "CANCELED"}, ExecuteModify(r, o, status)
  PROVE  IInv'
<1>1. r.type = "order.modify" /\ r \in Modified /\ Names(r, o) /\ exchange[o].status = "NEW"
  BY RequestType DEF ExecuteModify, Open, IInv, TypeInv
<1>2. o = r.about /\ EncodedInv(r) /\ ExchangeInv(o)
  BY <1>1, NamesItsOrder DEF IInv, SentInv
<1> DEFINE after == After(r, o, status)
           e == exchange[o]
<1>3. /\ after \in ExchangeOrders /\ after.status = status
      /\ after.price = Kept(r.price, e.price) /\ after.quantity = Kept(r.quantity, e.quantity)
      /\ after.rev = e.rev + 1
      /\ after.side = e.side /\ after.order_type = e.order_type
      /\ after.reduce_only = e.reduce_only /\ after.time_in_force = e.time_in_force
  BY <1>1, AfterType DEF IInv, TypeInv
<1>4. status \in Results /\ "SAME_ORDER" \in Results /\ "SAME_ORDER" \notin Success \union TooLate
      /\ None # "NEW"
  BY DEF Results, Success, TooLate, None
<1>5. CASE after.price = e.price /\ after.quantity = e.quantity
  <2>1. UNCHANGED <<market, history>> /\ Answer(r, "SAME_ORDER", r.about, FALSE)
    BY <1>2, <1>5 DEF ExecuteModify
  <2> QED
    BY <1>4, <2>1, NothingChanges
<1>6. CASE ~(after.price = e.price /\ after.quantity = e.quantity)
  <2>1. /\ exchange' = [exchange EXCEPT ![o] = after]
        /\ intent' = [intent EXCEPT ![o].price = Kept(r.asked.price, @),
                                    ![o].quantity = Kept(r.asked.quantity, @)]
        /\ outdated' = IF r.guessed /\ r.basis # e.rev THEN outdated \union {o} ELSE outdated
        /\ UNCHANGED young /\ UNCHANGED form
        /\ Answer(r, status, r.about, TRUE)
    BY <1>2, <1>6 DEF ExecuteModify, Answer, settings
  <2>2. exchange \in [Orders -> ExchangeOrders]
        /\ intent \in [Orders -> [price : Prices \union {NaN}, quantity : Quantities]]
    BY DEF IInv, TypeInv, TypeOK, ExchangeOrders
  <2> DEFINE i == intent[o]
  <2>3. i \in [price : Prices \union {NaN}, quantity : Quantities]
    BY <2>2
  <2>4. /\ intent'[o].price = Kept(r.asked.price, i.price)
        /\ intent'[o].quantity = Kept(r.asked.quantity, i.quantity)
        /\ \A p \in Orders \ {o} : intent'[p] = intent[p]
    BY <2>1, <2>2, <2>3
  <2>5. exchange'[o] = after /\ \A p \in Orders \ {o} : exchange'[p] = exchange[p]
    BY <2>1, <2>2
  <2>6. ASSUME o \notin outdated'
        PROVE  after.price = intent'[o].price /\ after.quantity = intent'[o].quantity
    <3>1. o \notin outdated /\ (~r.guessed \/ r.basis = e.rev)
      BY <2>1, <2>6
    <3>2. e.price = i.price /\ e.quantity = i.quantity
      BY <1>1, <1>2, <1>4, <3>1 DEF ExchangeInv
    <3>3. /\ Kept(r.price, e.price) = Kept(r.asked.price, e.price)
          /\ Kept(r.quantity, e.quantity) = Kept(r.asked.quantity, e.quantity)
      BY <1>2, <3>1 DEF EncodedInv
    <3> QED
      BY <1>3, <2>4, <3>2, <3>3
  <2>7. \A p \in Orders \ {o} : p \in outdated' <=> p \in outdated
    BY <2>1
  <2> HIDE DEF after
  <2>8. /\ Advances
        /\ \A p \in Orders : ExchangeInv(p)'
        /\ \A p \in Orders : exchange[p].status = None => exchange'[p].status = None
        /\ exchange'[o].status # None
    <3>1. /\ exchange'[o].status \in {"NEW", "FILLED", "CANCELED"}
          /\ exchange'[o].side = exchange[o].side
          /\ exchange'[o].order_type = exchange[o].order_type
          /\ exchange'[o].reduce_only = exchange[o].reduce_only
          /\ exchange'[o].time_in_force = exchange[o].time_in_force
          /\ exchange'[o].rev = exchange[o].rev + 1
      BY <1>3, <2>5
    <3>2. \A p \in Orders \ {o} :
            exchange'[p] = exchange[p] /\ intent'[p] = intent[p] /\ (p \in outdated' <=> p \in outdated)
      BY <2>4, <2>5, <2>7
    <3>3. o \notin outdated' =>
            exchange'[o].price = intent'[o].price /\ exchange'[o].quantity = intent'[o].quantity
      BY <2>5, <2>6
    <3>4. exchange[o].status = "NEW" /\ UNCHANGED form
      BY <1>1, <2>1
    <3> QED
      BY <3>1, <3>2, <3>3, <3>4, ChangeOfOpen
  <2>9. status \in TooLate => exchange'[o].status \in {"FILLED", "CANCELED"}
    BY <1>3, <2>5 DEF TooLate
  <2> QED
    BY <1>2, <1>4, <2>1, <2>8, <2>9, AnswerFrame
<1> QED
  BY <1>5, <1>6

LEMMA CancelInvariant ==
  ASSUME OrderTermsAssumption, IInv, TypeInv', NEW r \in sent, NEW o \in Orders, ExecuteCancel(r, o)
  PROVE  IInv'
<1>1. /\ r.type = "order.cancel" /\ Names(r, o) /\ exchange[o].status = "NEW"
      /\ exchange' = [exchange EXCEPT ![o].status = "CANCELED"]
      /\ UNCHANGED <<young, history>> /\ Answer(r, "CANCELED", o, TRUE)
  BY DEF ExecuteCancel, Open
<1>2. o = r.about /\ ExchangeInv(o)
  BY <1>1, NamesItsOrder DEF IInv
<1>3. exchange \in [Orders -> ExchangeOrders] /\ UNCHANGED <<form, intent, outdated>>
  BY <1>1 DEF IInv, TypeInv, TypeOK, ExchangeOrders, Answer, settings, history
<1>4. /\ exchange'[o].status = "CANCELED" /\ exchange'[o].side = exchange[o].side
      /\ exchange'[o].order_type = exchange[o].order_type
      /\ exchange'[o].reduce_only = exchange[o].reduce_only
      /\ exchange'[o].time_in_force = exchange[o].time_in_force
      /\ exchange'[o].rev = exchange[o].rev
      /\ exchange'[o].price = exchange[o].price /\ exchange'[o].quantity = exchange[o].quantity
      /\ \A p \in Orders \ {o} : exchange'[p] = exchange[p]
  BY <1>1, <1>3 DEF ExchangeOrders
<1>5. "CANCELED" \in Results /\ None # "NEW" /\ (o \notin outdated =>
        exchange[o].price = intent[o].price /\ exchange[o].quantity = intent[o].quantity)
  BY <1>1, <1>2 DEF Results, None, ExchangeInv
<1>6. /\ Advances
      /\ \A p \in Orders : ExchangeInv(p)'
      /\ \A p \in Orders : exchange[p].status = None => exchange'[p].status = None
      /\ exchange'[o].status # None
  BY <1>1, <1>3, <1>4, <1>5, ChangeOfOpen
<1>7. Answer(r, "CANCELED", r.about, TRUE) /\ young \subseteq young'
  BY <1>1, <1>2
<1>8. exchange'[r.about].status \in {"FILLED", "CANCELED"} /\ exchange'[r.about].status # None
  BY <1>2, <1>4, <1>6
<1> QED
  BY <1>5, <1>6, <1>7, <1>8, AnswerFrame


LEMMA NotFoundInvariant ==
  ASSUME OrderTermsAssumption, IInv, TypeInv', NEW r \in sent, NotFound(r)
  PROVE  IInv'
<1>1. /\ r.type # "order.place" /\ UNCHANGED <<market, history>> /\ r.about \in Orders
      /\ \A o \in Orders : Names(r, o) => ~Open(o) \/ (o \in young /\ r.type = "order.cancel")
  BY NamesItsOrder DEF NotFound
<1>2. r.type \in RequestTypes /\ NamedInv(r)
  BY <1>1, RequestType DEF IInv, TypeInv, SentInv
<1>3. /\ "NO_SUCH_ORDER" \in Results \ Success /\ "CANCEL_REJECTED" \in Results \ Success
      /\ "FILLED" \in Results
  BY DEF Results, Success
<1>4. exchange[r.about].status \in {None, "NEW", "FILLED", "CANCELED"}
  BY <1>1 DEF IInv, TypeInv, TypeOK
<1>5. r.confirmed => Done(r.about) \/ (r.type = "order.cancel" /\ r.about \in young)
  <2>1. ASSUME r.confirmed
        PROVE  exchange[r.about].status # None
    BY <1>1, <1>2, <2>1 DEF NamedInv, IInv, ClientInv
  <2> QED
    BY <1>1, <1>4, <2>1, NamesItsOrder DEF Open, Done
<1>6. CASE Answer(r, IF r.type = "order.modify" THEN "NO_SUCH_ORDER" ELSE "CANCEL_REJECTED",
                  r.about, FALSE)
  <2>1. CASE r.type = "order.modify"
    BY <1>1, <1>3, <1>5, <1>6, <2>1, NothingChanges
  <2>2. CASE r.type = "order.cancel"
    BY <1>1, <1>3, <1>5, <1>6, <2>2, NothingChanges
  <2> QED
    BY <1>1, <1>2, <2>1, <2>2 DEF RequestTypes
<1>7. ASSUME NEW o \in Orders, Names(r, o), exchange[o].status = "FILLED",
             Answer(r, "FILLED", o, FALSE)
      PROVE  IInv'
  <2>1. o = r.about /\ None # "FILLED" /\ Done(o)
    BY <1>1, <1>7, NamesItsOrder DEF None, Done
  <2> QED
    BY <1>1, <1>3, <1>7, <2>1, NothingChanges
<1> QED
  BY <1>6, <1>7 DEF NotFound

LEMMA TradeInvariant ==
  ASSUME IInv, TypeInv', NEW o \in Orders, NEW status \in {"FILLED", "CANCELED"}, Trade(o, status)
  PROVE  IInv'
<1>1. /\ exchange[o].status = "NEW"
      /\ exchange' = [exchange EXCEPT ![o].status = status]
      /\ reports' = reports \union {Report(o)}
      /\ UNCHANGED <<settings, requests, sent, young, answers, client, history>>
  BY DEF Trade, Open
<1>2. exchange \in [Orders -> ExchangeOrders] /\ UNCHANGED <<form, intent, outdated>>
  BY <1>1 DEF IInv, TypeInv, TypeOK, ExchangeOrders, settings, history
<1>3. /\ exchange'[o].status = status /\ exchange'[o].side = exchange[o].side
      /\ exchange'[o].order_type = exchange[o].order_type
      /\ exchange'[o].reduce_only = exchange[o].reduce_only
      /\ exchange'[o].time_in_force = exchange[o].time_in_force
      /\ exchange'[o].rev = exchange[o].rev
      /\ exchange'[o].price = exchange[o].price /\ exchange'[o].quantity = exchange[o].quantity
      /\ \A p \in Orders \ {o} : exchange'[p] = exchange[p]
  BY <1>1, <1>2 DEF ExchangeOrders
<1>4. o \notin outdated =>
        exchange[o].price = intent[o].price /\ exchange[o].quantity = intent[o].quantity
  BY <1>1 DEF IInv, ExchangeInv, None
<1>5. /\ Advances
      /\ \A p \in Orders : ExchangeInv(p)'
      /\ \A p \in Orders : exchange[p].status = None => exchange'[p].status = None
      /\ exchange'[o].status # None
  BY <1>1, <1>2, <1>3, <1>4, ChangeOfOpen
<1>6. \A r \in sent' : r.type = "order.place" => exchange'[r.about].status = None
  BY <1>1, <1>5, RequestType DEF IInv, TypeInv, SentInv, PlaceInv
<1>7. \A p \in Orders : ~stored[p].placed => exchange'[p].status = None
  BY <1>5 DEF IInv, ClientInv
<1>8. ASSUME NEW c, c = Report(o)
      PROVE  ReportInv(c)'
  <2>1. /\ c.order = o /\ c.rev = exchange'[o].rev
        /\ c.price = exchange'[o].price /\ c.quantity = exchange'[o].quantity
    BY <1>8 DEF Report
  <2>2. exchange'[o].rev \in Nat
    BY DEF TypeInv, TypeOK
  <2> QED
    BY <1>5, <2>1, <2>2 DEF ReportInv, Agrees
<1>9. /\ \A x \in reports' : x \in reports \/ ReportInv(x)'
      /\ \A x \in answers' : x \in answers
      /\ sent' \subseteq sent /\ young' = young
      /\ UNCHANGED <<settings, client>>
  BY <1>1, <1>8
<1> QED
  BY <1>5, <1>6, <1>7, <1>9, ExchangeFrame

LEMMA ElapseInvariant ==
  ASSUME IInv, TypeInv', NEW o \in Orders, Elapse(o)
  PROVE  IInv'
<1>1. /\ \A answer \in answers : answer.about = o => answer.result # "CANCEL_REJECTED"
      /\ young' = young \ {o}
      /\ UNCHANGED <<settings, requests, sent, exchange, answers, reports, client, history>>
  BY DEF Elapse
<1>2. Advances
  <2>1. \A p \in Orders : exchange[p].rev \in Nat
    BY DEF IInv, TypeInv, TypeOK
  <2> QED
    BY <1>1, <2>1 DEF Advances, Done
<1>3. \A p \in Orders : ExchangeInv(p)'
  BY <1>1 DEF IInv, ExchangeInv, settings, history
<1>4. \A r \in sent' : r.type = "order.place" => exchange'[r.about].status = None
  BY <1>1 DEF IInv, SentInv, PlaceInv
<1>5. \A p \in Orders : ~stored[p].placed => exchange'[p].status = None
  BY <1>1 DEF IInv, ClientInv
<1>6. \A answer \in answers :
        answer.result = "CANCEL_REJECTED" /\ answer.about \in young => answer.about \in young'
  BY <1>1
<1>7. /\ sent' \subseteq sent /\ UNCHANGED <<settings, client>>
      /\ \A x \in reports' : x \in reports
      /\ \A x \in answers' : x \in answers
  BY <1>1
<1> QED
  BY <1>2, <1>3, <1>4, <1>5, <1>6, <1>7, ExchangeFrame

LEMMA ExchangeInvariant ==
  ASSUME OrderTermsAssumption, IInv, TypeInv', ExchangeNext
  PROVE  IInv'
<1>1. ASSUME NEW r \in sent, Refuse(r)
      PROVE  IInv'
  <2>1. "refused" \in Results /\ "refused" \notin Success \union TooLate
    BY DEF Results, Success, TooLate
  <2> QED
    BY <1>1, <2>1, NothingChanges DEF Refuse
<1> QED
  BY <1>1, PlaceInvariant, ModifyInvariant, CancelInvariant, NotFoundInvariant, TradeInvariant,
     ElapseInvariant DEF ExchangeNext


LEMMA SendFrame ==
  ASSUME IInv, NEW r, Send(r), SentInv(r)',
         \A s \in sent : ~ (r.type = "order.place" /\ s.type = "order.place" /\ s.about = r.about),
         \A o \in Orders :
           /\ stored'[o].rev = stored[o].rev /\ stored'[o].price = stored[o].price
           /\ stored'[o].quantity = stored[o].quantity
           /\ stored[o].placed => stored'[o].placed,
         TypeInv'
  PROVE  IInv'
<1>1. /\ sent' = sent \union {r}
      /\ UNCHANGED <<encoder, form, force, exchange, young, answers, reports, reported, confirmed,
                     response, intent, outdated>>
  BY DEF Send, settings, market, history
<1>2. ASSUME NEW s \in sent'
      PROVE  SentInv(s)'
  <2>1. CASE s \in sent
    <3>1. SentInv(s) /\ s.about \in Orders
      BY <2>1, RequestType DEF IInv, TypeInv
    <3> QED
      BY <1>1, <3>1 DEF SentInv, PlaceInv, NamedInv, EncodedInv
  <2> QED
    BY <1>1, <2>1
<1>3. PlacedOnce'
  BY <1>1 DEF PlacedOnce, IInv
<1>4. ASSUME NEW o \in Orders
      PROVE  ExchangeInv(o)' /\ ClientInv(o)'
  <2>1. ExchangeInv(o) /\ ClientInv(o)
    BY DEF IInv
  <2> QED
    BY <1>1, <2>1 DEF ExchangeInv, ClientInv, Agrees, Done
<1>5. /\ \A report \in reports' : ReportInv(report)'
      /\ \A answer \in answers' : AnswerInv(answer)'
  BY <1>1 DEF IInv, ReportInv, AnswerInv, Agrees, Done
<1> QED
  BY <1>2, <1>3, <1>4, <1>5 DEF IInv

LEMMA CreateInvariant ==
  ASSUME OrderTermsAssumption, IInv, TypeInv', NEW o \in Orders, CreateOrder(o)
  PROVE  IInv'
<1> DEFINE params == PlaceParams(form[o])
<1>1. form[o] \in Forms /\ SameTerms(params, form[o])
  BY PlaceParamsAreTheForm DEF IInv, TypeInv, TypeOK
<1>2. PICK r :
        /\ Send(r)
        /\ r = [type |-> "order.place", about |-> o, version |-> requests', confirmed |-> FALSE,
                side |-> params.side, order_type |-> params.order_type,
                reduce_only |-> params.reduce_only, time_in_force |-> params.time_in_force,
                price |-> params.price, quantity |-> params.quantity]
  BY DEF CreateOrder
<1> HIDE DEF params
<1>3. /\ r.type = "order.place" /\ r.about = o /\ r.confirmed = FALSE
      /\ r.side = params.side /\ r.order_type = params.order_type
      /\ r.reduce_only = params.reduce_only /\ r.time_in_force = params.time_in_force
      /\ r.price = params.price /\ r.quantity = params.quantity
  BY <1>2
<1>4. SameTerms(r, form[o])
  BY <1>1, <1>3 DEF SameTerms
<1>5. ~stored[o].placed /\ stored' = [stored EXCEPT ![o].placed = TRUE]
  BY DEF CreateOrder
<1>6. stored \in [Orders -> StoredOrders]
  BY DEF IInv, TypeInv, TypeOK, StoredOrders
<1>7. /\ stored'[o].placed
      /\ \A p \in Orders :
           /\ stored'[p].rev = stored[p].rev /\ stored'[p].price = stored[p].price
           /\ stored'[p].quantity = stored[p].quantity
           /\ stored[p].placed => stored'[p].placed
  BY <1>5, <1>6 DEF StoredOrders
<1>8. exchange[o].status = None
  BY <1>5 DEF IInv, ClientInv
<1>9. UNCHANGED <<form, exchange>>
  BY <1>2 DEF Send, settings, market
<1>10. SentInv(r)'
  BY <1>3, <1>4, <1>7, <1>8, <1>9 DEF SentInv, PlaceInv
<1>11. \A s \in sent : ~ (s.type = "order.place" /\ s.about = o)
  BY <1>5 DEF IInv, SentInv, PlaceInv
<1> QED
  BY <1>2, <1>3, <1>7, <1>10, <1>11, SendFrame

(* What the encoder sends for a value, and what the exchange makes of it. *)
LEMMA ModifyParamIsAsked ==
  ASSUME NEW asked, NEW last
  PROVE  /\ ~Guessed(asked, last) => ModifyParam(asked, last) = asked
         /\ Kept(ModifyParam(asked, last), last) = Kept(asked, last)
  BY DEF Guessed, ModifyParam, Changed, FilledIn, Kept

LEMMA ModifyOrderInvariant ==
  ASSUME OrderTermsAssumption, IInv, TypeInv', NEW o \in Orders, NEW asked \in Quotes,
         ModifyOrder(o, asked)
  PROVE  IInv'
<1> DEFINE last == stored[o]
           price == ModifyParam(asked.price, last.price)
           quantity == ModifyParam(asked.quantity, last.quantity)
           guessed == Guessed(asked.price, last.price) \/ Guessed(asked.quantity, last.quantity)
<1>1. CASE Rejected(price, quantity)
  <2>1. /\ response' = [response EXCEPT ![o] =
              [type |-> "order.modify", confirmed |-> o \in confirmed,
               error |-> "INVALID_REQUEST_ARGS"]]
        /\ UNCHANGED <<settings, sent, market, answers, reports, reported, confirmed, history, stored>>
    BY <1>1 DEF ModifyOrder
  <2>2. \A p \in Orders :
          \/ response'[p] = response[p]
          \/ response'[p].error # "TOO_LATE_TO_MODIFY_OR_CANCEL"
    BY <2>1 DEF IInv, TypeInv, TypeOK
  <2>3. ASSUME NEW p \in Orders
        PROVE  ExchangeInv(p)' /\ ClientInv(p)'
    <3>1. ExchangeInv(p) /\ ClientInv(p)
      BY DEF IInv
    <3> QED
      BY <2>1, <2>2, <3>1 DEF ExchangeInv, ClientInv, Agrees, Done, settings, market, history
  <2>4. /\ \A r \in sent' : SentInv(r)'
        /\ PlacedOnce'
    BY <2>1 DEF IInv, SentInv, PlaceInv, NamedInv, EncodedInv, PlacedOnce, settings, market
  <2>5. /\ \A report \in reports' : ReportInv(report)'
        /\ \A answer \in answers' : AnswerInv(answer)'
    BY <2>1 DEF IInv, ReportInv, AnswerInv, Agrees, Done, market
  <2> QED
    BY <2>3, <2>4, <2>5 DEF IInv
<1>2. CASE ~Rejected(price, quantity)
  <2>1. PICK r :
          /\ Send(r)
          /\ r = [type |-> "order.modify", about |-> o, version |-> requests',
                  confirmed |-> o \in confirmed, symbol |-> SymbolOf[o],
                  orderId |-> OrderId(o, FALSE), origClientOrderId |-> ClientOrderId(o, FALSE),
                  side |-> last.side, price |-> price, quantity |-> quantity,
                  asked |-> asked, basis |-> last.rev, guessed |-> guessed]
    BY <1>2 DEF ModifyOrder
  <2>2. UNCHANGED stored
    BY DEF ModifyOrder
  <2>3. UNCHANGED <<exchange, confirmed>>
    BY <2>1 DEF Send, market
  <2> DEFINE c == o \in confirmed
  <2> HIDE DEF last, price, quantity, guessed, c
  <2>4. /\ r.type = "order.modify" /\ r.about = o /\ r.symbol = SymbolOf[o]
        /\ r.orderId = OrderId(o, FALSE) /\ r.origClientOrderId = ClientOrderId(o, FALSE)
        /\ r.price = price /\ r.quantity = quantity /\ r.asked = asked /\ r.basis = last.rev
        /\ r.guessed = guessed
    BY <2>1
  <2>5. r.confirmed = (o \in confirmed)
    BY <2>1
  <2>6. NamedInv(r)'
    <3>1. /\ OrderId(o, FALSE) \in {None, IdOf[o]}
          /\ OrderId(o, FALSE) = None => ClientOrderId(o, FALSE) = o
      BY OrderIdType DEF IInv
    <3> QED
      BY <2>3, <2>4, <2>5, <3>1 DEF NamedInv
  <2>7. Agrees(last, o) /\ last.rev \in Nat /\ exchange[o].rev \in Nat
    BY DEF IInv, ClientInv, TypeInv, TypeOK, last
  <2>8. /\ ~guessed => price = asked.price /\ quantity = asked.quantity
        /\ Kept(price, last.price) = Kept(asked.price, last.price)
        /\ Kept(quantity, last.quantity) = Kept(asked.quantity, last.quantity)
    BY ModifyParamIsAsked DEF price, quantity, guessed
  <2>9. EncodedInv(r)'
    BY <2>3, <2>4, <2>7, <2>8 DEF EncodedInv, Agrees
  <2>10. SentInv(r)'
    BY <2>4, <2>6, <2>9 DEF SentInv
  <2> QED
    BY <2>1, <2>2, <2>4, <2>10, SendFrame
<1> QED
  BY <1>1, <1>2

LEMMA CancelOrderInvariant ==
  ASSUME OrderTermsAssumption, IInv, TypeInv', NEW o \in Orders, CancelOrder(o)
  PROVE  IInv'
<1>1. PICK r :
        /\ Send(r)
        /\ r = [type |-> "order.cancel", about |-> o, version |-> requests',
                confirmed |-> o \in confirmed, symbol |-> SymbolOf[o],
                orderId |-> OrderId(o, force), origClientOrderId |-> ClientOrderId(o, force)]
  BY DEF CancelOrder
<1>2. UNCHANGED stored
  BY DEF CancelOrder
<1>3. UNCHANGED confirmed
  BY <1>1 DEF Send
<1>4. /\ r.type = "order.cancel" /\ r.about = o /\ r.symbol = SymbolOf[o]
      /\ r.orderId = OrderId(o, force) /\ r.origClientOrderId = ClientOrderId(o, force)
  BY <1>1
<1>5. r.confirmed = (o \in confirmed)
  BY <1>1
<1>6. force \in BOOLEAN
  BY DEF IInv, TypeInv, TypeOK
<1>7. NamedInv(r)'
  <2>1. /\ OrderId(o, force) \in {None, IdOf[o]}
        /\ OrderId(o, force) = None => ClientOrderId(o, force) = o
    BY <1>6, OrderIdType DEF IInv
  <2> QED
    BY <1>3, <1>4, <1>5, <2>1 DEF NamedInv
<1>8. SentInv(r)'
  BY <1>4, <1>7 DEF SentInv
<1> QED
  BY <1>1, <1>2, <1>4, <1>8, SendFrame


(* The server takes over what an answer or an event tells it. *)
LEMMA TakesInvariant ==
  ASSUME IInv, NEW report \in Reports, Takes(report),
         UNCHANGED <<stored, reported>> \/ ReportInv(report),
         confirmed \subseteq confirmed',
         \A o \in Orders : o \in confirmed' => o \in confirmed \/ exchange[o].status # None,
         \A o \in Orders :
           \/ response'[o] = response[o]
           \/ /\ response'[o].error = "TOO_LATE_TO_MODIFY_OR_CANCEL"
              /\ response'[o].confirmed
              /\ encoder = "json" \/ response'[o].type = "order.modify"
              => Done(o),
         answers' \subseteq answers, reports' \subseteq reports,
         UNCHANGED <<settings, requests, sent, market, history>>,
         TypeInv'
  PROVE  IInv'
<1>1. UNCHANGED <<encoder, form, force, sent, exchange, young, intent, outdated>>
  BY DEF settings, market, history
<1>2. report.order \in Orders
  BY DEF Reports
<1>3. \A o \in Orders :
        /\ stored'[o].placed = stored[o].placed
        /\ \/ /\ stored'[o].rev = stored[o].rev
              /\ stored'[o].price = stored[o].price
              /\ stored'[o].quantity = stored[o].quantity
           \/ /\ o = report.order
              /\ stored'[o].rev = report.rev
              /\ stored'[o].price = report.price
              /\ stored'[o].quantity = report.quantity
        /\ \/ reported'[o] = reported[o]
           \/ /\ o = report.order
              /\ reported'[o].known
              /\ reported'[o].side = exchange[o].side
              /\ reported'[o].order_type = exchange[o].order_type
              /\ reported'[o].time_in_force = MappedTimeInForce(exchange[o].time_in_force)
  BY TakesEffect DEF IInv
<1>4. ASSUME NEW r \in sent'
      PROVE  SentInv(r)'
  <2>1. SentInv(r) /\ r.about \in Orders
    BY <1>1, RequestType DEF IInv, TypeInv
  <2> QED
    BY <1>1, <1>3, <2>1 DEF SentInv, PlaceInv, NamedInv, EncodedInv
<1>5. PlacedOnce'
  BY <1>1 DEF PlacedOnce, IInv
<1>6. ASSUME NEW o \in Orders
      PROVE  ExchangeInv(o)' /\ ClientInv(o)'
  <2>1. ExchangeInv(o) /\ ClientInv(o)
    BY DEF IInv
  <2>2. ExchangeInv(o)'
    BY <1>1, <2>1 DEF ExchangeInv
  <2>3. Agrees(stored[o], o)'
    <3>1. CASE UNCHANGED <<stored, reported>>
      BY <1>1, <2>1, <3>1 DEF ClientInv, Agrees
    <3>2. CASE ReportInv(report)
      BY <1>1, <1>3, <2>1, <3>2 DEF ClientInv, ReportInv, Agrees
    <3> QED
      BY <3>1, <3>2
  <2>4. reported'[o].known =>
          /\ exchange[o].status # None
          /\ reported'[o].side = form[o].side
          /\ reported'[o].order_type = form[o].order_type
          /\ form[o].order_type = "LIMIT" =>
               reported'[o].time_in_force = MappedTimeInForce(TimeInForceOf(form[o]))
    <3>1. CASE reported'[o] = reported[o]
      BY <2>1, <3>1 DEF ClientInv
    <3>2. CASE ReportInv(report) /\ reported'[o] # reported[o]
      BY <1>3, <2>1, <3>2 DEF ExchangeInv, ReportInv
    <3> QED
      BY <3>1, <3>2
  <2>5. o \in confirmed' => exchange[o].status # None
    BY <2>1 DEF ClientInv
  <2>6. /\ response'[o].error = "TOO_LATE_TO_MODIFY_OR_CANCEL"
        /\ response'[o].confirmed
        /\ encoder = "json" \/ response'[o].type = "order.modify"
        => Done(o)
    BY <2>1 DEF ClientInv
  <2> QED
    BY <1>1, <1>3, <2>1, <2>2, <2>3, <2>4, <2>5, <2>6 DEF ClientInv, Done
<1>7. ASSUME NEW x \in reports'
      PROVE  ReportInv(x)'
  BY <1>1 DEF IInv, ReportInv, Agrees
<1>8. ASSUME NEW x \in answers'
      PROVE  AnswerInv(x)'
  BY <1>1 DEF IInv, AnswerInv, Agrees, Done
<1> QED
  BY <1>4, <1>5, <1>6, <1>7, <1>8 DEF IInv

LEMMA ServerInvariant ==
  ASSUME OrderTermsAssumption, IInv, TypeInv', ServerNext
  PROVE  IInv'
<1>1. ASSUME NEW answer \in answers,
             OrderPlaceAck(answer) \/ OrderModifyAck(answer) \/ OrderCancelAck(answer)
      PROVE  IInv'
  <2>1. answer \in Answers /\ AnswerInv(answer)
    BY DEF IInv, TypeInv, TypeOK
  <2>2. answer.about \in Orders /\ answer.report \in Reports
    BY <2>1 DEF Answers
  <2>3. /\ answers' = answers \ {answer}
        /\ UNCHANGED <<settings, requests, sent, market, reports, history>>
        /\ Takes(answer.report)
        /\ UNCHANGED <<stored, reported>> \/ answer.result \in Success
    BY <1>1, AckEffect DEF IInv
  <2>4. \/ UNCHANGED confirmed
        \/ confirmed' = confirmed \union {answer.about} /\ answer.result \in Success
    BY <1>1, AckEffect DEF IInv
  <2>5. \/ UNCHANGED response
        \/ \E error \in Errors :
             /\ Respond(answer, error)
             /\ error = "TOO_LATE_TO_MODIFY_OR_CANCEL" =>
                  /\ answer.result \in TooLate
                  /\ ~ (/\ encoder = "json" /\ answer.type = "order.cancel"
                        /\ answer.result = "CANCEL_REJECTED"
                        /\ answer.about \in confirmed /\ answer.about \in young)
    BY <1>1, AckEffect DEF IInv
  <2>6. answer.result \in Success => ReportInv(answer.report)
    BY <2>1 DEF AnswerInv, ReportInv
  <2>7. \A o \in Orders : o \in confirmed' => o \in confirmed \/ exchange[o].status # None
    BY <2>1, <2>4 DEF AnswerInv
  <2>8. ASSUME NEW o \in Orders, response'[o] # response[o],
               response'[o].error = "TOO_LATE_TO_MODIFY_OR_CANCEL",
               response'[o].confirmed,
               encoder = "json" \/ response'[o].type = "order.modify"
        PROVE  Done(o)
    <3>1. PICK error \in Errors :
            /\ Respond(answer, error)
            /\ error = "TOO_LATE_TO_MODIFY_OR_CANCEL" =>
                 /\ answer.result \in TooLate
                 /\ ~ (/\ encoder = "json" /\ answer.type = "order.cancel"
                       /\ answer.result = "CANCEL_REJECTED"
                       /\ answer.about \in confirmed /\ answer.about \in young)
      BY <2>5, <2>8
    <3>2. DOMAIN response = Orders
      BY DEF IInv, TypeInv, TypeOK
    <3>3. /\ o = answer.about /\ error = "TOO_LATE_TO_MODIFY_OR_CANCEL"
          /\ answer.confirmed
          /\ encoder = "json" \/ answer.type = "order.modify"
      BY <2>2, <2>8, <3>1, <3>2 DEF Respond
    <3> QED
      BY <2>1, <3>1, <3>3 DEF AnswerInv
  <2> QED
    BY <2>2, <2>3, <2>4, <2>6, <2>7, <2>8, TakesInvariant
<1>2. ASSUME NEW report \in reports, OrderTradeUpdate(report)
      PROVE  IInv'
  <2>1. report \in Reports /\ Takes(report) /\ ReportInv(report)
    BY <1>2 DEF OrderTradeUpdate, Takes, IInv, TypeInv, TypeOK
  <2>2. /\ reports' \subseteq reports
        /\ UNCHANGED <<settings, requests, sent, market, answers, confirmed, response, history>>
    BY <1>2 DEF OrderTradeUpdate
  <2> QED
    BY <2>1, <2>2, TakesInvariant
<1> QED
  BY <1>1, <1>2 DEF ServerNext


LEMMA Invariant == Spec => []IInv
<1>1. ASSUME TypeInv, Init
      PROVE  IInv
  BY <1>1, InitInv, OrderTermsAssumption
<1>2. ASSUME TypeInv, TypeInv', [Next]_vars, IInv
      PROVE  IInv'
  <2>1. CASE UNCHANGED vars
    <3>1. UNCHANGED <<settings, requests, sent, market, answers, reports, client, history>>
      BY <2>1 DEF vars
    <3>2. ASSUME NEW o \in Orders
          PROVE  ExchangeInv(o)' /\ ClientInv(o)'
      <4>1. ExchangeInv(o) /\ ClientInv(o)
        BY <1>2 DEF IInv
      <4> QED
        BY <3>1, <4>1 DEF ExchangeInv, ClientInv, Agrees, Done, settings, market, client, history
    <3>3. /\ \A r \in sent' : SentInv(r)'
          /\ PlacedOnce'
      BY <1>2, <3>1 DEF IInv, SentInv, PlaceInv, NamedInv, EncodedInv, PlacedOnce, settings, market, client
    <3>4. /\ \A report \in reports' : ReportInv(report)'
          /\ \A answer \in answers' : AnswerInv(answer)'
      BY <1>2, <3>1 DEF IInv, ReportInv, AnswerInv, Agrees, Done, market, client
    <3> QED
      BY <1>2, <3>2, <3>3, <3>4 DEF IInv
  <2>2. CASE ClientNext
    BY <1>2, <2>2, OrderTermsAssumption, CreateInvariant, ModifyOrderInvariant, CancelOrderInvariant
    DEF ClientNext
  <2>3. CASE ExchangeNext
    BY <1>2, <2>3, OrderTermsAssumption, ExchangeInvariant
  <2>4. CASE ServerNext
    BY <1>2, <2>4, OrderTermsAssumption, ServerInvariant
  <2> QED
    BY <1>2, <2>1, <2>2, <2>3, <2>4 DEF Next
<1> QED
  BY <1>1, <1>2, TypeInvariant, PTL DEF Spec

(* The map of the time in force keeps what the client means. *)
LEMMA TimeInForceMeansTheForm ==
  ASSUME NEW f \in Forms, ~Contradictory(f),
         TimeInForceOf(f) \in {"GTC", "IOC", "FOK", "GTX", "RPI"}
  PROVE  /\ Meaning(TimeInForceOf(f)) = Meant(f)
         /\ ~f.rpi => MappedTimeInForce(TimeInForceOf(f)) = TimeInForceOf(f)
<1>1. f.time_in_force \in TimesInForce /\ f.post_only \in BOOLEAN /\ f.rpi \in BOOLEAN
  BY DEF Forms
<1>2. CASE f.rpi
  <2>1. TimeInForceOf(f) = "RPI"
    BY <1>2 DEF TimeInForceOf
  <2> QED
    BY <1>2, <2>1 DEF Meaning, Meant
<1>3. CASE ~f.rpi /\ f.time_in_force = "GTC" /\ f.post_only
  <2>1. TimeInForceOf(f) = "GTX"
    BY <1>3 DEF TimeInForceOf
  <2> QED
    BY <1>3, <2>1 DEF Meaning, Meant, MappedTimeInForce
<1>4. CASE ~f.rpi /\ ~(f.time_in_force = "GTC" /\ f.post_only)
  <2>1. TimeInForceOf(f) = f.time_in_force /\ f.time_in_force \in {"GTC", "IOC", "FOK", "GTX"}
    BY <1>1, <1>4 DEF TimeInForceOf, TimesInForce
  <2>2. f.time_in_force = "GTX" \/ f.post_only = FALSE
    BY <1>1, <1>4, <2>1 DEF Contradictory
  <2> QED
    BY <1>1, <1>4, <2>1, <2>2 DEF Meaning, Meant, MappedTimeInForce
<1> QED
  BY <1>2, <1>3, <1>4

-----------------------------------------------------------------------------
(* Theorems *)

(* All variables of OrderTerms keep their types. *)
THEOREM TypeCorrect == Spec => []TypeOK
<1>1. TypeInv => TypeOK
  BY DEF TypeInv
<1> QED
  BY <1>1, TypeInvariant, PTL

(* OrderIsAsAsked holds for all orders, forms and encoders: whatever the   *)
(* encoder and the order in which answers and events arrive, the order at  *)
(* the exchange is the one asked for, unless a modify was encoded from an  *)
(* out-of-date copy.                                                       *)
THEOREM OrderIsAsAskedSafe == Spec => []OrderIsAsAsked
<1>1. IInv => OrderIsAsAsked
  <2> SUFFICES ASSUME IInv, NEW o \in Orders, exchange[o].status # None
               PROVE  /\ exchange[o].side = form[o].side
                      /\ exchange[o].order_type = form[o].order_type
                      /\ exchange[o].reduce_only = form[o].reduce_only
                      /\ exchange[o].order_type = "LIMIT" /\ ~Contradictory(form[o]) =>
                           Meaning(exchange[o].time_in_force) = Meant(form[o])
                      /\ o \notin outdated =>
                           exchange[o].price = intent[o].price /\ exchange[o].quantity = intent[o].quantity
    BY DEF OrderIsAsAsked
  <2>1. /\ ExchangeInv(o) /\ form[o] \in Forms
        /\ exchange[o].time_in_force \in {"GTC", "IOC", "FOK", "GTX", "RPI"}
    BY DEF IInv, TypeInv, TypeOK
  <2> QED
    BY <2>1, TimeInForceMeansTheForm DEF ExchangeInv
<1> QED
  BY <1>1, Invariant, PTL

(* ReportedAsAsked: the OrderUpdates tell the client the terms it asked    *)
(* for, after both maps.                                                   *)
THEOREM ReportedAsAskedSafe == Spec => []ReportedAsAsked
<1>1. IInv => ReportedAsAsked
  <2> SUFFICES ASSUME IInv, NEW o \in Orders, reported[o].known
               PROVE  /\ reported[o].side = form[o].side
                      /\ reported[o].order_type = form[o].order_type
                      /\ form[o].order_type = "LIMIT" /\ ~Contradictory(form[o]) /\ ~form[o].rpi =>
                           Meaning(reported[o].time_in_force) = Meant(form[o])
    BY DEF ReportedAsAsked
  <2>1. /\ ExchangeInv(o) /\ ClientInv(o) /\ form[o] \in Forms
        /\ exchange[o].time_in_force \in {"GTC", "IOC", "FOK", "GTX", "RPI"}
    BY DEF IInv, TypeInv, TypeOK
  <2>2. form[o].order_type = "LIMIT" =>
          TimeInForceOf(form[o]) \in {"GTC", "IOC", "FOK", "GTX", "RPI"}
    BY <2>1 DEF ExchangeInv, ClientInv
  <2> QED
    BY <2>1, <2>2, TimeInForceMeansTheForm DEF ClientInv
<1> QED
  BY <1>1, Invariant, PTL

(* TooLateIsTrue: with the fix of the -2011 bug a confirmed order is said  *)
(* to be done only when it is.                                             *)
THEOREM TooLateIsTrueSafe == Spec => []TooLateIsTrue
<1>1. IInv => TooLateIsTrue
  BY DEF IInv, ClientInv, TooLateIsTrue, Done
<1> QED
  BY <1>1, Invariant, PTL

=============================================================================
