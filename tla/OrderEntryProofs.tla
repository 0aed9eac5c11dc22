---------------------------- MODULE OrderEntryProofs ----------------------------
(***************************************************************************)
(* Proofs about OrderEntry, for any orders, symbols, settings and bounds.  *)
(***************************************************************************)
EXTENDS OrderEntry, TLAPS

-----------------------------------------------------------------------------
(* Type correctness *)

(* The connections of the module are connections of the account. *)
LEMMA ConnectionsType == OrderEntry \in Connections /\ DownloadVia \in Connections
BY DEF Connections, DownloadVia

(* A request that is sent is an order request. *)
LEMMA SendType ==
  ASSUME TypeOK, NEW type \in Types, NEW o \in Orders, Send(type, o)
  PROVE  /\ version' \in [Orders -> 0..MaxVersion]
         /\ Request(type, o) \in OrderRequests
         /\ sent' = sent \union {Request(type, o)}
         /\ awaiting' = awaiting \union {Request(type, o)}
<1>1. version' = [version EXCEPT ![o] = @ + 1] /\ version[o] < MaxVersion /\ version[o] \in 0..MaxVersion
  BY DEF Send, TypeOK
<1>2. version[o] + 1 \in 1..MaxVersion
  BY <1>1, OrderEntryAssumption
<1>3. version' \in [Orders -> 0..MaxVersion] /\ version'[o] \in 1..MaxVersion
  BY <1>1, <1>2 DEF TypeOK
<1> QED
  BY <1>3 DEF Send, Request, OrderRequests

(* The requests of a cancel-all are requests. *)
LEMMA CancelAllType ==
  ASSUME TypeOK, NEW scope \in SUBSET Symbols, calls < MaxCalls,
         NEW r \in [type : {"CANCEL_ALL"}, about : {s \in scope : Covered(s)}, version : {calls + 1}]
  PROVE  r \in CancelAlls
<1>1. calls + 1 \in 1..MaxCalls
  BY OrderEntryAssumption DEF TypeOK
<1> QED
  BY <1>1 DEF CancelAlls

(* A response is well typed. *)
LEMMA RespondType ==
  ASSUME TypeOK, NEW r \in Requests,
         NEW status \in {"FORWARDED", "ACCEPTED", "REJECTED", "TOO_LATE", "FAILED"},
         Respond(r, status)
  PROVE  responses' \subseteq Responses
BY DEF Respond, Responses, TypeOK

(* The status of an answer is one of the statuses; ACCEPTED is none of a    *)
(* refusal, TOO_LATE is one of an order that is done or not known.          *)
LEMMA StatusType ==
  ASSUME NEW type, NEW result, NEW status \in Status(type, result)
  PROVE  /\ status \in {"ACCEPTED", "REJECTED", "TOO_LATE"}
         /\ status = "ACCEPTED" =>
              /\ result \notin Refusals
              /\ type = "MODIFY_ORDER" => result \notin Done
              /\ type = "CANCEL_ORDER" => result # "FILLED"
         /\ status = "TOO_LATE" =>
              \/ result = "unknown"
              \/ type # "CANCEL_ALL" /\ result \in Done
BY DEF Status, GuessError, Done

(* A failed request leaves the orders to cancel well typed. *)
LEMMA ExcuseType ==
  ASSUME TypeOK, NEW r \in Requests, Excuse(r)
  PROVE  cancelling' \in [1..MaxCalls -> SUBSET Orders]
BY DEF Excuse, TypeOK

(* A failure is answered with one of the statuses, or only logged. *)
LEMMA HandleErrorType ==
  ASSUME TypeOK, NEW r \in Requests, NEW status \in Failures(r), HandleError(r, status)
  PROVE  status \in {"REJECTED", "FAILED"} /\ responses' \subseteq Responses
<1>1. status \in {"REJECTED", "FAILED"}
  BY DEF Failures
<1>2. CASE r.type = "CANCEL_ALL"
  BY <1>1, <1>2 DEF HandleError, TypeOK
<1>3. CASE r.type # "CANCEL_ALL"
  BY <1>1, <1>3, RespondType DEF HandleError
<1> QED
  BY <1>1, <1>2, <1>3

(* An order gets one of the statuses of the exchange. *)
LEMMA AfterType ==
  ASSUME TypeOK, NEW r \in Requests, NEW result \in Results(r)
  PROVE  /\ result \in Open \union Done \union {"ok"} \union Refusals
         /\ After(r, result) \in [Orders -> {"none"} \union Open \union Done]
<1>1. CASE r \in OrderRequests
  <2>1. r.type \in Types /\ r.about \in Orders /\ exchange[r.about] \in {"none"} \union Open \union Done
    BY <1>1 DEF OrderRequests, TypeOK
  <2>2. result \in Open \union Done \union Refusals
    BY <2>1 DEF Results, Types, IsOpen, Open, Done, Refusals
  <2> QED
    BY <2>1, <2>2 DEF After, TypeOK, Open, Done, Refusals
<1>2. CASE r \in CancelAlls
  <2>1. result \in {"ok", "error"}
    BY <1>2 DEF CancelAlls, Results
  <2> QED
    BY <2>1 DEF After, TypeOK, Done, Refusals
<1> QED
  BY <1>1, <1>2 DEF Requests

(* The initial state is well typed. *)
LEMMA InitTypeOK == Init => TypeOK
<1> SUFFICES ASSUME Init
             PROVE  TypeOK
    OBVIOUS
<1>1. symbols \in [Connections -> SUBSET Symbols]
  BY DEF Init
<1>2. version \in [Orders -> 0..MaxVersion] /\ calls \in 0..MaxCalls
  BY OrderEntryAssumption DEF Init
<1>3. faults \in 0..MaxFaults /\ restarts \in 0..MaxRestarts
  BY OrderEntryAssumption DEF Init
<1>4. snapshot \in [status : {"none", "sent", "answered"}, open : SUBSET Orders]
  BY DEF Init, Idle
<1>5. /\ exchange \in [Orders -> {"none"} \union Open \union Done]
      /\ cancelling \in [1..MaxCalls -> SUBSET Orders]
  BY DEF Init
<1> QED
  BY <1>1, <1>2, <1>3, <1>4, <1>5 DEF Init, TypeOK

(* Every request, answer and event leaves the state well typed. *)
LEMMA NextTypeOK == TypeOK /\ [Next]_vars => TypeOK'
<1> SUFFICES ASSUME TypeOK, [Next]_vars
             PROVE  TypeOK'
    OBVIOUS
<1> USE DEF TypeOK
<1>1. ASSUME NEW o \in Orders, CreateOrder(o)
      PROVE  TypeOK'
  <2>1. SymbolOf[o] \in Symbols
    BY OrderEntryAssumption
  <2>2. symbols' \in [Connections -> SUBSET Symbols]
    BY <1>1, <2>1, ConnectionsType DEF CreateOrder
  <2>3. Send("CREATE_ORDER", o)
    BY <1>1 DEF CreateOrder
  <2>4. /\ version' \in [Orders -> 0..MaxVersion]
        /\ sent' \subseteq Requests
        /\ awaiting' \subseteq Requests
    BY <2>3, SendType DEF Types, Requests
  <2> QED
    BY <1>1, <2>2, <2>4 DEF CreateOrder, history
<1>2. ASSUME NEW o \in Orders, NEW type \in {"MODIFY_ORDER", "CANCEL_ORDER"}, ChangeOrder(type, o)
      PROVE  TypeOK'
  <2>1. Send(type, o)
    BY <1>2 DEF ChangeOrder
  <2>2. /\ version' \in [Orders -> 0..MaxVersion]
        /\ sent' \subseteq Requests
        /\ awaiting' \subseteq Requests
    BY <2>1, SendType DEF Types, Requests
  <2> QED
    BY <1>2, <2>2 DEF ChangeOrder, history
<1>3. ASSUME NEW scope \in SUBSET Symbols, CancelAllOrders(scope)
      PROVE  TypeOK'
  <2> DEFINE requests == [type : {"CANCEL_ALL"}, about : {s \in scope : Covered(s)}, version : {calls + 1}]
  <2>1. /\ calls < MaxCalls
        /\ calls' = calls + 1
        /\ sent' = sent \union requests
        /\ awaiting' = awaiting \union requests
        /\ responses' = responses \union [request : requests, status : {Forward}]
        /\ cancelling' = [cancelling EXCEPT ![calls + 1] =
             IF downloaded THEN {o \in Orders \ orphans : IsOpen(o) /\ SymbolOf[o] \in scope} ELSE {}]
        /\ UNCHANGED <<ready, symbols, snapshot, version, answers, exchange, executed, downloaded,
                       orphans, faults, restarts>>
    BY <1>3 DEF CancelAllOrders
  <2>2. requests \subseteq Requests
    BY <2>1, CancelAllType DEF Requests
  <2> HIDE DEF requests
  <2>3. calls' \in 0..MaxCalls
    BY <2>1, OrderEntryAssumption
  <2>4. responses' \subseteq Responses
    BY <2>1, <2>2 DEF Responses, Forward
  <2>5. cancelling' \in [1..MaxCalls -> SUBSET Orders]
    BY <2>1
  <2>6. sent' \subseteq Requests /\ awaiting' \subseteq Requests
    BY <2>1, <2>2
  <2> QED
    BY <2>1, <2>3, <2>4, <2>5, <2>6
<1>4. ASSUME NEW answer \in answers, Receive(answer)
      PROVE  TypeOK'
  <2>1. answer.request \in Requests
    BY DEF Outcomes
  <2>2. responses' \subseteq Responses
    <3>1. PICK status \in Status(answer.request.type, answer.result) : Respond(answer.request, status)
      BY <1>4 DEF Receive
    <3>2. status \in {"ACCEPTED", "REJECTED", "TOO_LATE"}
      BY StatusType
    <3> QED
      BY <2>1, <3>1, <3>2, RespondType
  <2> QED
    BY <1>4, <2>2 DEF Receive
<1>5. ASSUME NEW r \in awaiting, NEW status \in Failures(r), Fail(r, status)
      PROVE  TypeOK'
  <2>1. responses' \subseteq Responses
    BY <1>5, HandleErrorType DEF Fail
  <2>2. cancelling' \in [1..MaxCalls -> SUBSET Orders]
    BY <1>5, ExcuseType DEF Fail
  <2>3. faults' \in 0..MaxFaults
    BY <1>5, OrderEntryAssumption DEF Fail, Fault
  <2> QED
    BY <1>5, <2>1, <2>2, <2>3 DEF Fail
<1>6. CASE GetOpenOrders
  BY <1>6 DEF GetOpenOrders, Idle, history
<1>7. CASE OpenOrdersAck
  <2>1. {SymbolOf[o] : o \in snapshot.open} \subseteq Symbols
    BY OrderEntryAssumption
  <2>2. symbols' \in [Connections -> SUBSET Symbols]
    BY <1>7, <2>1, ConnectionsType DEF OpenOrdersAck
  <2> QED
    BY <1>7, <2>2 DEF OpenOrdersAck, Idle
<1>8. CASE OpenOrdersFailed
  BY <1>8, OrderEntryAssumption DEF OpenOrdersFailed, Fault, Idle, history
<1>9. CASE Connected
  BY <1>9 DEF Connected, history
<1>10. CASE Disconnected
  <2>1. awaiting' \subseteq Requests /\ answers' \subseteq Outcomes
    BY <1>10 DEF Disconnected
  <2>2. faults' \in 0..MaxFaults
    BY <1>10, OrderEntryAssumption DEF Disconnected, Fault
  <2> QED
    BY <1>10, <2>1, <2>2 DEF Disconnected, history
<1>11. CASE Restart
  <2>1. {r.about : r \in {c \in sent : c.type = "CREATE_ORDER"}} \subseteq Orders
    BY DEF Requests, OrderRequests, CancelAlls
  <2>2. orphans' \subseteq Orders
    BY <1>11, <2>1 DEF Restart
  <2>3. symbols' \in [Connections -> SUBSET Symbols]
    BY <1>11 DEF Restart
  <2>4. restarts' \in 0..MaxRestarts
    BY <1>11, OrderEntryAssumption DEF Restart
  <2>5. snapshot' \in [status : {"none", "sent", "answered"}, open : SUBSET Orders]
    BY <1>11 DEF Restart, Idle
  <2> QED
    BY <1>11, <2>2, <2>3, <2>4, <2>5 DEF Restart
<1>12. ASSUME NEW r \in sent, NEW result \in Results(r), Execute(r, result)
       PROVE  TypeOK'
  <2>1. r \in Requests
    OBVIOUS
  <2>2. [request |-> r, result |-> result] \in Outcomes
    BY <2>1, AfterType DEF Outcomes
  <2>3. exchange' \in [Orders -> {"none"} \union Open \union Done]
    BY <1>12, <2>1, AfterType DEF Execute
  <2>4. cancelling' \in [1..MaxCalls -> SUBSET Orders]
    BY <1>12, ExcuseType DEF Execute
  <2> QED
    BY <1>12, <2>2, <2>3, <2>4 DEF Execute, gateway
<1>13. ASSUME NEW r \in sent, Lose(r)
       PROVE  TypeOK'
  <2>1. cancelling' \in [1..MaxCalls -> SUBSET Orders]
    BY <1>13, ExcuseType DEF Lose
  <2> QED
    BY <1>13, <2>1, OrderEntryAssumption DEF Lose, Fault, gateway
<1>14. ASSUME NEW o \in Orders, NEW status \in {"PARTIALLY_FILLED"} \union Done, Trade(o, status)
       PROVE  TypeOK'
  BY <1>14 DEF Trade, Open, gateway, history
<1>15. CASE AnswerOpenOrders
  BY <1>15 DEF AnswerOpenOrders, history
<1>16. CASE UNCHANGED vars
  BY <1>16 DEF vars, gateway, history
<1> QED
  <2>1. CASE ClientNext
    <3>1. \A scope \in {Symbols} \union {{s} : s \in Symbols} : scope \in SUBSET Symbols
      OBVIOUS
    <3> QED
      BY <2>1, <3>1, <1>1, <1>2, <1>3 DEF ClientNext
  <2>2. CASE ConnectionNext
    BY <2>2, <1>4, <1>5, <1>6, <1>7, <1>8, <1>9, <1>10, <1>11 DEF ConnectionNext
  <2>3. CASE ExchangeNext
    BY <2>3, <1>12, <1>13, <1>14, <1>15 DEF ExchangeNext
  <2> QED
    BY <2>1, <2>2, <2>3, <1>16 DEF Next

(* The type invariant holds throughout. *)
THEOREM TypeCorrect == Spec => []TypeOK
<1>1. Init => TypeOK
  BY InitTypeOK
<1>2. TypeOK /\ [Next]_vars => TypeOK'
  BY NextTypeOK
<1> QED
  BY <1>1, <1>2, PTL DEF Spec

-----------------------------------------------------------------------------
(* The steps by their effect *)

(* Every step but an execution and the arrival of an answer: no outcome and *)
(* no answer is added, no response that depends on one, and an order        *)
(* changes only while it is open.                                           *)
Quiet ==
  /\ executed' = executed
  /\ answers' \subseteq answers
  /\ \A response \in responses' : response \in responses \/ response.status \in {"FORWARDED", "REJECTED", "FAILED"}
  /\ \A o \in Orders : exchange'[o] = exchange[o] \/ IsOpen(o)
  /\ \A o \in Orders : exchange'[o] = exchange[o] \/ exchange'[o] # "none"

(* A step executes a request, delivers an answer, or is quiet. *)
LEMMA StepEffect ==
  ASSUME TypeOK, [Next]_vars
  PROVE  \/ \E r \in sent : \E result \in Results(r) : Execute(r, result)
         \/ \E answer \in answers : Receive(answer)
         \/ Quiet
<1> USE DEF Quiet
<1>1. ASSUME NEW o \in Orders, CreateOrder(o)
      PROVE  Quiet
  BY <1>1 DEF CreateOrder, history
<1>2. ASSUME NEW o \in Orders, NEW type \in {"MODIFY_ORDER", "CANCEL_ORDER"}, ChangeOrder(type, o)
      PROVE  Quiet
  BY <1>2 DEF ChangeOrder, history
<1>3. ASSUME NEW scope, CancelAllOrders(scope)
      PROVE  Quiet
  BY <1>3 DEF CancelAllOrders, Forward
<1>4. ASSUME NEW r \in awaiting, NEW status \in Failures(r), Fail(r, status)
      PROVE  Quiet
  BY <1>4 DEF Fail, HandleError, Respond, Failures
<1>5. CASE GetOpenOrders \/ OpenOrdersAck \/ OpenOrdersFailed
  BY <1>5 DEF GetOpenOrders, OpenOrdersAck, OpenOrdersFailed, history
<1>6. CASE Connected \/ Disconnected \/ Restart
  BY <1>6 DEF Connected, Disconnected, Restart, history
<1>7. ASSUME NEW r \in sent, Lose(r)
      PROVE  Quiet
  BY <1>7 DEF Lose, gateway
<1>8. ASSUME NEW o \in Orders, NEW status \in {"PARTIALLY_FILLED"} \union Done, Trade(o, status)
      PROVE  Quiet
  BY <1>8 DEF Trade, history, TypeOK, Done
<1>9. CASE AnswerOpenOrders
  BY <1>9 DEF AnswerOpenOrders, history
<1>10. CASE UNCHANGED vars
  BY <1>10 DEF vars, history
<1> QED
  BY <1>1, <1>2, <1>3, <1>4, <1>5, <1>6, <1>7, <1>8, <1>9, <1>10
     DEF Next, ClientNext, ConnectionNext, ExchangeNext

(* What an execution does to the orders: a completed one stays completed,   *)
(* an order becomes open only by its creation, and none is forgotten.       *)
LEMMA ExecuteEffect ==
  ASSUME TypeOK, NEW r \in Requests, NEW result \in Results(r), Execute(r, result), NEW o \in Orders
  PROVE  /\ exchange[o] \in Done => exchange'[o] \in Done
         /\ IsOpen(o)' => IsOpen(o) \/ (r.type = "CREATE_ORDER" /\ r.about = o /\ exchange[o] = "none")
         /\ exchange[o] # "none" => exchange'[o] # "none"
         /\ r.type = "CANCEL_ALL" /\ SymbolOf[o] = r.about /\ result \notin Refusals => ~IsOpen(o)'
         /\ r.type # "CANCEL_ALL" /\ r.about = o /\ result \in Done => exchange'[o] \in Done
<1>1. exchange' = After(r, result)
  BY DEF Execute
<1>2. CASE r \in OrderRequests
  <2>1. r.type \in Types /\ r.about \in Orders
    BY <1>2 DEF OrderRequests
  <2>2. exchange[r.about] \in {"none"} \union Open \union Done
    BY <2>1 DEF TypeOK
  <2>3. CASE result \in Refusals
    BY <1>1, <2>1, <2>3 DEF After, IsOpen, Types, Done, Refusals
  <2>4. CASE result \notin Refusals
    <3>1. result # "ok"
      BY <2>1, <2>2 DEF Results, IsOpen, Types, Open, Done, Refusals
    <3>2. exchange' = [exchange EXCEPT ![r.about] = result]
      BY <1>1, <2>4, <3>1 DEF After
    <3>3. CASE r.about # o
      BY <3>2, <3>3, <2>1 DEF IsOpen, Types
    <3>4. CASE r.about = o
      <4>1. exchange'[o] = result
        BY <3>2, <3>4 DEF TypeOK
      <4> QED
        BY <4>1, <2>1, <2>2, <2>4, <3>4 DEF Results, IsOpen, Types, Open, Done, Refusals
    <3> QED
      BY <3>3, <3>4
  <2> QED
    BY <2>3, <2>4
<1>3. CASE r \in CancelAlls
  <2>1. r.type = "CANCEL_ALL" /\ result \in {"ok", "error"}
    BY <1>3 DEF CancelAlls, Results
  <2>2. CASE result = "ok"
    <3>1. exchange'[o] = IF IsOpen(o) /\ SymbolOf[o] = r.about THEN "CANCELED" ELSE exchange[o]
      BY <1>1, <2>2 DEF After, Refusals
    <3> QED
      BY <2>1, <2>2, <3>1 DEF IsOpen, Open, Done
  <2>3. CASE result = "error"
    BY <1>1, <2>1, <2>3 DEF After, IsOpen, Refusals
  <2> QED
    BY <2>1, <2>2, <2>3
<1> QED
  BY <1>2, <1>3 DEF Requests

-----------------------------------------------------------------------------
(* Accepted and too late *)

(* What a request may have resulted in. *)
WellFormed(outcome) ==
  /\ outcome.request.type = "CANCEL_ORDER" => outcome.result \in {"CANCELED", "FILLED"} \union Refusals
  /\ outcome.request.type = "CANCEL_ALL" => outcome.result \in {"ok", "error"}
  /\ outcome.request.type # "CANCEL_ALL" => outcome.result # "ok"

(* The exchange gives a request one of the results it may have. *)
LEMMA ResultsWellFormed ==
  ASSUME TypeOK, NEW r \in Requests, NEW result \in Results(r)
  PROVE  WellFormed([request |-> r, result |-> result])
<1>1. CASE r \in OrderRequests
  <2>1. r.type \in Types /\ exchange[r.about] \in {"none"} \union Open \union Done
    BY <1>1 DEF OrderRequests, TypeOK
  <2> QED
    BY <2>1 DEF WellFormed, Results, Types, IsOpen, Open, Done, Refusals
<1>2. CASE r \in CancelAlls
  BY <1>2 DEF CancelAlls, WellFormed, Results
<1> QED
  BY <1>1, <1>2 DEF Requests

(* Answers tell what was executed. *)
AnswersAreTrue ==
  /\ answers \subseteq executed
  /\ \A outcome \in executed : WellFormed(outcome)
  /\ AcceptedIsTrue

(* Every step keeps the answers and the accepted requests true. *)
LEMMA NextAnswersAreTrue == TypeOK /\ AnswersAreTrue /\ [Next]_vars => AnswersAreTrue'
<1> SUFFICES ASSUME TypeOK, AnswersAreTrue, [Next]_vars
             PROVE  AnswersAreTrue'
    OBVIOUS
<1>1. ASSUME NEW r \in sent, NEW result \in Results(r), Execute(r, result)
      PROVE  AnswersAreTrue'
  <2> DEFINE outcome == [request |-> r, result |-> result]
  <2>1. /\ executed' = executed \union {outcome}
        /\ answers' = IF r \in awaiting THEN answers \union {outcome} ELSE answers
        /\ responses' = responses
    BY <1>1 DEF Execute
  <2>2. WellFormed(outcome)
    BY ResultsWellFormed DEF TypeOK
  <2> QED
    BY <2>1, <2>2 DEF AnswersAreTrue, AcceptedIsTrue, WellFormed
<1>2. ASSUME NEW answer \in answers, Receive(answer)
      PROVE  AnswersAreTrue'
  <2> DEFINE r == answer.request
  <2>1. PICK status \in Status(r.type, answer.result) : Respond(r, status)
    BY <1>2 DEF Receive
  <2>2. /\ answers' \subseteq answers
        /\ executed' = executed
        /\ responses' \subseteq responses \union {[request |-> r, status |-> status]}
    BY <1>2, <2>1 DEF Receive, Respond
  <2>3. answer \in executed /\ WellFormed(answer)
    BY DEF AnswersAreTrue
  <2>4. status = "ACCEPTED" =>
          /\ answer.result \notin Refusals
          /\ r.type = "MODIFY_ORDER" => answer.result \notin Done
          /\ r.type = "CANCEL_ORDER" => answer.result # "FILLED"
    BY <2>1, StatusType
  <2>5. answer.result \in Open \union Done \union {"ok"} \union Refusals
    BY DEF TypeOK, Outcomes
  <2>6. r.type = "MODIFY_ORDER" => answer.result # "ok"
    BY <2>3 DEF WellFormed
  <2>7. status = "ACCEPTED" =>
          /\ answer.result \notin Refusals
          /\ r.type = "MODIFY_ORDER" => answer.result \in Open
          /\ r.type = "CANCEL_ORDER" => answer.result = "CANCELED"
    BY <2>3, <2>4, <2>5, <2>6 DEF WellFormed
  <2> QED
    BY <2>2, <2>3, <2>7 DEF AnswersAreTrue, AcceptedIsTrue
<1>3. CASE Quiet
  BY <1>3 DEF Quiet, AnswersAreTrue, AcceptedIsTrue, WellFormed
<1> QED
  BY <1>1, <1>2, <1>3, StepEffect

(* "Incorrect OrderAck from modify response when order was canceled (#603)": *)
(* what is reported as ACCEPTED was done by the exchange.                   *)
THEOREM AcceptedIsTrueSafe == Spec => []AcceptedIsTrue
<1>1. Init => AnswersAreTrue
  BY DEF Init, AnswersAreTrue, AcceptedIsTrue
<1>2. TypeOK /\ AnswersAreTrue /\ [Next]_vars => AnswersAreTrue'
  BY NextAnswersAreTrue
<1>3. AnswersAreTrue => AcceptedIsTrue
  BY DEF AnswersAreTrue
<1> QED
  BY <1>1, <1>2, <1>3, TypeCorrect, PTL DEF Spec

(* A request about an order names an order. *)
LEMMA OrderRequestType ==
  ASSUME NEW r \in Requests, r.type # "CANCEL_ALL"
  PROVE  r.about \in Orders /\ r.type \in Types
BY DEF Requests, OrderRequests, CancelAlls

(* An order that was found completed stays completed. *)
DoneIsDone ==
  /\ \A outcome \in executed :
       outcome.request.type # "CANCEL_ALL" /\ outcome.result \in Done
         => exchange[outcome.request.about] \in Done
  /\ \A response \in responses : response.status = "TOO_LATE" => response.request.type # "CANCEL_ALL"
  /\ TooLateMeansDoneOrUnknown

(* Every step leaves the completed orders completed. *)
LEMMA NextDoneIsDone == TypeOK /\ AnswersAreTrue /\ DoneIsDone /\ [Next]_vars => DoneIsDone'
<1> SUFFICES ASSUME TypeOK, AnswersAreTrue, DoneIsDone, [Next]_vars
             PROVE  DoneIsDone'
    OBVIOUS
<1>1. \A outcome \in executed : outcome.request \in Requests
  BY DEF TypeOK, Outcomes
<1>2. \A response \in responses : response.request \in Requests
  BY DEF TypeOK, Responses
<1>3. ASSUME NEW r \in sent, NEW result \in Results(r), Execute(r, result)
      PROVE  DoneIsDone'
  <2> DEFINE outcome == [request |-> r, result |-> result]
  <2>1. executed' = executed \union {outcome} /\ responses' = responses /\ r \in Requests
    BY <1>3 DEF Execute, TypeOK
  <2>2. \A o \in Orders : exchange[o] \in Done => exchange'[o] \in Done
    BY <1>3, <2>1, ExecuteEffect
  <2>3. r.type # "CANCEL_ALL" /\ result \in Done => exchange'[r.about] \in Done
    BY <1>3, <2>1, ExecuteEffect, OrderRequestType
  <2> QED
    BY <2>1, <2>2, <2>3, <1>1, <1>2, OrderRequestType DEF DoneIsDone, TooLateMeansDoneOrUnknown
<1>4. ASSUME NEW answer \in answers, Receive(answer)
      PROVE  DoneIsDone'
  <2> DEFINE r == answer.request
  <2>1. PICK status \in Status(r.type, answer.result) : Respond(r, status)
    BY <1>4 DEF Receive
  <2>2. /\ executed' = executed
        /\ exchange' = exchange
        /\ responses' \subseteq responses \union {[request |-> r, status |-> status]}
    BY <1>4, <2>1 DEF Receive, Respond
  <2>3. answer \in executed /\ WellFormed(answer)
    BY DEF AnswersAreTrue
  <2>4. status = "TOO_LATE" => answer.result = "unknown" \/ (r.type # "CANCEL_ALL" /\ answer.result \in Done)
    BY <2>1, StatusType
  <2>5. status = "TOO_LATE" => r.type # "CANCEL_ALL"
    BY <2>3, <2>4 DEF WellFormed
  <2>6. answer.result = "unknown" => [request |-> r, result |-> "unknown"] \in executed
    BY <2>3 DEF TypeOK, Outcomes
  <2>7. status = "TOO_LATE" =>
          exchange[r.about] \in Done \/ [request |-> r, result |-> "unknown"] \in executed
    BY <2>3, <2>4, <2>6 DEF DoneIsDone
  <2> QED
    BY <2>2, <2>5, <2>7 DEF DoneIsDone, TooLateMeansDoneOrUnknown
<1>5. CASE Quiet
  <2>1. \A o \in Orders : exchange[o] \in Done => exchange'[o] \in Done
    BY <1>5 DEF Quiet, IsOpen, Open, Done
  <2> QED
    BY <1>5, <2>1, <1>1, <1>2, OrderRequestType DEF Quiet, DoneIsDone, TooLateMeansDoneOrUnknown
<1> QED
  BY <1>3, <1>4, <1>5, StepEffect

(* TOO_LATE is reported only of an order that is not open any more, and     *)
(* never will be, or of one that the exchange, in its answer to this very   *)
(* request, said not to know (guess_error: -2011, -2013): no overlap of     *)
(* requests, answers and fills makes the gateway itself report it of an     *)
(* open order.                                                              *)
THEOREM TooLateMeansDoneOrUnknownSafe == Spec => []TooLateMeansDoneOrUnknown
<1>1. Init => AnswersAreTrue /\ DoneIsDone
  BY DEF Init, AnswersAreTrue, AcceptedIsTrue, DoneIsDone, TooLateMeansDoneOrUnknown
<1>2. TypeOK /\ AnswersAreTrue /\ [Next]_vars => AnswersAreTrue'
  BY NextAnswersAreTrue
<1>3. TypeOK /\ AnswersAreTrue /\ DoneIsDone /\ [Next]_vars => DoneIsDone'
  BY NextDoneIsDone
<1>4. DoneIsDone => TooLateMeansDoneOrUnknown
  BY DEF DoneIsDone
<1> QED
  BY <1>1, <1>2, <1>3, <1>4, TypeCorrect, PTL DEF Spec

-----------------------------------------------------------------------------
(* Cancel all *)

(* Every step but a CancelAllOrders: no cancel-all is sent and none has     *)
(* more orders to cancel.                                                   *)
NoNewCancelAll ==
  /\ calls' = calls
  /\ \A r \in sent' : r \in sent \/ r.type # "CANCEL_ALL"
  /\ \A n \in 1..MaxCalls : cancelling'[n] \subseteq cancelling[n]

(* A request of the client about an order is no cancel-all. *)
LEMMA SendSendsNoCancelAll ==
  ASSUME NEW type \in Types, NEW o \in Orders, Send(type, o)
  PROVE  \A r \in sent' : r \in sent \/ r.type # "CANCEL_ALL"
BY DEF Send, Request, Types

(* A step is a CancelAllOrders or adds nothing to cancel. *)
LEMMA CancelAllEffect ==
  ASSUME TypeOK, [Next]_vars
  PROVE  (\E scope \in SUBSET Symbols : CancelAllOrders(scope)) \/ NoNewCancelAll
<1> USE DEF NoNewCancelAll
<1>1. ASSUME NEW o \in Orders, CreateOrder(o)
      PROVE  NoNewCancelAll
  BY <1>1, SendSendsNoCancelAll DEF CreateOrder, history, Types
<1>2. ASSUME NEW o \in Orders, NEW type \in {"MODIFY_ORDER", "CANCEL_ORDER"}, ChangeOrder(type, o)
      PROVE  NoNewCancelAll
  BY <1>2, SendSendsNoCancelAll DEF ChangeOrder, history, Types
<1>3. \A scope \in {Symbols} \union {{s} : s \in Symbols} : scope \in SUBSET Symbols
  OBVIOUS
<1>4. ASSUME NEW answer \in answers, Receive(answer)
      PROVE  NoNewCancelAll
  BY <1>4 DEF Receive
<1>5. ASSUME NEW r \in Requests, Excuse(r)
      PROVE  \A n \in 1..MaxCalls : cancelling'[n] \subseteq cancelling[n]
  BY <1>5 DEF Excuse, TypeOK
<1>6. ASSUME NEW r \in awaiting, NEW status, Fail(r, status)
      PROVE  NoNewCancelAll
  BY <1>5, <1>6 DEF Fail, TypeOK
<1>7. CASE GetOpenOrders \/ OpenOrdersAck \/ OpenOrdersFailed
  BY <1>7 DEF GetOpenOrders, OpenOrdersAck, OpenOrdersFailed, history
<1>8. CASE Connected \/ Disconnected \/ Restart
  BY <1>8 DEF Connected, Disconnected, Restart, history
<1>9. ASSUME NEW r \in sent, NEW result, Execute(r, result)
      PROVE  NoNewCancelAll
  BY <1>5, <1>9 DEF Execute, TypeOK
<1>10. ASSUME NEW r \in sent, Lose(r)
       PROVE  NoNewCancelAll
  BY <1>5, <1>10 DEF Lose, TypeOK
<1>11. ASSUME NEW o, NEW status, Trade(o, status)
       PROVE  NoNewCancelAll
  BY <1>11 DEF Trade, history
<1>12. CASE AnswerOpenOrders
  BY <1>12 DEF AnswerOpenOrders, history
<1>13. CASE UNCHANGED vars
  BY <1>13 DEF vars, history
<1> QED
  BY <1>1, <1>2, <1>3, <1>4, <1>6, <1>7, <1>8, <1>9, <1>10, <1>11, <1>12, <1>13
     DEF Next, ClientNext, ConnectionNext, ExchangeNext

(* The orders a cancel-all has to cancel exist, and once it was executed,   *)
(* not refused, those of its symbol are not open any more.                  *)
CancelsAreDone ==
  /\ \A r \in sent : r.type = "CANCEL_ALL" => r.version <= calls
  /\ \A n \in 1..MaxCalls : \A o \in cancelling[n] : exchange[o] # "none"
  /\ \A outcome \in executed :
       outcome.request.type = "CANCEL_ALL" /\ outcome.result \notin Refusals =>
         /\ outcome.request.version <= calls
         /\ \A o \in cancelling[outcome.request.version] :
              SymbolOf[o] = outcome.request.about => ~IsOpen(o)

(* A cancel-all is one of the calls. *)
LEMMA CancelAllRequestType ==
  ASSUME NEW r \in Requests, r.type = "CANCEL_ALL"
  PROVE  r.version \in 1..MaxCalls /\ r.about \in Symbols
BY DEF Requests, OrderRequests, CancelAlls, Types

(* Every step keeps the orders of the executed cancel-alls canceled. *)
LEMMA NextCancelsAreDone == TypeOK /\ CancelsAreDone /\ [Next]_vars => CancelsAreDone'
<1> SUFFICES ASSUME TypeOK, CancelsAreDone, [Next]_vars
             PROVE  CancelsAreDone'
    OBVIOUS
<1>1. \A outcome \in executed : outcome.request \in Requests
  BY DEF TypeOK, Outcomes
<1>2. \A n \in 1..MaxCalls : cancelling[n] \subseteq Orders
  BY DEF TypeOK
<1>3. calls \in Nat
  BY OrderEntryAssumption DEF TypeOK
<1>4. ASSUME NEW scope \in SUBSET Symbols, CancelAllOrders(scope)
      PROVE  CancelsAreDone'
  <2>1. /\ calls' = calls + 1 /\ executed' = executed /\ exchange' = exchange
        /\ \A r \in sent' : r \in sent \/ r.version = calls + 1
        /\ \A n \in 1..MaxCalls : n # calls + 1 => cancelling'[n] = cancelling[n]
        /\ \A o \in cancelling'[calls + 1] : IsOpen(o)
    <3>1. calls + 1 \in 1..MaxCalls
      BY <1>3, <1>4, OrderEntryAssumption DEF CancelAllOrders, TypeOK
    <3> QED
      BY <1>4, <3>1 DEF CancelAllOrders, TypeOK
  <2>2. \A r \in sent' : r.type = "CANCEL_ALL" => r.version <= calls'
    <3>1. \A r \in sent : r.type = "CANCEL_ALL" => r.version \in Nat
      BY CancelAllRequestType DEF TypeOK
    <3> QED
      BY <1>3, <2>1, <3>1 DEF CancelsAreDone
  <2>3. \A n \in 1..MaxCalls : \A o \in cancelling'[n] : exchange'[o] # "none"
    BY <2>1 DEF CancelsAreDone, IsOpen, Open
  <2>4. ASSUME NEW outcome \in executed', outcome.request.type = "CANCEL_ALL", outcome.result \notin Refusals
        PROVE  /\ outcome.request.version <= calls'
               /\ \A o \in cancelling'[outcome.request.version] :
                    SymbolOf[o] = outcome.request.about => ~IsOpen(o)'
    <3>1. outcome.request.version \in 1..MaxCalls /\ outcome.request.version <= calls
      BY <1>1, <2>1, <2>4, CancelAllRequestType DEF CancelsAreDone
    <3>2. cancelling'[outcome.request.version] = cancelling[outcome.request.version]
      BY <1>3, <2>1, <3>1
    <3> QED
      BY <1>3, <2>1, <2>4, <3>1, <3>2 DEF CancelsAreDone, IsOpen
  <2> QED
    BY <2>2, <2>3, <2>4 DEF CancelsAreDone
<1>5. ASSUME NoNewCancelAll, NEW r \in sent, NEW result \in Results(r), Execute(r, result)
      PROVE  CancelsAreDone'
  <2> DEFINE this == [request |-> r, result |-> result]
  <2>1. executed' = executed \union {this} /\ r \in Requests
    BY <1>5 DEF Execute, TypeOK
  <2>2. ASSUME NEW n \in 1..MaxCalls, NEW o \in cancelling'[n]
        PROVE  /\ o \in Orders /\ o \in cancelling[n] /\ exchange[o] # "none" /\ exchange'[o] # "none"
               /\ ~IsOpen(o) => ~IsOpen(o)'
               /\ r.type = "CANCEL_ALL" /\ SymbolOf[o] = r.about /\ result \notin Refusals => ~IsOpen(o)'
    <3>1. o \in Orders /\ o \in cancelling[n] /\ exchange[o] # "none"
      BY <1>2, <1>5, <2>2 DEF NoNewCancelAll, CancelsAreDone
    <3> QED
      BY <1>5, <2>1, <3>1, ExecuteEffect
  <2>3. r.type = "CANCEL_ALL" => r.version <= calls /\ r.version \in 1..MaxCalls
    BY <2>1, CancelAllRequestType DEF CancelsAreDone
  <2>4. ASSUME NEW outcome \in executed', outcome.request.type = "CANCEL_ALL", outcome.result \notin Refusals
        PROVE  /\ outcome.request.version <= calls'
               /\ \A o \in cancelling'[outcome.request.version] :
                    SymbolOf[o] = outcome.request.about => ~IsOpen(o)'
    <3>1. CASE outcome = this
      BY <1>5, <2>2, <2>3, <2>4, <3>1 DEF NoNewCancelAll
    <3>2. CASE outcome \in executed
      <4>1. outcome.request.version \in 1..MaxCalls
        BY <1>1, <2>4, <3>2, CancelAllRequestType
      <4> QED
        BY <1>5, <2>2, <2>4, <3>2, <4>1 DEF NoNewCancelAll, CancelsAreDone
    <3> QED
      BY <2>1, <2>4, <3>1, <3>2
  <2>5. \A c \in sent' : c.type = "CANCEL_ALL" => c.version <= calls'
    BY <1>5 DEF NoNewCancelAll, CancelsAreDone
  <2>6. \A n \in 1..MaxCalls : \A o \in cancelling'[n] : exchange'[o] # "none"
    BY <2>2
  <2> QED
    BY <2>4, <2>5, <2>6 DEF CancelsAreDone
<1>6. ASSUME NoNewCancelAll, executed' = executed,
             \A o \in Orders : exchange'[o] = exchange[o] \/ (IsOpen(o) /\ exchange'[o] # "none")
      PROVE  CancelsAreDone'
  <2>1. ASSUME NEW n \in 1..MaxCalls, NEW o \in cancelling'[n]
        PROVE  o \in cancelling[n] /\ exchange'[o] # "none" /\ (~IsOpen(o) => ~IsOpen(o)')
    <3>1. o \in Orders /\ o \in cancelling[n] /\ exchange[o] # "none"
      BY <1>2, <1>6, <2>1 DEF NoNewCancelAll, CancelsAreDone
    <3> QED
      BY <1>6, <3>1 DEF IsOpen
  <2>2. \A outcome \in executed :
          outcome.request.type = "CANCEL_ALL" => outcome.request.version \in 1..MaxCalls
    BY <1>1, CancelAllRequestType
  <2> QED
    BY <1>6, <2>1, <2>2 DEF NoNewCancelAll, CancelsAreDone
<1>7. ASSUME NEW answer \in answers, Receive(answer)
      PROVE  executed' = executed /\ exchange' = exchange
  BY <1>7 DEF Receive
<1> QED
  BY <1>4, <1>5, <1>6, <1>7, StepEffect, CancelAllEffect DEF Quiet

(* A cancel-all reported as ACCEPTED for a symbol leaves no order of the    *)
(* symbol open that was open at the call.                                   *)
THEOREM AcceptedCancelAllIsDoneSafe == Spec => []AcceptedCancelAllIsDone
<1>1. Init => CancelsAreDone
  BY DEF Init, CancelsAreDone
<1>2. TypeOK /\ CancelsAreDone /\ [Next]_vars => CancelsAreDone'
  BY NextCancelsAreDone
<1>3. AcceptedIsTrue /\ CancelsAreDone => AcceptedCancelAllIsDone
  BY DEF AcceptedIsTrue, CancelsAreDone, AcceptedCancelAllIsDone
<1> QED
  BY <1>1, <1>2, <1>3, TypeCorrect, AcceptedIsTrueSafe, PTL DEF Spec

-----------------------------------------------------------------------------
(* The reach of cancel all *)

(* Without ws_api the connection of the orders downloads the open orders    *)
(* and cancels them all.                                                    *)
LEMMA OneConnection ==
  ASSUME WsApi = FALSE
  PROVE  CancelAllVia = OrderEntry /\ DownloadVia = OrderEntry /\ OrderEntry \in Connections
BY OrderEntryAssumption DEF CancelAllVia, DownloadVia, Connections

(* An order is in reach before it can be open: from the moment its creation *)
(* is sent, or from the answer to the open-orders query on.                 *)
InReach ==
  /\ \A r \in sent : r.type = "CREATE_ORDER" => r.about \in orphans \/ Covered(SymbolOf[r.about])
  /\ snapshot.status = "answered" =>
       \A o \in Orders \ orphans : IsOpen(o) => o \in snapshot.open \/ Covered(SymbolOf[o])
  /\ OpenOrdersAreCovered

(* A step after which everything in reach still is, no order was opened, no *)
(* creation sent and no query answered.                                     *)
KeepsReach ==
  /\ \A s : Covered(s) => Covered(s)'
  /\ \A r \in sent' : r \in sent \/ r.type # "CREATE_ORDER"
  /\ \A o \in Orders : IsOpen(o)' => IsOpen(o)
  /\ snapshot'.status = "answered" => snapshot' = snapshot
  /\ UNCHANGED <<downloaded, orphans>>

(* The connection of the orders does not lose a symbol by getting another.  *)
LEMMA MoreCovered ==
  ASSUME TypeOK, WsApi = FALSE, NEW more,
         symbols' = [symbols EXCEPT ![OrderEntry] = @ \union more]
  PROVE  /\ \A s : Covered(s) => Covered(s)'
         /\ \A s \in more : Covered(s)'
<1>1. symbols'[OrderEntry] = symbols[OrderEntry] \union more
  BY OneConnection DEF TypeOK
<1> QED
  BY <1>1, OneConnection DEF Covered

(* Every step of an account without ws_api keeps the open orders in reach.  *)
LEMMA NextInReach == WsApi = FALSE /\ TypeOK /\ InReach /\ [Next]_vars => InReach'
<1> SUFFICES ASSUME WsApi = FALSE, TypeOK, InReach, [Next]_vars
             PROVE  InReach'
    OBVIOUS
<1>1. ASSUME KeepsReach
      PROVE  InReach'
  <2>1. orphans' = orphans /\ downloaded' = downloaded
    BY <1>1 DEF KeepsReach
  <2>2. \A r \in sent' : r.type = "CREATE_ORDER" => r.about \in orphans' \/ Covered(SymbolOf[r.about])'
    BY <1>1, <2>1 DEF KeepsReach, InReach
  <2>3. snapshot'.status = "answered" =>
          \A o \in Orders \ orphans' : IsOpen(o)' => o \in snapshot'.open \/ Covered(SymbolOf[o])'
    BY <1>1, <2>1 DEF KeepsReach, InReach
  <2>4. downloaded' => \A o \in Orders \ orphans' : IsOpen(o)' => Covered(SymbolOf[o])'
    BY <1>1, <2>1 DEF KeepsReach, InReach, OpenOrdersAreCovered
  <2> QED
    BY <2>2, <2>3, <2>4 DEF InReach, OpenOrdersAreCovered
<1>2. ASSUME NEW o \in Orders, CreateOrder(o)
      PROVE  InReach'
  <2>1. symbols' = [symbols EXCEPT ![OrderEntry] = @ \union {SymbolOf[o]}]
    BY <1>2 DEF CreateOrder
  <2>2. (\A s : Covered(s) => Covered(s)') /\ Covered(SymbolOf[o])'
    BY <2>1, MoreCovered
  <2>3. \A r \in sent' : r \in sent \/ r.about = o
    BY <1>2 DEF CreateOrder, Send, Request
  <2>4. UNCHANGED <<exchange, snapshot, downloaded, orphans>>
    BY <1>2 DEF CreateOrder, history
  <2>5. \A p \in Orders : IsOpen(p)' = IsOpen(p)
    BY <2>4 DEF IsOpen
  <2>6. \A r \in sent' : r.type = "CREATE_ORDER" => r.about \in orphans' \/ Covered(SymbolOf[r.about])'
    BY <2>2, <2>3, <2>4 DEF InReach
  <2>7. snapshot'.status = "answered" =>
          \A p \in Orders \ orphans' : IsOpen(p)' => p \in snapshot'.open \/ Covered(SymbolOf[p])'
    BY <2>2, <2>4, <2>5 DEF InReach
  <2>8. downloaded' => \A p \in Orders \ orphans' : IsOpen(p)' => Covered(SymbolOf[p])'
    BY <2>2, <2>4, <2>5 DEF InReach, OpenOrdersAreCovered
  <2> QED
    BY <2>6, <2>7, <2>8 DEF InReach, OpenOrdersAreCovered
<1>3. CASE OpenOrdersAck
  <2> DEFINE listed == {SymbolOf[o] : o \in snapshot.open}
  <2>1. symbols' = [symbols EXCEPT ![OrderEntry] = @ \union listed]
    BY <1>3, OneConnection DEF OpenOrdersAck
  <2>2. (\A s : Covered(s) => Covered(s)') /\ (\A s \in listed : Covered(s)')
    BY <2>1, MoreCovered
  <2>3. /\ snapshot.status = "answered" /\ snapshot'.status = "none"
        /\ orphans' = orphans \ snapshot.open
        /\ UNCHANGED <<exchange, sent>>
    BY <1>3 DEF OpenOrdersAck, Idle
  <2>4. \A r \in sent : r.type = "CREATE_ORDER" => r.about \in orphans' \/ Covered(SymbolOf[r.about])'
    BY <2>2, <2>3 DEF InReach
  <2>5. \A o \in Orders \ orphans' : IsOpen(o) => Covered(SymbolOf[o])'
    BY <2>2, <2>3 DEF InReach
  <2>6. \A o \in Orders : IsOpen(o)' = IsOpen(o)
    BY <2>3 DEF IsOpen
  <2> QED
    BY <2>3, <2>4, <2>5, <2>6 DEF InReach, OpenOrdersAreCovered
<1>4. CASE Restart
  <2>1. \A r \in sent : r.type = "CREATE_ORDER" => r.about \in orphans'
    BY <1>4 DEF Restart
  <2> QED
    BY <1>4, <2>1 DEF Restart, Idle, InReach, OpenOrdersAreCovered
<1>5. ASSUME NEW r \in sent, NEW result \in Results(r), Execute(r, result)
      PROVE  InReach'
  <2>1. /\ \A s : Covered(s) => Covered(s)'
        /\ sent' \subseteq sent
        /\ UNCHANGED <<snapshot, downloaded, orphans>>
    BY <1>5 DEF Execute, gateway, Covered
  <2>2. \A o \in Orders \ orphans : IsOpen(o)' => IsOpen(o) \/ Covered(SymbolOf[o])
    <3>1. r \in Requests
      BY DEF TypeOK
    <3> QED
      BY <1>5, <3>1, ExecuteEffect DEF InReach
  <2>3. \A c \in sent' : c.type = "CREATE_ORDER" => c.about \in orphans' \/ Covered(SymbolOf[c.about])'
    BY <2>1 DEF InReach
  <2>4. snapshot'.status = "answered" =>
          \A o \in Orders \ orphans' : IsOpen(o)' => o \in snapshot'.open \/ Covered(SymbolOf[o])'
    BY <2>1, <2>2 DEF InReach
  <2>5. downloaded' => \A o \in Orders \ orphans' : IsOpen(o)' => Covered(SymbolOf[o])'
    BY <2>1, <2>2 DEF InReach, OpenOrdersAreCovered
  <2> QED
    BY <2>3, <2>4, <2>5 DEF InReach, OpenOrdersAreCovered
<1>6. CASE AnswerOpenOrders
  <2>1. /\ UNCHANGED <<symbols, sent, exchange, downloaded, orphans>>
        /\ snapshot'.open = {o \in Orders : IsOpen(o)}
    BY <1>6 DEF AnswerOpenOrders, history
  <2> QED
    BY <2>1 DEF InReach, OpenOrdersAreCovered, Covered, IsOpen
<1>7. ASSUME NEW o \in Orders, NEW type \in {"MODIFY_ORDER", "CANCEL_ORDER"}, ChangeOrder(type, o)
      PROVE  KeepsReach
  BY <1>7 DEF ChangeOrder, Send, Request, history, KeepsReach, Covered, IsOpen
<1>8. ASSUME NEW scope, CancelAllOrders(scope)
      PROVE  KeepsReach
  BY <1>8 DEF CancelAllOrders, KeepsReach, Covered, IsOpen
<1>9. ASSUME NEW answer \in answers, Receive(answer)
      PROVE  KeepsReach
  BY <1>9 DEF Receive, KeepsReach, Covered, IsOpen
<1>10. ASSUME NEW r \in awaiting, NEW status, Fail(r, status)
       PROVE  KeepsReach
  BY <1>10 DEF Fail, KeepsReach, Covered, IsOpen
<1>11. ASSUME symbols' = symbols, sent' = sent, exchange' = exchange,
              downloaded' = downloaded, orphans' = orphans,
              snapshot'.status = "answered" => snapshot' = snapshot
       PROVE  KeepsReach
  BY <1>11 DEF KeepsReach, Covered, IsOpen
<1>12. CASE GetOpenOrders \/ OpenOrdersFailed \/ Connected \/ Disconnected
  <2>1. /\ symbols' = symbols /\ sent' = sent /\ exchange' = exchange
        /\ downloaded' = downloaded /\ orphans' = orphans
    BY <1>12 DEF GetOpenOrders, OpenOrdersFailed, Connected, Disconnected, history
  <2>2. CASE GetOpenOrders
    BY <1>1, <1>11, <2>1, <2>2 DEF GetOpenOrders, Idle
  <2>3. CASE OpenOrdersFailed
    BY <1>1, <1>11, <2>1, <2>3 DEF OpenOrdersFailed, Idle
  <2>4. CASE Connected \/ Disconnected
    BY <1>1, <1>11, <2>1, <2>4 DEF Connected, Disconnected
  <2> QED
    BY <1>12, <2>2, <2>3, <2>4
<1>13. ASSUME NEW r \in sent, Lose(r)
       PROVE  KeepsReach
  BY <1>13 DEF Lose, gateway, KeepsReach, Covered, IsOpen
<1>14. ASSUME NEW o \in Orders, NEW status, Trade(o, status)
       PROVE  KeepsReach
  BY <1>14 DEF Trade, gateway, history, KeepsReach, Covered, IsOpen, TypeOK
<1>15. CASE UNCHANGED vars
  BY <1>1, <1>11, <1>15 DEF vars, gateway, history
<1> QED
  BY <1>1, <1>2, <1>3, <1>4, <1>5, <1>6, <1>7, <1>8, <1>9, <1>10, <1>11, <1>12, <1>13, <1>14, <1>15
     DEF Next, ClientNext, ConnectionNext, ExchangeNext

(* Once the open orders were downloaded, an account without ws_api can      *)
(* cancel all of them.                                                      *)
THEOREM OpenOrdersAreCoveredSafe ==
  ASSUME WsApi = FALSE
  PROVE  Spec => []OpenOrdersAreCovered
<1>1. Init => InReach
  BY DEF Init, InReach, Idle, OpenOrdersAreCovered
<1>2. TypeOK /\ InReach /\ [Next]_vars => InReach'
  BY NextInReach
<1>3. InReach => OpenOrdersAreCovered
  BY DEF InReach
<1> QED
  BY <1>1, <1>2, <1>3, TypeCorrect, PTL DEF Spec

-----------------------------------------------------------------------------
(* Refinement: requests are served as RequestService promises. *)

(* A number that appears anywhere was used; a request that is on its way    *)
(* was not executed, and none was executed twice; one whose answer is       *)
(* awaited was not answered, and every answer on its way is awaited.        *)
ServiceInv ==
  /\ \A r \in sent \union awaiting : Used(r)
  /\ \A outcome \in executed : Used(outcome.request) /\ outcome.request \notin sent
  /\ \A one, other \in executed : one.request = other.request => one = other
  /\ \A response \in responses : Used(response.request)
  /\ \A r \in awaiting : Told(r) = {}
  /\ \A answer \in answers : answer.request \in awaiting

(* The mapping is well typed, and RequestService may look at each request.  *)
LEMMA ServiceNext ==
  ASSUME TypeOK', \A r \in Requests : Service!Step(r)
  PROVE  Service!Next
<1>1. \A r \in Requests : Fate(r)' \in Service!Fates /\ Told(r)' \in SUBSET Service!Statuses
  BY DEF Fate, Told, Service!Fates, Service!Statuses
<1>2. awaiting' \subseteq Requests
  BY DEF TypeOK
<1> QED
  BY <1>1, <1>2 DEF Service!Next

(* What a request has become is kept with what it depends on.               *)
LEMMA FateKept ==
  ASSUME NEW r,
         r \in sent' <=> r \in sent,
         \A outcome : outcome.request = r => (outcome \in executed' <=> outcome \in executed),
         Used(r)' <=> Used(r)
  PROVE  Fate(r)' = Fate(r)
BY DEF Fate

(* Whether a number was used depends on the counters only.                  *)
LEMMA UsedKept ==
  ASSUME UNCHANGED <<version, calls>>
  PROVE  \A r : Used(r)' <=> Used(r)
BY DEF Used

-----------------------------------------------------------------------------
(* Requests are made. *)

Make(new) ==
  /\ sent' = sent \union new
  /\ awaiting' = awaiting \union new
  /\ \A r \in new : ~Used(r) /\ Used(r)'
  /\ \A r \in Requests : Used(r) => Used(r)'
  /\ UNCHANGED <<executed, answers>>
  /\ \A r \in Requests : Told(r)' = Told(r)
  /\ \A response \in responses' : response \in responses \/ response.request \in new

LEMMA MakeIsServed ==
  ASSUME TypeOK, TypeOK', ServiceInv, NEW new \in SUBSET Requests, Make(new)
  PROVE  ServiceInv' /\ Service!Next
<1>1. /\ sent \subseteq Requests /\ awaiting \subseteq Requests
      /\ \A outcome \in executed : outcome.request \in Requests
      /\ \A response \in responses : response.request \in Requests
  BY DEF TypeOK, Outcomes, Responses
<1>2. \A r \in Requests : ~Used(r) => Told(r) = {} /\ r \notin sent /\ r \notin awaiting
  <2> TAKE r \in Requests
  <2> HAVE ~Used(r)
  <2>1. \A status : [request |-> r, status |-> status] \notin responses
    BY DEF ServiceInv
  <2> QED
    BY <2>1 DEF ServiceInv, Told
<1>3. \A r \in Requests : ~Used(r) => \A outcome \in executed : outcome.request # r
  BY DEF ServiceInv
<1>4. ServiceInv'
  <2>1. \A r \in sent' \union awaiting' : Used(r)'
    BY <1>1 DEF Make, ServiceInv
  <2>2. \A outcome \in executed' : Used(outcome.request)' /\ outcome.request \notin sent'
    BY <1>1 DEF Make, ServiceInv
  <2>3. \A response \in responses' : Used(response.request)'
    BY <1>1 DEF Make, ServiceInv
  <2>4. \A r \in awaiting' : Told(r)' = {}
    BY <1>1, <1>2 DEF Make, ServiceInv
  <2>5. \A answer \in answers' : answer.request \in awaiting'
    BY DEF Make, ServiceInv
  <2> QED
    BY <2>1, <2>2, <2>3, <2>4, <2>5 DEF Make, ServiceInv
<1>5. ASSUME NEW r \in Requests
      PROVE  Service!Step(r)
  <2>1. CASE r \in new
    <3>1. Fate(r) = "unused" /\ Fate(r)' = "travelling"
      BY <1>2, <1>3, <2>1 DEF Make, Fate
    <3>2. Told(r)' = {} /\ r \in awaiting'
      BY <1>2, <2>1 DEF Make
    <3> QED
      BY <1>5, <3>1, <3>2 DEF Service!Step, Service!Issue
  <2>2. CASE r \notin new
    <3>1. (r \in sent' <=> r \in sent) /\ (r \in awaiting' <=> r \in awaiting) /\ Told(r)' = Told(r)
      BY <2>2 DEF Make
    <3>2. CASE Used(r)' <=> Used(r)
      <4>1. Fate(r)' = Fate(r)
        BY <3>1, <3>2, FateKept DEF Make
      <4> QED
        BY <1>5, <3>1, <4>1 DEF Service!Step, Service!Stutter, Service!NoReply
    <3>3. CASE ~Used(r) /\ Used(r)'
      <4>1. Fate(r) = "unused" /\ Fate(r)' = "gone"
        BY <1>2, <1>3, <3>1, <3>3 DEF Make, Fate
      <4> QED
        BY <1>5, <3>1, <4>1 DEF Service!Step, Service!Discard, Service!NoReply
    <3> QED
      BY <3>2, <3>3 DEF Make
  <2> QED
    BY <2>1, <2>2
<1> QED
  BY <1>4, <1>5, ServiceNext

(* order_place, order_modify and order_cancel make the next request.        *)
LEMMA SendMakes ==
  ASSUME TypeOK, NEW type \in Types, NEW o \in Orders, Send(type, o),
         UNCHANGED <<executed, answers, responses, calls>>
  PROVE  \E new \in SUBSET Requests : Make(new)
<1>1. PICK r \in OrderRequests :
        /\ r.about = o /\ r.type = type /\ r.version = version'[o]
        /\ sent' = sent \union {r} /\ awaiting' = awaiting \union {r}
        /\ version' \in [Orders -> 0..MaxVersion]
  BY SendType DEF Request
<1>2. /\ version[o] \in Nat /\ version'[o] = version[o] + 1
      /\ \A p \in Orders : version[p] \in Nat /\ version'[p] >= version[p]
  BY OrderEntryAssumption DEF TypeOK, Send
<1>3. ~Used(r) /\ Used(r)'
  <2>1. r.type # "CANCEL_ALL"
    BY <1>1 DEF Types
  <2>2. ~(r.version <= version[r.about]) /\ r.version <= version'[r.about]
    BY <1>1, <1>2
  <2> QED
    BY <2>1, <2>2 DEF Used
<1>4. ASSUME NEW c \in Requests, Used(c)
      PROVE  Used(c)'
  <2>1. CASE c.type = "CANCEL_ALL"
    BY <1>4, <2>1 DEF Used
  <2>2. CASE c.type # "CANCEL_ALL"
    <3>1. c.about \in Orders /\ c.version \in Nat /\ version'[c.about] \in Nat
      BY <1>1, <2>2, OrderEntryAssumption DEF Requests, OrderRequests, CancelAlls
    <3> QED
      BY <1>2, <1>4, <2>2, <3>1 DEF Used
  <2> QED
    BY <2>1, <2>2
<1>5. \A c \in Requests : Told(c)' = Told(c)
  BY DEF Told
<1>6. Make({r})
  BY <1>1, <1>3, <1>4, <1>5 DEF Make
<1>7. {r} \in SUBSET Requests
  BY DEF Requests
<1> QED
  BY <1>6, <1>7

(* open_orders_cancel_all makes a request for each symbol; FORWARDED is no  *)
(* answer to them.                                                          *)
LEMMA CancelAllMakes ==
  ASSUME TypeOK, NEW scope \in SUBSET Symbols, CancelAllOrders(scope)
  PROVE  \E new \in SUBSET Requests : Make(new)
<1> DEFINE new == [type : {"CANCEL_ALL"}, about : {s \in scope : Covered(s)}, version : {calls + 1}]
<1>1. /\ calls < MaxCalls /\ calls' = calls + 1
      /\ sent' = sent \union new
      /\ awaiting' = awaiting \union new
      /\ responses' = responses \union [request : new, status : {"FORWARDED"}]
      /\ UNCHANGED <<version, executed, answers>>
  BY DEF CancelAllOrders, Forward
<1>2. \A r \in new : r \in CancelAlls /\ r.type = "CANCEL_ALL" /\ r.version = calls + 1
  BY <1>1, CancelAllType
<1> HIDE DEF new
<1>3. calls \in Nat
  BY OrderEntryAssumption DEF TypeOK
<1>4. \A r \in new : ~Used(r) /\ Used(r)'
  BY <1>1, <1>2, <1>3 DEF Used
<1>5. ASSUME NEW r \in Requests, Used(r)
      PROVE  Used(r)'
  <2>1. CASE r.type = "CANCEL_ALL"
    <3>1. r.version \in Nat
      BY <2>1, CancelAllRequestType, OrderEntryAssumption
    <3> QED
      BY <1>1, <1>3, <1>5, <2>1, <3>1 DEF Used
  <2>2. CASE r.type # "CANCEL_ALL"
    BY <1>1, <1>5, <2>2 DEF Used
  <2> QED
    BY <2>1, <2>2
<1>6. ASSUME NEW r \in Requests
      PROVE  Told(r)' = Told(r)
  <2>1. \A status \in {"ACCEPTED", "REJECTED", "TOO_LATE", "FAILED"} :
          [request |-> r, status |-> status] \in responses' <=> [request |-> r, status |-> status] \in responses
    BY <1>1
  <2> QED
    BY <2>1 DEF Told
<1>7. \A response \in responses' : response \in responses \/ response.request \in new
  BY <1>1
<1>8. new \in SUBSET Requests
  BY <1>2 DEF Requests
<1> QED
  BY <1>1, <1>4, <1>5, <1>6, <1>7, <1>8 DEF Make

-----------------------------------------------------------------------------
(* Requests are executed, or lost. *)

LEMMA ExecuteIsServed ==
  ASSUME TypeOK, TypeOK', ServiceInv, NEW r \in sent, NEW result \in Results(r), Execute(r, result)
  PROVE  ServiceInv' /\ Service!Next
<1> DEFINE this == [request |-> r, result |-> result]
<1>1. /\ sent' = sent \ {r} /\ executed' = executed \union {this}
      /\ answers' = IF r \in awaiting THEN answers \union {this} ELSE answers
      /\ UNCHANGED <<awaiting, responses, version, calls>>
  BY DEF Execute, gateway
<1>2. this.request = r /\ this.result = result
  OBVIOUS
<1> HIDE DEF this
<1>3. \A c : (Used(c)' <=> Used(c)) /\ Told(c)' = Told(c)
  BY <1>1, UsedKept DEF Told
<1>4. \A outcome \in executed : outcome.request # r
  BY DEF ServiceInv
<1>5. ServiceInv'
  <2>1. \A c \in sent' \union awaiting' : Used(c)'
    BY <1>1, <1>3 DEF ServiceInv
  <2>2. \A outcome \in executed' : Used(outcome.request)' /\ outcome.request \notin sent'
    BY <1>1, <1>2, <1>3 DEF ServiceInv
  <2>3. \A one, other \in executed' : one.request = other.request => one = other
    BY <1>1, <1>2, <1>4 DEF ServiceInv
  <2>4. \A response \in responses' : Used(response.request)'
    BY <1>1, <1>3 DEF ServiceInv
  <2>5. \A c \in awaiting' : Told(c)' = {}
    BY <1>1, <1>3 DEF ServiceInv
  <2>6. \A answer \in answers' : answer.request \in awaiting'
    BY <1>1, <1>2 DEF ServiceInv
  <2> QED
    BY <2>1, <2>2, <2>3, <2>4, <2>5, <2>6 DEF ServiceInv
<1>6. ASSUME NEW c \in Requests
      PROVE  Service!Step(c)
  <2>1. Service!NoReply(c)
    BY <1>1, <1>3, <1>6 DEF Service!NoReply
  <2>2. CASE c = r
    <3>1. Fate(c) = "travelling" /\ Fate(c)' \in {"executed", "refused"}
      BY <1>1, <1>2, <1>4, <2>2 DEF Fate
    <3> QED
      BY <1>6, <2>1, <3>1 DEF Service!Step, Service!Execute
  <2>3. CASE c # r
    <3>1. \A outcome : outcome.request = c => (outcome \in executed' <=> outcome \in executed)
      BY <1>1, <1>2, <2>3
    <3>2. Fate(c)' = Fate(c)
      BY <1>1, <1>3, <2>3, <3>1, FateKept
    <3> QED
      BY <1>6, <2>1, <3>2 DEF Service!Step, Service!Stutter
  <2> QED
    BY <2>2, <2>3
<1> QED
  BY <1>5, <1>6, ServiceNext

LEMMA LoseIsServed ==
  ASSUME TypeOK, TypeOK', ServiceInv, NEW r \in sent, Lose(r)
  PROVE  ServiceInv' /\ Service!Next
<1>1. sent' = sent \ {r} /\ UNCHANGED <<awaiting, answers, executed, responses, version, calls>>
  BY DEF Lose, gateway
<1>2. \A c : (Used(c)' <=> Used(c)) /\ Told(c)' = Told(c)
  BY <1>1, UsedKept DEF Told
<1>3. ServiceInv'
  BY <1>1, <1>2 DEF ServiceInv
<1>4. ASSUME NEW c \in Requests
      PROVE  Service!Step(c)
  <2>1. Service!NoReply(c)
    BY <1>1, <1>2, <1>4 DEF Service!NoReply
  <2>2. CASE c = r
    <3>1. Fate(c) = "travelling" /\ Fate(c)' = "gone"
      BY <1>1, <1>2, <2>2 DEF Fate, ServiceInv
    <3> QED
      BY <1>4, <2>1, <3>1 DEF Service!Step, Service!Lose
  <2>3. CASE c # r
    <3>1. Fate(c)' = Fate(c)
      BY <1>1, <1>2, <2>3, FateKept
    <3> QED
      BY <1>4, <2>1, <3>1 DEF Service!Step, Service!Stutter
  <2> QED
    BY <2>2, <2>3
<1> QED
  BY <1>3, <1>4, ServiceNext

-----------------------------------------------------------------------------
(* Requests are answered, or given up. *)

Close ==
  /\ awaiting' \subseteq awaiting
  /\ UNCHANGED <<sent, executed, version, calls>>
  /\ \A answer \in answers' : answer \in answers /\ answer.request \in awaiting'
  /\ \A response \in responses' : response \in responses \/ response.request \in awaiting
  /\ \A r \in Requests :
       \/ Told(r)' = Told(r)
       \/ /\ r \in awaiting \ awaiting'
          /\ \E status \in Service!Statuses : Told(r)' = {status} /\ Service!Truthful(r, status)

LEMMA CloseIsServed ==
  ASSUME TypeOK, TypeOK', ServiceInv, Close
  PROVE  ServiceInv' /\ Service!Next
<1>1. \A c : Used(c)' <=> Used(c)
  BY UsedKept DEF Close
<1>2. awaiting \subseteq Requests
  BY DEF TypeOK
<1>3. ServiceInv'
  BY <1>1, <1>2 DEF Close, ServiceInv
<1>4. ASSUME NEW r \in Requests
      PROVE  Service!Step(r)
  <2>1. Fate(r)' = Fate(r)
    BY <1>1, FateKept DEF Close
  <2>2. CASE r \in awaiting /\ r \notin awaiting'
    <3>1. Told(r) = {}
      BY <2>2 DEF ServiceInv
    <3>2. CASE Told(r)' = Told(r)
      BY <1>4, <2>1, <2>2, <3>1, <3>2 DEF Service!Step, Service!GiveUp
    <3>3. CASE \E status \in Service!Statuses : Told(r)' = {status} /\ Service!Truthful(r, status)
      BY <1>4, <2>1, <2>2, <3>1, <3>3 DEF Service!Step, Service!Answer
    <3> QED
      BY <3>2, <3>3 DEF Close
  <2>3. CASE ~(r \in awaiting /\ r \notin awaiting')
    <3>1. (r \in awaiting' <=> r \in awaiting) /\ Told(r)' = Told(r)
      BY <2>3 DEF Close
    <3> QED
      BY <1>4, <2>1, <3>1 DEF Service!Step, Service!Stutter, Service!NoReply
  <2> QED
    BY <2>2, <2>3
<1> QED
  BY <1>3, <1>4, ServiceNext

(* What a response adds to the answers of its request, and of no other.     *)
LEMMA RespondTold ==
  ASSUME NEW r \in Requests, NEW status \in Service!Statuses, Respond(r, status), Told(r) = {}
  PROVE  /\ \A c \in Requests : c # r => Told(c)' = Told(c)
         /\ Told(r)' = Told(r) \/ Told(r)' = {status}
         /\ \A response \in responses' : response \in responses \/ response.request = r
<1>1. CASE responses' = responses
  BY <1>1 DEF Told
<1>2. CASE responses' = responses \union {[request |-> r, status |-> status]}
  <2>1. \A c, s : [request |-> c, status |-> s] \in responses'
                    <=> [request |-> c, status |-> s] \in responses \/ (c = r /\ s = status)
    BY <1>2
  <2>2. \A c \in Requests : c # r => Told(c)' = Told(c)
    BY <2>1 DEF Told
  <2>3. Told(r)' = {status}
    BY <2>1 DEF Told, Service!Statuses
  <2> QED
    BY <1>2, <2>2, <2>3
<1> QED
  BY <1>1, <1>2 DEF Respond

(* An answer closes its request, with what the exchange did.                *)
LEMMA ReceiveCloses ==
  ASSUME TypeOK, AnswersAreTrue, ServiceInv, NEW answer \in answers, Receive(answer)
  PROVE  Close
<1> DEFINE r == answer.request
<1>1. PICK status \in Status(r.type, answer.result) : Respond(r, status)
  BY DEF Receive
<1>2. answers' = answers \ {answer} /\ awaiting' = awaiting \ {r} /\ UNCHANGED <<sent, executed, version, calls>>
  BY DEF Receive
<1>3. r \in awaiting /\ r \in Requests /\ Told(r) = {} /\ r \notin sent /\ answer \in executed
  BY DEF ServiceInv, TypeOK, Outcomes, AnswersAreTrue
<1>4. status \in {"ACCEPTED", "REJECTED", "TOO_LATE"} /\ (status = "ACCEPTED" => answer.result \notin Refusals)
  BY StatusType
<1>5. status \in Service!Statuses
  BY <1>4 DEF Service!Statuses
<1>6. /\ \A c \in Requests : c # r => Told(c)' = Told(c)
      /\ Told(r)' = Told(r) \/ Told(r)' = {status}
      /\ \A response \in responses' : response \in responses \/ response.request = r
  BY <1>1, <1>3, <1>5, RespondTold
<1>7. \A outcome \in executed : outcome.request = r => outcome = answer
  BY <1>3 DEF ServiceInv
<1>8. Service!Truthful(r, status)
  <2>1. answer.result \notin Refusals => Fate(r) = "executed"
    BY <1>3 DEF Fate
  <2>2. Fate(r) \in {"executed", "refused"}
    BY <1>3 DEF Fate
  <2> QED
    BY <1>3, <1>4, <2>1, <2>2 DEF Service!Truthful
<1>9. \A other \in answers' : other \in answers /\ other.request \in awaiting'
  BY <1>2, <1>7 DEF ServiceInv, AnswersAreTrue
<1> HIDE DEF r
<1> QED
  BY <1>2, <1>3, <1>5, <1>6, <1>8, <1>9 DEF Close

(* process_response: a failure closes the request, whatever became of it.   *)
LEMMA FailCloses ==
  ASSUME TypeOK, ServiceInv, NEW r \in awaiting, NEW status \in Failures(r), Fail(r, status)
  PROVE  Close
<1>1. /\ answers' = {answer \in answers : answer.request # r} /\ awaiting' = awaiting \ {r}
      /\ HandleError(r, status)
      /\ UNCHANGED <<sent, executed, version, calls>>
  BY DEF Fail
<1>2. r \in Requests /\ Told(r) = {} /\ status \in {"REJECTED", "FAILED"}
  BY DEF ServiceInv, TypeOK, Failures
<1>3. status \in Service!Statuses /\ Service!Truthful(r, status)
  BY <1>2 DEF Service!Truthful, Service!Statuses
<1>4. /\ \A c \in Requests : c # r => Told(c)' = Told(c)
      /\ Told(r)' = Told(r) \/ Told(r)' = {status}
      /\ \A response \in responses' : response \in responses \/ response.request = r
  <2>1. CASE responses' = responses
    BY <2>1 DEF Told
  <2>2. CASE Respond(r, status)
    BY <1>2, <1>3, <2>2, RespondTold
  <2> QED
    BY <1>1, <2>1, <2>2 DEF HandleError
<1> QED
  BY <1>1, <1>2, <1>3, <1>4 DEF Close, ServiceInv

(* A disconnect or a restart gives up requests.                             *)
LEMMA DisconnectCloses ==
  ASSUME ServiceInv, Disconnected \/ Restart
  PROVE  Close
<1>1. responses' = responses /\ UNCHANGED <<sent, executed, version, calls>>
  BY DEF Disconnected, Restart, history
<1>2. \A r : Told(r)' = Told(r)
  BY <1>1 DEF Told
<1>3. awaiting' \subseteq awaiting /\ \A answer \in answers' : answer \in answers /\ answer.request \in awaiting'
  BY DEF Disconnected, Restart, ServiceInv
<1> QED
  BY <1>1, <1>2, <1>3 DEF Close

-----------------------------------------------------------------------------
(* Everything else is not seen. *)

LEMMA Unseen ==
  ASSUME ServiceInv, UNCHANGED <<sent, awaiting, answers, executed, responses, version, calls>>
  PROVE  ServiceInv' /\ UNCHANGED Service!vars
<1>1. \A r : (Used(r)' <=> Used(r)) /\ Told(r)' = Told(r)
  BY UsedKept DEF Told
<1>2. \A r : Fate(r)' = Fate(r)
  BY <1>1, FateKept
<1> QED
  BY <1>1, <1>2 DEF ServiceInv, Service!vars

(* A step of the system is one of RequestService, or is not seen.           *)
LEMMA ServiceStep ==
  ASSUME TypeOK, TypeOK', AnswersAreTrue, ServiceInv, [Next]_vars
  PROVE  ServiceInv' /\ [Service!Next]_(Service!vars)
<1>1. ASSUME NEW o \in Orders, CreateOrder(o)
      PROVE  ServiceInv' /\ Service!Next
  <2>1. Send("CREATE_ORDER", o) /\ UNCHANGED <<executed, answers, responses, calls>>
    BY <1>1 DEF CreateOrder, history
  <2>2. \E new \in SUBSET Requests : Make(new)
    BY <2>1, SendMakes DEF Types
  <2> QED
    BY <2>2, MakeIsServed
<1>2. ASSUME NEW o \in Orders, NEW type \in {"MODIFY_ORDER", "CANCEL_ORDER"}, ChangeOrder(type, o)
      PROVE  ServiceInv' /\ Service!Next
  <2>1. Send(type, o) /\ UNCHANGED <<executed, answers, responses, calls>>
    BY <1>2 DEF ChangeOrder, history
  <2>2. \E new \in SUBSET Requests : Make(new)
    BY <2>1, SendMakes DEF Types
  <2> QED
    BY <2>2, MakeIsServed
<1>3. ASSUME NEW scope \in SUBSET Symbols, CancelAllOrders(scope)
      PROVE  ServiceInv' /\ Service!Next
  BY <1>3, CancelAllMakes, MakeIsServed
<1>4. ASSUME NEW answer \in answers, Receive(answer)
      PROVE  ServiceInv' /\ Service!Next
  BY <1>4, ReceiveCloses, CloseIsServed
<1>5. ASSUME NEW r \in awaiting, NEW status \in Failures(r), Fail(r, status)
      PROVE  ServiceInv' /\ Service!Next
  BY <1>5, FailCloses, CloseIsServed
<1>6. CASE Disconnected \/ Restart
  BY <1>6, DisconnectCloses, CloseIsServed
<1>7. ASSUME NEW r \in sent, NEW result \in Results(r), Execute(r, result)
      PROVE  ServiceInv' /\ Service!Next
  BY <1>7, ExecuteIsServed
<1>8. ASSUME NEW r \in sent, Lose(r)
      PROVE  ServiceInv' /\ Service!Next
  BY <1>8, LoseIsServed
<1>9. CASE GetOpenOrders \/ OpenOrdersAck \/ OpenOrdersFailed \/ Connected \/ AnswerOpenOrders
  BY <1>9, Unseen DEF GetOpenOrders, OpenOrdersAck, OpenOrdersFailed, Connected, AnswerOpenOrders, history
<1>10. ASSUME NEW o \in Orders, NEW status, Trade(o, status)
       PROVE  ServiceInv' /\ UNCHANGED Service!vars
  BY <1>10, Unseen DEF Trade, gateway, history
<1>11. CASE UNCHANGED vars
  BY <1>11, Unseen DEF vars, gateway, history
<1>12. CASE ClientNext
  <2>1. \A scope \in {Symbols} \union {{s} : s \in Symbols} : scope \in SUBSET Symbols
    OBVIOUS
  <2> QED
    BY <1>1, <1>2, <1>3, <1>12, <2>1 DEF ClientNext
<1>13. CASE ConnectionNext
  BY <1>4, <1>5, <1>6, <1>9, <1>13 DEF ConnectionNext
<1>14. CASE ExchangeNext
  BY <1>7, <1>8, <1>9, <1>10, <1>14 DEF ExchangeNext
<1> QED
  BY <1>11, <1>12, <1>13, <1>14 DEF Next

(* No request was made, and none is on its way.                             *)
LEMMA InitService == Init => Service!Init /\ ServiceInv
<1> SUFFICES ASSUME Init
             PROVE  Service!Init /\ ServiceInv
  OBVIOUS
<1>1. ServiceInv
  BY DEF Init, ServiceInv
<1>2. ASSUME NEW r \in Requests
      PROVE  Fate(r) = "unused" /\ Told(r) = {}
  <2>1. Told(r) = {}
    BY DEF Init, Told
  <2>2. ~Used(r)
    <3>1. CASE r.type = "CANCEL_ALL"
      BY <3>1, CancelAllRequestType, OrderEntryAssumption DEF Init, Used
    <3>2. CASE r.type # "CANCEL_ALL"
      <4>1. r.about \in Orders /\ r.version \in 1..MaxVersion
        BY <3>2 DEF Requests, OrderRequests, CancelAlls
      <4> QED
        BY <3>2, <4>1, OrderEntryAssumption DEF Init, Used
    <3> QED
      BY <3>1, <3>2
  <2> QED
    BY <2>1, <2>2 DEF Init, Fate
<1>3. awaiting = {}
  BY DEF Init
<1> QED
  BY <1>1, <1>2, <1>3 DEF Service!Init

LEMMA ServiceInvInductive == Spec => [](AnswersAreTrue /\ ServiceInv)
<1>1. Init => AnswersAreTrue /\ ServiceInv
  BY InitService DEF Init, AnswersAreTrue, AcceptedIsTrue
<1>2. TypeOK /\ TypeOK' /\ AnswersAreTrue /\ ServiceInv /\ [Next]_vars => (AnswersAreTrue /\ ServiceInv)'
  BY NextAnswersAreTrue, ServiceStep
<1> QED
  BY <1>1, <1>2, TypeCorrect, PTL DEF Spec

(* Every request is executed once at most and answered once at most,        *)
(* whatever is lost, delayed, given up or restarted.  ACCEPTED is said only *)
(* of what was executed, TOO_LATE only of what the exchange has answered;   *)
(* REJECTED and FAILED of any request, since a server error is reported as  *)
(* a refusal is (order_entry_*.cpp, rest_trade.cpp: the acks and            *)
(* process_response).                                                       *)
THEOREM ImplementsRequestService == Spec => ServiceSpec
<1>1. Init => Service!Init
  BY InitService
<1>2. TypeOK /\ TypeOK' /\ AnswersAreTrue /\ ServiceInv /\ [Next]_vars => [Service!Next]_(Service!vars)
  BY ServiceStep
<1> QED
  BY <1>1, <1>2, TypeCorrect, ServiceInvInductive, PTL DEF Spec, ServiceSpec, Service!Spec

(* An answer is final: once a request was answered, neither a late answer   *)
(* nor a time-out gives it another one (process_response).                  *)
THEOREM AnswerIsFinal ==
  Spec => [][\A r \in Requests : Told(r) # {} => Told(r)' = Told(r)]_vars
<1>1. TypeOK /\ TypeOK' /\ AnswersAreTrue /\ ServiceInv /\ [Next]_vars
        => [\A r \in Requests : Told(r) # {} => Told(r)' = Told(r)]_vars
  <2> SUFFICES ASSUME TypeOK, TypeOK', AnswersAreTrue, ServiceInv, [Next]_vars,
                      NEW r \in Requests, Told(r) # {}
               PROVE  Told(r)' = Told(r)
    OBVIOUS
  <2>1. Fate(r) # "unused"
    <3>1. PICK status : [request |-> r, status |-> status] \in responses
      BY DEF Told
    <3>2. Used(r)
      BY <3>1 DEF ServiceInv
    <3> QED
      BY <3>2 DEF Fate
  <2>2. CASE Service!Next
    <3>1. Service!Step(r)
      BY <2>2 DEF Service!Next
    <3> QED
      BY <2>1, <3>1 DEF Service!Step, Service!Stutter, Service!Issue, Service!Discard, Service!Execute,
                        Service!Lose, Service!Answer, Service!GiveUp, Service!NoReply
  <2>3. CASE UNCHANGED Service!vars
    <3>1. [c \in Requests |-> Told(c)'] = [c \in Requests |-> Told(c)]
      BY <2>3 DEF Service!vars
    <3> QED
      BY <3>1
  <2> QED
    BY <2>2, <2>3, ServiceStep
<1> QED
  BY <1>1, TypeCorrect, ServiceInvInductive, PTL DEF Spec

-----------------------------------------------------------------------------
(***************************************************************************)
(* The safety parts of CancelAllCancels and EveryRequestIsAnswered: what    *)
(* no schedule can break, with no fairness assumed.                         *)
(***************************************************************************)

(* An order that a CancelAllOrders still has to cancel is open only while   *)
(* the cancel-all of its symbol, of that very call, is on its way.          *)
CancelIsComing ==
  \A n \in 1..MaxCalls : \A o \in cancelling[n] :
    IsOpen(o) => [type |-> "CANCEL_ALL", about |-> SymbolOf[o], version |-> n] \in sent

(* A request leaves the way to the exchange when executed or lost. *)
LEMMA SentKept ==
  ASSUME [Next]_vars
  PROVE  \/ \E r \in sent : \E result \in Results(r) : Execute(r, result)
         \/ \E r \in sent : Lose(r)
         \/ sent \subseteq sent'
<1>1. ASSUME NEW o \in Orders, CreateOrder(o)
      PROVE  sent \subseteq sent'
  BY <1>1 DEF CreateOrder, Send
<1>2. ASSUME NEW o \in Orders, NEW type \in {"MODIFY_ORDER", "CANCEL_ORDER"}, ChangeOrder(type, o)
      PROVE  sent \subseteq sent'
  BY <1>2 DEF ChangeOrder, Send
<1>3. ASSUME NEW scope, CancelAllOrders(scope)
      PROVE  sent \subseteq sent'
  BY <1>3 DEF CancelAllOrders
<1>4. CASE ConnectionNext
  BY <1>4 DEF ConnectionNext, Receive, Fail, GetOpenOrders, OpenOrdersAck, OpenOrdersFailed,
     Connected, Disconnected, Restart
<1>5. ASSUME NEW o, NEW status, Trade(o, status)
      PROVE  sent \subseteq sent'
  BY <1>5 DEF Trade
<1>6. CASE AnswerOpenOrders
  BY <1>6 DEF AnswerOpenOrders
<1>7. CASE UNCHANGED vars
  BY <1>7 DEF vars
<1> QED
  BY <1>1, <1>2, <1>3, <1>4, <1>5, <1>6, <1>7 DEF Next, ClientNext, ExchangeNext

(* The call sends a request for every order it has to cancel.               *)
LEMMA CallCancels ==
  ASSUME TypeOK, InReach, CancelIsComing, NEW scope \in SUBSET Symbols, CancelAllOrders(scope)
  PROVE  CancelIsComing'
<1> SUFFICES ASSUME NEW n \in 1..MaxCalls, NEW o \in cancelling'[n], IsOpen(o)'
             PROVE  [type |-> "CANCEL_ALL", about |-> SymbolOf[o], version |-> n] \in sent'
  BY DEF CancelIsComing
<1>1. sent \subseteq sent' /\ exchange' = exchange
  BY DEF CancelAllOrders
<1>2. IsOpen(o)
  BY <1>1 DEF IsOpen
<1>3. calls + 1 \in 1..MaxCalls
  BY OrderEntryAssumption DEF CancelAllOrders, TypeOK
<1>4. CASE n # calls + 1
  <2>1. o \in cancelling[n]
    BY <1>4 DEF CancelAllOrders, TypeOK
  <2> QED
    BY <1>1, <1>2, <2>1 DEF CancelIsComing
<1>5. CASE n = calls + 1
  <2>1. downloaded /\ o \in Orders \ orphans /\ SymbolOf[o] \in scope
    BY <1>3, <1>5 DEF CancelAllOrders, TypeOK
  <2>2. Covered(SymbolOf[o])
    BY <1>2, <2>1 DEF InReach, OpenOrdersAreCovered
  <2>3. [type |-> "CANCEL_ALL", about |-> SymbolOf[o], version |-> n]
          \in [type : {"CANCEL_ALL"}, about : {s \in scope : Covered(s)}, version : {calls + 1}]
    BY <1>5, <2>1, <2>2
  <2> QED
    BY <2>3 DEF CancelAllOrders
<1> QED
  BY <1>4, <1>5

(* The request leaves with the last order it has to cancel, or excused.     *)
LEMMA NextCancelIsComing ==
  ASSUME TypeOK, InReach, CancelsAreDone, CancelIsComing, [Next]_vars
  PROVE  CancelIsComing'
<1>1. ASSUME NEW scope \in SUBSET Symbols, CancelAllOrders(scope)
      PROVE  CancelIsComing'
  BY <1>1, CallCancels
<1>2. ASSUME NoNewCancelAll, NEW n \in 1..MaxCalls, NEW o \in cancelling'[n]
      PROVE  /\ o \in Orders /\ o \in cancelling[n] /\ exchange[o] # "none"
             /\ IsOpen(o) => [type |-> "CANCEL_ALL", about |-> SymbolOf[o], version |-> n] \in sent
  <2>1. o \in cancelling[n]
    BY <1>2 DEF NoNewCancelAll
  <2>2. o \in Orders
    BY <2>1 DEF TypeOK
  <2> QED
    BY <2>1, <2>2 DEF CancelsAreDone, CancelIsComing
<1>3. ASSUME NoNewCancelAll, NEW r \in sent, NEW result \in Results(r), Execute(r, result)
      PROVE  CancelIsComing'
  <2> SUFFICES ASSUME NEW n \in 1..MaxCalls, NEW o \in cancelling'[n], IsOpen(o)'
               PROVE  [type |-> "CANCEL_ALL", about |-> SymbolOf[o], version |-> n] \in sent'
    BY DEF CancelIsComing
  <2> DEFINE request == [type |-> "CANCEL_ALL", about |-> SymbolOf[o], version |-> n]
  <2>1. /\ o \in Orders /\ exchange[o] # "none"
        /\ IsOpen(o) => request \in sent
    BY <1>2, <1>3
  <2>2. r \in Requests /\ sent' = sent \ {r}
    BY <1>3 DEF TypeOK, Execute
  <2>3. /\ IsOpen(o)
        /\ ~(r.type = "CANCEL_ALL" /\ SymbolOf[o] = r.about /\ result \notin Refusals)
    BY <1>3, <2>1, <2>2, ExecuteEffect
  <2>4. request # r
    <3> SUFFICES ASSUME r = request PROVE FALSE
      OBVIOUS
    <3>1. result \in Refusals
      BY <2>3
    <3>2. Excuse(r)
      BY <1>3, <3>1 DEF Execute
    <3>3. cancelling'[n] = {p \in cancelling[n] : SymbolOf[p] # SymbolOf[o]}
      BY <3>2 DEF Excuse, TypeOK
    <3> QED
      BY <3>3
  <2> QED
    BY <2>1, <2>2, <2>3, <2>4
<1>4. ASSUME NoNewCancelAll, NEW r \in sent, Lose(r)
      PROVE  CancelIsComing'
  <2> SUFFICES ASSUME NEW n \in 1..MaxCalls, NEW o \in cancelling'[n], IsOpen(o)'
               PROVE  [type |-> "CANCEL_ALL", about |-> SymbolOf[o], version |-> n] \in sent'
    BY DEF CancelIsComing
  <2> DEFINE request == [type |-> "CANCEL_ALL", about |-> SymbolOf[o], version |-> n]
  <2>1. sent' = sent \ {r} /\ exchange' = exchange /\ Excuse(r)
    BY <1>4 DEF Lose
  <2>2. request \in sent
    BY <1>2, <1>4, <2>1 DEF IsOpen
  <2>3. request # r
    <3> SUFFICES ASSUME r = request PROVE FALSE
      OBVIOUS
    <3>1. cancelling'[n] = {p \in cancelling[n] : SymbolOf[p] # SymbolOf[o]}
      BY <2>1 DEF Excuse, TypeOK
    <3> QED
      BY <3>1
  <2> QED
    BY <2>1, <2>2, <2>3
<1>5. ASSUME NoNewCancelAll, sent \subseteq sent',
             \A o \in Orders : exchange'[o] = exchange[o] \/ IsOpen(o)
      PROVE  CancelIsComing'
  <2> SUFFICES ASSUME NEW n \in 1..MaxCalls, NEW o \in cancelling'[n], IsOpen(o)'
               PROVE  [type |-> "CANCEL_ALL", about |-> SymbolOf[o], version |-> n] \in sent'
    BY DEF CancelIsComing
  <2>1. o \in Orders /\ (IsOpen(o) => [type |-> "CANCEL_ALL", about |-> SymbolOf[o], version |-> n] \in sent)
    BY <1>2, <1>5
  <2>2. IsOpen(o)
    BY <1>5, <2>1 DEF IsOpen
  <2> QED
    BY <1>5, <2>1, <2>2
<1>6. ASSUME NEW answer \in answers, Receive(answer)
      PROVE  exchange' = exchange
  BY <1>6 DEF Receive
<1>7. CASE sent \subseteq sent' /\ NoNewCancelAll
  <2>1. ASSUME NEW r \in sent, NEW result \in Results(r), Execute(r, result)
        PROVE  CancelIsComing'
    BY <1>3, <1>7, <2>1
  <2> QED
    BY <1>5, <1>6, <1>7, <2>1, StepEffect DEF Quiet
<1>8. CASE NoNewCancelAll
  BY <1>3, <1>4, <1>7, <1>8, SentKept
<1> QED
  BY <1>1, <1>8, CancelAllEffect

(* Without ws_api an order that was open at a CancelAllOrders is never left  *)
(* open with nothing on its way to cancel it, unless its request was lost   *)
(* or failed: the symbol was in the set of the connection at the call, and  *)
(* the executed request leaves no such order open.                          *)
THEOREM CancelIsComingSafe ==
  ASSUME WsApi = FALSE
  PROVE  Spec => []CancelIsComing
<1>1. Init => InReach /\ CancelsAreDone /\ CancelIsComing
  BY DEF Init, InReach, Idle, OpenOrdersAreCovered, CancelsAreDone, CancelIsComing
<1>2. TypeOK /\ InReach /\ CancelsAreDone /\ CancelIsComing /\ [Next]_vars
        => (InReach /\ CancelsAreDone /\ CancelIsComing)'
  BY NextInReach, NextCancelsAreDone, NextCancelIsComing
<1> QED
  BY <1>1, <1>2, TypeCorrect, PTL DEF Spec

(* An order request over HTTP stops being awaited only by an answer to the  *)
(* client or by the end of the process: neither a disconnect nor a time-out *)
(* nor a late answer drops it silently (process_response, the REST acks).   *)
(* With experimental.disable_fast_order_ack the client is answered by the   *)
(* user stream instead, which is not part of this module.                   *)
THEOREM NoRequestIsForgotten ==
  ASSUME OrderEntry # "WebSocket", FastAck
  PROVE  Spec => NoneIsForgotten
<1>1. ASSUME TypeOK, [Next]_vars, NEW r \in awaiting \intersect OrderRequests
      PROVE  r \in awaiting' \/ Told(r)' # {} \/ restarts' # restarts
  <2>1. r.type \in Types
    BY DEF OrderRequests
  <2>2. ASSUME NEW status \in {"ACCEPTED", "REJECTED", "TOO_LATE", "FAILED"}, Respond(r, status)
        PROVE  Told(r)' # {}
    <3>1. ~Silent(r, status)
      BY <2>1 DEF Silent, Types
    <3>2. [request |-> r, status |-> status] \in responses'
      BY <2>2, <3>1 DEF Respond
    <3> QED
      BY <3>2 DEF Told
  <2>3. ASSUME NEW answer \in answers, Receive(answer)
        PROVE  r \in awaiting' \/ Told(r)' # {}
    <3>1. /\ awaiting' = awaiting \ {answer.request}
          /\ \E status \in Status(answer.request.type, answer.result) : Respond(answer.request, status)
      BY <2>3 DEF Receive
    <3> QED
      BY <2>2, <3>1, StatusType
  <2>4. ASSUME NEW c \in awaiting, NEW status \in Failures(c), Fail(c, status)
        PROVE  r \in awaiting' \/ Told(r)' # {}
    <3>1. awaiting' = awaiting \ {c} /\ HandleError(c, status)
      BY <2>4 DEF Fail
    <3>2. c = r => Respond(r, status)
      BY <2>1, <3>1 DEF HandleError, Types
    <3>3. status \in {"REJECTED", "FAILED"}
      BY DEF Failures
    <3> QED
      BY <2>2, <3>1, <3>2, <3>3
  <2>5. CASE Disconnected
    BY <2>5 DEF Disconnected, ByRest
  <2>6. CASE Restart
    BY <2>6, OrderEntryAssumption DEF Restart, TypeOK
  <2>7. CASE GetOpenOrders \/ OpenOrdersAck \/ OpenOrdersFailed \/ Connected
    BY <2>7 DEF GetOpenOrders, OpenOrdersAck, OpenOrdersFailed, Connected
  <2>8. CASE ClientNext
    BY <2>8 DEF ClientNext, CreateOrder, ChangeOrder, Send, CancelAllOrders
  <2>9. CASE ExchangeNext
    BY <2>9 DEF ExchangeNext, Execute, Lose, Trade, AnswerOpenOrders, gateway
  <2>10. CASE UNCHANGED vars
    BY <2>10 DEF vars, gateway
  <2>11. CASE ConnectionNext
    BY <2>3, <2>4, <2>5, <2>6, <2>7, <2>11 DEF ConnectionNext
  <2> QED
    BY <1>1, <2>8, <2>9, <2>10, <2>11 DEF Next
<1>2. TypeOK /\ [Next]_vars
        => [\A r \in awaiting \intersect OrderRequests :
              r \in awaiting' \/ Told(r)' # {} \/ restarts' # restarts]_vars
  BY <1>1
<1> QED
  BY <1>2, TypeCorrect, PTL DEF Spec, NoneIsForgotten

===============================================================================
