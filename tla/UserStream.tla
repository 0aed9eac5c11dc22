------------------------------ MODULE UserStream ------------------------------
(***************************************************************************)
(* The life cycle of listen keys and user streams.                         *)
(*                                                                         *)
(* An order-entry connection (WebSocket, OrderEntryClassic or              *)
(* OrderEntryPortfolio) acquires a listen key and keeps it alive.  The     *)
(* Controller creates a DropCopy from the first key it is told about; the  *)
(* DropCopy retires itself when the exchange says that its key expired,    *)
(* and the Controller's timer removes it and asks the order-entry          *)
(* connection for an early refresh.                                        *)
(*                                                                         *)
(* All handlers run on one event loop: each is one action.                 *)
(***************************************************************************)
EXTENDS Naturals, Sequences

CONSTANTS
  Accounts,     \* the configured accounts
  Portfolio,    \* those with margin mode PORTFOLIO
  WsApi,        \* the setting ws_api
  MaxKeys,      \* bound: listen keys the exchange issues per account
  MaxFaults,    \* bound: disconnects and rejected requests
  MaxInflight   \* bound: requests of an account that await an answer

ASSUME UserStreamAssumption ==
  /\ Portfolio \subseteq Accounts
  /\ WsApi \in BOOLEAN
  /\ MaxKeys \in Nat \ {0}
  /\ MaxFaults \in Nat
  /\ MaxInflight \in Nat \ {0}

VARIABLES
  download,    \* state of download_ of the order-entry connection; ready() is "DONE"
  listen_key,  \* listen_key_ of the order-entry connection, 0 when empty
  refresh,     \* listen_key_refresh_: "zero", "armed" (in the future) or "due"
  inflight,    \* requests sent by the order-entry connection and not yet delivered back
  drop_copy,   \* Controller::drop_copy_
  zombies,     \* Controller::drop_copy_zombies_
  exchange,    \* the exchange's last listen key and whether it is still valid
  faults       \* faults so far

gateway == <<download, listen_key, refresh, inflight, drop_copy, zombies>>
vars == <<download, listen_key, refresh, inflight, drop_copy, zombies, exchange, faults>>

Types == {"SESSION_LOGON", "USER_DATA_STREAM_START", "USER_DATA_STREAM_PING", "LISTEN_KEY"}
States == {"UNDEFINED", "SESSION_LOGON", "USER_DATA_STREAM_START", "LISTEN_KEY", "DONE"}
Requests == [type : Types, status : {"pending", "ok", "error"}, key : Nat]
DropCopies ==
  [key : Nat, conn : {"none", "down", "opening", "up"}, stop : BOOLEAN, event : BOOLEAN]

TypeOK ==
  /\ download \in [Accounts -> States]
  /\ listen_key \in [Accounts -> Nat]
  /\ refresh \in [Accounts -> {"zero", "armed", "due"}]
  /\ inflight \in [Accounts -> Seq(Requests)]
  /\ \A a \in Accounts : Len(inflight[a]) <= MaxInflight
  /\ drop_copy \in [Accounts -> DropCopies]
  /\ zombies \subseteq Accounts
  /\ exchange \in [Accounts -> [key : Nat, valid : BOOLEAN]]
  /\ faults \in 0..MaxFaults

-----------------------------------------------------------------------------
(* Helpers *)

(* The class of an account's order-entry connection. *)
OrderEntryOf(a) ==
  IF a \in Portfolio THEN "OrderEntryPortfolio"
  ELSE IF WsApi THEN "WebSocket" ELSE "OrderEntryClassic"

IsWebSocket(a) == OrderEntryOf(a) = "WebSocket"

NoDropCopy == [key |-> 0, conn |-> "none", stop |-> FALSE, event |-> FALSE]

HasDropCopy(a) == drop_copy[a].conn # "none"

Ready(a) == download[a] = "DONE"
Downloading(a) == download[a] \notin {"UNDEFINED", "DONE"}

Request(type) == [type |-> type, status |-> "pending", key |-> 0]
Send(queue, type) == Append(queue, Request(type))

(* The state core::Download begins with. *)
FirstState(a) == IF IsWebSocket(a) THEN "SESSION_LOGON" ELSE "LISTEN_KEY"

(* download_.retry(state): the state's request is issued again. *)
NoRetry(a, state, queue) == queue  \* mutant
RetryTwice(a, state, queue) ==     \* mutant
  IF Downloading(a) THEN Send(Send(queue, state), state) ELSE queue
Retry(a, state, queue) ==
  IF Downloading(a) /\ download[a] = state THEN Send(queue, state) ELSE queue

(* create_drop_copy_helper: only an empty slot is filled; Start opens the connection. *)
CreateDropCopy(a, key) ==
  IF HasDropCopy(a) THEN drop_copy[a]
  ELSE [key |-> key, conn |-> "opening", stop |-> FALSE, event |-> FALSE]

Init ==
  /\ download = [a \in Accounts |-> "UNDEFINED"]
  /\ listen_key = [a \in Accounts |-> 0]
  /\ refresh = [a \in Accounts |-> "zero"]
  /\ inflight = [a \in Accounts |-> << >>]
  /\ drop_copy = [a \in Accounts |-> NoDropCopy]
  /\ zombies = {}
  /\ exchange = [a \in Accounts |-> [key |-> 0, valid |-> FALSE]]
  /\ faults = 0

Fault ==
  /\ faults < MaxFaults
  /\ faults' = faults + 1

-----------------------------------------------------------------------------
(* The order-entry connection *)

(* The connection is up: download_.begin() enters the first state. *)
Connected(a) ==
  /\ download[a] = "UNDEFINED"
  /\ Len(inflight[a]) < MaxInflight
  /\ download' = [download EXCEPT ![a] = FirstState(a)]
  /\ inflight' = [inflight EXCEPT ![a] = Send(@, FirstState(a))]
  /\ UNCHANGED <<listen_key, refresh, drop_copy, zombies, exchange, faults>>

(* A web socket forgets the requests in flight. *)
SocketDisconnected(a) ==
  /\ IsWebSocket(a)
  /\ download[a] # "UNDEFINED"
  /\ Fault
  /\ download' = [download EXCEPT ![a] = "UNDEFINED"]
  /\ inflight' = [inflight EXCEPT ![a] = << >>]
  /\ UNCHANGED <<listen_key, refresh, drop_copy, zombies, exchange>>

(* The REST client answers the requests in flight with a network error. *)
RestDisconnected(a) ==
  /\ ~IsWebSocket(a)
  /\ download[a] # "UNDEFINED"
  /\ Fault
  /\ download' = [download EXCEPT ![a] = "UNDEFINED"]
  /\ inflight' = [inflight EXCEPT ![a] =
       [i \in DOMAIN @ |-> IF @[i].status = "pending" THEN [@[i] EXCEPT !.status = "error"]
                           ELSE @[i]]]
  /\ UNCHANGED <<listen_key, refresh, drop_copy, zombies, exchange>>

(* An answer is at the head of the queue. *)
Answered(a, types) ==
  /\ inflight[a] # << >>
  /\ Head(inflight[a]).type \in types
  /\ Head(inflight[a]).status # "pending"

(* WebSocket: the logon is followed by the request for a listen key. *)
SessionLogonAck(a) ==
  /\ Answered(a, {"SESSION_LOGON"})
  /\ \/ /\ Head(inflight[a]).status = "ok"
        /\ download' = [download EXCEPT ![a] = "USER_DATA_STREAM_START"]
        /\ inflight' = [inflight EXCEPT ![a] = Send(Tail(@), "USER_DATA_STREAM_START")]
     \/ /\ Head(inflight[a]).status = "error"
        /\ inflight' = [inflight EXCEPT ![a] = Retry(a, "SESSION_LOGON", Tail(@))]
        /\ UNCHANGED download
  /\ UNCHANGED <<listen_key, refresh, drop_copy, zombies, exchange, faults>>

(* What a successful answer leaves in listen_key_. *)
StoreKeepsFirst(a, key) == IF listen_key[a] = 0 THEN key ELSE listen_key[a]  \* mutant
StoreKey(a, key) == IF listen_key[a] = key THEN listen_key[a] ELSE key

(* The answer to a request for a listen key; passOn: the Controller is told. *)
ListenKeyAck(a, state, passOn) ==
  /\ LET answer == Head(inflight[a]) IN
     \/ /\ answer.status = "ok"
        /\ listen_key' = [listen_key EXCEPT ![a] = StoreKey(a, answer.key)]
        /\ drop_copy' = [drop_copy EXCEPT ![a] = IF passOn THEN CreateDropCopy(a, answer.key) ELSE @]
        /\ download' = [download EXCEPT ![a] = IF @ = state THEN "DONE" ELSE @]
        /\ refresh' = [refresh EXCEPT ![a] = "armed"]
        /\ inflight' = [inflight EXCEPT ![a] = Tail(@)]
     \/ /\ answer.status = "error"
        /\ inflight' = [inflight EXCEPT ![a] = Retry(a, state, Tail(@))]
        /\ UNCHANGED <<listen_key, drop_copy, download, refresh>>
  /\ UNCHANGED <<zombies, exchange, faults>>

(* WebSocket: every key, in answer to a start or to a ping, is passed on. *)
SocketListenKeyAck(a) ==
  /\ Answered(a, {"USER_DATA_STREAM_START", "USER_DATA_STREAM_PING"})
  /\ ListenKeyAck(a, "USER_DATA_STREAM_START", TRUE)

(* Classic and Portfolio: only the first key is passed on. *)
RestListenKeyAck(a) ==
  /\ Answered(a, {"LISTEN_KEY"})
  /\ ListenKeyAck(a, "LISTEN_KEY", listen_key[a] = 0)

-----------------------------------------------------------------------------
(* The user stream *)

DropCopyReady(a) ==
  /\ drop_copy[a].conn = "opening"
  /\ drop_copy' = [drop_copy EXCEPT ![a].conn = "up"]
  /\ UNCHANGED <<download, listen_key, refresh, inflight, zombies, exchange, faults>>

(* The message is handled: the stream closes its connection for good. *)
ListenKeyExpired(a) ==
  /\ drop_copy[a].conn = "up"
  /\ drop_copy[a].event
  /\ drop_copy' = [drop_copy EXCEPT ![a].stop = TRUE, ![a].event = FALSE]
  /\ UNCHANGED <<download, listen_key, refresh, inflight, zombies, exchange, faults>>

(* Mutant: every stream that loses its connection is removed. *)
DropCopyAlwaysRemoved(a) ==
  /\ drop_copy[a].conn \in {"opening", "up"}
  /\ IF drop_copy[a].stop THEN UNCHANGED faults ELSE Fault
  /\ drop_copy' = [drop_copy EXCEPT ![a].conn = "down", ![a].event = FALSE]
  /\ zombies' = zombies \union {a}
  /\ UNCHANGED <<download, listen_key, refresh, inflight, exchange>>

(* Messages that were not read are lost.  A stopped stream asks the        *)
(* Controller to remove it.                                                *)
DropCopyDisconnected(a) ==
  /\ drop_copy[a].conn \in {"opening", "up"}
  /\ IF drop_copy[a].stop THEN UNCHANGED faults ELSE Fault
  /\ drop_copy' = [drop_copy EXCEPT ![a].conn = "down", ![a].event = FALSE]
  /\ zombies' = IF drop_copy[a].stop THEN zombies \union {a} ELSE zombies
  /\ UNCHANGED <<download, listen_key, refresh, inflight, exchange>>

-----------------------------------------------------------------------------
(* The timer *)

(* The deadline kept in listen_key_refresh_ passes. *)
Elapse(a) ==
  /\ refresh[a] = "armed"
  /\ refresh' = [refresh EXCEPT ![a] = "due"]
  /\ UNCHANGED <<download, listen_key, inflight, drop_copy, zombies, exchange, faults>>

(* force_listen_key_refresh: a deadline ten seconds ahead, if there was one. *)
ForceByZero(a) == "zero"  \* mutant
ForceListenKeyRefresh(a) == IF refresh[a] = "zero" THEN "zero" ELSE "armed"

AfterRemoval(a) ==
  [drop_copy |-> IF a \in zombies THEN NoDropCopy ELSE drop_copy[a],
   refresh   |-> IF a \in zombies THEN ForceListenKeyRefresh(a) ELSE refresh[a]]

(* user_data_stream_ping and refresh_listen_key. *)
RefreshDue(a) ==
  /\ Ready(a)
  /\ IsWebSocket(a) => listen_key[a] # 0
  /\ AfterRemoval(a).refresh = "due"

ClearedOnRefresh(a) == IF RefreshDue(a) THEN "zero" ELSE AfterRemoval(a).refresh  \* mutant
NextRefresh(a) == IF RefreshDue(a) THEN "armed" ELSE AfterRemoval(a).refresh

(* A disconnected web-socket client tries again. *)
AutoRetry(stream) == IF stream.conn = "down" THEN [stream EXCEPT !.conn = "opening"] ELSE stream

RefreshType(a) == IF IsWebSocket(a) THEN "USER_DATA_STREAM_PING" ELSE "LISTEN_KEY"

(* Mutant: the zombies are not cleared. *)
TimerKeepsZombies ==
  /\ \A a \in Accounts : RefreshDue(a) => Len(inflight[a]) < MaxInflight
  /\ UNCHANGED zombies
  /\ refresh' = [a \in Accounts |-> NextRefresh(a)]
  /\ inflight' = [a \in Accounts |->
       IF RefreshDue(a) THEN Send(inflight[a], RefreshType(a)) ELSE inflight[a]]
  /\ drop_copy' = [a \in Accounts |-> AutoRetry(AfterRemoval(a).drop_copy)]
  /\ UNCHANGED <<download, listen_key, exchange, faults>>

(* First the zombies are removed, then every component sees the timer. *)
Timer ==
  /\ \A a \in Accounts : RefreshDue(a) => Len(inflight[a]) < MaxInflight
  /\ zombies' = {}
  /\ refresh' = [a \in Accounts |-> NextRefresh(a)]
  /\ inflight' = [a \in Accounts |->
       IF RefreshDue(a) THEN Send(inflight[a], RefreshType(a)) ELSE inflight[a]]
  /\ drop_copy' = [a \in Accounts |-> AutoRetry(AfterRemoval(a).drop_copy)]
  /\ UNCHANGED <<download, listen_key, exchange, faults>>

-----------------------------------------------------------------------------
(* The exchange *)

(* A valid key is renewed; without one a new key is issued. *)
Renewed(a) ==
  IF exchange[a].valid THEN exchange[a] ELSE [key |-> exchange[a].key + 1, valid |-> TRUE]

FirstPending(a, i) ==
  /\ i \in DOMAIN inflight[a]
  /\ inflight[a][i].status = "pending"
  /\ \A j \in 1..(i - 1) : inflight[a][j].status # "pending"

Accept(a) ==
  \E i \in 1..MaxInflight :
    /\ FirstPending(a, i)
    /\ exchange' = [exchange EXCEPT ![a] =
         IF inflight[a][i].type = "SESSION_LOGON" THEN @ ELSE Renewed(a)]
    /\ inflight' = [inflight EXCEPT ![a][i] =
         [@ EXCEPT !.status = "ok", !.key = exchange'[a].key]]
    /\ UNCHANGED <<download, listen_key, refresh, drop_copy, zombies, faults>>

Reject(a) ==
  \E i \in 1..MaxInflight :
    /\ FirstPending(a, i)
    /\ Fault
    /\ inflight' = [inflight EXCEPT ![a][i] = [@ EXCEPT !.status = "error"]]
    /\ UNCHANGED <<download, listen_key, refresh, drop_copy, zombies, exchange>>

(* The last key of the bound does not expire. *)
Expire(a) ==
  /\ exchange[a].valid
  /\ exchange[a].key < MaxKeys
  /\ exchange' = [exchange EXCEPT ![a].valid = FALSE]
  /\ UNCHANGED <<gateway, faults>>

(* A connected stream is told that its key is no longer valid. *)
NotifyExpired(a) ==
  /\ drop_copy[a].conn = "up"
  /\ ~(exchange[a].valid /\ exchange[a].key = drop_copy[a].key)
  /\ drop_copy' = [drop_copy EXCEPT ![a].event = TRUE]
  /\ UNCHANGED <<download, listen_key, refresh, inflight, zombies, exchange, faults>>

-----------------------------------------------------------------------------

OrderEntryNext(a) ==
  \/ Connected(a)
  \/ SocketDisconnected(a)
  \/ RestDisconnected(a)
  \/ SessionLogonAck(a)
  \/ SocketListenKeyAck(a)
  \/ RestListenKeyAck(a)

DropCopyNext(a) ==
  \/ DropCopyReady(a)
  \/ ListenKeyExpired(a)
  \/ DropCopyDisconnected(a)

ExchangeNext(a) ==
  \/ Accept(a)
  \/ Reject(a)
  \/ Expire(a)
  \/ NotifyExpired(a)

Next ==
  \/ Timer
  \/ \E a \in Accounts :
       \/ OrderEntryNext(a)
       \/ DropCopyNext(a)
       \/ Elapse(a)
       \/ ExchangeNext(a)

Spec == Init /\ [][Next]_vars

(***************************************************************************)
(* The event loop keeps running and time passes; the exchange answers.     *)
(* Faults, expiries and their notification are not fair: they may happen   *)
(* but need not.  A close that was asked for completes.                    *)
(***************************************************************************)
Fairness ==
  /\ WF_vars(Timer)
  /\ \A a \in Accounts :
       /\ WF_vars(Connected(a))
       /\ WF_vars(SessionLogonAck(a))
       /\ WF_vars(SocketListenKeyAck(a))
       /\ WF_vars(RestListenKeyAck(a))
       /\ WF_vars(Elapse(a))
       /\ WF_vars(Accept(a))
       /\ WF_vars(drop_copy[a].stop /\ DropCopyDisconnected(a))

FairSpec == Spec /\ Fairness

-----------------------------------------------------------------------------
(* Properties *)

(* Controller::drop_copy_zombies_ names exactly the streams that were told  *)
(* of the expiry and have lost their connection: nothing else is removed    *)
(* by the timer, a stream created later least of all, and no dead stream is *)
(* forgotten.                                                               *)
ZombiesAreDeadStreams ==
  \A a \in Accounts : a \in zombies <=> drop_copy[a].stop /\ drop_copy[a].conn = "down"

(* force_listen_key_refresh never finds the refresh time unset (the error   *)
(* logged as "Unexpected: no listen_key_refresh"): whoever has a stream has *)
(* a deadline.                                                              *)
StreamHasDeadline ==
  \A a \in Accounts : HasDropCopy(a) => refresh[a] # "zero"

(* A stream never runs on a key newer than the one its order-entry          *)
(* connection keeps alive, nor on one the exchange has not issued.          *)
StreamKeyIsKnown ==
  \A a \in Accounts : drop_copy[a].key <= listen_key[a] /\ listen_key[a] <= exchange[a].key

(* "note! remove drop_copy *BEFORE* dispatching timer (because of possible  *)
(* auto-retry connection)": a stream whose key expired, once disconnected,  *)
(* never connects again.                                                    *)
NoRetryAfterExpiry ==
  [][\A a \in Accounts :
       drop_copy[a].stop /\ drop_copy[a].conn = "down"
         => drop_copy'[a].conn \in {"none", "down"}]_vars

(* The abstract slot of every account. *)
life == [a \in Accounts |->
           IF ~HasDropCopy(a) THEN "absent" ELSE IF drop_copy[a].stop THEN "retired" ELSE "live"]
online == [a \in Accounts |-> drop_copy[a].conn \in {"opening", "up"}]

Slot == INSTANCE StreamSlot WITH life <- life, online <- online

(* The streams the Controller creates and removes are those StreamSlot      *)
(* promises: created only into an empty slot, removed only when retired     *)
(* and offline.                                                             *)
SlotSpec == Slot!Spec

(* Every account gets its first user stream: an order-entry connection that *)
(* is cut or whose requests are rejected asks again.                        *)
FirstStream == \A a \in Accounts : <>HasDropCopy(a)

(* An expired user stream is replaced by a new one. *)
ExpiredIsReplaced ==
  \A a \in Accounts : drop_copy[a].stop ~> HasDropCopy(a) /\ ~drop_copy[a].stop

(* The same of the WebSocket accounts alone: SocketListenKeyAck passes on   *)
(* every key it is given, also the answer to a ping.                        *)
SocketExpiredIsReplaced ==
  \A a \in Accounts :
    IsWebSocket(a) => (drop_copy[a].stop ~> HasDropCopy(a) /\ ~drop_copy[a].stop)

===============================================================================
