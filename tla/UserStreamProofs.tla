--------------------------- MODULE UserStreamProofs ---------------------------
(***************************************************************************)
(* What holds of UserStream for every set of accounts and every bound.     *)
(***************************************************************************)
EXTENDS UserStream, SequenceTheorems, TLAPS

(* The requests in flight are built with Append, Tail and an update in place. *)
LEMMA SendType ==
  ASSUME NEW queue \in Seq(Requests), NEW type \in Types
  PROVE  /\ Send(queue, type) \in Seq(Requests)
         /\ Len(Send(queue, type)) = Len(queue) + 1
  BY DEF Send, Request, Requests

LEMMA TailType ==
  ASSUME NEW queue \in Seq(Requests), queue # << >>
  PROVE  /\ Head(queue) \in Requests
         /\ Tail(queue) \in Seq(Requests)
         /\ Len(Tail(queue)) = Len(queue) - 1
  OBVIOUS

LEMMA RetryType ==
  ASSUME NEW a \in Accounts, NEW queue \in Seq(Requests), NEW type \in Types
  PROVE  /\ Retry(a, type, queue) \in Seq(Requests)
         /\ Len(Retry(a, type, queue)) <= Len(queue) + 1
  BY SendType DEF Retry

LEMMA CreateType ==
  ASSUME TypeOK, NEW a \in Accounts, NEW key \in Nat
  PROVE  CreateDropCopy(a, key) \in DropCopies
  BY DEF TypeOK, CreateDropCopy, DropCopies

(* What the handlers of a stream make of it is a stream. *)
LEMMA StreamType ==
  ASSUME NEW stream \in DropCopies
  PROVE  /\ [stream EXCEPT !.conn = "up"] \in DropCopies
         /\ [stream EXCEPT !.event = TRUE] \in DropCopies
         /\ [stream EXCEPT !.stop = TRUE, !.event = FALSE] \in DropCopies
         /\ [stream EXCEPT !.conn = "down", !.event = FALSE] \in DropCopies
  BY DEF DropCopies

(* They change the stream of one account. *)
LEMMA StreamUpdate ==
  ASSUME TypeOK, NEW a \in Accounts, NEW stream \in DropCopies,
         drop_copy' = [drop_copy EXCEPT ![a] = stream]
  PROVE  /\ drop_copy' \in [Accounts -> DropCopies]
         /\ drop_copy'[a] = stream
         /\ \A b \in Accounts \ {a} : drop_copy'[b] = drop_copy[b]
  BY DEF TypeOK

(* Each of them does one of four things to it. *)
LEMMA StreamStep ==
  ASSUME TypeOK, NEW a \in Accounts,
         \/ DropCopyReady(a)
         \/ NotifyExpired(a)
         \/ ListenKeyExpired(a)
         \/ DropCopyDisconnected(a)
  PROVE  /\ drop_copy' \in [Accounts -> DropCopies]
         /\ DropCopyReady(a) => drop_copy'[a] = [drop_copy[a] EXCEPT !.conn = "up"]
         /\ NotifyExpired(a) => drop_copy'[a] = [drop_copy[a] EXCEPT !.event = TRUE]
         /\ ListenKeyExpired(a) => drop_copy'[a] = [drop_copy[a] EXCEPT !.stop = TRUE, !.event = FALSE]
         /\ DropCopyDisconnected(a) =>
              drop_copy'[a] = [drop_copy[a] EXCEPT !.conn = "down", !.event = FALSE]
<1> DEFINE up == [drop_copy[a] EXCEPT !.conn = "up"]
           told == [drop_copy[a] EXCEPT !.event = TRUE]
           stopped == [drop_copy[a] EXCEPT !.stop = TRUE, !.event = FALSE]
           down == [drop_copy[a] EXCEPT !.conn = "down", !.event = FALSE]
<1>1. /\ up \in DropCopies /\ told \in DropCopies
      /\ stopped \in DropCopies /\ down \in DropCopies
  BY StreamType DEF TypeOK
<1>2. /\ DropCopyReady(a) => drop_copy' = [drop_copy EXCEPT ![a] = up]
      /\ NotifyExpired(a) => drop_copy' = [drop_copy EXCEPT ![a] = told]
  BY DEF DropCopyReady, NotifyExpired
<1>3. ListenKeyExpired(a) => drop_copy' = [drop_copy EXCEPT ![a] = stopped]
  BY DEF ListenKeyExpired
<1>4. DropCopyDisconnected(a) => drop_copy' = [drop_copy EXCEPT ![a] = down]
  BY DEF DropCopyDisconnected
<1> HIDE DEF up, told, stopped, down
<1>5. /\ drop_copy' \in [Accounts -> DropCopies]
      /\ DropCopyReady(a) => drop_copy'[a] = up
      /\ NotifyExpired(a) => drop_copy'[a] = told
      /\ ListenKeyExpired(a) => drop_copy'[a] = stopped
      /\ DropCopyDisconnected(a) => drop_copy'[a] = down
  BY <1>1, <1>2, <1>3, <1>4, StreamUpdate
<1> QED
  BY <1>5 DEF up, told, stopped, down

(* Every answer to a request for a listen key leaves the types as they are. *)
LEMMA ListenKeyAckType ==
  ASSUME TypeOK, UserStreamAssumption, NEW a \in Accounts, inflight[a] # << >>,
         NEW state \in {"USER_DATA_STREAM_START", "LISTEN_KEY"},
         NEW passOn \in BOOLEAN, ListenKeyAck(a, state, passOn)
  PROVE  TypeOK'
<1> DEFINE answer == Head(inflight[a])
<1>1. /\ answer \in Requests
      /\ Tail(inflight[a]) \in Seq(Requests)
      /\ Len(Tail(inflight[a])) = Len(inflight[a]) - 1
  BY TailType DEF TypeOK
<1>2. CASE answer.status = "ok"
  <2>1. StoreKey(a, answer.key) \in Nat /\ answer.key \in Nat
    BY <1>1 DEF StoreKey, Requests, TypeOK
  <2>2. CreateDropCopy(a, answer.key) \in DropCopies
    BY <2>1, CreateType
  <2>3. /\ listen_key' = [listen_key EXCEPT ![a] = StoreKey(a, answer.key)]
        /\ drop_copy' = [drop_copy EXCEPT ![a] = IF passOn THEN CreateDropCopy(a, answer.key) ELSE @]
        /\ download' = [download EXCEPT ![a] = IF @ = state THEN "DONE" ELSE @]
        /\ refresh' = [refresh EXCEPT ![a] = "armed"]
        /\ inflight' = [inflight EXCEPT ![a] = Tail(inflight[a])]
        /\ UNCHANGED <<zombies, exchange, faults>>
    BY <1>2 DEF ListenKeyAck
  <2>4. inflight' \in [Accounts -> Seq(Requests)] /\ \A b \in Accounts : Len(inflight'[b]) <= MaxInflight
    BY <1>1, <2>3 DEF TypeOK, UserStreamAssumption
  <2>5. /\ download' \in [Accounts -> States]
        /\ listen_key' \in [Accounts -> Nat]
        /\ refresh' \in [Accounts -> {"zero", "armed", "due"}]
        /\ drop_copy' \in [Accounts -> DropCopies]
    BY <2>1, <2>2, <2>3 DEF TypeOK, States
  <2> QED
    BY <2>3, <2>4, <2>5 DEF TypeOK
<1>3. CASE answer.status = "error"
  <2> DEFINE queue == Retry(a, state, Tail(inflight[a]))
  <2>1. state \in Types /\ Len(inflight[a]) \in Nat
    BY DEF Types, TypeOK
  <2>2. queue \in Seq(Requests) /\ Len(queue) <= Len(Tail(inflight[a])) + 1
    BY <1>1, <2>1, RetryType
  <2>3. Len(queue) <= Len(inflight[a])
    BY <1>1, <2>1, <2>2
  <2>4. /\ inflight' = [inflight EXCEPT ![a] = queue]
        /\ UNCHANGED <<listen_key, drop_copy, download, refresh, zombies, exchange, faults>>
    BY <1>3 DEF ListenKeyAck
  <2> HIDE DEF queue
  <2>5. inflight' \in [Accounts -> Seq(Requests)] /\ \A b \in Accounts : Len(inflight'[b]) <= MaxInflight
    BY <2>1, <2>2, <2>3, <2>4 DEF TypeOK, UserStreamAssumption
  <2> QED
    BY <2>4, <2>5 DEF TypeOK
<1> QED
  BY <1>2, <1>3 DEF ListenKeyAck

(* The removal of zombies leaves a stream and a deadline of their types. *)
LEMMA TimerType ==
  ASSUME TypeOK, UserStreamAssumption, Timer
  PROVE  TypeOK'
<1>1. ASSUME NEW a \in Accounts
      PROVE  /\ NextRefresh(a) \in {"zero", "armed", "due"}
             /\ AutoRetry(AfterRemoval(a).drop_copy) \in DropCopies
  <2>1. NextRefresh(a) \in {"zero", "armed", "due"}
    BY DEF NextRefresh, AfterRemoval, ForceListenKeyRefresh, TypeOK
  <2>2. AfterRemoval(a).drop_copy \in {NoDropCopy, drop_copy[a]}
    BY DEF AfterRemoval
  <2>3. NoDropCopy \in DropCopies /\ drop_copy[a] \in DropCopies
    BY DEF NoDropCopy, DropCopies, TypeOK
  <2>4. ASSUME NEW stream \in DropCopies
        PROVE  AutoRetry(stream) \in DropCopies
    BY DEF AutoRetry, DropCopies
  <2> QED
    BY <2>1, <2>2, <2>3, <2>4
<1>2. ASSUME NEW a \in Accounts
      PROVE  /\ Send(inflight[a], RefreshType(a)) \in Seq(Requests)
             /\ Len(Send(inflight[a], RefreshType(a))) = Len(inflight[a]) + 1
  BY SendType DEF RefreshType, Types, TypeOK
<1>3. /\ inflight' \in [Accounts -> Seq(Requests)]
      /\ \A a \in Accounts : Len(inflight'[a]) <= MaxInflight
  BY <1>2 DEF Timer, TypeOK, UserStreamAssumption
<1>4. /\ refresh' \in [Accounts -> {"zero", "armed", "due"}]
      /\ drop_copy' \in [Accounts -> DropCopies]
      /\ zombies' \subseteq Accounts
      /\ UNCHANGED <<download, listen_key, exchange, faults>>
  BY <1>1 DEF Timer
<1> QED
  BY <1>3, <1>4 DEF TypeOK

(* An answer changes one request in place. *)
LEMMA AnswerType ==
  ASSUME TypeOK, NEW a \in Accounts, NEW i \in DOMAIN inflight[a], NEW request \in Requests,
         inflight' = [inflight EXCEPT ![a][i] = request]
  PROVE  /\ inflight' \in [Accounts -> Seq(Requests)]
         /\ \A b \in Accounts : Len(inflight'[b]) <= MaxInflight
<1>1. /\ inflight[a] \in Seq(Requests)
      /\ i \in 1..Len(inflight[a])
  BY DEF TypeOK
<1>2. /\ [inflight[a] EXCEPT ![i] = request] \in Seq(Requests)
      /\ Len([inflight[a] EXCEPT ![i] = request]) = Len(inflight[a])
  BY <1>1
<1> QED
  BY <1>2 DEF TypeOK

LEMMA ExchangeType ==
  ASSUME TypeOK, UserStreamAssumption, NEW a \in Accounts, ExchangeNext(a)
  PROVE  TypeOK'
<1>1. CASE Accept(a)
  <2>1. PICK i \in 1..MaxInflight :
          /\ FirstPending(a, i)
          /\ exchange' = [exchange EXCEPT ![a] =
               IF inflight[a][i].type = "SESSION_LOGON" THEN @ ELSE Renewed(a)]
          /\ inflight' = [inflight EXCEPT ![a][i] =
               [@ EXCEPT !.status = "ok", !.key = exchange'[a].key]]
          /\ UNCHANGED <<download, listen_key, refresh, drop_copy, zombies, faults>>
    BY <1>1 DEF Accept
  <2>2. i \in DOMAIN inflight[a] /\ inflight[a][i] \in Requests
    BY <2>1 DEF FirstPending, TypeOK
  <2>3. exchange' \in [Accounts -> [key : Nat, valid : BOOLEAN]]
    BY <2>1 DEF Renewed, TypeOK
  <2> DEFINE request == [inflight[a][i] EXCEPT !.status = "ok", !.key = exchange'[a].key]
  <2>4. request \in Requests
    BY <2>2, <2>3 DEF Requests
  <2>5. inflight' = [inflight EXCEPT ![a][i] = request]
    BY <2>1
  <2>6. /\ inflight' \in [Accounts -> Seq(Requests)]
        /\ \A b \in Accounts : Len(inflight'[b]) <= MaxInflight
    <3> HIDE DEF request
    <3> QED BY <2>2, <2>4, <2>5, AnswerType
  <2> QED
    BY <2>1, <2>3, <2>6 DEF TypeOK
<1>2. CASE Reject(a)
  <2>1. PICK i \in 1..MaxInflight :
          /\ FirstPending(a, i)
          /\ Fault
          /\ inflight' = [inflight EXCEPT ![a][i] = [@ EXCEPT !.status = "error"]]
          /\ UNCHANGED <<download, listen_key, refresh, drop_copy, zombies, exchange>>
    BY <1>2 DEF Reject
  <2>2. i \in DOMAIN inflight[a] /\ inflight[a][i] \in Requests
    BY <2>1 DEF FirstPending, TypeOK
  <2> DEFINE request == [inflight[a][i] EXCEPT !.status = "error"]
  <2>4. request \in Requests
    BY <2>2 DEF Requests
  <2>5. inflight' = [inflight EXCEPT ![a][i] = request]
    BY <2>1
  <2>6. /\ inflight' \in [Accounts -> Seq(Requests)]
        /\ \A b \in Accounts : Len(inflight'[b]) <= MaxInflight
    <3> HIDE DEF request
    <3> QED BY <2>2, <2>4, <2>5, AnswerType
  <2>7. faults' \in 0..MaxFaults
    BY <2>1 DEF Fault, TypeOK, UserStreamAssumption
  <2> QED
    BY <2>1, <2>6, <2>7 DEF TypeOK
<1>3. CASE Expire(a)
  BY <1>3 DEF Expire, gateway, TypeOK
<1>4. CASE NotifyExpired(a)
  <2>1. drop_copy' \in [Accounts -> DropCopies]
    BY <1>4, StreamStep
  <2> QED
    BY <1>4, <2>1 DEF NotifyExpired, TypeOK
<1> QED
  BY <1>1, <1>2, <1>3, <1>4 DEF ExchangeNext

LEMMA OrderEntryType ==
  ASSUME TypeOK, UserStreamAssumption, NEW a \in Accounts, OrderEntryNext(a)
  PROVE  TypeOK'
<1>1. CASE Connected(a)
  <2>1. FirstState(a) \in Types \intersect States
    BY DEF FirstState, Types, States
  <2>2. /\ Send(inflight[a], FirstState(a)) \in Seq(Requests)
        /\ Len(Send(inflight[a], FirstState(a))) = Len(inflight[a]) + 1
    BY <2>1, SendType DEF TypeOK
  <2> QED
    BY <1>1, <2>1, <2>2 DEF Connected, TypeOK, UserStreamAssumption
<1>2. CASE SocketDisconnected(a)
  <2>1. inflight' \in [Accounts -> Seq(Requests)] /\ \A b \in Accounts : Len(inflight'[b]) <= MaxInflight
    BY <1>2 DEF SocketDisconnected, TypeOK, UserStreamAssumption
  <2> QED
    BY <1>2, <2>1 DEF SocketDisconnected, Fault, TypeOK, States, UserStreamAssumption
<1>3. CASE RestDisconnected(a)
  <2> DEFINE failed == [i \in DOMAIN inflight[a] |->
               IF inflight[a][i].status = "pending" THEN [inflight[a][i] EXCEPT !.status = "error"]
               ELSE inflight[a][i]]
  <2>1. inflight[a] \in Seq(Requests)
    BY DEF TypeOK
  <2>2. DOMAIN inflight[a] = 1..Len(inflight[a]) /\ Len(inflight[a]) \in Nat
    BY <2>1
  <2>3. ASSUME NEW i \in 1..Len(inflight[a]) PROVE failed[i] \in Requests
    <3>1. inflight[a][i] \in Requests
      BY <2>1
    <3> QED BY <2>2, <3>1 DEF Requests
  <2>6. failed \in [1..Len(inflight[a]) -> Requests]
    BY <2>2, <2>3
  <2>7. failed \in Seq(Requests) /\ Len(failed) = Len(inflight[a])
    <3> HIDE DEF failed
    <3> QED BY <2>2, <2>6, IsASeq, LenProperties
  <2>4. inflight' = [inflight EXCEPT ![a] = failed]
    BY <1>3 DEF RestDisconnected
  <2>5. inflight' \in [Accounts -> Seq(Requests)] /\ \A b \in Accounts : Len(inflight'[b]) <= MaxInflight
    <3> HIDE DEF failed
    <3> QED BY <2>7, <2>4 DEF TypeOK
  <2> QED
    BY <1>3, <2>5 DEF RestDisconnected, Fault, TypeOK, States, UserStreamAssumption
<1>4. CASE SessionLogonAck(a)
  <2>1. /\ Tail(inflight[a]) \in Seq(Requests)
        /\ Len(Tail(inflight[a])) = Len(inflight[a]) - 1
    BY <1>4, TailType DEF SessionLogonAck, Answered, TypeOK
  <2> /\ Len(inflight[a]) \in Nat
      /\ "USER_DATA_STREAM_START" \in Types
      /\ "SESSION_LOGON" \in Types
    BY DEF TypeOK, Types
  <2>2. /\ Send(Tail(inflight[a]), "USER_DATA_STREAM_START") \in Seq(Requests)
        /\ Len(Send(Tail(inflight[a]), "USER_DATA_STREAM_START")) = Len(Tail(inflight[a])) + 1
    BY <2>1, SendType
  <2>3. /\ Retry(a, "SESSION_LOGON", Tail(inflight[a])) \in Seq(Requests)
        /\ Len(Retry(a, "SESSION_LOGON", Tail(inflight[a]))) <= Len(Tail(inflight[a])) + 1
    BY <2>1, RetryType
  <2>4. download' \in [Accounts -> States]
    BY <1>4 DEF SessionLogonAck, States, TypeOK
  <2>5. inflight' \in [Accounts -> Seq(Requests)] /\ \A b \in Accounts : Len(inflight'[b]) <= MaxInflight
    <3>1. \E queue \in Seq(Requests) : Len(queue) <= Len(inflight[a]) /\ inflight' = [inflight EXCEPT ![a] = queue]
      BY <1>4, <2>1, <2>2, <2>3 DEF SessionLogonAck
    <3> QED BY <3>1 DEF TypeOK, UserStreamAssumption
  <2> QED
    BY <1>4, <2>4, <2>5 DEF SessionLogonAck, TypeOK
<1>5. CASE SocketListenKeyAck(a)
  BY <1>5, ListenKeyAckType DEF SocketListenKeyAck, Answered
<1>6. CASE RestListenKeyAck(a)
  BY <1>6, ListenKeyAckType DEF RestListenKeyAck, Answered, TypeOK
<1> QED
  BY <1>1, <1>2, <1>3, <1>4, <1>5, <1>6 DEF OrderEntryNext

LEMMA DropCopyType ==
  ASSUME TypeOK, UserStreamAssumption, NEW a \in Accounts, DropCopyNext(a)
  PROVE  TypeOK'
<1> drop_copy' \in [Accounts -> DropCopies]
  BY StreamStep DEF DropCopyNext
<1>1. CASE DropCopyReady(a)
  BY <1>1 DEF DropCopyReady, TypeOK
<1>2. CASE ListenKeyExpired(a)
  BY <1>2 DEF ListenKeyExpired, TypeOK
<1>3. CASE DropCopyDisconnected(a)
  <2>1. zombies' \subseteq Accounts
    BY <1>3 DEF DropCopyDisconnected, TypeOK
  <2>2. faults' \in 0..MaxFaults
    BY <1>3 DEF DropCopyDisconnected, Fault, TypeOK, UserStreamAssumption
  <2> QED
    BY <1>3, <2>1, <2>2 DEF DropCopyDisconnected, TypeOK
<1> QED
  BY <1>1, <1>2, <1>3 DEF DropCopyNext

(* Every variable of the gateway and of the exchange keeps its type, and no *)
(* account has more requests in flight than the bound.                      *)
THEOREM TypeCorrect == Spec => []TypeOK
<1>1. Init => TypeOK
  BY UserStreamAssumption DEF Init, TypeOK, States, NoDropCopy, DropCopies
<1>2. TypeOK /\ [Next]_vars => TypeOK'
  <2> SUFFICES ASSUME TypeOK, [Next]_vars PROVE TypeOK'
    OBVIOUS
  <2>1. CASE Timer
    BY <2>1, TimerType, UserStreamAssumption
  <2>2. ASSUME NEW a \in Accounts, OrderEntryNext(a) PROVE TypeOK'
    BY <2>2, OrderEntryType, UserStreamAssumption
  <2>3. ASSUME NEW a \in Accounts, DropCopyNext(a) PROVE TypeOK'
    BY <2>3, DropCopyType, UserStreamAssumption
  <2>4. ASSUME NEW a \in Accounts, Elapse(a) PROVE TypeOK'
    BY <2>4 DEF Elapse, TypeOK
  <2>5. ASSUME NEW a \in Accounts, ExchangeNext(a) PROVE TypeOK'
    BY <2>5, ExchangeType, UserStreamAssumption
  <2>6. CASE UNCHANGED vars
    BY <2>6 DEF vars, TypeOK
  <2> QED
    BY <2>1, <2>2, <2>3, <2>4, <2>5, <2>6 DEF Next
<1> QED
  BY <1>1, <1>2, PTL DEF Spec

-----------------------------------------------------------------------------
(***************************************************************************)
(* Zombies and deadlines.  The invariant relates four variables: a zombie  *)
(* is a stopped stream that is down, a stream that is not yet connected is *)
(* not stopped, and a slot that is filled has a deadline.                  *)
(***************************************************************************)
NewStreamIsClean ==
  \A a \in Accounts : drop_copy[a].conn \in {"none", "opening"} => ~drop_copy[a].stop

StreamInv ==
  /\ ZombiesAreDeadStreams
  /\ StreamHasDeadline
  /\ NewStreamIsClean

(* What an answer to a request for a listen key does to the slot. *)
LEMMA ListenKeyAckSlot ==
  ASSUME TypeOK, NEW a \in Accounts, NEW state, NEW passOn \in BOOLEAN,
         ListenKeyAck(a, state, passOn)
  PROVE  /\ UNCHANGED zombies
         /\ \A b \in Accounts \ {a} : drop_copy'[b] = drop_copy[b] /\ refresh'[b] = refresh[b]
         /\ \/ drop_copy'[a] = drop_copy[a] /\ refresh'[a] \in {refresh[a], "armed"}
            \/ /\ drop_copy[a].conn = "none" /\ refresh'[a] = "armed"
               /\ drop_copy'[a].conn = "opening" /\ ~drop_copy'[a].stop
<1> UNCHANGED zombies
  BY DEF ListenKeyAck
<1> DEFINE key == Head(inflight[a]).key
<1>1. CASE /\ drop_copy' = [drop_copy EXCEPT ![a] = IF passOn THEN CreateDropCopy(a, key) ELSE @]
           /\ refresh' = [refresh EXCEPT ![a] = "armed"]
  BY <1>1 DEF CreateDropCopy, HasDropCopy, TypeOK
<1>2. CASE UNCHANGED <<drop_copy, refresh>>
  BY <1>2
<1> QED
  BY <1>1, <1>2 DEF ListenKeyAck

LEMMA StreamInvTimer ==
  ASSUME TypeOK, StreamInv, Timer
  PROVE  StreamInv'
<1> SUFFICES ASSUME NEW a \in Accounts
             PROVE  /\ ~(drop_copy'[a].stop /\ drop_copy'[a].conn = "down")
                    /\ drop_copy'[a].conn # "none" => refresh'[a] # "zero"
                    /\ drop_copy'[a].conn \in {"none", "opening"} => ~drop_copy'[a].stop
  BY DEF Timer, StreamInv, ZombiesAreDeadStreams, StreamHasDeadline, NewStreamIsClean, HasDropCopy
<1>1. /\ drop_copy'[a] = AutoRetry(AfterRemoval(a).drop_copy)
      /\ refresh'[a] = NextRefresh(a)
  BY DEF Timer
<1>2. CASE a \in zombies
  BY <1>1, <1>2 DEF AutoRetry, AfterRemoval, NoDropCopy
<1>3. CASE a \notin zombies
  <2>1. drop_copy'[a] = AutoRetry(drop_copy[a]) /\ refresh'[a] \in {refresh[a], "armed"}
    BY <1>1, <1>3 DEF AfterRemoval, NextRefresh
  <2>2. drop_copy[a] \in DropCopies
    BY DEF TypeOK
  <2>3. /\ ~(drop_copy[a].stop /\ drop_copy[a].conn = "down")
        /\ drop_copy[a].conn # "none" => refresh[a] # "zero"
        /\ drop_copy[a].conn \in {"none", "opening"} => ~drop_copy[a].stop
    BY <1>3 DEF StreamInv, ZombiesAreDeadStreams, StreamHasDeadline, NewStreamIsClean, HasDropCopy
  <2> QED
    BY <2>1, <2>2, <2>3 DEF AutoRetry, DropCopies
<1> QED
  BY <1>2, <1>3

LEMMA StreamInvStep ==
  ASSUME TypeOK, StreamInv, [Next]_vars
  PROVE  StreamInv'
<1> USE DEF StreamInv, ZombiesAreDeadStreams, StreamHasDeadline, NewStreamIsClean, HasDropCopy
<1>1. CASE Timer
  BY <1>1, StreamInvTimer
<1>2. ASSUME NEW a \in Accounts, OrderEntryNext(a) PROVE StreamInv'
  <2>1. CASE Connected(a) \/ SocketDisconnected(a) \/ RestDisconnected(a) \/ SessionLogonAck(a)
    BY <2>1 DEF Connected, SocketDisconnected, RestDisconnected, SessionLogonAck
  <2>2. CASE SocketListenKeyAck(a) \/ RestListenKeyAck(a)
    <3>1. \E state, passOn : passOn \in BOOLEAN /\ ListenKeyAck(a, state, passOn)
      BY <2>2 DEF SocketListenKeyAck, RestListenKeyAck
    <3>2. /\ UNCHANGED zombies
          /\ \A b \in Accounts \ {a} : drop_copy'[b] = drop_copy[b] /\ refresh'[b] = refresh[b]
          /\ \/ drop_copy'[a] = drop_copy[a] /\ refresh'[a] \in {refresh[a], "armed"}
             \/ /\ drop_copy[a].conn = "none" /\ refresh'[a] = "armed"
                /\ drop_copy'[a].conn = "opening" /\ ~drop_copy'[a].stop
      BY <3>1, ListenKeyAckSlot
    <3> QED
      BY <3>2
  <2> QED
    BY <1>2, <2>1, <2>2 DEF OrderEntryNext
<1>3. ASSUME NEW a \in Accounts, DropCopyNext(a) PROVE StreamInv'
  <2> /\ drop_copy[a] \in DropCopies
      /\ drop_copy = [b \in Accounts |-> drop_copy[b]]
    BY DEF TypeOK
  <2>1. CASE DropCopyReady(a)
    BY <2>1 DEF DropCopyReady, DropCopies, TypeOK
  <2>2. CASE ListenKeyExpired(a)
    BY <2>2 DEF ListenKeyExpired, DropCopies, TypeOK
  <2>3. CASE DropCopyDisconnected(a)
    BY <2>3 DEF DropCopyDisconnected, DropCopies, TypeOK
  <2> QED
    BY <1>3, <2>1, <2>2, <2>3 DEF DropCopyNext
<1>4. ASSUME NEW a \in Accounts, Elapse(a) PROVE StreamInv'
  BY <1>4 DEF Elapse, TypeOK
<1>5. ASSUME NEW a \in Accounts, ExchangeNext(a) PROVE StreamInv'
  <2>1. CASE Accept(a) \/ Reject(a) \/ Expire(a)
    <3> UNCHANGED <<drop_copy, zombies, refresh>>
      BY <2>1 DEF Accept, Reject, Expire, gateway
    <3> QED OBVIOUS
  <2>2. CASE NotifyExpired(a)
    BY <2>2 DEF NotifyExpired, DropCopies, TypeOK
  <2> QED
    BY <1>5, <2>1, <2>2 DEF ExchangeNext
<1>6. CASE UNCHANGED vars
  BY <1>6 DEF vars
<1> QED
  BY <1>1, <1>2, <1>3, <1>4, <1>5, <1>6 DEF Next

LEMMA StreamInvInvariant == Spec => []StreamInv
<1>1. Init => StreamInv
  BY DEF Init, StreamInv, ZombiesAreDeadStreams, StreamHasDeadline, NewStreamIsClean,
         HasDropCopy, NoDropCopy
<1> QED
  BY <1>1, StreamInvStep, TypeCorrect, PTL DEF Spec

(* The timer removes exactly the streams that were told of the expiry and   *)
(* have lost their connection.                                              *)
THEOREM ZombiesSafe == Spec => []ZombiesAreDeadStreams
  BY StreamInvInvariant, PTL DEF StreamInv

(* force_listen_key_refresh always finds a deadline to move.                *)
THEOREM DeadlineSafe == Spec => []StreamHasDeadline
  BY StreamInvInvariant, PTL DEF StreamInv

-----------------------------------------------------------------------------
(***************************************************************************)
(* Keys.  The exchange answers the requests of an account in the order     *)
(* they were sent and never goes back to an older key, so the answers in   *)
(* flight lie between the key the connection holds and the last one        *)
(* issued, in ascending order.                                             *)
(***************************************************************************)
AnswersInOrder(low, queue, high) ==
  /\ \A i \in 1..Len(queue) :
       queue[i].status = "ok" => low <= queue[i].key /\ queue[i].key <= high
  /\ \A i, j \in 1..Len(queue) :
       i < j /\ queue[j].status = "ok"
         => /\ queue[i].status # "pending"
            /\ queue[i].status = "ok" => queue[i].key <= queue[j].key

KeyInv ==
  /\ StreamKeyIsKnown
  /\ \A a \in Accounts : AnswersInOrder(listen_key[a], inflight[a], exchange[a].key)

LEMMA SendInOrder ==
  ASSUME NEW queue \in Seq(Requests), NEW type \in Types, NEW low \in Nat, NEW high \in Nat,
         AnswersInOrder(low, queue, high)
  PROVE  AnswersInOrder(low, Send(queue, type), high)
<1> DEFINE sent == Send(queue, type)
<1>1. /\ Len(sent) = Len(queue) + 1
      /\ \A i \in 1..Len(queue) : sent[i] = queue[i]
      /\ sent[Len(queue) + 1].status = "pending"
  BY DEF Send, Request
<1>2. Len(queue) \in Nat
  OBVIOUS
<1> HIDE DEF sent
<1>3. AnswersInOrder(low, sent, high)
  <2>1. \A i \in 1..Len(sent) : sent[i].status = "ok" => i \in 1..Len(queue)
    BY <1>1, <1>2
  <2>2. \A i \in 1..Len(sent), j \in 1..Len(queue) : i < j => i \in 1..Len(queue)
    BY <1>2
  <2> QED
    BY <1>1, <2>1, <2>2 DEF AnswersInOrder
<1> QED
  BY <1>3 DEF sent

LEMMA RetryInOrder ==
  ASSUME NEW a \in Accounts, NEW queue \in Seq(Requests), NEW type \in Types,
         NEW low \in Nat, NEW high \in Nat, AnswersInOrder(low, queue, high)
  PROVE  AnswersInOrder(low, Retry(a, type, queue), high)
  BY SendInOrder DEF Retry

(* The head of the queue is the oldest answer: what follows it is not below. *)
LEMMA TailInOrder ==
  ASSUME NEW queue \in Seq(Requests), queue # << >>, NEW low \in Nat, NEW high \in Nat,
         AnswersInOrder(low, queue, high)
  PROVE  /\ AnswersInOrder(low, Tail(queue), high)
         /\ Head(queue).status = "ok" =>
              /\ low <= Head(queue).key /\ Head(queue).key <= high
              /\ AnswersInOrder(Head(queue).key, Tail(queue), high)
<1> DEFINE tail == Tail(queue)
           head == Head(queue)
<1>1. /\ Len(queue) \in Nat \ {0}
      /\ Len(tail) = Len(queue) - 1
      /\ \A i \in 1..Len(tail) : tail[i] = queue[i + 1]
      /\ head = queue[1]
  OBVIOUS
<1> HIDE DEF tail, head
<1>2. AnswersInOrder(low, tail, high)
  <2>1. \A i \in 1..Len(tail) : i + 1 \in 1..Len(queue)
    BY <1>1
  <2>2. \A i, j \in 1..Len(tail) : i < j => i + 1 < j + 1
    BY <1>1
  <2>3. \A i \in 1..Len(tail) :
          tail[i].status = "ok" => low <= tail[i].key /\ tail[i].key <= high
    BY <1>1, <2>1 DEF AnswersInOrder
  <2>4. ASSUME NEW i \in 1..Len(tail), NEW j \in 1..Len(tail), i < j, tail[j].status = "ok"
        PROVE  /\ tail[i].status # "pending"
               /\ tail[i].status = "ok" => tail[i].key <= tail[j].key
    BY <1>1, <2>1, <2>2, <2>4 DEF AnswersInOrder
  <2> QED
    BY <2>3, <2>4 DEF AnswersInOrder
<1>3. head.status = "ok" => low <= head.key /\ head.key <= high
  BY <1>1 DEF AnswersInOrder
<1>4. ASSUME head.status = "ok" PROVE AnswersInOrder(head.key, tail, high)
  <2>1. \A i \in 1..Len(tail) : i + 1 \in 1..Len(queue) /\ 1 \in 1..Len(queue) /\ 1 < i + 1
    BY <1>1
  <2>2. \A i \in 1..Len(tail) : tail[i].status = "ok" => head.key <= tail[i].key
    BY <1>1, <1>4, <2>1 DEF AnswersInOrder
  <2> QED
    BY <1>2, <2>2 DEF AnswersInOrder
<1> QED
  BY <1>2, <1>3, <1>4 DEF tail, head

(* An error in the place of any request leaves the answers in order. *)
LEMMA ErrorsInOrder ==
  ASSUME NEW queue \in Seq(Requests), NEW failed \in Seq(Requests), NEW low \in Nat, NEW high \in Nat,
         Len(failed) = Len(queue),
         \A i \in 1..Len(queue) : failed[i] = queue[i] \/ failed[i].status = "error",
         AnswersInOrder(low, queue, high)
  PROVE  AnswersInOrder(low, failed, high)
<1> \A i \in 1..Len(queue) : failed[i].status # "pending" \/ failed[i] = queue[i]
  OBVIOUS
<1> QED
  BY DEF AnswersInOrder

(* The first pending request is answered with a key that is not older. *)
LEMMA AcceptInOrder ==
  ASSUME NEW queue \in Seq(Requests), NEW i \in 1..Len(queue), NEW request \in Requests,
         queue[i].status = "pending", \A j \in 1..(i - 1) : queue[j].status # "pending",
         NEW low \in Nat, NEW high \in Nat, low <= high,
         NEW key \in Nat, high <= key, request.key = key, request.status = "ok",
         AnswersInOrder(low, queue, high)
  PROVE  AnswersInOrder(low, [queue EXCEPT ![i] = request], key)
<1> DEFINE answered == [queue EXCEPT ![i] = request]
<1>1. /\ Len(queue) \in Nat
      /\ \A j \in 1..Len(queue) : queue[j] \in Requests
      /\ Len(answered) = Len(queue)
      /\ answered[i] = request
      /\ \A j \in 1..Len(queue) : j # i => answered[j] = queue[j]
  OBVIOUS
<1> HIDE DEF answered
<1>2. \A j \in 1..Len(queue) : i < j => queue[j].status # "ok"
  BY <1>1 DEF AnswersInOrder
<1>3. \A j \in 1..Len(queue) : j < i => j \in 1..(i - 1)
  BY <1>1
<1>4. ASSUME NEW j \in 1..Len(queue), queue[j].status = "ok"
      PROVE  low <= queue[j].key /\ queue[j].key <= key
  BY <1>1, <1>4 DEF AnswersInOrder, Requests
<1>5. \A j \in 1..Len(answered) :
        answered[j].status = "ok" => low <= answered[j].key /\ answered[j].key <= key
  BY <1>1, <1>4
<1>6. ASSUME NEW j \in 1..Len(answered), NEW k \in 1..Len(answered), j < k, answered[k].status = "ok"
      PROVE  /\ answered[j].status # "pending"
             /\ answered[j].status = "ok" => answered[j].key <= answered[k].key
  <2>1. CASE k = i
    BY <1>1, <1>3, <1>4, <1>6, <2>1
  <2>2. CASE k # i
    <3>1. queue[k].status = "ok" /\ j # i
      BY <1>1, <1>2, <1>6, <2>2
    <3> QED
      BY <1>1, <1>6, <2>2, <3>1 DEF AnswersInOrder
  <2> QED
    BY <2>1, <2>2
<1>7. AnswersInOrder(low, answered, key)
  BY <1>5, <1>6 DEF AnswersInOrder
<1> QED
  BY <1>7 DEF answered

(* An action that touches one account's queue and nothing else of KeyInv. *)
LEMMA KeyInvQueue ==
  ASSUME TypeOK, KeyInv, NEW a \in Accounts, NEW queue,
         AnswersInOrder(listen_key[a], queue, exchange[a].key),
         inflight' = [inflight EXCEPT ![a] = queue],
         UNCHANGED <<listen_key, exchange>>,
         \A b \in Accounts : drop_copy'[b].key \in {0, drop_copy[b].key}
  PROVE  KeyInv'
<1>1. ASSUME NEW b \in Accounts PROVE AnswersInOrder(listen_key[b], inflight'[b], exchange[b].key)
  BY DEF KeyInv, TypeOK
<1>2. /\ listen_key \in [Accounts -> Nat]
      /\ exchange \in [Accounts -> [key : Nat, valid : BOOLEAN]]
  BY DEF TypeOK
<1>3. ASSUME NEW b \in Accounts PROVE drop_copy'[b].key <= listen_key[b]
  BY <1>2 DEF KeyInv, StreamKeyIsKnown
<1> QED
  BY <1>1, <1>3 DEF KeyInv, StreamKeyIsKnown, AnswersInOrder

LEMMA KeyInvListenKeyAck ==
  ASSUME TypeOK, KeyInv, NEW a \in Accounts, inflight[a] # << >>,
         NEW state \in {"USER_DATA_STREAM_START", "LISTEN_KEY"},
         NEW passOn \in BOOLEAN, ListenKeyAck(a, state, passOn)
  PROVE  KeyInv'
<1> DEFINE answer == Head(inflight[a])
           tail == Tail(inflight[a])
<1>1. /\ inflight[a] \in Seq(Requests)
      /\ answer \in Requests /\ tail \in Seq(Requests)
      /\ listen_key \in [Accounts -> Nat]
      /\ exchange[a].key \in Nat
      /\ state \in Types
  BY TailType DEF TypeOK, Types
<1>2. /\ AnswersInOrder(listen_key[a], tail, exchange[a].key)
      /\ answer.status = "ok" =>
           /\ listen_key[a] <= answer.key /\ answer.key <= exchange[a].key
           /\ AnswersInOrder(answer.key, tail, exchange[a].key)
  BY <1>1, TailInOrder DEF KeyInv
<1> HIDE DEF answer, tail
<1>3. CASE answer.status = "ok"
  <2>1. /\ listen_key' = [listen_key EXCEPT ![a] = answer.key]
        /\ drop_copy' = [drop_copy EXCEPT ![a] = IF passOn THEN CreateDropCopy(a, answer.key) ELSE @]
        /\ inflight' = [inflight EXCEPT ![a] = tail]
        /\ UNCHANGED exchange
    <3>1. StoreKey(a, answer.key) = answer.key
      BY DEF StoreKey
    <3> QED
      BY <1>3, <3>1 DEF ListenKeyAck, answer, tail
  <2>2. ASSUME NEW b \in Accounts
        PROVE  AnswersInOrder(listen_key'[b], inflight'[b], exchange[b].key)
    BY <1>1, <1>2, <1>3, <2>1 DEF KeyInv, TypeOK
  <2>3. ASSUME NEW b \in Accounts
        PROVE  drop_copy'[b].key <= listen_key'[b] /\ listen_key'[b] <= exchange[b].key
    <3>1. drop_copy[b].key <= listen_key[b] /\ listen_key[b] <= exchange[b].key
      BY DEF KeyInv, StreamKeyIsKnown
    <3>2. CASE b # a
      BY <1>1, <2>1, <3>1, <3>2 DEF TypeOK
    <3>3. CASE b = a
      <4>1. listen_key'[a] = answer.key /\ answer.key \in Nat /\ drop_copy[a].key \in Nat /\ listen_key[a] \in Nat
        BY <1>1, <2>1 DEF Requests, TypeOK, DropCopies
      <4>2. drop_copy'[a].key \in {drop_copy[a].key, answer.key}
        BY <2>1 DEF CreateDropCopy, TypeOK
      <4> QED
        BY <1>2, <1>3, <3>1, <3>3, <4>1, <4>2
    <3> QED
      BY <3>2, <3>3
  <2> QED
    BY <2>1, <2>2, <2>3 DEF KeyInv, StreamKeyIsKnown, AnswersInOrder
<1>4. CASE answer.status = "error"
  <2>1. /\ inflight' = [inflight EXCEPT ![a] = Retry(a, state, tail)]
        /\ UNCHANGED <<listen_key, drop_copy, exchange>>
    BY <1>4 DEF ListenKeyAck, answer, tail
  <2>2. AnswersInOrder(listen_key[a], Retry(a, state, tail), exchange[a].key)
    BY <1>1, <1>2, RetryInOrder
  <2> QED
    BY <2>1, <2>2, KeyInvQueue
<1> QED
  BY <1>3, <1>4 DEF ListenKeyAck, answer

LEMMA KeyInvOrderEntry ==
  ASSUME TypeOK, KeyInv, NEW a \in Accounts, OrderEntryNext(a)
  PROVE  KeyInv'
<1> DEFINE queue == inflight[a]
           InOrder(q) == AnswersInOrder(listen_key[a], q, exchange[a].key)
<1>1. /\ queue \in Seq(Requests)
      /\ listen_key[a] \in Nat /\ exchange[a].key \in Nat
      /\ InOrder(queue)
  BY DEF TypeOK, KeyInv
<1>2. CASE Connected(a)
  <2>1. InOrder(Send(queue, FirstState(a)))
    BY <1>1, SendInOrder DEF FirstState, Types
  <2> QED
    BY <1>2, <2>1, KeyInvQueue DEF Connected
<1>3. CASE SocketDisconnected(a)
  <2>1. InOrder(<< >>)
    BY DEF AnswersInOrder
  <2> QED
    BY <1>3, <2>1, KeyInvQueue DEF SocketDisconnected
<1>4. CASE RestDisconnected(a)
  <2> DEFINE failed == [i \in DOMAIN queue |->
               IF queue[i].status = "pending" THEN [queue[i] EXCEPT !.status = "error"]
               ELSE queue[i]]
  <2>1. inflight' = [inflight EXCEPT ![a] = failed] /\ UNCHANGED <<listen_key, drop_copy, exchange>>
    BY <1>4 DEF RestDisconnected
  <2>2. DOMAIN queue = 1..Len(queue) /\ Len(queue) \in Nat /\ \A i \in 1..Len(queue) : queue[i] \in Requests
    BY <1>1
  <2>3. failed \in [1..Len(queue) -> Requests]
    BY <2>2 DEF Requests
  <2>4. \A i \in 1..Len(queue) : failed[i] = queue[i] \/ failed[i].status = "error"
    BY <2>2 DEF Requests
  <2> HIDE DEF failed, queue
  <2>5. failed \in Seq(Requests) /\ Len(failed) = Len(queue)
    BY <2>2, <2>3, IsASeq, LenProperties
  <2>6. InOrder(failed)
    BY <1>1, <2>4, <2>5, ErrorsInOrder
  <2> QED
    BY <2>1, <2>6, KeyInvQueue
<1>5. CASE SessionLogonAck(a)
  <2>1. Tail(queue) \in Seq(Requests) /\ InOrder(Tail(queue))
    BY <1>1, <1>5, TailInOrder, TailType DEF SessionLogonAck, Answered
  <2>2. InOrder(Send(Tail(queue), "USER_DATA_STREAM_START"))
    BY <1>1, <2>1, SendInOrder DEF Types
  <2>3. InOrder(Retry(a, "SESSION_LOGON", Tail(queue)))
    BY <1>1, <2>1, RetryInOrder DEF Types
  <2> QED
    BY <1>5, <2>2, <2>3, KeyInvQueue DEF SessionLogonAck
<1>6. CASE SocketListenKeyAck(a)
  BY <1>6, KeyInvListenKeyAck DEF SocketListenKeyAck, Answered
<1>7. CASE RestListenKeyAck(a)
  BY <1>7, KeyInvListenKeyAck DEF RestListenKeyAck, Answered, TypeOK
<1> QED
  BY <1>2, <1>3, <1>4, <1>5, <1>6, <1>7 DEF OrderEntryNext

LEMMA KeyInvExchange ==
  ASSUME TypeOK, KeyInv, NEW a \in Accounts, ExchangeNext(a)
  PROVE  KeyInv'
<1> DEFINE queue == inflight[a]
<1>1. /\ queue \in Seq(Requests)
      /\ DOMAIN queue = 1..Len(queue)
      /\ listen_key[a] \in Nat /\ exchange[a].key \in Nat
      /\ listen_key[a] <= exchange[a].key
      /\ AnswersInOrder(listen_key[a], queue, exchange[a].key)
  BY DEF TypeOK, KeyInv, StreamKeyIsKnown
<1>2. CASE Accept(a)
  <2>1. PICK i \in 1..MaxInflight :
          /\ FirstPending(a, i)
          /\ exchange' = [exchange EXCEPT ![a] =
               IF inflight[a][i].type = "SESSION_LOGON" THEN @ ELSE Renewed(a)]
          /\ inflight' = [inflight EXCEPT ![a][i] =
               [@ EXCEPT !.status = "ok", !.key = exchange'[a].key]]
          /\ UNCHANGED <<download, listen_key, refresh, drop_copy, zombies, faults>>
    BY <1>2 DEF Accept
  <2> DEFINE key == exchange'[a].key
             request == [queue[i] EXCEPT !.status = "ok", !.key = key]
  <2>2. /\ i \in 1..Len(queue) /\ queue[i] \in Requests
        /\ queue[i].status = "pending" /\ \A j \in 1..(i - 1) : queue[j].status # "pending"
    BY <1>1, <2>1 DEF FirstPending
  <2>3. key \in Nat /\ exchange[a].key <= key
    BY <1>1, <2>1 DEF Renewed, TypeOK
  <2>4. request \in Requests /\ request.key = key /\ request.status = "ok"
    BY <2>2, <2>3 DEF Requests
  <2>5. inflight' = [inflight EXCEPT ![a] = [queue EXCEPT ![i] = request]]
    BY <2>1
  <2> HIDE DEF request, key, queue
  <2>6. AnswersInOrder(listen_key[a], [queue EXCEPT ![i] = request], key)
    BY <1>1, <2>2, <2>3, <2>4, AcceptInOrder
  <2>7. ASSUME NEW b \in Accounts
        PROVE  /\ AnswersInOrder(listen_key[b], inflight'[b], exchange'[b].key)
               /\ drop_copy[b].key <= listen_key[b] /\ listen_key[b] <= exchange'[b].key
    <3>1. drop_copy[b].key <= listen_key[b] /\ listen_key[b] <= exchange[b].key
      BY DEF KeyInv, StreamKeyIsKnown
    <3>2. CASE b = a
      BY <1>1, <2>3, <2>5, <2>6, <3>1, <3>2 DEF TypeOK, key
    <3>3. CASE b # a
      <4>1. exchange'[b] = exchange[b] /\ inflight'[b] = inflight[b]
        BY <2>1, <2>5, <3>3 DEF TypeOK
      <4> QED
        BY <3>1, <4>1 DEF KeyInv
    <3> QED
      BY <3>2, <3>3
  <2> QED
    BY <2>1, <2>7 DEF KeyInv, StreamKeyIsKnown, AnswersInOrder
<1>3. CASE Reject(a)
  <2>1. PICK i \in 1..MaxInflight :
          /\ FirstPending(a, i)
          /\ inflight' = [inflight EXCEPT ![a][i] = [@ EXCEPT !.status = "error"]]
          /\ UNCHANGED <<download, listen_key, refresh, drop_copy, zombies, exchange>>
    BY <1>3 DEF Reject
  <2> DEFINE failed == [queue EXCEPT ![i] = [queue[i] EXCEPT !.status = "error"]]
  <2>2. i \in 1..Len(queue)
    BY <1>1, <2>1 DEF FirstPending
  <2>3. queue[i] \in Requests /\ [queue[i] EXCEPT !.status = "error"] \in Requests
    <3>1. queue[i] \in Requests
      BY <1>1, <2>2
    <3> QED
      BY <3>1 DEF Requests
  <2>4. /\ failed \in Seq(Requests) /\ Len(failed) = Len(queue)
        /\ \A j \in 1..Len(queue) : failed[j] = queue[j] \/ failed[j].status = "error"
    BY <1>1, <2>2, <2>3 DEF Requests
  <2>5. inflight' = [inflight EXCEPT ![a] = failed]
    BY <2>1
  <2> HIDE DEF failed, queue
  <2>6. AnswersInOrder(listen_key[a], failed, exchange[a].key)
    BY <1>1, <2>4, ErrorsInOrder
  <2> QED
    BY <2>1, <2>5, <2>6, KeyInvQueue
<1>4. CASE Expire(a)
  <2>1. UNCHANGED <<listen_key, inflight, drop_copy>> /\ \A b \in Accounts : exchange'[b].key = exchange[b].key
    BY <1>4 DEF Expire, gateway, TypeOK
  <2> QED
    BY <2>1 DEF KeyInv, StreamKeyIsKnown, AnswersInOrder
<1>5. CASE NotifyExpired(a)
  <2>1. UNCHANGED <<listen_key, inflight, exchange>> /\ \A b \in Accounts : drop_copy'[b].key = drop_copy[b].key
    BY <1>5 DEF NotifyExpired, DropCopies, TypeOK
  <2> QED
    BY <2>1 DEF KeyInv, StreamKeyIsKnown, AnswersInOrder
<1> QED
  BY <1>2, <1>3, <1>4, <1>5 DEF ExchangeNext

LEMMA KeyInvTimer ==
  ASSUME TypeOK, KeyInv, Timer
  PROVE  KeyInv'
<1> SUFFICES ASSUME NEW a \in Accounts
             PROVE  /\ AnswersInOrder(listen_key[a], inflight'[a], exchange[a].key)
                    /\ drop_copy'[a].key <= listen_key[a] /\ listen_key[a] <= exchange[a].key
  BY DEF Timer, KeyInv, StreamKeyIsKnown, AnswersInOrder
<1>1. /\ inflight[a] \in Seq(Requests) /\ drop_copy[a] \in DropCopies
      /\ listen_key[a] \in Nat /\ exchange[a].key \in Nat
      /\ AnswersInOrder(listen_key[a], inflight[a], exchange[a].key)
      /\ drop_copy[a].key <= listen_key[a] /\ listen_key[a] <= exchange[a].key
  BY DEF TypeOK, KeyInv, StreamKeyIsKnown
<1>2. AnswersInOrder(listen_key[a], Send(inflight[a], RefreshType(a)), exchange[a].key)
  BY <1>1, SendInOrder DEF RefreshType, Types
<1>3. inflight'[a] \in {inflight[a], Send(inflight[a], RefreshType(a))}
  BY DEF Timer
<1>4. drop_copy'[a].key \in {0, drop_copy[a].key}
  BY <1>1 DEF Timer, AfterRemoval, AutoRetry, NoDropCopy, DropCopies
<1> QED
  BY <1>1, <1>2, <1>3, <1>4

LEMMA KeyInvInvariant == Spec => []KeyInv
<1>1. Init => KeyInv
  BY DEF Init, KeyInv, StreamKeyIsKnown, AnswersInOrder, NoDropCopy
<1>2. TypeOK /\ KeyInv /\ [Next]_vars => KeyInv'
  <2> SUFFICES ASSUME TypeOK, KeyInv, [Next]_vars PROVE KeyInv'
    OBVIOUS
  <2>1. CASE Timer
    BY <2>1, KeyInvTimer
  <2>2. ASSUME NEW a \in Accounts, OrderEntryNext(a) PROVE KeyInv'
    BY <2>2, KeyInvOrderEntry
  <2>3. ASSUME NEW a \in Accounts, DropCopyNext(a) \/ Elapse(a) PROVE KeyInv'
    <3>1. UNCHANGED <<listen_key, inflight, exchange>> /\ \A b \in Accounts : drop_copy'[b].key = drop_copy[b].key
      <4> \A b \in Accounts : drop_copy[b] \in DropCopies
        BY DEF TypeOK
      <4>1. CASE DropCopyReady(a)
        BY <4>1 DEF DropCopyReady, DropCopies, TypeOK
      <4>2. CASE ListenKeyExpired(a)
        BY <4>2 DEF ListenKeyExpired, DropCopies, TypeOK
      <4>3. CASE DropCopyDisconnected(a)
        BY <4>3 DEF DropCopyDisconnected, DropCopies, TypeOK
      <4>4. CASE Elapse(a)
        BY <4>4 DEF Elapse
      <4> QED
        BY <2>3, <4>1, <4>2, <4>3, <4>4 DEF DropCopyNext
    <3> QED
      BY <3>1 DEF KeyInv, StreamKeyIsKnown, AnswersInOrder
  <2>4. ASSUME NEW a \in Accounts, ExchangeNext(a) PROVE KeyInv'
    BY <2>4, KeyInvExchange
  <2>5. CASE UNCHANGED vars
    BY <2>5 DEF vars, KeyInv, StreamKeyIsKnown, AnswersInOrder
  <2> QED
    BY <2>1, <2>2, <2>3, <2>4, <2>5 DEF Next
<1> QED
  BY <1>1, <1>2, TypeCorrect, PTL DEF Spec

(* No stream runs on a key newer than the one its order-entry connection    *)
(* keeps alive, and that one was issued by the exchange.                    *)
THEOREM StreamKeySafe == Spec => []StreamKeyIsKnown
  BY KeyInvInvariant, PTL DEF KeyInv

-----------------------------------------------------------------------------
(* A dead stream is never reopened: it is a zombie, and the timer removes   *)
(* zombies before any connection is retried.                                *)
LEMMA NoRetryStep ==
  ASSUME TypeOK, StreamInv, [Next]_vars, NEW a \in Accounts,
         drop_copy[a].stop, drop_copy[a].conn = "down"
  PROVE  drop_copy'[a].conn \in {"none", "down"}
<1>1. CASE Timer
  <2>1. a \in zombies
    BY DEF StreamInv, ZombiesAreDeadStreams
  <2> QED
    BY <1>1, <2>1 DEF Timer, AfterRemoval, AutoRetry, NoDropCopy
<1>2. ASSUME NEW b \in Accounts, OrderEntryNext(b) PROVE drop_copy'[a].conn = "down"
  <2>1. CASE SocketListenKeyAck(b) \/ RestListenKeyAck(b)
    <3>1. \E state, passOn : passOn \in BOOLEAN /\ ListenKeyAck(b, state, passOn)
      BY <2>1 DEF SocketListenKeyAck, RestListenKeyAck
    <3> QED
      BY <3>1, ListenKeyAckSlot
  <2> QED
    BY <1>2, <2>1 DEF OrderEntryNext, Connected, SocketDisconnected, RestDisconnected, SessionLogonAck
<1>3. ASSUME NEW b \in Accounts, DropCopyNext(b) PROVE drop_copy'[a].conn = "down"
  BY <1>3 DEF DropCopyNext, DropCopyReady, ListenKeyExpired, DropCopyDisconnected, DropCopies, TypeOK
<1>4. ASSUME NEW b \in Accounts, ExchangeNext(b) PROVE drop_copy'[a].conn = "down"
  <2>1. CASE Accept(b) \/ Reject(b) \/ Expire(b)
    BY <2>1 DEF Accept, Reject, Expire, gateway
  <2> QED
    BY <1>4, <2>1 DEF ExchangeNext, NotifyExpired, DropCopies, TypeOK
<1> QED
  BY <1>1, <1>2, <1>3, <1>4 DEF Next, Elapse, vars

(* "note! remove drop_copy *BEFORE* dispatching timer": a disconnected      *)
(* stream whose key expired never connects again.                           *)
THEOREM NoRetryAfterExpirySafe == Spec => NoRetryAfterExpiry
<1>1. TypeOK /\ StreamInv /\ [Next]_vars
        => [\A a \in Accounts :
              drop_copy[a].stop /\ drop_copy[a].conn = "down"
                => drop_copy'[a].conn \in {"none", "down"}]_vars
  BY NoRetryStep
<1> QED
  BY <1>1, TypeCorrect, StreamInvInvariant, PTL DEF Spec, NoRetryAfterExpiry

-----------------------------------------------------------------------------
(* Refinement: the slots behave as StreamSlot says.                         *)

(* What one step can do to the stream of an account. *)
SlotChange(a) ==
  \/ drop_copy'[a].conn = drop_copy[a].conn /\ drop_copy'[a].stop = drop_copy[a].stop
  \/ /\ drop_copy[a].conn = "none"
     /\ drop_copy'[a].conn = "opening" /\ ~drop_copy'[a].stop
  \/ /\ drop_copy[a].conn = "down" /\ drop_copy[a].stop
     /\ drop_copy'[a].conn = "none" /\ ~drop_copy'[a].stop
  \/ /\ drop_copy[a].conn # "none" /\ ~drop_copy[a].stop
     /\ drop_copy'[a].conn # "none" /\ ~drop_copy'[a].stop
  \/ /\ drop_copy[a].conn = "up"
     /\ drop_copy'[a].conn = "up" /\ drop_copy'[a].stop
  \/ /\ drop_copy[a].conn # "none" /\ drop_copy[a].stop
     /\ drop_copy'[a].conn = "down" /\ drop_copy'[a].stop

LEMMA SlotChanges ==
  ASSUME TypeOK, StreamInv, [Next]_vars, NEW a \in Accounts
  PROVE  SlotChange(a)
<1> drop_copy[a] \in DropCopies
  BY DEF TypeOK
<1>1. CASE Timer
  <2>1. drop_copy'[a] = AutoRetry(AfterRemoval(a).drop_copy)
    BY <1>1 DEF Timer
  <2>2. a \in zombies <=> drop_copy[a].stop /\ drop_copy[a].conn = "down"
    BY DEF StreamInv, ZombiesAreDeadStreams
  <2>3. drop_copy'[a] = IF a \in zombies THEN AutoRetry(NoDropCopy) ELSE AutoRetry(drop_copy[a])
    BY <2>1 DEF AfterRemoval
  <2>4. CASE a \in zombies
    <3>1. drop_copy'[a] = NoDropCopy
      BY <2>3, <2>4 DEF AutoRetry, NoDropCopy
    <3> QED
      <4>1. /\ drop_copy[a].conn = "down" /\ drop_copy[a].stop
            /\ drop_copy'[a].conn = "none" /\ ~drop_copy'[a].stop
        BY <2>2, <2>4, <3>1 DEF NoDropCopy
      <4> QED
        BY <4>1 DEF SlotChange
  <2>5. CASE a \notin zombies /\ drop_copy[a].conn = "down"
    BY <2>2, <2>3, <2>5 DEF AutoRetry, SlotChange, DropCopies
  <2>6. CASE a \notin zombies /\ drop_copy[a].conn # "down"
    BY <2>3, <2>6 DEF AutoRetry, SlotChange
  <2> QED
    BY <2>4, <2>5, <2>6
<1>2. ASSUME NEW b \in Accounts, OrderEntryNext(b) PROVE SlotChange(a)
  <2>1. CASE SocketListenKeyAck(b) \/ RestListenKeyAck(b)
    <3>1. \E state, passOn : passOn \in BOOLEAN /\ ListenKeyAck(b, state, passOn)
      BY <2>1 DEF SocketListenKeyAck, RestListenKeyAck
    <3>2. \/ drop_copy'[a] = drop_copy[a]
          \/ /\ drop_copy[a].conn = "none"
             /\ drop_copy'[a].conn = "opening" /\ ~drop_copy'[a].stop
      BY <3>1, ListenKeyAckSlot
    <3> QED
      BY <3>2 DEF SlotChange
  <2>2. CASE Connected(b) \/ SocketDisconnected(b) \/ RestDisconnected(b) \/ SessionLogonAck(b)
    BY <2>2 DEF Connected, SocketDisconnected, RestDisconnected, SessionLogonAck, SlotChange
  <2> QED
    BY <1>2, <2>1, <2>2 DEF OrderEntryNext
<1>3. ASSUME NEW b \in Accounts, DropCopyNext(b) PROVE SlotChange(a)
  <2>2. CASE a # b
    BY <1>3, <2>2 DEF DropCopyNext, DropCopyReady, ListenKeyExpired, DropCopyDisconnected, TypeOK, SlotChange
  <2>3. CASE a = b /\ DropCopyReady(b)
    <3>1. ~drop_copy[a].stop
      BY <2>3 DEF DropCopyReady, StreamInv, NewStreamIsClean
    <3> QED
      BY <2>3, <3>1 DEF DropCopyReady, DropCopies, TypeOK, SlotChange
  <2>4. CASE a = b /\ ListenKeyExpired(b)
    BY <2>4 DEF ListenKeyExpired, DropCopies, TypeOK, SlotChange
  <2>5. CASE a = b /\ DropCopyDisconnected(b)
    BY <2>5 DEF DropCopyDisconnected, DropCopies, TypeOK, SlotChange
  <2> QED
    BY <1>3, <2>2, <2>3, <2>4, <2>5 DEF DropCopyNext
<1>4. ASSUME NEW b \in Accounts, ExchangeNext(b) PROVE SlotChange(a)
  <2>1. CASE Accept(b) \/ Reject(b) \/ Expire(b)
    BY <2>1 DEF Accept, Reject, Expire, gateway, SlotChange
  <2>2. CASE NotifyExpired(b)
    BY <2>2 DEF NotifyExpired, DropCopies, TypeOK, SlotChange
  <2> QED
    BY <1>4, <2>1, <2>2 DEF ExchangeNext
<1> QED
  BY <1>1, <1>2, <1>3, <1>4 DEF Next, Elapse, vars, SlotChange

LEMMA SlotStep ==
  ASSUME TypeOK, StreamInv, [Next]_vars
  PROVE  [Slot!Next]_(Slot!vars)
<1>1. /\ life' \in [Accounts -> {"absent", "live", "retired"}]
      /\ online' \in [Accounts -> BOOLEAN]
  BY DEF life, online
<1>2. ASSUME NEW a \in Accounts PROVE Slot!Step(a)
  <2>1. SlotChange(a) /\ drop_copy[a] \in DropCopies /\ NewStreamIsClean
    BY SlotChanges DEF TypeOK, StreamInv
  <2>2. /\ life[a] = IF drop_copy[a].conn = "none" THEN "absent"
                     ELSE IF drop_copy[a].stop THEN "retired" ELSE "live"
        /\ life'[a] = IF drop_copy'[a].conn = "none" THEN "absent"
                      ELSE IF drop_copy'[a].stop THEN "retired" ELSE "live"
        /\ online[a] = (drop_copy[a].conn \in {"opening", "up"})
        /\ online'[a] = (drop_copy'[a].conn \in {"opening", "up"})
    BY DEF life, online, HasDropCopy
  <2> HIDE DEF life, online
  <2> QED
    BY <2>1, <2>2 DEF SlotChange, DropCopies, NewStreamIsClean, HasDropCopy, Slot!Step,
       Slot!Create, Slot!Reconnect, Slot!Retire, Slot!GoOffline, Slot!Remove, Slot!Stutter
<1> QED
  BY <1>1, <1>2 DEF Slot!Next

(* The streams the Controller creates, retires and removes are those that  *)
(* StreamSlot promises.                                                    *)
THEOREM ImplementsStreamSlot == Spec => SlotSpec
<1>1. Init => Slot!Init
  <2> SUFFICES ASSUME Init PROVE Slot!Init
    OBVIOUS
  <2>1. ASSUME NEW a \in Accounts
        PROVE  ~HasDropCopy(a) /\ ~(drop_copy[a].conn \in {"opening", "up"})
    BY DEF Init, HasDropCopy, NoDropCopy
  <2>2. life = [a \in Accounts |-> "absent"]
    BY <2>1 DEF life
  <2>3. online = [a \in Accounts |-> FALSE]
    <3>1. ASSUME NEW a \in Accounts PROVE (drop_copy[a].conn \in {"opening", "up"}) = FALSE
      BY <2>1
    <3> QED
      BY <3>1 DEF online
  <2> QED
    BY <2>2, <2>3 DEF Slot!Init
<1> QED
  BY <1>1, SlotStep, TypeCorrect, StreamInvInvariant, PTL DEF Spec, SlotSpec, Slot!Spec

-----------------------------------------------------------------------------
(***************************************************************************)
(* Accounts without the WebSocket API.  Only the first key is passed on to *)
(* the Controller, so that a stream comes with a key that is kept: every   *)
(* key given out is a real one, not 0.                                     *)
(***************************************************************************)
RealKeys(queue) ==
  \A i \in 1..Len(queue) :
    queue[i].type = "LISTEN_KEY" /\ (queue[i].status = "ok" => queue[i].key > 0)

RestInv(a) ==
  /\ exchange[a].valid => exchange[a].key > 0
  /\ RealKeys(inflight[a])
  /\ HasDropCopy(a) => listen_key[a] > 0

(* What is done to the queue of such an account. *)
LEMMA SendReal ==
  ASSUME NEW queue \in Seq(Requests), RealKeys(queue)
  PROVE  RealKeys(Send(queue, "LISTEN_KEY"))
<1> DEFINE sent == Send(queue, "LISTEN_KEY")
<1>1. /\ Len(sent) = Len(queue) + 1
      /\ \A i \in 1..Len(queue) : sent[i] = queue[i]
      /\ sent[Len(queue) + 1] = Request("LISTEN_KEY")
  BY DEF Send, Request
<1>2. Len(queue) \in Nat
  OBVIOUS
<1>3. Request("LISTEN_KEY").type = "LISTEN_KEY" /\ Request("LISTEN_KEY").status # "ok"
  BY DEF Request
<1> HIDE DEF sent
<1>4. RealKeys(sent)
  BY <1>1, <1>2, <1>3 DEF RealKeys
<1> QED
  BY <1>4 DEF sent

LEMMA TailReal ==
  ASSUME NEW queue \in Seq(Requests), queue # << >>, RealKeys(queue)
  PROVE  /\ RealKeys(Tail(queue))
         /\ Head(queue).status = "ok" => Head(queue).key > 0
<1> DEFINE tail == Tail(queue)
           head == Head(queue)
<1>1. /\ Len(queue) \in Nat \ {0}
      /\ Len(tail) = Len(queue) - 1
      /\ \A i \in 1..Len(tail) : tail[i] = queue[i + 1]
      /\ head = queue[1]
  OBVIOUS
<1> HIDE DEF tail, head
<1>2. RealKeys(tail) /\ (head.status = "ok" => head.key > 0)
  BY <1>1 DEF RealKeys
<1> QED
  BY <1>2 DEF tail, head

(* A request changes in place: it fails, or is answered with a real key.    *)
LEMMA AnswerReal ==
  ASSUME NEW queue \in Seq(Requests), NEW answered \in Seq(Requests), RealKeys(queue),
         Len(answered) = Len(queue),
         \A i \in 1..Len(queue) :
           \/ answered[i] = queue[i]
           \/ /\ answered[i].type = queue[i].type
              /\ answered[i].status = "ok" => answered[i].key > 0
  PROVE  RealKeys(answered)
BY DEF RealKeys

(* An account is left alone by the handlers of another. *)
LEMMA OtherAccount ==
  ASSUME TypeOK, NEW a \in Accounts, NEW b \in Accounts, a # b,
         OrderEntryNext(b) \/ DropCopyNext(b) \/ Elapse(b) \/ ExchangeNext(b)
  PROVE  /\ inflight'[a] = inflight[a]
         /\ listen_key'[a] = listen_key[a]
         /\ exchange'[a] = exchange[a]
         /\ drop_copy'[a] = drop_copy[a]
<1>1. CASE OrderEntryNext(b)
  BY <1>1 DEF OrderEntryNext, Connected, SocketDisconnected, RestDisconnected, SessionLogonAck,
     SocketListenKeyAck, RestListenKeyAck, ListenKeyAck, TypeOK
<1>2. CASE DropCopyNext(b) \/ Elapse(b)
  BY <1>2 DEF DropCopyNext, DropCopyReady, ListenKeyExpired, DropCopyDisconnected, Elapse, TypeOK
<1>3. CASE ExchangeNext(b)
  BY <1>3 DEF ExchangeNext, Accept, Reject, Expire, NotifyExpired, gateway, TypeOK
<1> QED
  BY <1>1, <1>2, <1>3

LEMMA RestInvListenKeyAck ==
  ASSUME TypeOK, NEW a \in Accounts, RestInv(a), RestListenKeyAck(a)
  PROVE  RestInv(a)'
<1> DEFINE answer == Head(inflight[a])
           tail == Tail(inflight[a])
<1>1. /\ inflight[a] \in Seq(Requests) /\ inflight[a] # << >>
      /\ RealKeys(inflight[a])
  BY DEF TypeOK, RestInv, RestListenKeyAck, Answered
<1>2. tail \in Seq(Requests) /\ RealKeys(tail) /\ (answer.status = "ok" => answer.key > 0)
  BY <1>1, TailReal, TailType
<1> HIDE DEF answer, tail
<1>3. CASE answer.status = "ok"
  <2>1. /\ listen_key' = [listen_key EXCEPT ![a] = StoreKey(a, answer.key)]
        /\ inflight' = [inflight EXCEPT ![a] = tail]
        /\ UNCHANGED exchange
    BY <1>3 DEF RestListenKeyAck, ListenKeyAck, answer, tail
  <2>2. StoreKey(a, answer.key) > 0
    BY <1>2, <1>3 DEF StoreKey
  <2> QED
    BY <1>2, <2>1, <2>2 DEF RestInv, TypeOK
<1>4. CASE answer.status = "error"
  <2>1. /\ inflight' = [inflight EXCEPT ![a] = Retry(a, "LISTEN_KEY", tail)]
        /\ UNCHANGED <<listen_key, drop_copy, exchange>>
    BY <1>4 DEF RestListenKeyAck, ListenKeyAck, answer, tail
  <2>2. RealKeys(Retry(a, "LISTEN_KEY", tail))
    BY <1>2, SendReal DEF Retry
  <2> QED
    BY <2>1, <2>2 DEF RestInv, HasDropCopy, TypeOK
<1> QED
  BY <1>3, <1>4 DEF RestListenKeyAck, ListenKeyAck, answer

LEMMA RestInvExchange ==
  ASSUME TypeOK, NEW a \in Accounts, RestInv(a), ExchangeNext(a)
  PROVE  RestInv(a)'
<1> DEFINE queue == inflight[a]
<1>1. /\ queue \in Seq(Requests) /\ RealKeys(queue)
      /\ DOMAIN queue = 1..Len(queue)
      /\ exchange[a] \in [key : Nat, valid : BOOLEAN]
  BY DEF TypeOK, RestInv
<1>2. CASE Accept(a)
  <2>1. PICK i \in 1..MaxInflight :
          /\ FirstPending(a, i)
          /\ exchange' = [exchange EXCEPT ![a] =
               IF inflight[a][i].type = "SESSION_LOGON" THEN @ ELSE Renewed(a)]
          /\ inflight' = [inflight EXCEPT ![a][i] =
               [@ EXCEPT !.status = "ok", !.key = exchange'[a].key]]
          /\ UNCHANGED <<download, listen_key, refresh, drop_copy, zombies, faults>>
    BY <1>2 DEF Accept
  <2>2. i \in 1..Len(queue) /\ queue[i] \in Requests /\ queue[i].type = "LISTEN_KEY"
    BY <1>1, <2>1 DEF FirstPending, RealKeys
  <2>3. exchange'[a] = Renewed(a)
    BY <2>1, <2>2 DEF TypeOK
  <2>4. exchange'[a].key \in Nat /\ exchange'[a].key > 0
    BY <1>1, <2>3 DEF Renewed, RestInv
  <2> DEFINE request == [queue[i] EXCEPT !.status = "ok", !.key = exchange'[a].key]
             answered == [queue EXCEPT ![i] = request]
  <2>5. request \in Requests /\ request.type = queue[i].type /\ request.key > 0
    BY <2>2, <2>4 DEF Requests
  <2>6. inflight'[a] = answered
    BY <2>1 DEF TypeOK
  <2> HIDE DEF request, queue
  <2>7. /\ answered \in Seq(Requests) /\ Len(answered) = Len(queue)
        /\ \A j \in 1..Len(queue) : answered[j] = IF j = i THEN request ELSE queue[j]
    BY <1>1, <2>2, <2>5
  <2>8. RealKeys(answered)
    BY <1>1, <2>5, <2>7, AnswerReal
  <2> QED
    BY <2>1, <2>4, <2>6, <2>8 DEF RestInv, HasDropCopy
<1>3. CASE Reject(a)
  <2>1. PICK i \in 1..MaxInflight :
          /\ FirstPending(a, i)
          /\ inflight' = [inflight EXCEPT ![a][i] = [@ EXCEPT !.status = "error"]]
          /\ UNCHANGED <<download, listen_key, refresh, drop_copy, zombies, exchange>>
    BY <1>3 DEF Reject
  <2>2. i \in 1..Len(queue) /\ queue[i] \in Requests
    BY <1>1, <2>1 DEF FirstPending
  <2> DEFINE request == [queue[i] EXCEPT !.status = "error"]
             answered == [queue EXCEPT ![i] = request]
  <2>3. request \in Requests /\ request.type = queue[i].type /\ request.status # "ok"
    BY <2>2 DEF Requests
  <2>4. inflight'[a] = answered
    BY <2>1 DEF TypeOK
  <2> HIDE DEF request, queue
  <2>5. /\ answered \in Seq(Requests) /\ Len(answered) = Len(queue)
        /\ \A j \in 1..Len(queue) : answered[j] = IF j = i THEN request ELSE queue[j]
    BY <1>1, <2>2, <2>3
  <2>6. RealKeys(answered)
    BY <1>1, <2>3, <2>5, AnswerReal
  <2> QED
    BY <2>1, <2>4, <2>6 DEF RestInv, HasDropCopy
<1>4. CASE Expire(a)
  <2>1. /\ exchange'[a].valid = FALSE
        /\ UNCHANGED <<inflight, listen_key, drop_copy>>
    BY <1>4 DEF Expire, gateway, TypeOK
  <2> QED
    BY <2>1 DEF RestInv, HasDropCopy, RealKeys
<1>5. CASE NotifyExpired(a)
  <2>1. /\ drop_copy'[a].conn = drop_copy[a].conn
        /\ UNCHANGED <<inflight, listen_key, exchange>>
    BY <1>5 DEF NotifyExpired, DropCopies, TypeOK
  <2> QED
    BY <2>1 DEF RestInv, HasDropCopy, RealKeys
<1> QED
  BY <1>2, <1>3, <1>4, <1>5 DEF ExchangeNext

(* The handlers of a web socket's messages see none. *)
LEMMA NoSocketAnswers ==
  ASSUME TypeOK, NEW a \in Accounts, ~IsWebSocket(a), RestInv(a)
  PROVE  ~SocketDisconnected(a) /\ ~SessionLogonAck(a) /\ ~SocketListenKeyAck(a)
<1>1. inflight[a] \in Seq(Requests) /\ RealKeys(inflight[a])
  BY DEF TypeOK, RestInv
<1>2. inflight[a] # << >> => Head(inflight[a]).type = "LISTEN_KEY"
  BY <1>1 DEF RealKeys
<1> QED
  BY <1>2 DEF SocketDisconnected, SessionLogonAck, SocketListenKeyAck, Answered

LEMMA RestInvOrderEntry ==
  ASSUME TypeOK, NEW a \in Accounts, ~IsWebSocket(a), RestInv(a), OrderEntryNext(a)
  PROVE  RestInv(a)'
<1> DEFINE queue == inflight[a]
<1>1. /\ queue \in Seq(Requests) /\ RealKeys(queue)
      /\ DOMAIN queue = 1..Len(queue)
  BY DEF TypeOK, RestInv
<1>2. CASE Connected(a)
  <2>1. /\ inflight'[a] = Send(queue, "LISTEN_KEY")
        /\ UNCHANGED <<listen_key, drop_copy, exchange>>
    BY <1>2 DEF Connected, FirstState, TypeOK
  <2>2. RealKeys(Send(queue, "LISTEN_KEY"))
    BY <1>1, SendReal
  <2> QED
    BY <2>1, <2>2 DEF RestInv, HasDropCopy
<1>3. CASE RestDisconnected(a)
  <2> DEFINE failed == [i \in DOMAIN queue |->
               IF queue[i].status = "pending" THEN [queue[i] EXCEPT !.status = "error"]
               ELSE queue[i]]
  <2>1. inflight'[a] = failed /\ UNCHANGED <<listen_key, drop_copy, exchange>>
    BY <1>3 DEF RestDisconnected, TypeOK
  <2>2. Len(queue) \in Nat /\ \A i \in 1..Len(queue) : queue[i] \in Requests
    BY <1>1
  <2>3. failed \in [1..Len(queue) -> Requests]
    BY <1>1, <2>2 DEF Requests
  <2>4. \A i \in 1..Len(queue) :
          \/ failed[i] = queue[i]
          \/ failed[i].type = queue[i].type /\ failed[i].status # "ok"
    BY <1>1, <2>2 DEF Requests
  <2> HIDE DEF failed, queue
  <2>5. failed \in Seq(Requests) /\ Len(failed) = Len(queue)
    BY <2>2, <2>3, IsASeq, LenProperties
  <2>6. RealKeys(failed)
    BY <1>1, <2>4, <2>5, AnswerReal
  <2> QED
    BY <2>1, <2>6 DEF RestInv, HasDropCopy
<1>4. CASE RestListenKeyAck(a)
  BY <1>4, RestInvListenKeyAck
<1> QED
  BY <1>2, <1>3, <1>4, NoSocketAnswers DEF OrderEntryNext

LEMMA RestInvStep ==
  ASSUME TypeOK, NEW a \in Accounts, ~IsWebSocket(a), RestInv(a), [Next]_vars
  PROVE  RestInv(a)'
<1>1. CASE Timer
  <2>1. inflight[a] \in Seq(Requests) /\ RealKeys(inflight[a])
    BY DEF TypeOK, RestInv
  <2>2. RealKeys(Send(inflight[a], "LISTEN_KEY"))
    BY <2>1, SendReal
  <2>3. inflight'[a] \in {inflight[a], Send(inflight[a], "LISTEN_KEY")}
    BY <1>1 DEF Timer, RefreshType
  <2>4. HasDropCopy(a)' => HasDropCopy(a)
    BY <1>1 DEF Timer, AfterRemoval, AutoRetry, NoDropCopy, HasDropCopy
  <2> QED
    BY <1>1, <2>1, <2>2, <2>3, <2>4 DEF Timer, RestInv
<1>2. CASE OrderEntryNext(a)
  BY <1>2, RestInvOrderEntry
<1>3. CASE ExchangeNext(a)
  BY <1>3, RestInvExchange
<1>4. CASE DropCopyNext(a) \/ Elapse(a)
  <2>1. HasDropCopy(a)' => HasDropCopy(a)
    BY <1>4 DEF DropCopyNext, DropCopyReady, ListenKeyExpired, DropCopyDisconnected, Elapse,
       HasDropCopy, DropCopies, TypeOK
  <2>2. UNCHANGED <<inflight, listen_key, exchange>>
    BY <1>4 DEF DropCopyNext, DropCopyReady, ListenKeyExpired, DropCopyDisconnected, Elapse
  <2> QED
    BY <2>1, <2>2 DEF RestInv
<1>5. ASSUME NEW b \in Accounts, a # b,
             OrderEntryNext(b) \/ DropCopyNext(b) \/ Elapse(b) \/ ExchangeNext(b)
      PROVE  RestInv(a)'
  BY <1>5, OtherAccount DEF RestInv, HasDropCopy
<1>6. CASE UNCHANGED vars
  BY <1>6 DEF vars, RestInv, HasDropCopy
<1> QED
  BY <1>1, <1>2, <1>3, <1>4, <1>5, <1>6 DEF Next

(* The account has a key, and no stream but one that is retired. *)
WithoutStream(a) ==
  /\ listen_key[a] > 0
  /\ HasDropCopy(a) => drop_copy[a].stop

(* No handler gives it another. *)
LEMMA WithoutStreamStep ==
  ASSUME TypeOK, NEW a \in Accounts, ~IsWebSocket(a), RestInv(a),
         WithoutStream(a), [Next]_vars
  PROVE  WithoutStream(a)'
<1> drop_copy[a] \in DropCopies /\ listen_key[a] \in Nat
  BY DEF TypeOK
<1> USE DEF WithoutStream, HasDropCopy
<1>1. CASE Timer
  BY <1>1 DEF Timer, AfterRemoval, AutoRetry, NoDropCopy, DropCopies
<1>2. CASE RestListenKeyAck(a)
  <2>1. inflight[a] \in Seq(Requests) /\ inflight[a] # << >> /\ RealKeys(inflight[a])
    BY <1>2 DEF TypeOK, RestInv, RestListenKeyAck, Answered
  <2>2. Head(inflight[a]).status = "ok" => Head(inflight[a]).key > 0
    BY <2>1, TailReal
  <2>3. /\ \/ listen_key'[a] = listen_key[a]
           \/ Head(inflight[a]).status = "ok" /\ listen_key'[a] = Head(inflight[a]).key
        /\ drop_copy'[a] = drop_copy[a]
    BY <1>2 DEF RestListenKeyAck, ListenKeyAck, StoreKey, TypeOK
  <2> QED
    BY <2>2, <2>3
<1>3. CASE OrderEntryNext(a) /\ ~RestListenKeyAck(a)
  BY <1>3, NoSocketAnswers DEF OrderEntryNext, Connected, RestDisconnected
<1>4. CASE DropCopyNext(a) \/ Elapse(a)
  <2>1. UNCHANGED listen_key
    BY <1>4 DEF DropCopyNext, DropCopyReady, ListenKeyExpired, DropCopyDisconnected, Elapse
  <2>2. CASE DropCopyReady(a)
    BY <2>1, <2>2, StreamStep DEF DropCopyReady, DropCopies
  <2>3. CASE ListenKeyExpired(a)
    <3>1. drop_copy'[a] = [drop_copy[a] EXCEPT !.stop = TRUE, !.event = FALSE]
      BY <2>3, StreamStep
    <3>2. drop_copy'[a].stop
      BY <3>1 DEF DropCopies
    <3> QED
      BY <2>1, <3>2
  <2>4. CASE DropCopyDisconnected(a)
    <3>1. drop_copy'[a] = [drop_copy[a] EXCEPT !.conn = "down", !.event = FALSE]
      BY <2>4, StreamStep
    <3>2. drop_copy'[a].stop = drop_copy[a].stop
      BY <3>1 DEF DropCopies
    <3>3. drop_copy[a].conn # "none"
      BY <2>4 DEF DropCopyDisconnected
    <3> QED
      BY <2>1, <3>2, <3>3
  <2>5. CASE Elapse(a)
    BY <2>1, <2>5 DEF Elapse
  <2> QED
    BY <1>4, <2>2, <2>3, <2>4, <2>5 DEF DropCopyNext
<1>5. CASE ExchangeNext(a)
  <2>1. CASE Accept(a) \/ Reject(a) \/ Expire(a)
    BY <2>1 DEF Accept, Reject, Expire, gateway
  <2>2. CASE NotifyExpired(a)
    <3>1. drop_copy'[a] = [drop_copy[a] EXCEPT !.event = TRUE] /\ UNCHANGED listen_key
      BY <2>2, StreamStep DEF NotifyExpired
    <3> QED
      BY <3>1 DEF DropCopies
  <2> QED
    BY <1>5, <2>1, <2>2 DEF ExchangeNext
<1>6. ASSUME NEW b \in Accounts, a # b,
             OrderEntryNext(b) \/ DropCopyNext(b) \/ Elapse(b) \/ ExchangeNext(b)
      PROVE  WithoutStream(a)'
  BY <1>6, OtherAccount
<1>7. CASE UNCHANGED vars
  BY <1>7 DEF vars
<1> QED
  BY <1>1, <1>2, <1>3, <1>4, <1>5, <1>6, <1>7 DEF Next

(* Without the WebSocket API an account whose stream was told that its key  *)
(* expired never has a live stream again, since later keys are not passed   *)
(* on (order_entry_classic.cpp:427): whatever the exchange and the          *)
(* connections do, for as long as the process lives.                        *)
THEOREM RestStreamIsNotReplaced ==
  ASSUME NEW a \in Accounts, ~IsWebSocket(a)
  PROVE  Spec => [](drop_copy[a].stop => [](HasDropCopy(a) => drop_copy[a].stop))
<1>1. Init => RestInv(a)
  BY DEF Init, RestInv, RealKeys, HasDropCopy, NoDropCopy
<1>2. TypeOK /\ RestInv(a) /\ [Next]_vars => RestInv(a)'
  BY RestInvStep
<1>3. TypeOK /\ RestInv(a) /\ WithoutStream(a) /\ [Next]_vars => WithoutStream(a)'
  BY WithoutStreamStep
<1>4. StreamInv /\ RestInv(a) /\ drop_copy[a].stop => WithoutStream(a)
  BY DEF StreamInv, NewStreamIsClean, RestInv, WithoutStream, HasDropCopy
<1>5. WithoutStream(a) => (HasDropCopy(a) => drop_copy[a].stop)
  BY DEF WithoutStream
<1> QED
  BY <1>1, <1>2, <1>3, <1>4, <1>5, TypeCorrect, StreamInvInvariant, PTL DEF Spec

-----------------------------------------------------------------------------
(***************************************************************************)
(* A stream is on its way.  FirstStream and SocketExpiredIsReplaced say     *)
(* that a stream comes in the end, under fairness; what follows is the part *)
(* of them that no schedule can break.                                      *)
(***************************************************************************)
Asked(type, queue) == \E i \in 1..Len(queue) : queue[i].type = type

KeysGiven(queue) ==
  \A i \in 1..Len(queue) :
    queue[i].status = "ok" /\ queue[i].type # "SESSION_LOGON" => queue[i].key > 0

(* A connection that acquires its key has the request of its state in       *)
(* flight; one that is ready has a key and a time to refresh it.            *)
StreamIsComing ==
  \A a \in Accounts :
    /\ Downloading(a) => Asked(download[a], inflight[a])
    /\ Ready(a) => listen_key[a] > 0 /\ refresh[a] # "zero"

ComingInv(a) ==
  /\ exchange[a].valid => exchange[a].key > 0
  /\ KeysGiven(inflight[a])
  /\ Downloading(a) => Asked(download[a], inflight[a])
  /\ Ready(a) => listen_key[a] > 0 /\ refresh[a] # "zero"

LEMMA SendAsks ==
  ASSUME NEW queue \in Seq(Requests), NEW type \in Types
  PROVE  /\ KeysGiven(queue) => KeysGiven(Send(queue, type))
         /\ Asked(type, Send(queue, type))
         /\ \A other : Asked(other, queue) => Asked(other, Send(queue, type))
<1> DEFINE sent == Send(queue, type)
<1>1. /\ Len(sent) = Len(queue) + 1
      /\ \A i \in 1..Len(queue) : sent[i] = queue[i]
      /\ sent[Len(queue) + 1] = Request(type)
  BY DEF Send, Request
<1>2. Len(queue) \in Nat
  OBVIOUS
<1>3. Request(type).type = type /\ Request(type).status # "ok"
  BY DEF Request
<1> HIDE DEF sent
<1>4. KeysGiven(queue) => KeysGiven(sent)
  BY <1>1, <1>2, <1>3 DEF KeysGiven
<1>5. Len(queue) + 1 \in 1..Len(sent) /\ \A i \in 1..Len(queue) : i \in 1..Len(sent)
  BY <1>1, <1>2
<1>6. Asked(type, sent) /\ \A other : Asked(other, queue) => Asked(other, sent)
  BY <1>1, <1>3, <1>5 DEF Asked
<1> QED
  BY <1>4, <1>6 DEF sent

(* Only the request that is answered leaves the queue. *)
LEMMA TailAsks ==
  ASSUME NEW queue \in Seq(Requests), queue # << >>, KeysGiven(queue)
  PROVE  /\ KeysGiven(Tail(queue))
         /\ \A other : Asked(other, queue) /\ other # Head(queue).type => Asked(other, Tail(queue))
         /\ Head(queue).status = "ok" /\ Head(queue).type # "SESSION_LOGON" => Head(queue).key > 0
<1> DEFINE tail == Tail(queue)
           head == Head(queue)
<1>1. /\ Len(queue) \in Nat \ {0}
      /\ Len(tail) = Len(queue) - 1
      /\ \A i \in 1..Len(tail) : tail[i] = queue[i + 1]
      /\ head = queue[1]
  OBVIOUS
<1> HIDE DEF tail, head
<1>2. \A i \in 1..Len(tail) : i + 1 \in 1..Len(queue)
  BY <1>1
<1>3. KeysGiven(tail)
  BY <1>1, <1>2 DEF KeysGiven
<1>4. 1 \in 1..Len(queue)
  BY <1>1
<1>5. head.status = "ok" /\ head.type # "SESSION_LOGON" => head.key > 0
  BY <1>1, <1>4 DEF KeysGiven
<1>6. ASSUME NEW other, Asked(other, queue), other # head.type
      PROVE  Asked(other, tail)
  <2>1. PICK i \in 1..Len(queue) : queue[i].type = other
    BY <1>6 DEF Asked
  <2>2. i # 1
    BY <1>1, <1>6, <2>1
  <2>3. i - 1 \in 1..Len(tail) /\ i - 1 + 1 = i
    BY <1>1, <2>2
  <2>4. tail[i - 1] = queue[i]
    BY <1>1, <2>3
  <2> QED
    BY <2>1, <2>3, <2>4 DEF Asked
<1> QED
  BY <1>3, <1>5, <1>6 DEF tail, head

(* A request that is answered in place keeps its type. *)
LEMMA AnswerAsks ==
  ASSUME NEW queue \in Seq(Requests), NEW answered \in Seq(Requests), KeysGiven(queue),
         Len(answered) = Len(queue),
         \A i \in 1..Len(queue) :
           \/ answered[i] = queue[i]
           \/ /\ answered[i].type = queue[i].type
              /\ answered[i].status = "ok" /\ answered[i].type # "SESSION_LOGON"
                   => answered[i].key > 0
  PROVE  /\ KeysGiven(answered)
         /\ \A other : Asked(other, queue) => Asked(other, answered)
<1>1. KeysGiven(answered)
  BY DEF KeysGiven
<1>2. \A i \in 1..Len(queue) : answered[i].type = queue[i].type
  OBVIOUS
<1> QED
  BY <1>1, <1>2 DEF Asked

(* A failed request is issued again when its state still waits for it.      *)
LEMMA RetryAsks ==
  ASSUME NEW a \in Accounts, NEW queue \in Seq(Requests), NEW state \in Types, KeysGiven(queue),
         Downloading(a) /\ download[a] # state => Asked(download[a], queue)
  PROVE  /\ KeysGiven(Retry(a, state, queue))
         /\ Downloading(a) => Asked(download[a], Retry(a, state, queue))
  BY SendAsks DEF Retry

(* The answer to a request for a listen key. *)
LEMMA ComingListenKeyAck ==
  ASSUME TypeOK, NEW a \in Accounts, ComingInv(a), inflight[a] # << >>,
         NEW state \in {"USER_DATA_STREAM_START", "LISTEN_KEY"},
         Head(inflight[a]).type \in {state, "USER_DATA_STREAM_PING"},
         NEW passOn, ListenKeyAck(a, state, passOn)
  PROVE  ComingInv(a)'
<1> DEFINE answer == Head(inflight[a])
           tail == Tail(inflight[a])
<1>1. /\ inflight[a] \in Seq(Requests) /\ KeysGiven(inflight[a])
      /\ answer \in Requests /\ tail \in Seq(Requests)
      /\ download[a] \in States /\ listen_key[a] \in Nat
  BY TailType DEF TypeOK, ComingInv
<1>2. /\ KeysGiven(tail)
      /\ \A other : Asked(other, inflight[a]) /\ other # answer.type => Asked(other, tail)
      /\ answer.status = "ok" /\ answer.type # "SESSION_LOGON" => answer.key > 0
  BY <1>1, TailAsks
<1>3. state \in Types /\ answer.type # "SESSION_LOGON"
  BY DEF Types
<1>4. Downloading(a) /\ download[a] # state => Asked(download[a], tail)
  <2>1. download[a] # state /\ Downloading(a) => download[a] # answer.type
    BY <1>1 DEF States
  <2> QED
    BY <1>2, <2>1 DEF ComingInv
<1> HIDE DEF answer, tail
<1>5. CASE answer.status = "ok"
  <2>1. /\ listen_key' = [listen_key EXCEPT ![a] = StoreKey(a, answer.key)]
        /\ download' = [download EXCEPT ![a] = IF @ = state THEN "DONE" ELSE @]
        /\ refresh' = [refresh EXCEPT ![a] = "armed"]
        /\ inflight' = [inflight EXCEPT ![a] = tail]
        /\ UNCHANGED exchange
    BY <1>5 DEF ListenKeyAck, answer, tail
  <2>2. StoreKey(a, answer.key) > 0
    BY <1>2, <1>3, <1>5 DEF StoreKey
  <2>3. /\ listen_key'[a] > 0 /\ refresh'[a] = "armed" /\ inflight'[a] = tail
        /\ download'[a] = IF download[a] = state THEN "DONE" ELSE download[a]
    BY <2>1, <2>2 DEF TypeOK
  <2> QED
    BY <1>2, <1>4, <2>1, <2>3 DEF ComingInv, Downloading, Ready
<1>6. CASE answer.status = "error"
  <2>1. /\ inflight' = [inflight EXCEPT ![a] = Retry(a, state, tail)]
        /\ UNCHANGED <<listen_key, download, refresh, exchange>>
    BY <1>6 DEF ListenKeyAck, answer, tail
  <2>2. inflight'[a] = Retry(a, state, tail)
    BY <2>1 DEF TypeOK
  <2>3. /\ KeysGiven(Retry(a, state, tail))
        /\ Downloading(a) => Asked(download[a], Retry(a, state, tail))
    BY <1>1, <1>2, <1>3, <1>4, RetryAsks
  <2> QED
    BY <2>1, <2>2, <2>3 DEF ComingInv, Downloading, Ready
<1> QED
  BY <1>5, <1>6 DEF ListenKeyAck, answer

LEMMA ComingLogon ==
  ASSUME TypeOK, NEW a \in Accounts, ComingInv(a), SessionLogonAck(a)
  PROVE  ComingInv(a)'
<1> DEFINE tail == Tail(inflight[a])
<1>1. /\ inflight[a] \in Seq(Requests) /\ inflight[a] # << >>
      /\ Head(inflight[a]).type = "SESSION_LOGON" /\ KeysGiven(inflight[a])
  BY DEF TypeOK, ComingInv, SessionLogonAck, Answered
<1>2. /\ tail \in Seq(Requests) /\ KeysGiven(tail)
      /\ \A other : Asked(other, inflight[a]) /\ other # "SESSION_LOGON" => Asked(other, tail)
  BY <1>1, TailAsks, TailType
<1> HIDE DEF tail
<1>3. "SESSION_LOGON" \in Types /\ "USER_DATA_STREAM_START" \in Types
  BY DEF Types
<1>4. /\ KeysGiven(Send(tail, "USER_DATA_STREAM_START"))
      /\ Asked("USER_DATA_STREAM_START", Send(tail, "USER_DATA_STREAM_START"))
  BY <1>2, <1>3, SendAsks
<1>5. /\ KeysGiven(Retry(a, "SESSION_LOGON", tail))
      /\ Downloading(a) => Asked(download[a], Retry(a, "SESSION_LOGON", tail))
  BY <1>2, <1>3, RetryAsks DEF ComingInv
<1>6. UNCHANGED <<listen_key, refresh, exchange>>
  BY DEF SessionLogonAck
<1>7. CASE /\ download' = [download EXCEPT ![a] = "USER_DATA_STREAM_START"]
           /\ inflight' = [inflight EXCEPT ![a] = Send(tail, "USER_DATA_STREAM_START")]
  <2>1. /\ download'[a] = "USER_DATA_STREAM_START"
        /\ inflight'[a] = Send(tail, "USER_DATA_STREAM_START")
    BY <1>7 DEF TypeOK
  <2> QED
    BY <1>4, <1>6, <2>1 DEF ComingInv, Downloading, Ready
<1>8. CASE /\ inflight' = [inflight EXCEPT ![a] = Retry(a, "SESSION_LOGON", tail)]
           /\ UNCHANGED download
  <2>1. inflight'[a] = Retry(a, "SESSION_LOGON", tail)
    BY <1>8 DEF TypeOK
  <2> QED
    BY <1>5, <1>6, <1>8, <2>1 DEF ComingInv, Downloading, Ready
<1> QED
  BY <1>7, <1>8 DEF SessionLogonAck, tail

LEMMA ComingOrderEntry ==
  ASSUME TypeOK, NEW a \in Accounts, ComingInv(a), OrderEntryNext(a)
  PROVE  ComingInv(a)'
<1> DEFINE queue == inflight[a]
<1>1. /\ queue \in Seq(Requests) /\ KeysGiven(queue)
      /\ DOMAIN queue = 1..Len(queue)
  BY DEF TypeOK, ComingInv
<1>2. CASE Connected(a)
  <2>1. /\ inflight'[a] = Send(queue, FirstState(a)) /\ download'[a] = FirstState(a)
        /\ UNCHANGED <<listen_key, refresh, exchange>>
    BY <1>2 DEF Connected, TypeOK
  <2>2. FirstState(a) \in Types /\ FirstState(a) # "DONE"
    BY DEF FirstState, Types
  <2>3. KeysGiven(Send(queue, FirstState(a))) /\ Asked(FirstState(a), Send(queue, FirstState(a)))
    BY <1>1, <2>2, SendAsks
  <2> QED
    BY <2>1, <2>2, <2>3 DEF ComingInv, Downloading, Ready
<1>3. CASE SocketDisconnected(a)
  <2>1. /\ inflight'[a] = << >> /\ download'[a] = "UNDEFINED"
        /\ UNCHANGED <<listen_key, refresh, exchange>>
    BY <1>3 DEF SocketDisconnected, TypeOK
  <2>2. KeysGiven(<< >>)
    BY DEF KeysGiven
  <2> QED
    BY <2>1, <2>2 DEF ComingInv, Downloading, Ready
<1>4. CASE RestDisconnected(a)
  <2> DEFINE failed == [i \in DOMAIN queue |->
               IF queue[i].status = "pending" THEN [queue[i] EXCEPT !.status = "error"]
               ELSE queue[i]]
  <2>1. /\ inflight'[a] = failed /\ download'[a] = "UNDEFINED"
        /\ UNCHANGED <<listen_key, refresh, exchange>>
    BY <1>4 DEF RestDisconnected, TypeOK
  <2>2. Len(queue) \in Nat /\ \A i \in 1..Len(queue) : queue[i] \in Requests
    BY <1>1
  <2>3. failed \in [1..Len(queue) -> Requests]
    BY <1>1, <2>2 DEF Requests
  <2>4. \A i \in 1..Len(queue) :
          \/ failed[i] = queue[i]
          \/ failed[i].type = queue[i].type /\ failed[i].status # "ok"
    BY <1>1, <2>2 DEF Requests
  <2> HIDE DEF failed, queue
  <2>5. failed \in Seq(Requests) /\ Len(failed) = Len(queue)
    BY <2>2, <2>3, IsASeq, LenProperties
  <2>6. KeysGiven(failed)
    BY <1>1, <2>4, <2>5, AnswerAsks
  <2> QED
    BY <2>1, <2>6 DEF ComingInv, Downloading, Ready
<1>5. CASE SessionLogonAck(a)
  BY <1>5, ComingLogon
<1>6. CASE SocketListenKeyAck(a)
  BY <1>6, ComingListenKeyAck DEF SocketListenKeyAck, Answered
<1>7. CASE RestListenKeyAck(a)
  BY <1>7, ComingListenKeyAck DEF RestListenKeyAck, Answered
<1> QED
  BY <1>2, <1>3, <1>4, <1>5, <1>6, <1>7 DEF OrderEntryNext

LEMMA ComingExchange ==
  ASSUME TypeOK, NEW a \in Accounts, ComingInv(a), ExchangeNext(a)
  PROVE  ComingInv(a)'
<1> DEFINE queue == inflight[a]
<1>1. /\ queue \in Seq(Requests) /\ KeysGiven(queue)
      /\ DOMAIN queue = 1..Len(queue)
      /\ exchange[a] \in [key : Nat, valid : BOOLEAN]
  BY DEF TypeOK, ComingInv
<1> UNCHANGED <<download, listen_key, refresh>>
  BY DEF ExchangeNext, Accept, Reject, Expire, NotifyExpired, gateway
<1>2. CASE Accept(a)
  <2>1. PICK i \in 1..MaxInflight :
          /\ FirstPending(a, i)
          /\ exchange' = [exchange EXCEPT ![a] =
               IF inflight[a][i].type = "SESSION_LOGON" THEN @ ELSE Renewed(a)]
          /\ inflight' = [inflight EXCEPT ![a][i] =
               [@ EXCEPT !.status = "ok", !.key = exchange'[a].key]]
    BY <1>2 DEF Accept
  <2>2. i \in 1..Len(queue) /\ queue[i] \in Requests
    BY <1>1, <2>1 DEF FirstPending
  <2>3. exchange'[a] = IF queue[i].type = "SESSION_LOGON" THEN exchange[a] ELSE Renewed(a)
    BY <2>1 DEF TypeOK
  <2>4. /\ exchange'[a].key \in Nat
        /\ exchange'[a].valid => exchange'[a].key > 0
        /\ queue[i].type # "SESSION_LOGON" => exchange'[a].key > 0
    BY <1>1, <2>3 DEF Renewed, ComingInv
  <2> DEFINE request == [queue[i] EXCEPT !.status = "ok", !.key = exchange'[a].key]
             answered == [queue EXCEPT ![i] = request]
  <2>5. request \in Requests /\ request.type = queue[i].type /\ request.key = exchange'[a].key
    BY <2>2, <2>4 DEF Requests
  <2>6. inflight'[a] = answered
    BY <2>1 DEF TypeOK
  <2> HIDE DEF request, queue
  <2>7. /\ answered \in Seq(Requests) /\ Len(answered) = Len(queue)
        /\ \A j \in 1..Len(queue) : answered[j] = IF j = i THEN request ELSE queue[j]
    BY <1>1, <2>2, <2>5
  <2>8. /\ KeysGiven(answered)
        /\ \A other : Asked(other, queue) => Asked(other, answered)
    BY <1>1, <2>4, <2>5, <2>7, AnswerAsks
  <2> QED
    BY <2>4, <2>6, <2>8 DEF ComingInv, Downloading, Ready, queue
<1>3. CASE Reject(a)
  <2>1. PICK i \in 1..MaxInflight :
          /\ FirstPending(a, i)
          /\ inflight' = [inflight EXCEPT ![a][i] = [@ EXCEPT !.status = "error"]]
          /\ UNCHANGED exchange
    BY <1>3 DEF Reject
  <2>2. i \in 1..Len(queue) /\ queue[i] \in Requests
    BY <1>1, <2>1 DEF FirstPending
  <2> DEFINE request == [queue[i] EXCEPT !.status = "error"]
             answered == [queue EXCEPT ![i] = request]
  <2>3. request \in Requests /\ request.type = queue[i].type /\ request.status # "ok"
    BY <2>2 DEF Requests
  <2>4. inflight'[a] = answered
    BY <2>1 DEF TypeOK
  <2> HIDE DEF request, queue
  <2>5. /\ answered \in Seq(Requests) /\ Len(answered) = Len(queue)
        /\ \A j \in 1..Len(queue) : answered[j] = IF j = i THEN request ELSE queue[j]
    BY <1>1, <2>2, <2>3
  <2>6. /\ KeysGiven(answered)
        /\ \A other : Asked(other, queue) => Asked(other, answered)
    BY <1>1, <2>3, <2>5, AnswerAsks
  <2> QED
    BY <2>1, <2>4, <2>6 DEF ComingInv, Downloading, Ready, queue
<1>4. CASE Expire(a)
  <2>1. exchange'[a].valid = FALSE /\ UNCHANGED inflight
    BY <1>4 DEF Expire, gateway, TypeOK
  <2> QED
    BY <2>1 DEF ComingInv, Downloading, Ready
<1>5. CASE NotifyExpired(a)
  BY <1>5 DEF NotifyExpired, ComingInv, Downloading, Ready
<1> QED
  BY <1>2, <1>3, <1>4, <1>5 DEF ExchangeNext

LEMMA ComingStep ==
  ASSUME TypeOK, NEW a \in Accounts, ComingInv(a), [Next]_vars
  PROVE  ComingInv(a)'
<1>1. CASE Timer
  <2>1. /\ inflight[a] \in Seq(Requests) /\ KeysGiven(inflight[a])
        /\ RefreshType(a) \in Types
    BY DEF TypeOK, ComingInv, RefreshType, Types
  <2>2. /\ KeysGiven(Send(inflight[a], RefreshType(a)))
        /\ \A other : Asked(other, inflight[a]) => Asked(other, Send(inflight[a], RefreshType(a)))
    BY <2>1, SendAsks
  <2>3. inflight'[a] \in {inflight[a], Send(inflight[a], RefreshType(a))}
    BY <1>1 DEF Timer
  <2>4. refresh'[a] = "zero" => refresh[a] = "zero"
    BY <1>1 DEF Timer, NextRefresh, AfterRemoval, ForceListenKeyRefresh
  <2>5. UNCHANGED <<download, listen_key, exchange>>
    BY <1>1 DEF Timer
  <2> QED
    BY <2>1, <2>2, <2>3, <2>4, <2>5 DEF ComingInv, Downloading, Ready
<1>2. CASE OrderEntryNext(a)
  BY <1>2, ComingOrderEntry
<1>3. CASE ExchangeNext(a)
  BY <1>3, ComingExchange
<1>4. CASE DropCopyNext(a)
  <2>1. UNCHANGED <<download, listen_key, refresh, inflight, exchange>>
    BY <1>4 DEF DropCopyNext, DropCopyReady, ListenKeyExpired, DropCopyDisconnected
  <2> QED
    BY <2>1 DEF ComingInv, Downloading, Ready
<1>5. CASE Elapse(a)
  <2>1. refresh'[a] = "due" /\ UNCHANGED <<download, listen_key, inflight, exchange>>
    BY <1>5 DEF Elapse, TypeOK
  <2> QED
    BY <2>1 DEF ComingInv, Downloading, Ready
<1>6. ASSUME NEW b \in Accounts, a # b,
             OrderEntryNext(b) \/ DropCopyNext(b) \/ Elapse(b) \/ ExchangeNext(b)
      PROVE  ComingInv(a)'
  <2>1. inflight'[a] = inflight[a] /\ listen_key'[a] = listen_key[a] /\ exchange'[a] = exchange[a]
    BY <1>6, OtherAccount
  <2>2. download'[a] = download[a] /\ refresh'[a] = refresh[a]
    <3>1. CASE OrderEntryNext(b)
      BY <1>6, <3>1 DEF OrderEntryNext, Connected, SocketDisconnected, RestDisconnected,
         SessionLogonAck, SocketListenKeyAck, RestListenKeyAck, ListenKeyAck, TypeOK
    <3>2. CASE DropCopyNext(b) \/ Elapse(b)
      BY <1>6, <3>2 DEF DropCopyNext, DropCopyReady, ListenKeyExpired, DropCopyDisconnected,
         Elapse, TypeOK
    <3>3. CASE ExchangeNext(b)
      BY <3>3 DEF ExchangeNext, Accept, Reject, Expire, NotifyExpired, gateway
    <3> QED
      BY <1>6, <3>1, <3>2, <3>3
  <2> QED
    BY <2>1, <2>2 DEF ComingInv, Downloading, Ready
<1>7. CASE UNCHANGED vars
  BY <1>7 DEF vars, ComingInv, Downloading, Ready
<1> QED
  BY <1>1, <1>2, <1>3, <1>4, <1>5, <1>6, <1>7 DEF Next

(* An order-entry connection never waits for a listen key without having    *)
(* asked for it, whatever was rejected or cut, and once it is ready it has  *)
(* a key to pass on and a deadline for asking again: what leads to a stream *)
(* is always on its way.                                                    *)
THEOREM StreamIsComingSafe == Spec => []StreamIsComing
<1> DEFINE Inv == \A a \in Accounts : ComingInv(a)
<1>1. Init => Inv
  <2> SUFFICES ASSUME Init, NEW a \in Accounts PROVE ComingInv(a)
    OBVIOUS
  <2>1. /\ exchange[a].valid = FALSE
        /\ inflight[a] = << >>
        /\ download[a] = "UNDEFINED"
    BY DEF Init
  <2>2. KeysGiven(<< >>)
    BY DEF KeysGiven
  <2> QED
    BY <2>1, <2>2 DEF ComingInv, Downloading, Ready
<1>2. TypeOK /\ Inv /\ [Next]_vars => Inv'
  BY ComingStep
<1>3. Inv => StreamIsComing
  BY DEF ComingInv, StreamIsComing
<1> HIDE DEF Inv
<1> QED
  BY <1>1, <1>2, <1>3, TypeCorrect, PTL DEF Spec

===============================================================================
