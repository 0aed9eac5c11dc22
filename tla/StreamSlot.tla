------------------------------ MODULE StreamSlot ------------------------------
(***************************************************************************)
(* What the gateway promises about the user stream ("drop copy") of every  *)
(* account, without listen keys, requests or timers.                       *)
(*                                                                         *)
(* The slot of an account is absent, live or retired.  A live stream may   *)
(* gain and lose its connection any number of times.  A retired stream     *)
(* (its listen key has expired) can only lose the connection it has; it    *)
(* is removed once it is offline, and only then may a new stream take the  *)
(* slot.                                                                   *)
(***************************************************************************)
CONSTANT Accounts

VARIABLES
  life,    \* [Accounts -> {"absent", "live", "retired"}]
  online   \* [Accounts -> BOOLEAN]: is the stream, if any, connected or connecting?

vars == <<life, online>>

TypeOK ==
  /\ life \in [Accounts -> {"absent", "live", "retired"}]
  /\ online \in [Accounts -> BOOLEAN]

Init ==
  /\ life = [a \in Accounts |-> "absent"]
  /\ online = [a \in Accounts |-> FALSE]

-----------------------------------------------------------------------------

Create(a) ==
  /\ life[a] = "absent"
  /\ life'[a] = "live"

Reconnect(a) ==
  /\ life[a] = "live"
  /\ life'[a] = "live"

Retire(a) ==
  /\ life[a] = "live"
  /\ life'[a] = "retired"
  /\ online'[a] = online[a]

GoOffline(a) ==
  /\ life[a] = "retired"
  /\ life'[a] = "retired"
  /\ ~online'[a]

Remove(a) ==
  /\ life[a] = "retired"
  /\ ~online[a]
  /\ life'[a] = "absent"
  /\ ~online'[a]

Stutter(a) ==
  /\ life'[a] = life[a]
  /\ online'[a] = online[a]

Step(a) ==
  \/ Create(a)
  \/ Reconnect(a)
  \/ Retire(a)
  \/ GoOffline(a)
  \/ Remove(a)
  \/ Stutter(a)

(* One step of the gateway (its timer) may move several slots at once. *)
Next ==
  /\ life' \in [Accounts -> {"absent", "live", "retired"}]
  /\ online' \in [Accounts -> BOOLEAN]
  /\ \A a \in Accounts : Step(a)

Spec == Init /\ [][Next]_vars

===============================================================================
