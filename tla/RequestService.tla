----------------------------- MODULE RequestService -----------------------------
(***************************************************************************)
(* What is promised of every request of a client to the exchange, without  *)
(* connections, orders or time-outs: it is executed once at most, and      *)
(* answered once at most.  ACCEPTED and TOO_LATE come from the exchange's  *)
(* own answer.  A request may also be given up at any time, even when it   *)
(* was executed or still will be: that is REJECTED (a server error),       *)
(* FAILED, or no answer, so REJECTED does not tell a refusal from a        *)
(* failure.                                                                *)
(***************************************************************************)
CONSTANT Requests

VARIABLES
  fate,      \* what has become of each request
  awaiting,  \* the requests that will be answered
  told       \* the statuses each was answered with

vars == <<fate, awaiting, told>>

Fates == {"unused", "travelling", "executed", "refused", "gone"}
Statuses == {"ACCEPTED", "REJECTED", "TOO_LATE", "FAILED"}

Init ==
  /\ fate = [r \in Requests |-> "unused"]
  /\ awaiting = {}
  /\ told = [r \in Requests |-> {}]

-----------------------------------------------------------------------------

(* The answer to a request is as before. *)
NoReply(r) ==
  /\ r \in awaiting' <=> r \in awaiting
  /\ told'[r] = told[r]

(* A request is made, once. *)
Issue(r) ==
  /\ fate[r] = "unused" /\ fate'[r] = "travelling"
  /\ r \in awaiting'
  /\ told'[r] = {}

(* Another request is made in its place. *)
Discard(r) ==
  /\ fate[r] = "unused" /\ fate'[r] = "gone"
  /\ NoReply(r)

Execute(r) ==
  /\ fate[r] = "travelling" /\ fate'[r] \in {"executed", "refused"}
  /\ NoReply(r)

Lose(r) ==
  /\ fate[r] = "travelling" /\ fate'[r] = "gone"
  /\ NoReply(r)

(* May a request be answered like that?  TOO_LATE is said of a request that *)
(* found its order done, and of one that was refused; REJECTED and FAILED   *)
(* are said of any.                                                         *)
Truthful(r, status) ==
  /\ status = "ACCEPTED" => fate[r] = "executed"
  /\ status = "TOO_LATE" => fate[r] \in {"executed", "refused"}

(* The only answer to a request: nothing comes after it. *)
Answer(r) ==
  /\ r \in awaiting /\ r \notin awaiting'
  /\ told[r] = {}
  /\ \E status \in Statuses : Truthful(r, status) /\ told'[r] = {status}
  /\ fate'[r] = fate[r]

GiveUp(r) ==
  /\ r \in awaiting /\ r \notin awaiting'
  /\ told[r] = {} /\ told'[r] = {}
  /\ fate'[r] = fate[r]

Stutter(r) ==
  /\ fate'[r] = fate[r]
  /\ NoReply(r)

Step(r) ==
  \/ Stutter(r)
  \/ Issue(r)
  \/ Discard(r)
  \/ Execute(r)
  \/ Lose(r)
  \/ Answer(r)
  \/ GiveUp(r)

(* A cancel-all is a request for each symbol; a restart gives up all. *)
Next ==
  /\ fate' \in [Requests -> Fates]
  /\ awaiting' \subseteq Requests
  /\ told' \in [Requests -> SUBSET Statuses]
  /\ \A r \in Requests : Step(r)

Spec == Init /\ [][Next]_vars

===============================================================================
