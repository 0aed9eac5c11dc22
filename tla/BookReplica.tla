------------------------------ MODULE BookReplica ------------------------------
(***************************************************************************)
(* What clients are promised of the order book of a symbol, without        *)
(* streams, events, snapshots or requests.                                 *)
(*                                                                         *)
(* The book of the exchange changes.  The gateway publishes a copy with a  *)
(* sequence number: the book as it was after that many changes, never one  *)
(* published before and never an earlier one.  It may lose track of the    *)
(* exchange; the copy then stays as it is until the gateway follows again. *)
(***************************************************************************)
EXTENDS Naturals

VARIABLES
  changed,    \* how many changes the exchange has made
  copy,       \* the changes that are in the copy
  sequence,   \* the number it is published with
  following   \* does the gateway apply the changes as they come?

vars == <<changed, copy, sequence, following>>

Init ==
  /\ changed = 0
  /\ copy = {}
  /\ sequence = 0
  /\ following = FALSE

-----------------------------------------------------------------------------

Change ==
  /\ changed' = changed + 1
  /\ UNCHANGED <<copy, sequence, following>>

Publish ==
  /\ sequence' \in sequence + 1..changed
  /\ copy' = 1..sequence'
  /\ following'
  /\ UNCHANGED changed

LoseTrack ==
  /\ following
  /\ ~following'
  /\ UNCHANGED <<changed, copy, sequence>>

Next == Change \/ Publish \/ LoseTrack

Spec == Init /\ [][Next]_vars

================================================================================
