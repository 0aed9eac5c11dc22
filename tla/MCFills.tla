------------------------------- MODULE MCFills -------------------------------
EXTENDS Fills

(* Every order is on one of the download symbols. *)
MCSymbolOf == [o \in Orders |-> "s1"]

===============================================================================
