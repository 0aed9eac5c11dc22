------------------------------ MODULE MCOrderEntry ------------------------------
(***************************************************************************)
(* All orders are on the same symbol: the runs have one.                   *)
(***************************************************************************)
EXTENDS OrderEntry

MCSymbolOf == [o \in Orders |-> CHOOSE s \in Symbols : TRUE]

===============================================================================
