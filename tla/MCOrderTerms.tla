----------------------------- MODULE MCOrderTerms -----------------------------
EXTENDS OrderTerms

(* The two orders are on different symbols, with the same id there. *)
MCSymbolOf == [o \in Orders |-> IF o = "o1" THEN "s1" ELSE "s2"]
MCIdOf == [o \in Orders |-> "i1"]

Limit ==
  [side |-> "BUY", order_type |-> "LIMIT", time_in_force |-> "GTC", post_only |-> FALSE,
   rpi |-> FALSE, reduce_only |-> FALSE, price |-> 1, quantity |-> 2]

(* A limit order, post-only or RPI, and a market order. *)
MCFormsOf ==
  [o \in Orders |->
     IF o = "o1"
     THEN {[Limit EXCEPT !.side = "SELL", !.post_only = TRUE, !.reduce_only = TRUE],
           [Limit EXCEPT !.rpi = TRUE, !.time_in_force = "IOC"]}
     ELSE {[Limit EXCEPT !.order_type = "MARKET", !.price = NaN]}]

===============================================================================
