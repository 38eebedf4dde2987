--------------------------- MODULE MCReliableBus ---------------------------
(***************************************************************************)
(* One request emits "paid"; "orders" handles it and emits "shipped",      *)
(* which "audit" handles.                                                  *)
(***************************************************************************)
EXTENDS ReliableBus

\* A chain of two deliveries, long enough in time for the retention purge.
ChainOnly == {<<"orders", "paid">>, <<"audit", "shipped">>}
MCEmits == [r \in Requests |-> {"paid"}]
MCChained == [d \in Deliveries |-> IF d[1] = "orders" THEN {"shipped"} ELSE {}]
=============================================================================
