------------------------- MODULE MCManagedPosition -------------------------
(***************************************************************************)
(* Small instances of ManagedPosition.  The grid: entry 10, initial stop 8 *)
(* (risk 2), break-even target 11; at 13 the profit is past be_trigger_r,  *)
(* at 17 past tight_trigger_r; a wide trail from 15 asks for 12, a tight   *)
(* one from 17 for 15; 9 is a losing quote.  The SELL order is the mirror  *)
(* image about 13: entry 16, initial stop 18, break-even 15.               *)
(***************************************************************************)
EXTENDS ManagedPosition

BuyOrder == {[side |-> "buy", entry |-> 10, initialSl |-> 8]}

SellOrder == {[side |-> "sell", entry |-> 16, initialSl |-> 18]}

EitherOrder == BuyOrder \cup SellOrder

=============================================================================
