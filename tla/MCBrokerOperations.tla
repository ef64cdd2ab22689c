------------------------- MODULE MCBrokerOperations -------------------------
(***************************************************************************)
(* Instances of BrokerOperations: closing all or a part of the position,   *)
(* cancelling the order, changing its price.                               *)
(***************************************************************************)
EXTENDS BrokerOperations

CONSTANTS c1, c2, demo, live, eur, jpy

NoEdit == <<>>

CloseOf(v) == [kind |-> "close", volume |-> v, changes |-> NoEdit]

CancelOrder == [kind |-> "cancel", volume |-> 0, changes |-> NoEdit]

PriceTo(v) == [kind |-> "modify", volume |-> 0, changes |-> [f \in {"price"} |-> v]]

AllRequests == {CloseOf(1), CloseOf(MaxVolume), CancelOrder, PriceTo(2)}

\* The tickets of the second account belong to other symbols, or to the same.
Start(stopLimit, leg, other) ==
    [position |-> [a \in {demo, live} |->
        [symbol |-> IF a = demo THEN eur ELSE other, volume |-> MaxVolume]],
     order |-> [a \in {demo, live} |->
        [symbol |-> IF a = demo THEN eur ELSE other, stopLimit |-> stopLimit,
         fields |-> [f \in Fields |-> IF f = "leg" THEN leg ELSE 1]]]]

MCStarts == {Start(TRUE, 1, eur), Start(FALSE, 0, jpy)}

=============================================================================
