--------------------------- MODULE BrokerPromise ---------------------------
(***************************************************************************)
(* What the result of a manual broker operation promises the user, in      *)
(* terms of what the broker did and of nothing else (OperationStatus,      *)
(* docs/trading/order-management-contract.md section 5):                   *)
(*   - one call changes the broker at most once;                           *)
(*   - "confirmed" is only said of a goal that has been reached;           *)
(*   - "rejected" is only said of a call that has changed nothing and will *)
(*     change nothing, so that it may be tried again.                      *)
(* "partial" and "unknown" leave everything open.                          *)
(***************************************************************************)
CONSTANTS Calls, Verdicts

VARIABLES
    effect,     \* how often the broker has carried out the call's request
    goal,       \* is what the call wants to be so in the broker?
    verdict     \* what the user was told, {} before that

promised == <<effect, goal, verdict>>

Init ==
    /\ effect = [c \in Calls |-> 0]
    /\ goal \in [Calls -> BOOLEAN]
    /\ verdict = [c \in Calls |-> {}]

\* The market, the user's own terminal or another call moves the broker.
Drift ==
    /\ goal' \in [Calls -> BOOLEAN]
    /\ UNCHANGED <<effect, verdict>>

CarryOut(c) ==
    /\ effect[c] = 0
    /\ verdict[c] # {"rejected"}
    /\ effect' = [effect EXCEPT ![c] = 1]
    /\ goal' \in [Calls -> BOOLEAN]
    /\ UNCHANGED verdict

Tell(c, v) ==
    /\ verdict[c] = {}
    /\ v = "confirmed" => goal[c]
    /\ v = "rejected" => effect[c] = 0
    /\ verdict' = [verdict EXCEPT ![c] = {v}]
    /\ goal' \in [Calls -> BOOLEAN]
    /\ UNCHANGED effect

Next ==
    \/ Drift
    \/ \E c \in Calls : CarryOut(c) \/ \E v \in Verdicts : Tell(c, v)

Spec == Init /\ [][Next]_promised

=============================================================================
