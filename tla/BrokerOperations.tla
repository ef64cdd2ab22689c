------------------------- MODULE BrokerOperations -------------------------
(***************************************************************************)
(* The manual operations of the orders screen at the broker: closing a     *)
(* position, cancelling and modifying a pending order.  The service takes  *)
(* account and symbol from its last snapshot when the user asks, queues    *)
(* the call on its single worker, and MT5Service re-reads the ticket,      *)
(* checks the scope, sends one request and tells from a second query what  *)
(* became of it.  Between any two of these steps the market and the user's *)
(* own terminal move on, and a request may be carried out late.            *)
(*                                                                         *)
(* Every account has one position and one pending order, and both accounts *)
(* use the same ticket numbers.  Volumes count lot steps.                  *)
(***************************************************************************)
EXTENDS Naturals, FiniteSets

CONSTANTS
    Calls,          \* calls the user makes
    Requests,       \* what a call may ask for
    Accounts,       \* accounts the terminal may be logged in to
    Symbols,        \* broker symbols
    Values,         \* values of a price field; 0 is an unset field
    Starts,         \* what the accounts hold when the model starts
    MaxVolume,      \* bound: volume of a position
    LostReplies,    \* kinds of call whose order_send may return nothing
    SwitchMidCall,  \* the account may change while a call is executed
    MaxMoves,       \* bound: moves of the market and the terminal's user
    Gone, None

Kinds == {"close", "cancel", "modify"}

Fields == {"price", "sl", "leg"}

Prices == Values \cup {0}

Edits == UNION {[F -> Prices] : F \in SUBSET {"price", "sl"}}

Positions == [symbol : Symbols, volume : 1 .. MaxVolume]

Orders == [symbol : Symbols, stopLimit : BOOLEAN, fields : [Fields -> Prices]]

\* What the user asked for, with the scope the snapshot gave it.
Asks == [request : Requests, account : Accounts, symbol : Symbols]

\* How far the worker is with a call, and what it has read and been told.
CallRecords ==
    [id : Calls, stage : {"check", "send", "verify"}, seen : Positions \cup Orders,
     reply : {"none", "accepted", "refused"}]

ASSUME BrokerAssumption ==
    /\ Requests \subseteq [kind : Kinds, volume : 0 .. MaxVolume, changes : Edits]
    /\ \A r \in Requests : r.kind = "close" => r.volume > 0
    /\ Values \subseteq Nat \ {0}
    /\ MaxVolume \in Nat \ {0}
    /\ Starts \subseteq [position : [Accounts -> Positions],
                        order : [Accounts -> Orders]]
    /\ \A s \in Starts, a \in Accounts :
          ~s.order[a].stopLimit => s.order[a].fields["leg"] = 0
    /\ None \notin Asks \cup CallRecords
    /\ Gone \notin Positions \cup Orders
    /\ LostReplies \subseteq Kinds
    /\ SwitchMidCall \in BOOLEAN
    /\ MaxMoves \in Nat

VARIABLES
    terminal,   \* the account the terminal is logged in to
    position,   \* the position with the ticket, on each account
    order,      \* the pending order with the ticket, on each account
    moves,      \* moves made so far
    asked,      \* what each call asks for, and the scope it was given
    call,       \* the call the worker executes
    inflight,   \* requests accepted or lost, not yet carried out
    effect,     \* how often the broker carried out each call's request
    verdict,    \* what the user was told about the call
    touched     \* history: fields others edited since the call read the order

world == <<terminal, position, order, moves>>

vars == <<world, asked, call, inflight, effect, verdict, touched>>

----------------------------------------------------------------------------
(* The broker                                                              *)

\* A request as sent; the fields it omits are not in its domain.
Sent == [call : Calls, account : Accounts, kind : Kinds, volume : 0 .. MaxVolume,
         fields : UNION {[F -> Prices] : F \in SUBSET Fields}]

LeavesZero(p, v) == [p EXCEPT !.volume = @ - v]

Less(p, v) ==
    IF v = p.volume THEN Gone ELSE [p EXCEPT !.volume = @ - v]

\* A modification without the stop-limit leg clears it.
Rewritten(o, fields) ==
    [o EXCEPT !.fields =
        [f \in Fields |-> IF f \in DOMAIN fields THEN fields[f] ELSE 0]]

Touch(a, S) ==
    [c \in Calls |->
        IF asked[c] # None /\ asked[c].account = a
        THEN touched[c] \cup S ELSE touched[c]]

\* The broker carries out q now; a deal may be filled in part.
Executes(q) ==
    /\ effect' = [effect EXCEPT ![q.call] = @ + 1]
    /\ \/ /\ q.kind = "close"
          /\ position[q.account] # Gone
          /\ \E v \in 1 .. q.volume :
                /\ v <= position[q.account].volume
                /\ position' = [position EXCEPT ![q.account] = Less(@, v)]
          /\ UNCHANGED <<order, touched>>
       \/ /\ q.kind = "cancel"
          /\ order[q.account] # Gone
          /\ order' = [order EXCEPT ![q.account] = Gone]
          /\ UNCHANGED <<position, touched>>
       \/ /\ q.kind = "modify"
          /\ order[q.account] # Gone
          /\ order' = [order EXCEPT ![q.account] = Rewritten(@, q.fields)]
          /\ touched' = Touch(q.account, Fields)
          /\ UNCHANGED position

CarryOutLate ==
    \E q \in inflight :
        /\ Executes(q)
        /\ inflight' = inflight \ {q}
        /\ UNCHANGED <<terminal, moves, asked, call, verdict>>

Drop ==
    \E q \in inflight :
        /\ inflight' = inflight \ {q}
        /\ UNCHANGED <<world, asked, call, effect, verdict, touched>>

Move ==
    /\ moves < MaxMoves
    /\ moves' = moves + 1
    /\ UNCHANGED <<asked, call, inflight, effect, verdict>>

\* A stop is hit, the user closes a part, or a netting deal adds volume.
PositionMoves ==
    /\ Move
    /\ \E a \in Accounts :
        /\ position[a] # Gone
        /\ \/ \E v \in 1 .. position[a].volume :
                position' = [position EXCEPT ![a] = Less(@, v)]
           \/ /\ position[a].volume < MaxVolume
              /\ position' = [position EXCEPT ![a].volume = @ + 1]
    /\ UNCHANGED <<terminal, order, touched>>

\* The pending order fills or expires, or its fields are edited.
OrderMoves ==
    /\ Move
    /\ \E a \in Accounts :
        /\ order[a] # Gone
        /\ \/ order' = [order EXCEPT ![a] = Gone] /\ UNCHANGED touched
           \/ \E f \in {"price", "sl"}, v \in Values :
                /\ order' = [order EXCEPT ![a].fields[f] = v]
                /\ touched' = Touch(a, {f})
    /\ UNCHANGED <<terminal, position>>

SwitchAccount ==
    /\ Move
    /\ call # None => SwitchMidCall
    /\ \E a \in Accounts \ {terminal} : terminal' = a
    /\ UNCHANGED <<position, order, touched>>

----------------------------------------------------------------------------
(* The service and its worker                                              *)

Target(kind, a) == IF kind = "close" THEN position[a] ELSE order[a]

\* The snapshot shows the ticket: it gives the call its account and symbol.
Ask(c) ==
    /\ asked[c] = None
    /\ \E r \in Requests :
        /\ Target(r.kind, terminal) # Gone
        /\ asked' = [asked EXCEPT ![c] =
            [request |-> r, account |-> terminal,
             symbol |-> Target(r.kind, terminal).symbol]]
    /\ UNCHANGED <<world, call, inflight, effect, verdict, touched>>

Answer(c, v) ==
    /\ verdict' = [verdict EXCEPT ![c] = {v}]
    /\ call' = None

Running(stage) == call # None /\ call.stage = stage

Kind == asked[call.id].request.kind

Stage(c, stage, seen, reply) ==
    [id |-> c, stage |-> stage, seen |-> seen, reply |-> reply]

Query(c) ==
    /\ call = None
    /\ asked[c] # None /\ verdict[c] = {}
    /\ LET target == Target(asked[c].request.kind, terminal)
       IN \/ Answer(c, "unknown") /\ UNCHANGED touched  \* the query failed
          \/ /\ target = Gone
             /\ Answer(c, "rejected")
             /\ UNCHANGED touched
          \/ /\ target # Gone
             /\ call' = Stage(c, "check", target, "none")
             /\ touched' = [touched EXCEPT ![c] = {}]
             /\ UNCHANGED verdict
    /\ UNCHANGED <<world, asked, inflight, effect>>

SymbolOnly == call.seen.symbol = asked[call.id].symbol

InScope ==
    /\ terminal = asked[call.id].account
    /\ call.seen.symbol = asked[call.id].symbol

LegForgotten ==
    [f \in {"price", "sl"} |->
        IF f \in DOMAIN asked[call.id].request.changes
        THEN asked[call.id].request.changes[f] ELSE call.seen.fields[f]]

\* The fields of a modification: the changes, and everything else as read.
Wanted ==
    LET changes == asked[call.id].request.changes
        sent == IF call.seen.stopLimit THEN Fields ELSE Fields \ {"leg"}
    IN [f \in sent |->
            IF f \in DOMAIN changes THEN changes[f] ELSE call.seen.fields[f]]

Matches(o, fields) == \A f \in DOMAIN fields : o.fields[f] = fields[f]

NothingToChange == Kind = "modify" /\ Matches(call.seen, Wanted)

\* The scope is unreadable or has changed.
RefuseScope ==
    /\ Running("check")
    /\ Answer(call.id, "rejected")
    /\ UNCHANGED <<world, asked, inflight, effect, touched>>

AcceptScope ==
    /\ Running("check")
    /\ InScope
    /\ \/ /\ NothingToChange
          /\ Answer(call.id, "confirmed")
       \/ /\ ~NothingToChange
          /\ \/ Answer(call.id, "rejected")  \* volume, type, constraints
             \/ Answer(call.id, "unknown")   \* no quote, an exception
             \/ /\ call' = [call EXCEPT !.stage = "send"]
                /\ UNCHANGED verdict
    /\ UNCHANGED <<world, asked, inflight, effect, touched>>

NoFields == [f \in {} |-> 0]

SmallerOf(m, n) == IF m < n THEN m ELSE n

Request ==
    [call |-> call.id, account |-> terminal, kind |-> Kind,
     volume |-> IF Kind = "close"
                THEN SmallerOf(asked[call.id].request.volume, call.seen.volume)
                ELSE 0,
     fields |-> IF Kind = "modify" THEN Wanted ELSE NoFields]

Replied(reply) == call' = [call EXCEPT !.stage = "verify", !.reply = reply]

SendExecuted ==
    /\ Running("send")
    /\ Executes(Request)
    /\ Replied("accepted")
    /\ UNCHANGED <<terminal, moves, asked, inflight, verdict>>

SendRefused ==
    /\ Running("send")
    /\ Replied("refused")
    /\ UNCHANGED <<world, asked, inflight, effect, verdict, touched>>

\* A deal is placed, to be executed later (an acknowledged removal or change
\* is not); or nothing comes back at all.
SendPending ==
    /\ Running("send")
    /\ inflight' = inflight \cup {Request}
    /\ \/ Kind = "close" /\ Replied("accepted") /\ UNCHANGED verdict
       \/ Kind \in LostReplies /\ Replied("none") /\ UNCHANGED verdict
       \/ Answer(call.id, "unknown")  \* order_send raised
    /\ UNCHANGED <<world, asked, effect, touched>>

CloseVerdict(now) ==
    IF now = Gone THEN "confirmed"
    ELSE IF now.volume < call.seen.volume THEN "partial"
    ELSE IF call.reply # "accepted" THEN "rejected"
    ELSE "unknown"

GoneIsCancelled(now) ==
    IF now = Gone THEN "confirmed"
    ELSE IF call.reply = "refused" THEN "rejected"
    ELSE "unknown"

CancelVerdict(now) ==
    IF now = Gone /\ call.reply = "accepted" THEN "confirmed"
    ELSE IF now # Gone /\ call.reply = "refused" THEN "rejected"
    ELSE "unknown"

ModifyVerdict(now) ==
    IF now = Gone THEN "unknown"
    ELSE IF Matches(now, Wanted) /\ now.symbol = call.seen.symbol
                /\ now.stopLimit = call.seen.stopLimit THEN "confirmed"
    ELSE IF call.reply = "refused" THEN "rejected"
    ELSE "unknown"

Verify ==
    /\ Running("verify")
    /\ LET now == Target(Kind, terminal)
       IN \/ Answer(call.id, "unknown")  \* the second query failed
          \/ Kind = "close" /\ Answer(call.id, CloseVerdict(now))
          \/ Kind = "cancel" /\ Answer(call.id, CancelVerdict(now))
          \/ Kind = "modify" /\ Answer(call.id, ModifyVerdict(now))
    /\ UNCHANGED <<world, asked, inflight, effect, touched>>

Init ==
    /\ terminal \in Accounts
    /\ \E s \in Starts : position = s.position /\ order = s.order
    /\ moves = 0
    /\ asked = [c \in Calls |-> None]
    /\ call = None
    /\ inflight = {}
    /\ effect = [c \in Calls |-> 0]
    /\ verdict = [c \in Calls |-> {}]
    /\ touched = [c \in Calls |-> {}]

Next ==
    \/ CarryOutLate \/ Drop
    \/ PositionMoves \/ OrderMoves \/ SwitchAccount
    \/ \E c \in Calls : Ask(c) \/ Query(c)
    \/ RefuseScope \/ AcceptScope
    \/ SendExecuted \/ SendRefused \/ SendPending
    \/ Verify

Spec == Init /\ [][Next]_vars

----------------------------------------------------------------------------
(* Properties                                                              *)

Verdicts == {"confirmed", "partial", "rejected", "unknown"}

TypeOK ==
    /\ terminal \in Accounts
    /\ position \in [Accounts -> Positions \cup {Gone}]
    /\ order \in [Accounts -> Orders \cup {Gone}]
    /\ moves \in 0 .. MaxMoves
    /\ asked \in [Calls -> Asks \cup {None}]
    /\ call \in CallRecords \cup {None}
    /\ call # None =>
          /\ asked[call.id] # None
          /\ call.seen \in IF Kind = "close" THEN Positions ELSE Orders
    /\ inflight \subseteq Sent
    /\ effect \in [Calls -> Nat]
    /\ verdict \in [Calls -> {{}} \cup {{v} : v \in Verdicts}]
    /\ touched \in [Calls -> SUBSET Fields]

AsRequested(c, o) == o # Gone /\ Matches(o, asked[c].request.changes)

\* A call that finds nothing to change answers from what it has just read.
Reached(c) ==
    /\ asked[c] # None
    /\ \/ /\ asked[c].request.kind = "close"
          /\ position[asked[c].account] = Gone
       \/ /\ asked[c].request.kind = "cancel"
          /\ effect[c] = 1
       \/ /\ asked[c].request.kind = "modify"
          /\ \/ AsRequested(c, order[asked[c].account])
             \/ Running("check") /\ call.id = c /\ AsRequested(c, call.seen)

Promise == INSTANCE BrokerPromise WITH goal <- [c \in Calls |-> Reached(c)]

(* Whatever the market, the terminal's user and a late broker do, a call   *)
(* changes the broker once at most, a close is confirmed only when the     *)
(* position is gone, a cancel only when the request itself removed the     *)
(* order, a change only when the broker shows the values asked for, and a  *)
(* rejected call never takes effect afterwards.                            *)
KeepsPromise == Promise!Spec

(* A request queued for one account never changes another one, although    *)
(* both use the same ticket numbers.                                       *)
OtherAccountUntouched ==
    [][\A c \in Calls : effect'[c] # effect[c] =>
        \A a \in Accounts : a # asked[c].account =>
            position'[a] = position[a] /\ order'[a] = order[a]]_vars

(* A modification leaves every field the user did not ask to change as it  *)
(* was, unless somebody else edited it after the call had read it.         *)
OmittedFieldsKept ==
    [][\A c \in Calls :
        effect'[c] # effect[c] /\ asked[c].request.kind = "modify" =>
            \A f \in Fields \ DOMAIN asked[c].request.changes :
                \/ f \in touched[c]
                \/ order'[asked[c].account].fields[f]
                        = order[asked[c].account].fields[f]]_vars

=============================================================================
