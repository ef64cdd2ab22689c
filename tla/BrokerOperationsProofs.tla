----------------------- MODULE BrokerOperationsProofs -----------------------
(***************************************************************************)
(* What a manual operation says of the broker is true, and it stays within *)
(* the account it was asked for: for every set of calls, requests,         *)
(* accounts and prices, provided that the account does not change while a  *)
(* call is executed and that an order_send for a close gives an answer.    *)
(***************************************************************************)
EXTENDS BrokerOperations, TLAPS

USE BrokerAssumption

-----------------------------------------------------------------------------
(* Types                                                                   *)

(* A reduced position is a position, or gone. *)
LEMMA LessType ==
    ASSUME NEW p \in Positions, NEW v \in 1 .. p.volume
    PROVE  Less(p, v) \in Positions \cup {Gone}
BY DEF Less, Positions

(* The fields of a rewritten order are prices. *)
LEMMA RewrittenType ==
    ASSUME NEW o \in Orders, NEW F \in SUBSET Fields, NEW g \in [F -> Prices]
    PROVE  Rewritten(o, g) \in Orders
<1>1. [f \in Fields |-> IF f \in DOMAIN g THEN g[f] ELSE 0] \in [Fields -> Prices]
  BY DEF Prices
<1>2. QED
  BY <1>1 DEF Rewritten, Orders

(* What a call asks for, and where. *)
LEMMA AskedType ==
    ASSUME TypeOK, NEW c \in Calls, asked[c] # None
    PROVE  /\ asked[c] \in Asks
           /\ asked[c].request \in Requests
           /\ asked[c].account \in Accounts
           /\ asked[c].request.kind \in Kinds
           /\ asked[c].request.volume \in 0 .. MaxVolume
           /\ asked[c].request.changes \in Edits
BY DEF TypeOK, Asks

(* The call under way. *)
LEMMA CallType ==
    ASSUME TypeOK, call # None
    PROVE  /\ call \in CallRecords
           /\ call.id \in Calls
           /\ asked[call.id] # None
           /\ Kind \in Kinds
           /\ Kind = "close" => call.seen \in Positions
           /\ Kind # "close" => call.seen \in Orders
<1>1. call \in CallRecords /\ call.id \in Calls /\ asked[call.id] # None
  BY DEF TypeOK, CallRecords
<1>2. QED
  BY <1>1, AskedType DEF TypeOK, Kind

(* A modification is sent with prices. *)
LEMMA WantedType ==
    ASSUME TypeOK, call # None, Kind = "modify"
    PROVE  /\ DOMAIN Wanted \in SUBSET Fields
           /\ Wanted \in [DOMAIN Wanted -> Prices]
           /\ Wanted \in UNION {[F -> Prices] : F \in SUBSET Fields}
<1> DEFINE changes == asked[call.id].request.changes
           sent == IF call.seen.stopLimit THEN Fields ELSE Fields \ {"leg"}
<1>1. call.seen \in Orders
  BY CallType
<1>2. call.seen.fields \in [Fields -> Prices]
  BY <1>1 DEF Orders
<1>3. changes \in Edits
  BY CallType, AskedType
<1>4. PICK F \in SUBSET {"price", "sl"} : changes \in [F -> Prices]
  BY <1>3 DEF Edits
<1>5. \A f \in sent :
        (IF f \in DOMAIN changes THEN changes[f] ELSE call.seen.fields[f]) \in Prices
  BY <1>2, <1>4
<1>6. sent \in SUBSET Fields
  OBVIOUS
<1>7. Wanted = [f \in sent |->
            IF f \in DOMAIN changes THEN changes[f] ELSE call.seen.fields[f]]
  BY DEF Wanted
<1> HIDE DEF sent, changes
<1>8. Wanted \in [sent -> Prices] /\ DOMAIN Wanted = sent
  BY <1>5, <1>7
<1>9. QED
  BY <1>6, <1>8

(* A request is well formed, and for the account the terminal is on. *)
LEMMA RequestType ==
    ASSUME TypeOK, call # None
    PROVE  Request \in Sent
<1>1. call.id \in Calls /\ Kind \in Kinds /\ terminal \in Accounts
  BY CallType DEF TypeOK
<1>2. (IF Kind = "modify" THEN Wanted ELSE NoFields)
            \in UNION {[F -> Prices] : F \in SUBSET Fields}
  <2>1. CASE Kind = "modify"
    BY <2>1, WantedType
  <2>2. CASE Kind # "modify"
    <3>1. NoFields \in [{} -> Prices]
      BY DEF NoFields
    <3>2. {} \in SUBSET Fields
      OBVIOUS
    <3>3. QED
      BY <2>2, <3>1, <3>2
  <2>3. QED
    BY <2>1, <2>2
<1>3. (IF Kind = "close"
       THEN SmallerOf(asked[call.id].request.volume, call.seen.volume) ELSE 0)
            \in 0 .. MaxVolume
  <2>1. CASE Kind = "close"
    <3>1. asked[call.id].request.volume \in 0 .. MaxVolume
      BY CallType, AskedType
    <3>2. call.seen.volume \in 1 .. MaxVolume
      BY <2>1, CallType DEF Positions
    <3>3. QED
      BY <2>1, <3>1, <3>2 DEF SmallerOf
  <2>2. QED
    BY <2>1
<1>4. QED
  BY <1>1, <1>2, <1>3 DEF Request, Sent

(* Whatever the broker carries out leaves positions and orders behind. *)
LEMMA ExecutesType ==
    ASSUME TypeOK, NEW q \in Sent, Executes(q)
    PROVE  /\ position' \in [Accounts -> Positions \cup {Gone}]
           /\ order' \in [Accounts -> Orders \cup {Gone}]
           /\ effect' = [effect EXCEPT ![q.call] = @ + 1]
           /\ effect' \in [Calls -> Nat]
           /\ touched' \in [Calls -> SUBSET Fields]
<1>0. q.account \in Accounts /\ q.call \in Calls
  BY DEF Sent
<1>1. effect' = [effect EXCEPT ![q.call] = @ + 1] /\ effect' \in [Calls -> Nat]
  BY <1>0 DEF Executes, TypeOK
<1>2. CASE q.kind = "close" /\ UNCHANGED <<order, touched>>
  <2>1. PICK v \in 1 .. q.volume :
            /\ position[q.account] # Gone
            /\ v <= position[q.account].volume
            /\ position' = [position EXCEPT ![q.account] = Less(@, v)]
    BY <1>2 DEF Executes
  <2>2. position[q.account] \in Positions
    BY <1>0, <2>1 DEF TypeOK
  <2>3. v \in 1 .. position[q.account].volume
    BY <2>1, <2>2 DEF Positions, Sent
  <2>4. Less(position[q.account], v) \in Positions \cup {Gone}
    BY <2>2, <2>3, LessType
  <2>5. QED
    BY <1>0, <1>1, <1>2, <2>1, <2>4 DEF TypeOK
<1>3. CASE q.kind = "cancel" /\ UNCHANGED <<position, touched>>
  BY <1>0, <1>1, <1>3 DEF Executes, TypeOK
<1>4. CASE q.kind = "modify" /\ UNCHANGED position
  <2>1. /\ order[q.account] # Gone
        /\ order' = [order EXCEPT ![q.account] = Rewritten(@, q.fields)]
        /\ touched' = Touch(q.account, Fields)
    BY <1>4 DEF Executes
  <2>2. order[q.account] \in Orders
    BY <1>0, <2>1 DEF TypeOK
  <2>3. PICK F \in SUBSET Fields : q.fields \in [F -> Prices]
    BY DEF Sent
  <2>4. Rewritten(order[q.account], q.fields) \in Orders
    BY <2>2, <2>3, RewrittenType
  <2>5. touched' \in [Calls -> SUBSET Fields]
    BY <2>1 DEF Touch, TypeOK
  <2>6. QED
    BY <1>0, <1>1, <1>4, <2>1, <2>4, <2>5 DEF TypeOK
<1>5. QED
  BY <1>2, <1>3, <1>4 DEF Executes

(* The broker and the world outside keep the types. *)
LEMMA WorldType ==
    ASSUME TypeOK,
           CarryOutLate \/ Drop \/ PositionMoves \/ OrderMoves \/ SwitchAccount
    PROVE  TypeOK'
<1>1. CASE CarryOutLate
  <2>1. PICK q \in inflight : Executes(q) /\ inflight' = inflight \ {q}
    BY <1>1 DEF CarryOutLate
  <2>2. q \in Sent
    BY <2>1 DEF TypeOK
  <2>3. UNCHANGED <<terminal, moves, asked, call, verdict>>
    BY <1>1 DEF CarryOutLate
  <2>4. QED
    BY <2>1, <2>2, <2>3, ExecutesType DEF TypeOK, Kind
<1>2. CASE Drop
  BY <1>2 DEF Drop, world, TypeOK, Kind
<1>3. CASE PositionMoves
  <2>1. /\ moves' \in 0 .. MaxMoves
        /\ UNCHANGED <<asked, call, inflight, effect, verdict, terminal, order, touched>>
    BY <1>3 DEF PositionMoves, Move, TypeOK
  <2>2. position' \in [Accounts -> Positions \cup {Gone}]
    <3>1. PICK a \in Accounts :
            /\ position[a] # Gone
            /\ \/ \E v \in 1 .. position[a].volume :
                    position' = [position EXCEPT ![a] = Less(@, v)]
               \/ /\ position[a].volume < MaxVolume
                  /\ position' = [position EXCEPT ![a].volume = @ + 1]
      BY <1>3 DEF PositionMoves
    <3>2. position[a] \in Positions
      BY <3>1 DEF TypeOK
    <3>3. CASE \E v \in 1 .. position[a].volume :
                    position' = [position EXCEPT ![a] = Less(@, v)]
      BY <3>2, <3>3, LessType DEF TypeOK
    <3>4. CASE /\ position[a].volume < MaxVolume
               /\ position' = [position EXCEPT ![a].volume = @ + 1]
      <4>1. [position[a] EXCEPT !.volume = @ + 1] \in Positions
        BY <3>2, <3>4 DEF Positions
      <4>2. position' = [position EXCEPT ![a] = [position[a] EXCEPT !.volume = @ + 1]]
        BY <3>4
      <4>3. QED
        BY <4>1, <4>2 DEF TypeOK
    <3>5. QED
      BY <3>1, <3>3, <3>4
  <2>3. QED
    BY <2>1, <2>2 DEF TypeOK, Kind
<1>4. CASE OrderMoves
  <2>1. /\ moves' \in 0 .. MaxMoves
        /\ UNCHANGED <<asked, call, inflight, effect, verdict, terminal, position>>
    BY <1>4 DEF OrderMoves, Move, TypeOK
  <2>2. PICK a \in Accounts :
            /\ order[a] # Gone
            /\ \/ order' = [order EXCEPT ![a] = Gone] /\ UNCHANGED touched
               \/ \E f \in {"price", "sl"}, v \in Values :
                    /\ order' = [order EXCEPT ![a].fields[f] = v]
                    /\ touched' = Touch(a, {f})
    BY <1>4 DEF OrderMoves
  <2>3. order[a] \in Orders
    BY <2>2 DEF TypeOK
  <2>4. CASE order' = [order EXCEPT ![a] = Gone] /\ UNCHANGED touched
    BY <2>1, <2>4 DEF TypeOK, Kind
  <2>5. CASE \E f \in {"price", "sl"}, v \in Values :
                    /\ order' = [order EXCEPT ![a].fields[f] = v]
                    /\ touched' = Touch(a, {f})
    <3>1. PICK f \in {"price", "sl"}, v \in Values :
                    /\ order' = [order EXCEPT ![a].fields[f] = v]
                    /\ touched' = Touch(a, {f})
      BY <2>5
    <3>2. [order[a].fields EXCEPT ![f] = v] \in [Fields -> Prices]
      BY <2>3 DEF Orders, Prices, Fields
    <3>3. [order[a] EXCEPT !.fields = [order[a].fields EXCEPT ![f] = v]] \in Orders
      BY <2>3, <3>2 DEF Orders
    <3>4. order' = [order EXCEPT ![a] =
                [order[a] EXCEPT !.fields = [order[a].fields EXCEPT ![f] = v]]]
      BY <3>1
    <3>5. order' \in [Accounts -> Orders \cup {Gone}]
      BY <3>3, <3>4 DEF TypeOK
    <3>6. touched' \in [Calls -> SUBSET Fields]
      BY <3>1 DEF Touch, TypeOK, Fields
    <3>7. QED
      BY <2>1, <3>5, <3>6 DEF TypeOK, Kind
  <2>6. QED
    BY <2>2, <2>4, <2>5
<1>5. CASE SwitchAccount
  BY <1>5 DEF SwitchAccount, Move, TypeOK, Kind
<1>6. QED
  BY <1>1, <1>2, <1>3, <1>4, <1>5

(* So do the service and its worker. *)
LEMMA AskType ==
    ASSUME TypeOK, NEW c \in Calls, Ask(c)
    PROVE  TypeOK'
<1>1. PICK r \in Requests :
        /\ Target(r.kind, terminal) # Gone
        /\ asked' = [asked EXCEPT ![c] =
            [request |-> r, account |-> terminal,
             symbol |-> Target(r.kind, terminal).symbol]]
  BY DEF Ask
<1>2. Target(r.kind, terminal) \in Positions \cup Orders
  BY <1>1 DEF Target, TypeOK
<1>3. [request |-> r, account |-> terminal,
       symbol |-> Target(r.kind, terminal).symbol] \in Asks
  BY <1>2 DEF Asks, TypeOK, Positions, Orders
<1>4. asked' \in [Calls -> Asks \cup {None}]
  BY <1>1, <1>3 DEF TypeOK
<1>5. call # None => /\ asked'[call.id] # None /\ asked'[call.id] = asked[call.id]
  BY <1>1, <1>3, CallType DEF Ask
<1>6. QED
  BY <1>4, <1>5 DEF Ask, world, TypeOK, Kind

(* An answer is one of the verdicts, and frees the worker. *)
LEMMA AnswerType ==
    ASSUME TypeOK, NEW c \in Calls, NEW v \in Verdicts, Answer(c, v),
           UNCHANGED <<world, asked, effect>>,
           inflight' \subseteq Sent, touched' \in [Calls -> SUBSET Fields]
    PROVE  TypeOK'
<1>1. verdict' \in [Calls -> {{}} \cup {{w} : w \in Verdicts}]
  BY DEF Answer, TypeOK
<1>2. call' = None
  BY DEF Answer
<1>3. QED
  BY <1>1, <1>2 DEF TypeOK, world

(* A call that goes on keeps its ticket and what it has read. *)
LEMMA StageType ==
    ASSUME TypeOK, call # None, NEW stage \in {"check", "send", "verify"},
           NEW reply \in {"none", "accepted", "refused"},
           call' = [call EXCEPT !.stage = stage, !.reply = reply],
           UNCHANGED <<asked, verdict>>
    PROVE  /\ call' \in CallRecords
           /\ call'.id = call.id /\ call'.seen = call.seen
           /\ call'.stage = stage /\ call'.reply = reply
           /\ Kind' = Kind
<1>1. call \in CallRecords
  BY CallType
<1>2. /\ call' \in CallRecords
      /\ call'.id = call.id /\ call'.seen = call.seen
      /\ call'.stage = stage /\ call'.reply = reply
  BY <1>1 DEF CallRecords
<1>3. QED
  BY <1>2 DEF Kind

(* The types of a query's steps. *)
LEMMA QueryType ==
    ASSUME TypeOK, NEW c \in Calls, Query(c)
    PROVE  TypeOK'
<1> DEFINE target == Target(asked[c].request.kind, terminal)
<1>1. CASE Answer(c, "unknown") /\ UNCHANGED touched
  BY <1>1, AnswerType DEF Query, Verdicts, TypeOK
<1>2. CASE Answer(c, "rejected") /\ UNCHANGED touched
  BY <1>2, AnswerType DEF Query, Verdicts, TypeOK
<1>3. CASE /\ target # Gone
           /\ call' = Stage(c, "check", target, "none")
           /\ touched' = [touched EXCEPT ![c] = {}]
           /\ UNCHANGED verdict
  <2>1. asked[c] # None /\ asked[c].request.kind \in Kinds /\ UNCHANGED asked
    BY AskedType DEF Query
  <2>2. target \in IF asked[c].request.kind = "close" THEN Positions ELSE Orders
    BY <1>3 DEF Target, TypeOK
  <2>3. call' \in CallRecords
    BY <1>3, <2>2 DEF Stage, CallRecords
  <2>4. call'.id = c /\ call'.seen = target
    BY <1>3 DEF Stage
  <2>5. touched' \in [Calls -> SUBSET Fields]
    BY <1>3 DEF TypeOK
  <2> HIDE DEF target
  <2>6. QED
    BY <1>3, <2>1, <2>2, <2>3, <2>4, <2>5 DEF Query, TypeOK, Kind, world
<1>4. QED
  BY <1>1, <1>2, <1>3 DEF Query

(* The types of the worker's other steps. *)
LEMMA WorkType ==
    ASSUME TypeOK,
           RefuseScope \/ AcceptScope \/ SendExecuted \/ SendRefused \/ SendPending
                \/ Verify
    PROVE  TypeOK'
<1>1. call # None /\ call.id \in Calls /\ call \in CallRecords
  BY CallType DEF RefuseScope, AcceptScope, SendExecuted, SendRefused,
                  SendPending, Verify, Running
<1>2. ASSUME call' = [call EXCEPT !.stage = "verify", !.reply = call'.reply],
             call'.reply \in {"none", "accepted", "refused"},
             UNCHANGED <<terminal, moves, asked, verdict>>,
             inflight' \subseteq Sent,
             position' \in [Accounts -> Positions \cup {Gone}],
             order' \in [Accounts -> Orders \cup {Gone}],
             effect' \in [Calls -> Nat],
             touched' \in [Calls -> SUBSET Fields]
      PROVE  TypeOK'
  <2>1. /\ call' \in CallRecords /\ call'.id = call.id /\ call'.seen = call.seen
        /\ Kind' = Kind
    BY <1>1, <1>2, StageType
  <2>2. QED
    BY <1>1, <1>2, <2>1 DEF TypeOK
<1>3. CASE RefuseScope
  BY <1>1, <1>3, AnswerType DEF RefuseScope, Verdicts, TypeOK
<1>4. CASE AcceptScope
  <2>1. CASE call' = [call EXCEPT !.stage = "send"] /\ UNCHANGED verdict
    <3>1. UNCHANGED <<world, asked, inflight, effect, touched>>
      BY <1>4 DEF AcceptScope
    <3>2. /\ call' \in CallRecords /\ call'.id = call.id /\ call'.seen = call.seen
          /\ Kind' = Kind
      BY <1>1, <2>1, <3>1 DEF CallRecords, Kind
    <3>3. QED
      BY <1>1, <2>1, <3>1, <3>2 DEF TypeOK, world
  <2>2. CASE \E v \in Verdicts : Answer(call.id, v)
    BY <1>1, <1>4, <2>2, AnswerType DEF AcceptScope, TypeOK
  <2>3. QED
    BY <1>4, <2>1, <2>2 DEF AcceptScope, Verdicts
<1>5. CASE SendExecuted
  <2>1. Request \in Sent /\ Executes(Request)
    BY <1>1, <1>5, RequestType DEF SendExecuted
  <2>2. call' = [call EXCEPT !.stage = "verify", !.reply = "accepted"]
    BY <1>5 DEF SendExecuted, Replied
  <2>3. QED
    BY <1>1, <1>2, <1>5, <2>1, <2>2, ExecutesType DEF SendExecuted, TypeOK, CallRecords
<1>6. CASE SendRefused
  <2>1. call' = [call EXCEPT !.stage = "verify", !.reply = "refused"]
    BY <1>6 DEF SendRefused, Replied
  <2>2. QED
    BY <1>1, <1>2, <1>6, <2>1 DEF SendRefused, TypeOK, CallRecords, world
<1>7. CASE SendPending
  <2>1. inflight' \subseteq Sent
    BY <1>1, <1>7, RequestType DEF SendPending, TypeOK
  <2>2. CASE Answer(call.id, "unknown")
    BY <1>1, <1>7, <2>1, <2>2, AnswerType DEF SendPending, Verdicts, TypeOK
  <2>3. CASE UNCHANGED verdict /\ \E r \in {"accepted", "none"} : Replied(r)
    BY <1>1, <1>2, <1>7, <2>1, <2>3 DEF SendPending, Replied, TypeOK, CallRecords, world
  <2>4. QED
    BY <1>7, <2>2, <2>3 DEF SendPending
<1>8. CASE Verify
  <2>1. \E v \in Verdicts : Answer(call.id, v)
    BY <1>8 DEF Verify, Verdicts, CloseVerdict, CancelVerdict, ModifyVerdict
  <2>2. QED
    BY <1>1, <1>8, <2>1, AnswerType DEF Verify, TypeOK
<1>9. QED
  BY <1>3, <1>4, <1>5, <1>6, <1>7, <1>8

(* Every variable keeps its type. *)
THEOREM TypeCorrect == Spec => []TypeOK
<1>1. Init => TypeOK
  BY DEF Init, TypeOK, Asks
<1>2. TypeOK /\ [Next]_vars => TypeOK'
  <2> SUFFICES ASSUME TypeOK, [Next]_vars PROVE TypeOK'
    OBVIOUS
  <2>1. CASE UNCHANGED vars
    BY <2>1 DEF vars, world, TypeOK, Kind
  <2>2. CASE Next
    BY <2>2, WorldType, AskType, QueryType, WorkType DEF Next
  <2>3. QED
    BY <2>1, <2>2
<1>3. QED
  BY <1>1, <1>2, PTL DEF Spec

-----------------------------------------------------------------------------
(* The invariant behind the promise                                        *)

\* The request of c has left the program.
Out(c) == effect[c] = 1 \/ \E q \in inflight : q.call = c

\* A request is carried out once, whether at once or late.
OneRequest ==
    /\ \A c \in Calls : effect[c] \in {0, 1}
    /\ \A q \in inflight : effect[q.call] = 0
    /\ \A q, r \in inflight : q.call = r.call => q = r

\* What has left the program is not taken back: its call is being verified,
\* or was told anything but "rejected".
OutIsAdmitted ==
    \A c \in Calls : Out(c) =>
        /\ asked[c] # None
        /\ verdict[c] # {"rejected"}
        /\ \/ verdict[c] # {}
           \/ /\ call # None /\ call.id = c
              /\ call.stage = "verify" /\ call.reply # "refused"

\* Requests stay in the scope of their call.
RequestsInScope ==
    /\ call # None => verdict[call.id] = {}
    /\ call # None /\ call.stage \in {"send", "verify"} =>
          terminal = asked[call.id].account
    /\ \A q \in inflight : asked[q.call] # None /\ q.account = asked[q.call].account

\* What a reply stands for.
ReplyIsTrue ==
    call # None /\ call.stage = "verify" =>
        /\ call.reply = "none" => Kind \in LostReplies
        /\ call.reply = "accepted" /\ Kind = "cancel" => effect[call.id] = 1

PInv == OneRequest /\ OutIsAdmitted /\ RequestsInScope /\ ReplyIsTrue

\* The two restrictions of the promise.
Restricted == ~SwitchMidCall /\ "close" \notin LostReplies

(* A call that has sent nothing may be told anything, one that has sent    *)
(* something anything but "rejected".                                      *)
LEMMA AnswerPInv ==
    ASSUME TypeOK, PInv, NEW c \in Calls, NEW v \in Verdicts, Answer(c, v),
           verdict[c] = {}, asked[c] # None,
           call # None => call.id = c,
           v = "rejected" => ~Out(c),
           UNCHANGED <<asked, effect, inflight>>
    PROVE  PInv'
<1>1. call' = None /\ verdict' = [verdict EXCEPT ![c] = {v}]
  BY DEF Answer
<1>2. verdict'[c] = {v} /\ \A d \in Calls \ {c} : verdict'[d] = verdict[d]
  BY <1>1 DEF TypeOK
<1>3. \A d \in Calls : Out(d)' = Out(d)
  BY DEF Out
<1>4. OutIsAdmitted'
  <2>1. SUFFICES ASSUME NEW d \in Calls, Out(d)
                 PROVE  asked[d] # None /\ verdict'[d] # {"rejected"} /\ verdict'[d] # {}
    BY <1>3 DEF OutIsAdmitted
  <2>2. CASE d = c
    BY <1>2, <2>1, <2>2
  <2>3. CASE d # c
    BY <1>2, <2>1, <2>3 DEF PInv, OutIsAdmitted
  <2>4. QED
    BY <2>2, <2>3
<1>5. OneRequest'
  BY DEF PInv, OneRequest
<1>6. RequestsInScope' /\ ReplyIsTrue'
  BY <1>1 DEF PInv, RequestsInScope, ReplyIsTrue
<1>7. QED
  BY <1>4, <1>5, <1>6 DEF PInv

(* The broker and the world outside keep the invariant: a late request is  *)
(* still carried out once only.                                            *)
LEMMA WorldPInv ==
    ASSUME Restricted, TypeOK, PInv,
           CarryOutLate \/ Drop \/ PositionMoves \/ OrderMoves \/ SwitchAccount
    PROVE  PInv'
<1>1. CASE CarryOutLate
  <2>1. PICK q \in inflight : Executes(q) /\ inflight' = inflight \ {q}
    BY <1>1 DEF CarryOutLate
  <2>2. q \in Sent /\ q.call \in Calls /\ effect' = [effect EXCEPT ![q.call] = @ + 1]
    BY <2>1, ExecutesType DEF TypeOK, Sent
  <2>3. UNCHANGED <<terminal, moves, asked, call, verdict>>
    BY <1>1 DEF CarryOutLate
  <2>4. effect'[q.call] = 1 /\ \A d \in Calls \ {q.call} : effect'[d] = effect[d]
    BY <2>1, <2>2 DEF PInv, OneRequest, TypeOK
  <2>5. \A d \in Calls : Out(d)' => Out(d)
    BY <2>1, <2>4 DEF Out
  <2>6. OneRequest'
    BY <2>1, <2>4 DEF PInv, OneRequest, TypeOK, Sent
  <2>7. OutIsAdmitted'
    BY <2>3, <2>5 DEF PInv, OutIsAdmitted
  <2>8. RequestsInScope'
    BY <2>1, <2>3 DEF PInv, RequestsInScope
  <2>9. ReplyIsTrue'
    BY <2>3, <2>4, CallType DEF PInv, ReplyIsTrue, Kind
  <2>10. QED
    BY <2>6, <2>7, <2>8, <2>9 DEF PInv
<1>2. CASE Drop
  <2>1. UNCHANGED <<world, asked, call, effect, verdict>> /\ inflight' \subseteq inflight
    BY <1>2 DEF Drop
  <2>2. \A d \in Calls : Out(d)' => Out(d)
    BY <2>1 DEF Out
  <2>3. QED
    BY <2>1, <2>2 DEF PInv, OneRequest, OutIsAdmitted, RequestsInScope, ReplyIsTrue,
                      Kind, world
<1>3. CASE PositionMoves \/ OrderMoves \/ SwitchAccount
  <2>1. UNCHANGED <<asked, call, inflight, effect, verdict>>
    BY <1>3 DEF PositionMoves, OrderMoves, SwitchAccount, Move
  <2>2. call # None => UNCHANGED terminal
    BY <1>3 DEF PositionMoves, OrderMoves, SwitchAccount, Restricted
  <2>3. QED
    BY <2>1, <2>2 DEF PInv, OneRequest, OutIsAdmitted, RequestsInScope, ReplyIsTrue,
                      Kind, Out
<1>4. QED
  BY <1>1, <1>2, <1>3

(* A new call has sent nothing, and takes nothing from the others. *)
LEMMA AskPInv ==
    ASSUME TypeOK, PInv, NEW c \in Calls, Ask(c)
    PROVE  PInv'
<1>1. asked[c] = None /\ UNCHANGED <<world, call, inflight, effect, verdict>>
  BY DEF Ask
<1>2. \A d \in Calls \ {c} : asked'[d] = asked[d]
  BY DEF Ask, TypeOK
<1>3. ~Out(c) /\ \A d \in Calls : Out(d)' = Out(d)
  BY <1>1 DEF PInv, OutIsAdmitted, Out
<1>4. \A q \in inflight : q.call \in Calls \ {c}
  BY <1>1 DEF PInv, RequestsInScope, TypeOK, Sent
<1>5. call # None => call.id \in Calls \ {c}
  BY <1>1, CallType
<1>6. QED
  BY <1>1, <1>2, <1>3, <1>4, <1>5
     DEF PInv, OneRequest, OutIsAdmitted, RequestsInScope, ReplyIsTrue, Kind, world

(* A call that has just begun has sent nothing. *)
LEMMA QueryPInv ==
    ASSUME TypeOK, PInv, NEW c \in Calls, Query(c)
    PROVE  PInv'
<1>1. /\ call = None /\ asked[c] # None /\ verdict[c] = {}
      /\ UNCHANGED <<world, asked, inflight, effect>>
  BY DEF Query
<1>2. ~Out(c)
  BY <1>1 DEF PInv, OutIsAdmitted
<1>3. CASE Answer(c, "unknown") \/ Answer(c, "rejected")
  BY <1>1, <1>2, <1>3, AnswerPInv DEF Verdicts
<1>4. CASE /\ call' = Stage(c, "check", Target(asked[c].request.kind, terminal), "none")
           /\ UNCHANGED verdict
  <2>1. call'.id = c /\ call'.stage = "check"
    BY <1>4 DEF Stage
  <2>2. \A d \in Calls : Out(d)' = Out(d)
    BY <1>1 DEF Out
  <2>3. QED
    BY <1>1, <1>4, <2>1, <2>2
       DEF PInv, OneRequest, OutIsAdmitted, RequestsInScope, ReplyIsTrue
<1>5. QED
  BY <1>3, <1>4 DEF Query

(* Before a request is sent nothing has left the program for its call. *)
LEMMA NothingOut ==
    ASSUME TypeOK, PInv, call # None,
           call.stage # "verify" \/ call.reply = "refused"
    PROVE  ~Out(call.id) /\ effect[call.id] = 0
<1>1. call.id \in Calls /\ verdict[call.id] = {}
  BY CallType DEF PInv, RequestsInScope
<1>2. ~Out(call.id)
  BY <1>1 DEF PInv, OutIsAdmitted
<1>3. QED
  BY <1>1, <1>2 DEF PInv, OneRequest, Out

(* A request that is carried out at once, refused or left pending.         *)
LEMMA SendPInv ==
    ASSUME Restricted, TypeOK, PInv, SendExecuted \/ SendRefused \/ SendPending
    PROVE  PInv'
<1>1. /\ call # None /\ call.stage = "send" /\ call.id \in Calls /\ Kind \in Kinds
      /\ verdict[call.id] = {} /\ asked[call.id] # None
      /\ terminal = asked[call.id].account
  BY CallType DEF SendExecuted, SendRefused, SendPending, Running, PInv, RequestsInScope
<1>2. ~Out(call.id) /\ effect[call.id] = 0
  BY <1>1, NothingOut
<1>3. /\ Request \in Sent /\ Request.call = call.id /\ Request.account = terminal
      /\ Request.kind = Kind
  BY <1>1, RequestType DEF Request
<1>4. ASSUME call' = [call EXCEPT !.stage = "verify", !.reply = call'.reply],
             call'.reply \in {"none", "accepted", "refused"},
             UNCHANGED <<asked, verdict>>
      PROVE  /\ call' # None /\ call'.id = call.id /\ call'.stage = "verify"
             /\ Kind' = Kind
  BY <1>1, <1>4, StageType
<1>5. CASE SendExecuted
  <2>1. /\ Executes(Request)
        /\ call' = [call EXCEPT !.stage = "verify", !.reply = "accepted"]
        /\ UNCHANGED <<terminal, moves, asked, inflight, verdict>>
    BY <1>5 DEF SendExecuted, Replied
  <2>2. call'.reply = "accepted"
    BY <1>1, <2>1, StageType
  <2>3. effect' = [effect EXCEPT ![call.id] = @ + 1]
    BY <1>3, <2>1, ExecutesType
  <2>4. effect'[call.id] = 1 /\ \A d \in Calls \ {call.id} : effect'[d] = effect[d]
    BY <1>1, <1>2, <2>3 DEF TypeOK
  <2>5. \A d \in Calls \ {call.id} : Out(d)' = Out(d)
    BY <2>1, <2>4 DEF Out
  <2>6. OneRequest'
    <3>1. \A q \in inflight : q.call \in Calls \ {call.id}
      BY <1>2 DEF Out, TypeOK, Sent
    <3>2. QED
      BY <2>1, <2>4, <3>1 DEF PInv, OneRequest
  <2>7. OutIsAdmitted'
    BY <1>1, <1>4, <2>1, <2>2, <2>5 DEF PInv, OutIsAdmitted
  <2>8. RequestsInScope' /\ ReplyIsTrue'
    BY <1>1, <1>4, <2>1, <2>2, <2>4 DEF PInv, RequestsInScope, ReplyIsTrue
  <2>9. QED
    BY <2>6, <2>7, <2>8 DEF PInv
<1>6. CASE SendRefused
  <2>1. /\ call' = [call EXCEPT !.stage = "verify", !.reply = "refused"]
        /\ UNCHANGED <<world, asked, inflight, effect, verdict, touched>>
    BY <1>6 DEF SendRefused, Replied
  <2>2. call'.reply = "refused"
    BY <1>1, <2>1, StageType
  <2>3. \A d \in Calls : Out(d)' = Out(d)
    BY <2>1 DEF Out
  <2>4. OneRequest' /\ OutIsAdmitted'
    BY <1>1, <1>2, <2>1, <2>3 DEF PInv, OneRequest, OutIsAdmitted
  <2>5. RequestsInScope' /\ ReplyIsTrue'
    BY <1>1, <1>4, <2>1, <2>2 DEF PInv, RequestsInScope, ReplyIsTrue, world
  <2>6. QED
    BY <2>4, <2>5 DEF PInv
<1>7. CASE SendPending
  <2>1. /\ inflight' = inflight \cup {Request}
        /\ UNCHANGED <<world, asked, effect, touched>>
    BY <1>7 DEF SendPending
  <2>2. \A d \in Calls \ {call.id} : Out(d)' = Out(d)
    BY <1>3, <2>1 DEF Out
  <2>3. OneRequest'
    <3>1. \A q \in inflight : q.call # call.id
      BY <1>2 DEF Out
    <3>2. QED
      BY <1>2, <1>3, <2>1, <3>1 DEF PInv, OneRequest
  <2>4. \A q \in inflight' : asked[q.call] # None /\ q.account = asked[q.call].account
    BY <1>1, <1>3, <2>1 DEF PInv, RequestsInScope
  <2>5. CASE Answer(call.id, "unknown")
    <3>1. call' = None /\ verdict' = [verdict EXCEPT ![call.id] = {"unknown"}]
      BY <2>5 DEF Answer
    <3>2. /\ verdict'[call.id] = {"unknown"}
          /\ \A d \in Calls \ {call.id} : verdict'[d] = verdict[d]
      BY <1>1, <3>1 DEF TypeOK
    <3>3. OutIsAdmitted'
      BY <1>1, <2>1, <2>2, <3>1, <3>2 DEF PInv, OutIsAdmitted
    <3>4. RequestsInScope' /\ ReplyIsTrue'
      BY <2>1, <2>4, <3>1 DEF RequestsInScope, ReplyIsTrue
    <3>5. QED
      BY <2>3, <3>3, <3>4 DEF PInv
  <2>6. CASE /\ UNCHANGED verdict
             /\ \/ Kind = "close" /\ Replied("accepted")
                \/ Kind \in LostReplies /\ Replied("none")
    <3>1. /\ call' = [call EXCEPT !.stage = "verify", !.reply = call'.reply]
          /\ call'.reply \in {"none", "accepted"}
          /\ call'.reply = "none" => Kind \in LostReplies
          /\ call'.reply = "accepted" => Kind = "close"
      BY <1>1, <2>6, CallType DEF Replied, CallRecords
    <3>2. OutIsAdmitted'
      BY <1>1, <1>4, <2>1, <2>2, <2>6, <3>1 DEF PInv, OutIsAdmitted
    <3>3. RequestsInScope' /\ ReplyIsTrue'
      BY <1>1, <1>4, <2>1, <2>4, <2>6, <3>1 DEF PInv, RequestsInScope, ReplyIsTrue, world
    <3>4. QED
      BY <2>3, <3>2, <3>3 DEF PInv
  <2>7. QED
    BY <1>7, <2>5, <2>6 DEF SendPending
<1>8. QED
  BY <1>5, <1>6, <1>7

(* What the worker answers follows from what it has read: "rejected" only  *)
(* when nothing was sent or it was refused, "confirmed" only of what the   *)
(* broker shows.                                                           *)
LEMMA VerdictIsTrue ==
    ASSUME Restricted, TypeOK, PInv, RefuseScope \/ AcceptScope \/ Verify
    PROVE  /\ call # None /\ verdict[call.id] = {} /\ asked[call.id] # None
           /\ UNCHANGED <<world, asked, inflight, effect, touched>>
           /\ \/ \E v \in Verdicts :
                    /\ Answer(call.id, v)
                    /\ v = "rejected" => ~Out(call.id)
                    /\ v = "confirmed" => Reached(call.id)
              \/ call.stage = "check" /\ InScope
                    /\ call' = [call EXCEPT !.stage = "send"] /\ UNCHANGED verdict
<1>1. /\ call # None /\ call.id \in Calls /\ asked[call.id] # None
      /\ Kind \in Kinds /\ verdict[call.id] = {}
      /\ UNCHANGED <<world, asked, inflight, effect, touched>>
  BY CallType DEF RefuseScope, AcceptScope, Verify, Running, PInv, RequestsInScope
<1>2. CASE RefuseScope
  <2>1. Answer(call.id, "rejected") /\ ~Out(call.id)
    BY <1>1, <1>2, NothingOut DEF RefuseScope, Running
  <2>2. QED
    BY <1>1, <2>1 DEF Verdicts
<1>3. CASE AcceptScope
  <2>1. call.stage = "check" /\ InScope /\ ~Out(call.id)
    BY <1>1, <1>3, NothingOut DEF AcceptScope, Running
  <2>2. CASE NothingToChange /\ Answer(call.id, "confirmed")
    <3>1. call.seen \in Orders /\ asked[call.id].request.kind = "modify"
      BY <1>1, <2>2, CallType DEF NothingToChange, Kind
    <3>2. Matches(call.seen, asked[call.id].request.changes)
      <4>1. PICK F \in SUBSET {"price", "sl"} :
                asked[call.id].request.changes \in [F -> Prices]
        BY <1>1, AskedType DEF Edits
      <4>2. \A f \in F : f \in DOMAIN Wanted
                /\ Wanted[f] = asked[call.id].request.changes[f]
        BY <4>1 DEF Wanted, Fields
      <4>3. QED
        BY <2>2, <4>1, <4>2 DEF NothingToChange, Matches
    <3>3. Reached(call.id)
      BY <1>1, <2>1, <3>1, <3>2 DEF Reached, AsRequested, Running
    <3>4. QED
      BY <1>1, <2>2, <3>3 DEF Verdicts
  <2>3. CASE Answer(call.id, "rejected") \/ Answer(call.id, "unknown")
    BY <1>1, <2>1, <2>3 DEF Verdicts
  <2>4. CASE call' = [call EXCEPT !.stage = "send"] /\ UNCHANGED verdict
    BY <1>1, <2>1, <2>4
  <2>5. QED
    BY <1>3, <2>2, <2>3, <2>4 DEF AcceptScope
<1>4. CASE Verify
  <2>1. /\ call.stage = "verify" /\ terminal = asked[call.id].account
        /\ call.reply = "refused" => ~Out(call.id)
    BY <1>1, <1>4, NothingOut DEF Verify, Running, PInv, RequestsInScope
  <2>2. call.reply \in {"none", "accepted", "refused"}
    BY <1>1, CallType DEF CallRecords
  <2>3. CASE Answer(call.id, "unknown")
    BY <1>1, <2>3 DEF Verdicts
  <2>4. CASE Kind = "close" /\ Answer(call.id, CloseVerdict(Target(Kind, terminal)))
    <3>1. CloseVerdict(Target(Kind, terminal)) = "rejected" => ~Out(call.id)
      BY <1>1, <2>1, <2>2, <2>4 DEF CloseVerdict, PInv, ReplyIsTrue, Restricted
    <3>2. CloseVerdict(Target(Kind, terminal)) = "confirmed" => Reached(call.id)
      BY <1>1, <2>1, <2>4 DEF CloseVerdict, Target, Reached, Kind
    <3>3. CloseVerdict(Target(Kind, terminal)) \in Verdicts
      BY DEF CloseVerdict, Verdicts
    <3>4. QED
      BY <1>1, <2>4, <3>1, <3>2, <3>3
  <2>5. CASE Kind = "cancel" /\ Answer(call.id, CancelVerdict(Target(Kind, terminal)))
    <3>1. CancelVerdict(Target(Kind, terminal)) = "rejected" => ~Out(call.id)
      BY <2>1 DEF CancelVerdict
    <3>2. CancelVerdict(Target(Kind, terminal)) = "confirmed" => Reached(call.id)
      BY <1>1, <2>1, <2>5 DEF CancelVerdict, Reached, Kind, PInv, ReplyIsTrue
    <3>3. CancelVerdict(Target(Kind, terminal)) \in Verdicts
      BY DEF CancelVerdict, Verdicts
    <3>4. QED
      BY <1>1, <2>5, <3>1, <3>2, <3>3
  <2>6. CASE Kind = "modify" /\ Answer(call.id, ModifyVerdict(Target(Kind, terminal)))
    <3>1. ModifyVerdict(Target(Kind, terminal)) = "rejected" => ~Out(call.id)
      BY <2>1 DEF ModifyVerdict
    <3>2. ModifyVerdict(Target(Kind, terminal)) = "confirmed" => Reached(call.id)
      <4>1. SUFFICES ASSUME Target(Kind, terminal) # Gone,
                            Matches(Target(Kind, terminal), Wanted)
                     PROVE  Reached(call.id)
        BY DEF ModifyVerdict
      <4>2. PICK F \in SUBSET {"price", "sl"} :
                asked[call.id].request.changes \in [F -> Prices]
        BY <1>1, AskedType DEF Edits
      <4>3. \A f \in F : f \in DOMAIN Wanted
                /\ Wanted[f] = asked[call.id].request.changes[f]
        BY <4>2 DEF Wanted, Fields
      <4>4. QED
        BY <1>1, <2>1, <2>6, <4>1, <4>2, <4>3
           DEF Target, Kind, Reached, AsRequested, Matches
    <3>3. ModifyVerdict(Target(Kind, terminal)) \in Verdicts
      BY DEF ModifyVerdict, Verdicts
    <3>4. QED
      BY <1>1, <2>6, <3>1, <3>2, <3>3
  <2>7. QED
    BY <1>4, <2>3, <2>4, <2>5, <2>6 DEF Verify
<1>5. QED
  BY <1>2, <1>3, <1>4

(* Checks and verifications keep the invariant. *)
LEMMA AnswersPInv ==
    ASSUME Restricted, TypeOK, PInv, RefuseScope \/ AcceptScope \/ Verify
    PROVE  PInv'
<1>1. /\ call # None /\ verdict[call.id] = {} /\ asked[call.id] # None
      /\ call.id \in Calls /\ call \in CallRecords
      /\ UNCHANGED <<world, asked, inflight, effect, touched>>
  BY VerdictIsTrue, CallType
<1>2. CASE \E v \in Verdicts : Answer(call.id, v) /\ (v = "rejected" => ~Out(call.id))
  BY <1>1, <1>2, AnswerPInv
<1>3. CASE /\ call.stage = "check" /\ InScope
           /\ call' = [call EXCEPT !.stage = "send"] /\ UNCHANGED verdict
  <2>1. call'.id = call.id /\ call'.stage = "send"
    BY <1>1, <1>3 DEF CallRecords
  <2>2. \A d \in Calls : Out(d)' = Out(d)
    BY <1>1 DEF Out
  <2>3. OneRequest' /\ OutIsAdmitted'
    BY <1>1, <1>3, <2>2 DEF PInv, OneRequest, OutIsAdmitted
  <2>4. RequestsInScope' /\ ReplyIsTrue'
    BY <1>1, <1>3, <2>1 DEF PInv, RequestsInScope, ReplyIsTrue, InScope, world
  <2>5. QED
    BY <2>3, <2>4 DEF PInv
<1>4. QED
  BY <1>2, <1>3, VerdictIsTrue

(* The invariant of the promise holds in every reachable state. *)
THEOREM Invariance ==
    ASSUME Restricted
    PROVE  Spec => [](TypeOK /\ PInv)
<1>1. TypeOK /\ Init => PInv
  BY DEF Init, PInv, OneRequest, OutIsAdmitted, Out, RequestsInScope, ReplyIsTrue
<1>2. TypeOK /\ PInv /\ [Next]_vars => PInv'
  <2> SUFFICES ASSUME TypeOK, PInv, [Next]_vars PROVE PInv'
    OBVIOUS
  <2>1. CASE UNCHANGED vars
    BY <2>1 DEF vars, world, PInv, OneRequest, OutIsAdmitted, Out, RequestsInScope,
                ReplyIsTrue, Kind
  <2>2. CASE Next
    BY <2>2, WorldPInv, AskPInv, QueryPInv, SendPInv, AnswersPInv DEF Next
  <2>3. QED
    BY <2>1, <2>2
<1>3. Spec => []TypeOK
  BY TypeCorrect
<1>4. QED
  BY <1>1, <1>2, <1>3, PTL DEF Spec

-----------------------------------------------------------------------------
(* The refinement                                                          *)

\* The goals as the promise sees them.
Goals == [c \in Calls |-> Reached(c)]

(* Whether a goal is reached is a truth value. *)
LEMMA GoalsType == Goals \in [Calls -> BOOLEAN] /\ Goals' \in [Calls -> BOOLEAN]
BY DEF Goals, Reached, AsRequested, Matches

(* An answer is an answer of the promise.                                  *)
LEMMA AnswerRefines ==
    ASSUME TypeOK, NEW c \in Calls, NEW v \in Verdicts, Answer(c, v),
           verdict[c] = {},
           v = "rejected" => effect[c] = 0,
           v = "confirmed" => Reached(c),
           UNCHANGED effect
    PROVE  Promise!Next
<1>1. Promise!Tell(c, v)
  BY GoalsType DEF Answer, Goals, Promise!Tell
<1>2. QED
  BY <1>1 DEF Promise!Next

(* A step that neither executes nor answers only lets the broker drift.    *)
LEMMA DriftRefines == UNCHANGED <<effect, verdict>> => Promise!Next
BY GoalsType DEF Goals, Promise!Next, Promise!Drift

(* What the broker carries out, it carries out for a call not yet served   *)
(* and not refused.                                                        *)
LEMMA ExecutionRefines ==
    ASSUME TypeOK, PInv, NEW c \in Calls, effect[c] = 0, verdict[c] # {"rejected"},
           effect' = [effect EXCEPT ![c] = @ + 1],
           UNCHANGED verdict
    PROVE  Promise!Next
<1>1. effect' = [effect EXCEPT ![c] = 1]
  BY DEF TypeOK
<1>2. Promise!CarryOut(c)
  BY <1>1, GoalsType DEF Goals, Promise!CarryOut
<1>3. QED
  BY <1>2 DEF Promise!Next

(* Every step of the program, the market and the broker is a step of the   *)
(* promise.                                                                *)
LEMMA StepRefines ==
    ASSUME Restricted, TypeOK, PInv, Next
    PROVE  Promise!Next
<1>1. CASE CarryOutLate
  <2>1. PICK q \in inflight : Executes(q) /\ UNCHANGED verdict
    BY <1>1 DEF CarryOutLate
  <2>2. /\ q.call \in Calls /\ effect[q.call] = 0 /\ verdict[q.call] # {"rejected"}
        /\ effect' = [effect EXCEPT ![q.call] = @ + 1]
    BY <2>1, ExecutesType DEF TypeOK, Sent, PInv, OneRequest, OutIsAdmitted, Out
  <2>3. QED
    BY <2>1, <2>2, ExecutionRefines
<1>2. CASE Drop \/ PositionMoves \/ OrderMoves \/ SwitchAccount
  BY <1>2, DriftRefines DEF Drop, PositionMoves, OrderMoves, SwitchAccount, Move
<1>3. ASSUME NEW c \in Calls, Ask(c) PROVE Promise!Next
  BY <1>3, DriftRefines DEF Ask
<1>4. ASSUME NEW c \in Calls, Query(c) PROVE Promise!Next
  <2>1. verdict[c] = {} /\ effect[c] = 0 /\ UNCHANGED effect
    BY <1>4 DEF Query, PInv, OneRequest, OutIsAdmitted, Out
  <2>2. CASE Answer(c, "unknown") \/ Answer(c, "rejected")
    BY <2>1, <2>2, AnswerRefines DEF Verdicts
  <2>3. CASE UNCHANGED verdict
    BY <2>1, <2>3, DriftRefines
  <2>4. QED
    BY <1>4, <2>2, <2>3 DEF Query
<1>5. CASE RefuseScope \/ AcceptScope \/ Verify
  <2>1. /\ call.id \in Calls /\ verdict[call.id] = {} /\ UNCHANGED effect
        /\ ~Out(call.id) => effect[call.id] = 0
    BY <1>5, VerdictIsTrue, CallType DEF PInv, OneRequest, Out
  <2>2. CASE UNCHANGED verdict
    BY <2>1, <2>2, DriftRefines
  <2>3. CASE \E v \in Verdicts :
                /\ Answer(call.id, v)
                /\ v = "rejected" => ~Out(call.id)
                /\ v = "confirmed" => Reached(call.id)
    BY <2>1, <2>3, AnswerRefines
  <2>4. QED
    BY <1>5, <2>2, <2>3, VerdictIsTrue
<1>6. CASE SendExecuted
  <2>1. /\ call # None /\ call.id \in Calls /\ effect[call.id] = 0
        /\ verdict[call.id] = {}
    BY <1>6, NothingOut, CallType DEF SendExecuted, Running, PInv, RequestsInScope
  <2>2. effect' = [effect EXCEPT ![call.id] = @ + 1] /\ UNCHANGED verdict
    BY <1>6, <2>1, RequestType, ExecutesType DEF SendExecuted, Request
  <2>3. QED
    BY <2>1, <2>2, ExecutionRefines
<1>7. CASE SendRefused
  BY <1>7, DriftRefines DEF SendRefused
<1>8. CASE SendPending
  <2>1. /\ call.id \in Calls /\ verdict[call.id] = {} /\ UNCHANGED effect
    BY <1>8, CallType DEF SendPending, Running, PInv, RequestsInScope
  <2>2. CASE Answer(call.id, "unknown")
    BY <2>1, <2>2, AnswerRefines DEF Verdicts
  <2>3. CASE UNCHANGED verdict
    BY <2>1, <2>3, DriftRefines
  <2>4. QED
    BY <1>8, <2>2, <2>3 DEF SendPending
<1>9. QED
  BY <1>1, <1>2, <1>3, <1>4, <1>5, <1>6, <1>7, <1>8 DEF Next

(* The manual operations keep what their results promise: one effect per   *)
(* call at most, "confirmed" only of what the broker shows, "rejected"     *)
(* only of a call that never takes effect.                                 *)
THEOREM Refinement ==
    ASSUME Restricted
    PROVE  Spec => KeepsPromise
<1>1. Init => Promise!Init
  BY GoalsType DEF Init, Goals, Promise!Init
<1>2. TypeOK /\ PInv /\ [Next]_vars => [Promise!Next]_(Promise!promised)
  <2> SUFFICES ASSUME TypeOK, PInv, [Next]_vars
               PROVE  [Promise!Next]_(Promise!promised)
    OBVIOUS
  <2>1. CASE UNCHANGED vars
    BY <2>1, DriftRefines DEF vars, world
  <2>2. CASE Next
    BY <2>2, StepRefines
  <2>3. QED
    BY <2>1, <2>2
<1>3. QED
  BY Invariance, <1>1, <1>2, PTL DEF Spec, KeepsPromise, Promise!Spec

(* An operation changes only the account it was asked for, although both   *)
(* accounts use the same ticket numbers.                                   *)
THEOREM ScopeIsKept ==
    ASSUME Restricted
    PROVE  Spec => OtherAccountUntouched
<1> DEFINE Scoped ==
        \A c \in Calls : effect'[c] # effect[c] =>
            \A a \in Accounts : a # asked[c].account =>
                position'[a] = position[a] /\ order'[a] = order[a]
<1>1. TypeOK /\ PInv /\ [Next]_vars => Scoped
  <2> SUFFICES ASSUME TypeOK, PInv, [Next]_vars PROVE Scoped
    OBVIOUS
  <2>1. ASSUME NEW q \in Sent, Executes(q), q.account = asked[q.call].account
        PROVE  Scoped
    <3>1. \A c \in Calls : effect'[c] # effect[c] => c = q.call
      BY <2>1, ExecutesType DEF TypeOK, Sent
    <3>2. \A a \in Accounts \ {q.account} :
              position'[a] = position[a] /\ order'[a] = order[a]
      BY <2>1 DEF Executes, TypeOK
    <3>3. QED
      BY <2>1, <3>1, <3>2
  <2>2. CASE CarryOutLate
    BY <2>1, <2>2 DEF CarryOutLate, PInv, RequestsInScope, TypeOK
  <2>3. CASE SendExecuted
    <3>1. /\ call # None /\ Executes(Request) /\ terminal = asked[call.id].account
      BY <2>3 DEF SendExecuted, Running, PInv, RequestsInScope
    <3>2. Request \in Sent /\ Request.call = call.id /\ Request.account = terminal
      BY <3>1, RequestType DEF Request
    <3>3. QED
      BY <2>1, <3>1, <3>2
  <2>4. CASE effect' = effect
    BY <2>4
  <2>5. QED
    BY <2>2, <2>3, <2>4 DEF Next, vars, Drop, PositionMoves, OrderMoves, SwitchAccount,
       Move, Ask, Query, RefuseScope, AcceptScope, SendRefused, SendPending, Verify
<1>2. QED
  BY Invariance, <1>1, PTL DEF Spec, OtherAccountUntouched

-----------------------------------------------------------------------------
(* What a modification leaves alone                                        *)

Changes(c) == DOMAIN asked[c].request.changes

\* Only a stop-limit order has a limit leg.
LegsAreClear ==
    \A a \in Accounts :
        order[a] # Gone /\ ~order[a].stopLimit => order[a].fields["leg"] = 0

\* What a call has read of the order is what the order still has, but for the
\* fields others have touched since.
ReadIsCurrent ==
    LET now == order[terminal]
    IN call # None /\ Kind = "modify" /\ terminal = asked[call.id].account
            /\ now # Gone =>
        /\ now.stopLimit = call.seen.stopLimit
        /\ \A f \in Fields \ touched[call.id] : now.fields[f] = call.seen.fields[f]

\* The same of a request that is still to be carried out.
Carries(q, f) == IF f \in DOMAIN q.fields THEN q.fields[f] ELSE 0

PendingIsCurrent ==
    \A q \in inflight :
        /\ q.kind = asked[q.call].request.kind
        /\ q.kind = "modify" /\ order[q.account] # Gone =>
              /\ order[q.account].stopLimit <=> "leg" \in DOMAIN q.fields
              /\ \A f \in Fields \ (touched[q.call] \cup Changes(q.call)) :
                    order[q.account].fields[f] = Carries(q, f)

FInv == LegsAreClear /\ ReadIsCurrent /\ PendingIsCurrent

(* The fields of a rewritten order are those of the request.               *)
LEMMA RewrittenFields ==
    ASSUME NEW o \in Orders, NEW q \in Sent
    PROVE  /\ Rewritten(o, q.fields).stopLimit = o.stopLimit
           /\ \A f \in Fields : Rewritten(o, q.fields).fields[f] = Carries(q, f)
BY DEF Rewritten, Orders, Carries

(* Whatever is done to an order, by a request or by others, is either its  *)
(* end or is recorded as touched.                                          *)
OrderStep ==
    \A a \in Accounts :
        \/ order'[a] = order[a] /\ \A c \in Calls : touched[c] \subseteq touched'[c]
        \/ order'[a] = Gone
        \/ /\ order[a] # Gone /\ order'[a] # Gone
           /\ order'[a].stopLimit = order[a].stopLimit
           /\ order'[a].stopLimit \/ order'[a].fields["leg"] = 0
           /\ \A c \in Calls : asked[c] # None /\ asked[c].account = a =>
                /\ touched[c] \subseteq touched'[c]
                /\ \A f \in Fields \ touched'[c] : order'[a].fields[f] = order[a].fields[f]

(* Such a step keeps the invariant, if the requests and the call stand.    *)
LEMMA OrderStepFInv ==
    ASSUME Restricted, TypeOK, TypeOK', PInv, FInv, OrderStep,
           UNCHANGED <<asked, call>>,
           call # None => UNCHANGED terminal,
           inflight' \subseteq inflight
    PROVE  FInv'
<1>1. LegsAreClear'
  BY DEF FInv, LegsAreClear, OrderStep
<1>2. ReadIsCurrent'
  <2>1. SUFFICES ASSUME call # None, Kind = "modify", terminal = asked[call.id].account,
                        order'[terminal] # Gone
                 PROVE  /\ order'[terminal].stopLimit = call.seen.stopLimit
                        /\ \A f \in Fields \ touched'[call.id] :
                              order'[terminal].fields[f] = call.seen.fields[f]
    BY DEF ReadIsCurrent, Kind
  <2>2. /\ call.id \in Calls /\ asked[call.id] # None /\ terminal \in Accounts
    BY <2>1, CallType DEF TypeOK
  <2>3. order[terminal] # Gone
    BY <2>1, <2>2 DEF OrderStep
  <2>4. /\ order[terminal].stopLimit = call.seen.stopLimit
        /\ \A f \in Fields \ touched[call.id] :
              order[terminal].fields[f] = call.seen.fields[f]
    BY <2>1, <2>3 DEF FInv, ReadIsCurrent
  <2>5. QED
    BY <2>1, <2>2, <2>3, <2>4 DEF OrderStep
<1>3. PendingIsCurrent'
  <2>1. SUFFICES ASSUME NEW q \in inflight, q.kind = "modify", order'[q.account] # Gone
                 PROVE  /\ order'[q.account].stopLimit <=> "leg" \in DOMAIN q.fields
                        /\ \A f \in Fields \ (touched'[q.call] \cup Changes(q.call)) :
                              order'[q.account].fields[f] = Carries(q, f)
    BY DEF FInv, PendingIsCurrent, Changes, Carries
  <2>2. /\ q.call \in Calls /\ q.account \in Accounts
        /\ asked[q.call] # None /\ q.account = asked[q.call].account
    BY DEF TypeOK, Sent, PInv, RequestsInScope
  <2>3. order[q.account] # Gone
    BY <2>1, <2>2 DEF OrderStep
  <2>4. /\ order[q.account].stopLimit <=> "leg" \in DOMAIN q.fields
        /\ \A f \in Fields \ (touched[q.call] \cup Changes(q.call)) :
              order[q.account].fields[f] = Carries(q, f)
    BY <2>1, <2>3 DEF FInv, PendingIsCurrent
  <2>5. QED
    BY <2>1, <2>2, <2>3, <2>4 DEF OrderStep
<1>4. QED
  BY <1>1, <1>2, <1>3 DEF FInv

(* What is carried out is such a step.                                     *)
LEMMA ExecutesIsOrderStep ==
    ASSUME TypeOK, FInv, NEW q \in Sent, Executes(q),
           q.kind = "modify" /\ order[q.account] # Gone =>
                (order[q.account].stopLimit <=> "leg" \in DOMAIN q.fields)
    PROVE  OrderStep
<1>0. q.account \in Accounts
  BY DEF Sent
<1>1. CASE UNCHANGED <<order, touched>>
  BY <1>1 DEF OrderStep
<1>2. CASE q.kind = "cancel" /\ UNCHANGED touched
  BY <1>0, <1>2 DEF Executes, OrderStep, TypeOK
<1>3. CASE q.kind = "modify"
  <2>1. /\ order[q.account] \in Orders
        /\ order' = [order EXCEPT ![q.account] = Rewritten(order[q.account], q.fields)]
        /\ touched' = Touch(q.account, Fields)
    BY <1>0, <1>3 DEF Executes, TypeOK
  <2>2. /\ order'[q.account] = Rewritten(order[q.account], q.fields)
        /\ \A a \in Accounts \ {q.account} : order'[a] = order[a]
    BY <1>0, <2>1 DEF TypeOK
  <2>3. \A c \in Calls :
            /\ touched[c] \subseteq touched'[c]
            /\ asked[c] # None /\ asked[c].account = q.account => touched'[c] = Fields
    BY <2>1 DEF Touch, TypeOK
  <2>4. Rewritten(order[q.account], q.fields) \in Orders
    <3>1. PICK F \in SUBSET Fields : q.fields \in [F -> Prices]
      BY DEF Sent
    <3>2. QED
      BY <2>1, <3>1, RewrittenType
  <2>5. order'[q.account].stopLimit \/ order'[q.account].fields["leg"] = 0
    <3>1. order'[q.account].fields["leg"] = Carries(q, "leg")
      BY <2>1, <2>2, RewrittenFields DEF Fields
    <3>2. order'[q.account].stopLimit = order[q.account].stopLimit
      BY <2>1, <2>2, RewrittenFields
    <3>3. order[q.account] # Gone
      BY <2>1
    <3>4. QED
      BY <1>3, <3>1, <3>2, <3>3 DEF Carries
  <2>6. order[q.account] # Gone /\ order'[q.account] # Gone
    BY <2>1, <2>2, <2>4
  <2>7. order'[q.account].stopLimit = order[q.account].stopLimit
    BY <2>1, <2>2, RewrittenFields
  <2>8. QED
    BY <2>2, <2>3, <2>5, <2>6, <2>7 DEF OrderStep
<1>4. QED
  BY <1>1, <1>2, <1>3 DEF Executes

(* The broker and the world outside keep what was read current.            *)
LEMMA WorldFInv ==
    ASSUME Restricted, TypeOK, TypeOK', PInv, FInv,
           CarryOutLate \/ Drop \/ PositionMoves \/ OrderMoves \/ SwitchAccount
    PROVE  FInv'
<1>1. /\ UNCHANGED <<asked, call>> /\ inflight' \subseteq inflight
      /\ call # None => UNCHANGED terminal
  BY DEF CarryOutLate, Drop, PositionMoves, OrderMoves, SwitchAccount, Move, world,
         Restricted
<1>2. OrderStep
  <2>1. CASE CarryOutLate
    <3>1. PICK q \in inflight : Executes(q)
      BY <2>1 DEF CarryOutLate
    <3>2. q \in Sent
      BY DEF TypeOK
    <3>3. QED
      BY <3>1, <3>2, ExecutesIsOrderStep DEF FInv, PendingIsCurrent
  <2>2. CASE UNCHANGED <<order, touched>>
    BY <2>2 DEF OrderStep
  <2>3. CASE OrderMoves
    <3>1. PICK a \in Accounts :
            /\ order[a] # Gone
            /\ \/ order' = [order EXCEPT ![a] = Gone] /\ UNCHANGED touched
               \/ \E f \in {"price", "sl"}, v \in Values :
                    /\ order' = [order EXCEPT ![a].fields[f] = v]
                    /\ touched' = Touch(a, {f})
      BY <2>3 DEF OrderMoves
    <3>2. CASE order' = [order EXCEPT ![a] = Gone] /\ UNCHANGED touched
      BY <3>2 DEF OrderStep, TypeOK
    <3>3. CASE \E f \in {"price", "sl"}, v \in Values :
                    /\ order' = [order EXCEPT ![a].fields[f] = v]
                    /\ touched' = Touch(a, {f})
      <4>1. PICK f \in {"price", "sl"}, v \in Values :
                    /\ order' = [order EXCEPT ![a].fields[f] = v]
                    /\ touched' = Touch(a, {f})
        BY <3>3
      <4>2. order[a] \in Orders
        BY <3>1 DEF TypeOK
      <4>3. DEFINE edited == [order[a] EXCEPT !.fields = [order[a].fields EXCEPT ![f] = v]]
      <4>4. /\ edited.stopLimit = order[a].stopLimit
            /\ \A g \in Fields \ {f} : edited.fields[g] = order[a].fields[g]
            /\ edited \in Orders
        <5>1. [order[a].fields EXCEPT ![f] = v] \in [Fields -> Prices]
          BY <4>2 DEF Orders, Prices, Fields
        <5>2. QED
          BY <4>2, <5>1 DEF Orders
      <4>5. order'[a] = edited /\ \A b \in Accounts \ {a} : order'[b] = order[b]
        BY <4>1 DEF TypeOK
      <4> HIDE DEF edited
      <4>6. \A c \in Calls :
                /\ touched[c] \subseteq touched'[c]
                /\ asked[c] # None /\ asked[c].account = a => f \in touched'[c]
        BY <4>1 DEF Touch, TypeOK
      <4>7. order'[a].stopLimit \/ order'[a].fields["leg"] = 0
        BY <3>1, <4>1, <4>4, <4>5 DEF FInv, LegsAreClear, Fields
      <4>8. order[a] # Gone /\ order'[a] # Gone
        BY <3>1, <4>4, <4>5
      <4>9. order'[a].stopLimit = order[a].stopLimit
        BY <4>4, <4>5
      <4>10. \A c \in Calls : asked[c] # None /\ asked[c].account = a =>
                \A g \in Fields \ touched'[c] : order'[a].fields[g] = order[a].fields[g]
        BY <4>4, <4>5, <4>6
      <4>11. QED
        BY <4>5, <4>6, <4>7, <4>8, <4>9, <4>10 DEF OrderStep
    <3>4. QED
      BY <3>1, <3>2, <3>3
  <2>4. QED
    BY <2>1, <2>2, <2>3 DEF Drop, PositionMoves, SwitchAccount, Move, world
<1>3. QED
  BY <1>1, <1>2, OrderStepFInv

(* A new call has read nothing and sent nothing.                           *)
LEMMA AskFInv ==
    ASSUME TypeOK, PInv, FInv, NEW c \in Calls, Ask(c)
    PROVE  FInv'
<1>1. /\ asked[c] = None /\ UNCHANGED <<world, call, inflight, touched>>
      /\ \A d \in Calls \ {c} : asked'[d] = asked[d]
  BY DEF Ask, TypeOK
<1>2. \A q \in inflight : q.call \in Calls \ {c}
  BY <1>1 DEF PInv, RequestsInScope, TypeOK, Sent
<1>3. call # None => call.id \in Calls \ {c}
  BY <1>1, CallType
<1>4. LegsAreClear' /\ PendingIsCurrent'
  BY <1>1, <1>2 DEF FInv, LegsAreClear, PendingIsCurrent, Changes, Carries, world
<1>5. ReadIsCurrent'
  BY <1>1, <1>3 DEF FInv, ReadIsCurrent, Kind, world
<1>6. QED
  BY <1>4, <1>5 DEF FInv

(* A query reads the order as it is, before anything is sent.              *)
LEMMA QueryFInv ==
    ASSUME TypeOK, PInv, FInv, NEW c \in Calls, Query(c)
    PROVE  FInv'
<1>1. /\ call = None /\ asked[c] # None /\ verdict[c] = {}
      /\ UNCHANGED <<world, asked, inflight>>
  BY DEF Query
<1>2. \A q \in inflight : q.call \in Calls \ {c}
  BY <1>1 DEF PInv, OutIsAdmitted, Out, TypeOK, Sent
<1>3. \A d \in Calls \ {c} : touched'[d] = touched[d]
  BY DEF Query, TypeOK
<1>4. LegsAreClear' /\ PendingIsCurrent'
  BY <1>1, <1>2, <1>3 DEF FInv, LegsAreClear, PendingIsCurrent, Changes, Carries, world
<1>5. ReadIsCurrent'
  <2>1. CASE call' = None
    BY <2>1 DEF ReadIsCurrent
  <2>2. CASE call' = Stage(c, "check", Target(asked[c].request.kind, terminal), "none")
    BY <1>1, <2>2 DEF ReadIsCurrent, Stage, Kind, Target, world
  <2>3. QED
    BY <2>1, <2>2 DEF Query, Answer
<1>6. QED
  BY <1>4, <1>5 DEF FInv

(* What the worker is about to send agrees with the order as it is, but    *)
(* for the changes asked for and what others have touched.                 *)
LEMMA SentIsCurrent ==
    ASSUME Restricted, TypeOK, PInv, FInv, call # None, call.stage = "send",
           Kind = "modify", order[terminal] # Gone
    PROVE  /\ order[terminal].stopLimit <=> "leg" \in DOMAIN Wanted
           /\ \A f \in Fields \ (touched[call.id] \cup Changes(call.id)) :
                  order[terminal].fields[f] = Carries(Request, f)
<1>0. call.id \in Calls /\ call \in CallRecords /\ asked[call.id] # None
  BY CallType
<1>1. terminal = asked[call.id].account /\ terminal \in Accounts
  BY <1>0 DEF PInv, RequestsInScope, TypeOK
<1>2. /\ order[terminal].stopLimit = call.seen.stopLimit
      /\ \A f \in Fields \ touched[call.id] :
            order[terminal].fields[f] = call.seen.fields[f]
  BY <1>0, <1>1 DEF FInv, ReadIsCurrent
<1>3. /\ "leg" \in DOMAIN Wanted <=> call.seen.stopLimit
      /\ \A f \in DOMAIN Wanted \ Changes(call.id) : Wanted[f] = call.seen.fields[f]
      /\ \A f \in Fields \ DOMAIN Wanted : f = "leg"
  BY DEF Wanted, Changes, Fields
<1>4. Request.fields = Wanted
  BY DEF Request
<1>5. ~order[terminal].stopLimit => order[terminal].fields["leg"] = 0
  BY <1>1 DEF FInv, LegsAreClear
<1>6. order[terminal].stopLimit <=> "leg" \in DOMAIN Wanted
  BY <1>2, <1>3
<1>7. ASSUME NEW f \in Fields \ (touched[call.id] \cup Changes(call.id))
      PROVE  order[terminal].fields[f] = Carries(Request, f)
  <2>1. CASE f \in DOMAIN Wanted
    BY <1>2, <1>3, <1>4, <2>1 DEF Carries
  <2>2. CASE f \notin DOMAIN Wanted
    BY <1>3, <1>4, <1>5, <1>6, <2>2 DEF Carries
  <2>3. QED
    BY <2>1, <2>2
<1>8. QED
  BY <1>6, <1>7

(* What is sent is what was read, but for the changes asked for.           *)
LEMMA WorkFInv ==
    ASSUME Restricted, TypeOK, TypeOK', PInv, FInv,
           RefuseScope \/ AcceptScope \/ SendExecuted \/ SendRefused \/ SendPending
                \/ Verify
    PROVE  FInv'
<1>1. /\ call # None /\ call.id \in Calls /\ call \in CallRecords /\ asked[call.id] # None
      /\ UNCHANGED <<terminal, asked>>
  BY CallType DEF RefuseScope, AcceptScope, SendExecuted, SendRefused,
                  SendPending, Verify, Running, world
<1>2. \/ call' = None
      \/ /\ call' # None /\ call'.id = call.id /\ call'.seen = call.seen /\ Kind' = Kind
  BY <1>1 DEF RefuseScope, AcceptScope, SendExecuted, SendRefused, SendPending, Verify,
              Answer, Replied, CallRecords, Kind
<1>3. ASSUME UNCHANGED <<order, touched>>, inflight' \subseteq inflight
      PROVE  FInv'
  <2>1. LegsAreClear' /\ PendingIsCurrent'
    BY <1>1, <1>3 DEF FInv, LegsAreClear, PendingIsCurrent, Changes, Carries
  <2>2. ReadIsCurrent'
    BY <1>1, <1>2, <1>3 DEF FInv, ReadIsCurrent
  <2>3. QED
    BY <2>1, <2>2 DEF FInv
<1>4. call.stage = "send" /\ Kind = "modify" /\ order[terminal] # Gone =>
        /\ order[terminal].stopLimit <=> "leg" \in DOMAIN Wanted
        /\ \A f \in Fields \ (touched[call.id] \cup Changes(call.id)) :
              order[terminal].fields[f] = Carries(Request, f)
  BY <1>1, SentIsCurrent
<1>5. CASE RefuseScope \/ AcceptScope \/ SendRefused \/ Verify
  BY <1>3, <1>5 DEF RefuseScope, AcceptScope, SendRefused, Verify, world
<1>6. CASE SendPending
  <2>1. /\ inflight' = inflight \cup {Request} /\ call.stage = "send"
        /\ UNCHANGED <<order, touched>>
    BY <1>6 DEF SendPending, Running, world
  <2>2. /\ Request.call = call.id /\ Request.account = terminal /\ Request.kind = Kind
        /\ Kind = "modify" => Request.fields = Wanted
    BY DEF Request
  <2>3. PendingIsCurrent'
    BY <1>1, <1>4, <2>1, <2>2 DEF FInv, PendingIsCurrent, Changes, Carries, Kind
  <2>4. LegsAreClear' /\ ReadIsCurrent'
    BY <1>1, <1>2, <2>1 DEF FInv, LegsAreClear, ReadIsCurrent
  <2>5. QED
    BY <2>3, <2>4 DEF FInv
<1>7. CASE SendExecuted
  <2>1. /\ Executes(Request) /\ call.stage = "send" /\ UNCHANGED <<inflight, verdict>>
    BY <1>7 DEF SendExecuted, Running
  <2>2. /\ Request \in Sent /\ Request.account = terminal /\ Request.kind = Kind
        /\ Kind = "modify" => Request.fields = Wanted
    BY <1>1, RequestType DEF Request
  <2>3. OrderStep
    BY <1>4, <2>1, <2>2, ExecutesIsOrderStep
  <2>4. LegsAreClear'
    BY <2>3 DEF FInv, LegsAreClear, OrderStep
  <2>5. ReadIsCurrent'
    <3>1. SUFFICES ASSUME Kind = "modify", terminal = asked[call.id].account,
                          order'[terminal] # Gone
                   PROVE  /\ order'[terminal].stopLimit = call.seen.stopLimit
                          /\ \A f \in Fields \ touched'[call.id] :
                                order'[terminal].fields[f] = call.seen.fields[f]
      BY <1>1, <1>2 DEF ReadIsCurrent
    <3>2. terminal \in Accounts
      BY DEF TypeOK
    <3>3. order[terminal] # Gone
      BY <2>3, <3>1, <3>2 DEF OrderStep
    <3>4. /\ order[terminal].stopLimit = call.seen.stopLimit
          /\ \A f \in Fields \ touched[call.id] :
                order[terminal].fields[f] = call.seen.fields[f]
      BY <1>1, <3>1, <3>3 DEF FInv, ReadIsCurrent
    <3>5. QED
      BY <1>1, <2>3, <3>1, <3>2, <3>3, <3>4 DEF OrderStep
  <2>6. PendingIsCurrent'
    <3>1. SUFFICES ASSUME NEW q \in inflight, q.kind = "modify", order'[q.account] # Gone
                   PROVE  /\ order'[q.account].stopLimit <=> "leg" \in DOMAIN q.fields
                          /\ \A f \in Fields \ (touched'[q.call] \cup Changes(q.call)) :
                                order'[q.account].fields[f] = Carries(q, f)
      BY <1>1, <2>1 DEF FInv, PendingIsCurrent, Changes, Carries
    <3>2. /\ q.call \in Calls /\ q.account \in Accounts
          /\ asked[q.call] # None /\ q.account = asked[q.call].account
      BY DEF TypeOK, Sent, PInv, RequestsInScope
    <3>3. order[q.account] # Gone
      BY <2>3, <3>1, <3>2 DEF OrderStep
    <3>4. /\ order[q.account].stopLimit <=> "leg" \in DOMAIN q.fields
          /\ \A f \in Fields \ (touched[q.call] \cup Changes(q.call)) :
                order[q.account].fields[f] = Carries(q, f)
      BY <3>1, <3>3 DEF FInv, PendingIsCurrent
    <3>5. QED
      BY <2>3, <3>1, <3>2, <3>3, <3>4 DEF OrderStep
  <2>7. QED
    BY <2>4, <2>5, <2>6 DEF FInv
<1>8. QED
  BY <1>5, <1>6, <1>7

(* The invariant on the fields of orders is inductive.                     *)
LEMMA FieldsAreCurrent ==
    ASSUME Restricted
    PROVE  Spec => []FInv
<1>1. Init => FInv
  <2>1. SUFFICES ASSUME Init PROVE FInv
    OBVIOUS
  <2>2. LegsAreClear
    BY <2>1, BrokerAssumption DEF Init, LegsAreClear
  <2>3. ReadIsCurrent /\ PendingIsCurrent
    BY <2>1 DEF Init, ReadIsCurrent, PendingIsCurrent
  <2>4. QED
    BY <2>2, <2>3 DEF FInv
<1>2. TypeOK /\ TypeOK' /\ PInv /\ FInv /\ [Next]_vars => FInv'
  <2>1. SUFFICES ASSUME TypeOK, TypeOK', PInv, FInv, [Next]_vars PROVE FInv'
    OBVIOUS
  <2>2. CASE UNCHANGED vars
    BY <2>1, <2>2 DEF FInv, LegsAreClear, ReadIsCurrent, PendingIsCurrent, Changes,
                      Carries, Kind, vars, world
  <2>3. CASE Next
    BY <2>1, <2>3, WorldFInv, AskFInv, QueryFInv, WorkFInv DEF Next
  <2>4. QED
    BY <2>1, <2>2, <2>3
<1>3. Spec => [](TypeOK /\ PInv)
  BY Invariance
<1>4. QED
  BY <1>1, <1>2, <1>3, PTL DEF Spec

(* Carrying out a modification that agrees with the order keeps a field   *)
(* nobody asked for.                                                       *)
LEMMA CarryingKeeps ==
    ASSUME TypeOK, NEW q \in Sent, Executes(q), q.kind = "modify",
           NEW f \in Fields, order[q.account].fields[f] = Carries(q, f)
    PROVE  order'[q.account].fields[f] = order[q.account].fields[f]
<1>1. q.account \in Accounts
  BY DEF Sent
<1>2. /\ order[q.account] \in Orders
      /\ order'[q.account] = Rewritten(order[q.account], q.fields)
  BY <1>1 DEF Executes, TypeOK
<1>3. QED
  BY <1>2, RewrittenFields

(* A modification keeps what the user did not ask to change: it re-sends   *)
(* every such field as read, and nobody else has touched it since.         *)
THEOREM OmittedKept ==
    ASSUME Restricted
    PROVE  Spec => OmittedFieldsKept
<1>1. TypeOK /\ PInv /\ FInv /\ [Next]_vars =>
        [\A c \in Calls :
            effect'[c] # effect[c] /\ asked[c].request.kind = "modify" =>
                \A f \in Fields \ DOMAIN asked[c].request.changes :
                    \/ f \in touched[c]
                    \/ order'[asked[c].account].fields[f]
                            = order[asked[c].account].fields[f]]_vars
  <2>1. SUFFICES ASSUME TypeOK, PInv, FInv, Next, NEW c \in Calls,
                        effect'[c] # effect[c], asked[c].request.kind = "modify"
                 PROVE  \A f \in Fields \ (touched[c] \cup Changes(c)) :
                            order'[asked[c].account].fields[f]
                                = order[asked[c].account].fields[f]
    BY DEF Changes
  <2>2. CarryOutLate \/ SendExecuted
    BY <2>1 DEF Next, Drop, PositionMoves, OrderMoves, SwitchAccount, Move, Ask, Query,
                RefuseScope, AcceptScope, SendRefused, SendPending, Verify
  <2>3. CASE CarryOutLate
    <3>1. PICK q \in inflight : Executes(q)
      BY <2>3 DEF CarryOutLate
    <3>2. q \in Sent
      BY <2>1 DEF TypeOK
    <3>3. q.call = c
      BY <2>1, <3>1, <3>2 DEF Executes, TypeOK, Sent
    <3>4. q.kind = "modify" /\ q.account = asked[c].account
      BY <2>1, <3>3 DEF FInv, PendingIsCurrent, PInv, RequestsInScope
    <3>5. order[q.account] # Gone
      BY <3>1, <3>4 DEF Executes
    <3>6. \A f \in Fields \ (touched[c] \cup Changes(c)) :
                order[q.account].fields[f] = Carries(q, f)
      BY <2>1, <3>3, <3>4, <3>5 DEF FInv, PendingIsCurrent
    <3>7. QED
      BY <2>1, <3>1, <3>2, <3>4, <3>6, CarryingKeeps
  <2>4. CASE SendExecuted
    <3>1. /\ call # None /\ call.stage = "send" /\ Executes(Request)
      BY <2>4 DEF SendExecuted, Running
    <3>2. Request \in Sent /\ Request.call = call.id /\ Request.account = terminal
      BY <2>1, <3>1, RequestType, CallType DEF Request
    <3>3. call.id = c
      BY <2>1, <3>1, <3>2 DEF Executes, TypeOK, Sent
    <3>4. /\ Kind = "modify" /\ Request.kind = "modify"
          /\ terminal = asked[c].account
      BY <2>1, <3>1, <3>3 DEF Kind, Request, PInv, RequestsInScope
    <3>5. order[terminal] # Gone
      BY <3>1, <3>2, <3>4 DEF Executes
    <3>6. \A f \in Fields \ (touched[c] \cup Changes(c)) :
                order[terminal].fields[f] = Carries(Request, f)
      BY <2>1, <3>1, <3>3, <3>4, <3>5, SentIsCurrent
    <3>7. QED
      BY <2>1, <3>1, <3>2, <3>4, <3>6, CarryingKeeps
  <2>5. QED
    BY <2>2, <2>3, <2>4
<1>2. Spec => [](TypeOK /\ PInv)
  BY Invariance
<1>3. Spec => []FInv
  BY FieldsAreCurrent
<1>4. QED
  BY <1>1, <1>2, <1>3, PTL DEF Spec, OmittedFieldsKept

=============================================================================
