-------------------------- MODULE ManagedPosition --------------------------
(***************************************************************************)
(* One broker position under automatic stop management: the poll cycle of  *)
(* services/order_management_service.py, run by the service's one worker   *)
(* thread, together with what interleaves with it: commands from the UI    *)
(* and scanner threads, the MT5 terminal and its user, and a restart of    *)
(* the process.  Each action of the poll is the code between two points at *)
(* which another thread or the broker can act: a broker call, or taking    *)
(* the service lock.                                                       *)
(*                                                                         *)
(* Prices are drawn anew at every broker read, so the market may do        *)
(* anything between two reads.  The state file is an atomic register here,  *)
(* whose saves and loads may fail; what damage to the files does to it is   *)
(* left to StateFiles.                                                     *)
(***************************************************************************)
EXTENDS OrderStateMachine

CONSTANTS
    Orders,         \* executed candidates: [side, entry, initialSl]
    Preopened,      \* TRUE: the position is open before the process starts
    LateFills,      \* TRUE: the order may be filled while a poll is under way
    SavedBefore,    \* whether an earlier process left it in the file
    Prices,         \* closing-side quotes the market may show
    TakeProfits,    \* take-profits the position may carry
    UserStops,      \* stops the terminal user (or an EA) may set
    UserEntries,    \* average entries a netting deal may leave
    Permissions,    \* trade_allowed values MT5 may report
    AtrKnown,       \* whether a registration brings an ATR
    Outages,        \* TRUE: MT5 may become unreachable
    DataGaps,       \* TRUE: a quote or metadata may be missing while MT5 is up
    SendFailures,   \* TRUE: order_send may fail, or lose its reply
    Restarts,       \* TRUE: the process may die and start again
    DiskFailures,   \* TRUE: a save or a load of the file may fail
    Callers,        \* threads that issue commands
    Commands,       \* the commands they issue
    Untracked       \* no runtime under this ticket

CommandNames == {"register", "pause", "resume", "unregister", "other"}

Runtimes == [state : ManagedStates, atr : BOOLEAN]

ASSUME PositionAssumption ==
    /\ \A o \in Orders : ValidRegistration(o)
    /\ Orders \subseteq [side : Sides, entry : Nat, initialSl : Nat]
    /\ Prices \subseteq Nat \ {0}
    /\ TakeProfits \subseteq Nat /\ UserStops \subseteq Nat
    /\ UserEntries \subseteq Nat \ {0}
    /\ SavedBefore \subseteq BOOLEAN
    /\ Permissions \subseteq BOOLEAN /\ AtrKnown \subseteq BOOLEAN
    /\ {Preopened, LateFills, Outages, DataGaps} \subseteq BOOLEAN
    /\ {SendFailures, Restarts, DiskFailures} \subseteq BOOLEAN
    /\ Commands \subseteq CommandNames
    /\ Untracked \notin Runtimes

VARIABLES
    order,      \* the executed candidate behind the ticket
    broker,     \* the position as MT5 holds it
    link,       \* whether MT5 answers
    managed,    \* _states.get(ticket): a runtime, or Untracked
    active,     \* _active_account has been set by an available snapshot
    pc,         \* next step of the poll cycle
    held,       \* the runtime the poll captured is the one in _states
    snapshot,   \* positions_snapshot() of this cycle
    observed,   \* the runtime state the poll read
    decision,   \* what the state machine decided, and the action
    requeried,  \* [sl, tp] read back just before order_send
    reply,      \* retcode class of order_send
    image,      \* what the poll thread is about to save
    caller,     \* per command thread: its step and what it is about to save
    disk,       \* the saved runtime
    store       \* history: the last save succeeded; the file could be read

pollVars == <<pc, held, snapshot, observed, decision, requeried, reply, image>>

vars == <<order, broker, link, managed, active, pollVars, caller, disk, store>>

-----------------------------------------------------------------------------

NoState == [StartManagement([side |-> "buy", entry |-> 0, initialSl |-> 0])
              EXCEPT !.phase = "UNMANAGED"]

NoSnapshot == [exists |-> FALSE, entry |-> 0, sl |-> 0, tp |-> 0, allowed |-> FALSE]

NoDecision == Decision(NoState, NoAction)

NoStops == [sl |-> 0, tp |-> 0]

Replies == {"accepted", "retryable", "refused", "NONE"}

Steps == {"idle", "outage", "load", "restore", "select", "observe", "commit",
          "gate", "requery", "send", "verify", "collect", "save"}

Mutating == {"gate", "requery", "send", "verify"}

PausedToo == {"CLOSED", "UNMANAGED", "PAUSED"}  \* mutant of NotSaved

NotSaved == {"CLOSED", "UNMANAGED"}

(* _stored_position: retry_not_before is process-local and saved as 0. *)
Image(runtime) ==
    IF runtime = Untracked \/ runtime.state.phase \in NotSaved
    THEN Untracked
    ELSE [runtime EXCEPT !.state.backoff = FALSE]

(* _restore_runtime: an intent that was in flight must be reconciled. *)
RestoreRuntime(stored) ==
    IF stored = Untracked \/ stored.state.pending = NoAction THEN stored
    ELSE [stored EXCEPT !.state.phase = "STALE",
                        !.state.resume = stored.state.pending.source]

Registration(atr) ==
    [state |-> StartManagement([order EXCEPT !.entry = broker.entry]),
     atr |-> atr]

Init ==
    /\ order \in Orders
    /\ \E tp \in TakeProfits :
         broker = [status |-> IF Preopened THEN "open" ELSE "none",
                   entry |-> order.entry, sl |-> order.initialSl, tp |-> tp]
    /\ link = TRUE
    /\ managed = Untracked /\ active = FALSE
    /\ pc = "idle" /\ held = FALSE
    /\ snapshot = NoSnapshot /\ observed = NoState /\ decision = NoDecision
    /\ requeried = NoStops /\ reply = "NONE" /\ image = Untracked
    /\ caller = [c \in Callers |-> [step |-> "idle", image |-> Untracked]]
    /\ \E saved \in SavedBefore, atr \in AtrKnown :
         disk = IF Preopened /\ saved THEN Registration(atr) ELSE Untracked
    /\ store = [saved |-> TRUE, loaded |-> TRUE]

-----------------------------------------------------------------------------
(* The poll cycle: reading the broker *)

(* _poll_cycle on an unavailable snapshot, up to _mark_all_stale reading   *)
(* the runtime's state outside the lock.                                   *)
PollOutage ==
    /\ pc = "idle" /\ ~link
    /\ IF managed = Untracked
            \/ managed.state.phase \in {"CLOSED", "UNMANAGED", "PAUSED"}
       THEN pc' = "collect" /\ UNCHANGED <<held, observed>>
       ELSE pc' = "outage" /\ held' = TRUE /\ observed' = managed.state
    /\ UNCHANGED <<order, broker, link, managed, active, snapshot, decision,
                   requeried, reply, image, caller, disk, store>>

(* _mark_all_stale writes what it computed from that read, unconditionally. *)
MarkAllStale ==
    /\ pc = "outage"
    /\ managed' = IF held THEN [managed EXCEPT !.state = MarkStale(observed)]
                  ELSE managed
    /\ pc' = "collect" /\ held' = FALSE /\ observed' = NoState
    /\ UNCHANGED <<order, broker, link, active, snapshot, decision, requeried,
                   reply, image, caller, disk, store>>

PollSnapshot ==
    /\ pc = "idle" /\ link
    /\ \E allowed \in Permissions :
         snapshot' = [exists |-> broker.status = "open", entry |-> broker.entry,
                      sl |-> broker.sl, tp |-> broker.tp, allowed |-> allowed]
    /\ pc' = IF active THEN "select" ELSE "load"
    /\ UNCHANGED <<order, broker, link, managed, active, held, observed,
                   decision, requeried, reply, image, caller, disk, store>>

-----------------------------------------------------------------------------
(* The poll cycle: first sight of the account *)

(* _activate_account: registrations made before the first snapshot are put *)
(* aside (in image) and the states are cleared; then the file is read.     *)
ActivateAccount ==
    /\ pc = "load" /\ ~active
    /\ image' = managed
    /\ managed' = Untracked /\ active' = TRUE
    /\ UNCHANGED <<order, broker, link, pc, held, snapshot, observed, decision,
                   requeried, reply, caller, disk, store>>

LoadState ==
    /\ pc = "load" /\ active
    /\ image' = IF image # Untracked THEN image
                ELSE IF /\ disk # Untracked
                        /\ snapshot.exists /\ disk.state.entry = snapshot.entry
                     THEN RestoreRuntime(disk)
                     ELSE Untracked
    /\ pc' = "restore"
    /\ UNCHANGED <<order, broker, link, managed, active, held, snapshot,
                   observed, decision, requeried, reply, caller, disk, store>>

(* A file that cannot be read, or not understood, is only reported: the     *)
(* states stay cleared and the cycle goes on.                              *)
LoadFails ==
    /\ pc = "load" /\ active
    /\ DiskFailures
    /\ store' = [store EXCEPT !.loaded = FALSE]
    /\ pc' = "restore"
    /\ UNCHANGED <<order, broker, link, managed, active, held, snapshot,
                   observed, decision, requeried, reply, image, caller, disk>>

RestoredOnly == image  \* mutant of Updated

(* dict.update: what was restored replaces what was registered meanwhile. *)
Updated == IF image # Untracked THEN image ELSE managed

RestoreStates ==
    /\ pc = "restore"
    /\ managed' = Updated
    /\ pc' = "select" /\ image' = Untracked
    /\ UNCHANGED <<order, broker, link, active, held, snapshot, observed,
                   decision, requeried, reply, caller, disk, store>>

-----------------------------------------------------------------------------
(* The poll cycle: reconciling and deciding *)

FreshOnly(runtime) ==  \* mutant of Evaluated
    runtime # Untracked /\ runtime.state.phase # "STALE"

Evaluated(runtime) == runtime # Untracked

(* A runtime the snapshot does not show is closed and dropped. *)
SelectRuntime ==
    /\ pc = "select"
    /\ IF ~Evaluated(managed)
       THEN pc' = "collect" /\ UNCHANGED <<managed, held>>
       ELSE IF ~snapshot.exists
       THEN pc' = "collect" /\ managed' = Untracked /\ UNCHANGED held
       ELSE pc' = "observe" /\ held' = TRUE /\ UNCHANGED managed
    /\ UNCHANGED <<order, broker, link, active, snapshot, observed, decision,
                   requeried, reply, image, caller, disk, store>>

Position == [side |-> order.side, entry |-> snapshot.entry, sl |-> snapshot.sl,
             tp |-> snapshot.tp, exists |-> TRUE, fresh |-> TRUE]

(* Only the closing side of a quote is ever used. *)
Quotes == {[bid |-> p, ask |-> p, fresh |-> TRUE] : p \in Prices}

StaleTick == [bid |-> 0, ask |-> 0, fresh |-> FALSE]

Ticks == (IF link THEN Quotes ELSE {})
            \cup (IF DataGaps \/ ~link THEN {StaleTick} ELSE {})

(* _evaluate_position: quote, read the state under the lock, decide; a      *)
(* backoff may have elapsed by then.                                       *)
Observe(elapsed) ==
    /\ pc = "observe"
    /\ IF ~held
       THEN pc' = "collect" /\ UNCHANGED <<observed, decision>>
       ELSE /\ observed' = managed.state
            /\ \E tick \in Ticks :
                 decision' = Evaluate(managed.state, Position, tick,
                                      managed.atr, elapsed)
            /\ pc' = "commit"
    /\ UNCHANGED <<order, broker, link, managed, active, held, snapshot,
                   requeried, reply, image, caller, disk, store>>

HeldOnly == held  \* mutant of DecisionIsCurrent

DecisionIsCurrent == held /\ managed.state = observed

(* The decision is stored only if the state is still the one it was made   *)
(* from; otherwise a command won the race and the decision is dropped.     *)
Commit ==
    /\ pc = "commit"
    /\ IF DecisionIsCurrent
       THEN /\ managed' = [managed EXCEPT !.state = decision.state]
            /\ pc' = IF decision.action = NoAction THEN "collect" ELSE "gate"
       ELSE pc' = "collect" /\ UNCHANGED managed
    /\ UNCHANGED <<order, broker, link, active, held, snapshot, observed,
                   decision, requeried, reply, image, caller, disk, store>>

WithdrawIntent(runtime) == [runtime EXCEPT !.state.pending = NoAction]

(* _execution_gate, twice, with a re-check that the state is current; a    *)
(* gated intent is withdrawn.                                              *)
Gate ==
    /\ pc = "gate"
    /\ IF ~(held /\ managed.state = decision.state)
       THEN pc' = "collect" /\ UNCHANGED managed
       ELSE IF snapshot.allowed
       THEN pc' = "requery" /\ UNCHANGED managed
       ELSE pc' = "collect" /\ managed' = WithdrawIntent(managed)
    /\ UNCHANGED <<order, broker, link, active, held, snapshot, observed,
                   decision, requeried, reply, image, caller, disk, store>>

-----------------------------------------------------------------------------
(* The poll cycle: modify_position_sltp and its confirmation *)

(* apply_confirmation of the decided state, stored if the captured runtime *)
(* is still registered.                                                    *)
Confirm(status, sl, tp) ==
    /\ managed' = IF held
                  THEN [managed EXCEPT !.state =
                          ApplyConfirmation(decision.state,
                              [status |-> status, sl |-> sl, tp |-> tp])]
                  ELSE managed
    /\ pc' = "collect" /\ requeried' = NoStops /\ reply' = "NONE"
    /\ UNCHANGED <<order, broker, link, active, held, snapshot, observed,
                   decision, image, caller, disk, store>>

StopUnchanged == broker.sl = decision.action.expectedSl  \* mutant of PreconditionHolds

(* The optimistic precondition on what the decision was based on. *)
PreconditionHolds ==
    /\ broker.sl = decision.action.expectedSl
    /\ broker.tp = decision.action.preserveTp

(* _validate_position_sltp_constraints against a new quote. *)
StopDistanceHolds(target, close) ==
    /\ order.side = "buy" => target <= close - StopDistance /\ target < close
    /\ order.side = "sell" => target >= close + StopDistance /\ target > close

RequeryUnavailable ==
    /\ pc = "requery" /\ ~link
    /\ Confirm("UNKNOWN", 0, 0)

RequeryRejected ==
    /\ pc = "requery" /\ link
    /\ \/ broker.status # "open"
       \/ DataGaps
       \/ /\ PreconditionHolds
          /\ \E close \in Prices :
                ~StopDistanceHolds(decision.action.target, close)
    /\ Confirm("REJECTED", broker.sl, broker.tp)

RequeryPreconditionFailed ==
    /\ pc = "requery" /\ link /\ broker.status = "open"
    /\ ~PreconditionHolds
    /\ Confirm("RETRYABLE_ERROR", broker.sl, broker.tp)

(* The shortcut for a request that changes nothing is never taken: under    *)
(* the precondition the target is stricter than the stop it would equal.    *)
RequeryAccepted ==
    /\ pc = "requery" /\ link /\ broker.status = "open"
    /\ PreconditionHolds
    /\ \E close \in Prices : StopDistanceHolds(decision.action.target, close)
    /\ requeried' = [sl |-> broker.sl, tp |-> broker.tp]
    /\ pc' = "send"
    /\ UNCHANGED <<order, broker, link, managed, active, held, snapshot,
                   observed, decision, reply, image, caller, disk, store>>

(* order_send carries stop and take-profit, whatever the position shows now. *)
SendExecuted ==
    /\ pc = "send" /\ broker.status = "open" /\ link
    /\ broker' = [broker EXCEPT !.sl = decision.action.target, !.tp = requeried.tp]
    /\ reply' \in {"accepted"} \cup (IF SendFailures THEN {"retryable", "refused"} ELSE {})
    /\ pc' = "verify"
    /\ UNCHANGED <<order, link, managed, active, held, snapshot, observed,
                   decision, requeried, image, caller, disk, store>>

SendNotExecuted ==
    /\ pc = "send"
    /\ SendFailures \/ broker.status # "open" \/ ~link
    /\ reply' \in {"accepted", "retryable", "refused"}
    /\ pc' = "verify"
    /\ UNCHANGED <<order, broker, link, managed, active, held, snapshot,
                   observed, decision, requeried, image, caller, disk, store>>

(* A retryable retcode wins over an unknown outcome, a confirmed            *)
(* postcondition wins over both.                                           *)
VerifyReflected ==
    /\ pc = "verify" /\ link /\ broker.status = "open"
    /\ broker.sl = decision.action.target /\ broker.tp = requeried.tp
    /\ Confirm("CONFIRMED", broker.sl, broker.tp)

VerifyUnreflected ==
    /\ pc = "verify"
    /\ ~(/\ link /\ broker.status = "open"
         /\ broker.sl = decision.action.target /\ broker.tp = requeried.tp)
    /\ Confirm(CASE reply = "retryable" -> "RETRYABLE_ERROR"
                 [] reply = "refused" /\ link /\ broker.status = "open" -> "REJECTED"
                 [] OTHER -> "UNKNOWN",
               broker.sl, broker.tp)

-----------------------------------------------------------------------------
(* The poll cycle: saving *)

AlwaysSave == TRUE  \* mutant of HasAccount

SaveNonEmpty == active /\ managed # Untracked  \* mutant of HasAccount

HasAccount == active

(* _persist_state reads the states under the lock, then saves. *)
PollCollect ==
    /\ pc = "collect"
    /\ IF HasAccount THEN pc' = "save" /\ image' = Image(managed)
       ELSE pc' = "idle" /\ UNCHANGED image
    /\ held' = FALSE
    /\ snapshot' = NoSnapshot /\ observed' = NoState /\ decision' = NoDecision
    /\ UNCHANGED <<order, broker, link, managed, active, requeried, reply,
                   caller, disk, store>>

(* state_store.save replaces the file, or reports an error and may have    *)
(* replaced it all the same; either way the service goes on.               *)
SaveDocument(document) ==
    \/ disk' = document /\ store' = [store EXCEPT !.saved = TRUE]
    \/ /\ DiskFailures
       /\ disk' \in {disk, document} /\ store' = [store EXCEPT !.saved = FALSE]

PollSave ==
    /\ pc = "save"
    /\ SaveDocument(image)
    /\ pc' = "idle" /\ image' = Untracked
    /\ UNCHANGED <<order, broker, link, managed, active, held, snapshot,
                   observed, decision, requeried, reply, caller>>

-----------------------------------------------------------------------------
(* Commands from the UI and scanner threads; each saves after its change *)

Issue(c, command) ==
    /\ command \in Commands
    /\ caller[c].step = "idle"
    /\ caller' = [caller EXCEPT ![c].step = "collect"]
    /\ UNCHANGED <<order, broker, link, active, pc, snapshot, observed,
                   decision, requeried, reply, image, disk, store>>

(* register_position: new, or known with the same identity. *)
Register(c) ==
    /\ Issue(c, "register")
    /\ broker.status = "open"
    /\ ValidRegistration([order EXCEPT !.entry = broker.entry])
    /\ \E atr \in AtrKnown :
         IF managed = Untracked
         THEN managed' = Registration(atr)
         ELSE /\ managed.state.entry = broker.entry
              /\ managed' = [managed EXCEPT !.atr = atr \/ managed.atr]
    /\ UNCHANGED held

PausePosition(c) ==
    /\ Issue(c, "pause")
    /\ managed # Untracked /\ CanPause(managed.state)
    /\ managed' = [managed EXCEPT !.state = Pause(managed.state)]
    /\ UNCHANGED held

ResumePosition(c) ==
    /\ Issue(c, "resume")
    /\ managed # Untracked
    /\ managed' = [managed EXCEPT !.state = Resume(managed.state)]
    /\ UNCHANGED held

UnregisterPosition(c) ==
    /\ Issue(c, "unregister")
    /\ managed # Untracked
    /\ managed' = Untracked /\ held' = FALSE

(* A command for another ticket: it saves every state, this one included. *)
CommandForAnother(c) ==
    /\ Issue(c, "other")
    /\ UNCHANGED <<managed, held>>

CallerCollect(c) ==
    /\ caller[c].step = "collect"
    /\ caller' = [caller EXCEPT ![c] =
                    IF HasAccount THEN [step |-> "save", image |-> Image(managed)]
                    ELSE [step |-> "idle", image |-> Untracked]]
    /\ UNCHANGED <<order, broker, link, managed, active, pollVars, disk, store>>

CallerSave(c) ==
    /\ caller[c].step = "save"
    /\ SaveDocument(caller[c].image)
    /\ caller' = [caller EXCEPT ![c] = [step |-> "idle", image |-> Untracked]]
    /\ UNCHANGED <<order, broker, link, managed, active, pollVars>>

-----------------------------------------------------------------------------
(* The broker, its user, and the process *)

Environment == UNCHANGED <<order, managed, active, pollVars, caller, disk, store>>

OrderFilled ==
    /\ broker.status = "none"
    /\ LateFills \/ pc = "idle"
    /\ broker' = [broker EXCEPT !.status = "open"]
    /\ Environment /\ UNCHANGED link

PositionClosed ==
    /\ broker.status = "open"
    /\ broker' = [broker EXCEPT !.status = "closed"]
    /\ Environment /\ UNCHANGED link

UserEdit ==
    /\ broker.status = "open"
    /\ \/ \E sl \in UserStops \ {broker.sl} : broker' = [broker EXCEPT !.sl = sl]
       \/ UserStops # {} /\ \E tp \in TakeProfits \ {broker.tp} :
                              broker' = [broker EXCEPT !.tp = tp]
       \/ \E entry \in UserEntries \ {broker.entry} :
            broker' = [broker EXCEPT !.entry = entry]
    /\ Environment /\ UNCHANGED link

LinkChange ==
    /\ Outages
    /\ link' = ~link
    /\ Environment /\ UNCHANGED broker

(* Memory is lost, the broker and the file are not. *)
Restart ==
    /\ Restarts
    /\ managed' = Untracked /\ active' = FALSE
    /\ pc' = "idle" /\ held' = FALSE
    /\ snapshot' = NoSnapshot /\ observed' = NoState /\ decision' = NoDecision
    /\ requeried' = NoStops /\ reply' = "NONE" /\ image' = Untracked
    /\ caller' = [c \in Callers |-> [step |-> "idle", image |-> Untracked]]
    /\ store' = [store EXCEPT !.loaded = TRUE]
    /\ UNCHANGED <<order, broker, link, disk>>

-----------------------------------------------------------------------------

Deliver == SendExecuted \/ SendNotExecuted

Poll ==
    \/ PollOutage \/ MarkAllStale \/ PollSnapshot
    \/ ActivateAccount \/ LoadState \/ LoadFails \/ RestoreStates
    \/ SelectRuntime \/ (\E elapsed \in BOOLEAN : Observe(elapsed)) \/ Commit \/ Gate
    \/ RequeryUnavailable \/ RequeryRejected \/ RequeryPreconditionFailed
    \/ RequeryAccepted
    \/ Deliver \/ VerifyReflected \/ VerifyUnreflected
    \/ PollCollect \/ PollSave

Command(c) ==
    \/ Register(c) \/ PausePosition(c) \/ ResumePosition(c)
    \/ UnregisterPosition(c) \/ CommandForAnother(c)

Persist(c) == CallerCollect(c) \/ CallerSave(c)

Outside == OrderFilled \/ PositionClosed \/ UserEdit \/ LinkChange \/ Restart

Next == Poll \/ Outside \/ \E c \in Callers : Command(c) \/ Persist(c)

Spec == Init /\ [][Next]_vars

(* The timer re-queues the poll for ever and the worker thread runs what it *)
(* is given; a command thread finishes the save it began; a backoff, whose *)
(* delay is capped, elapses.  Nothing is promised about the user, the      *)
(* market or the broker.                                                   *)
FairSpec ==
    /\ Spec
    /\ WF_vars(Poll)
    /\ SF_vars(Observe(TRUE))
    /\ \A c \in Callers : WF_vars(Persist(c))

-----------------------------------------------------------------------------
(* Properties *)

TypeOK ==
    /\ order \in Orders
    /\ broker \in [status : {"none", "open", "closed"},
                   entry : Nat, sl : Int, tp : Nat]
    /\ link \in BOOLEAN
    /\ managed \in Runtimes \cup {Untracked}
    /\ active \in BOOLEAN
    /\ pc \in Steps
    /\ held \in BOOLEAN
    /\ snapshot \in [exists : BOOLEAN, entry : Nat, sl : Int, tp : Nat,
                     allowed : BOOLEAN]
    /\ observed \in ManagedStates
    /\ decision \in [state : ManagedStates, action : Actions]
    /\ requeried \in [sl : Int, tp : Nat]
    /\ reply \in Replies
    /\ image \in Runtimes \cup {Untracked}
    /\ caller \in [Callers -> [step : {"idle", "collect", "save"},
                              image : Runtimes \cup {Untracked}]]
    /\ disk \in Runtimes \cup {Untracked}
    /\ store \in [saved : BOOLEAN, loaded : BOOLEAN]

(* Every stop that is about to be sent is strictly more protective than the *)
(* stop read back from the broker just before, and the take-profit sent     *)
(* with it is the one read back: user edits made while the decision was     *)
(* under way abort the request (modify_position_sltp's precondition).       *)
RatchetAtSend ==
    pc = "send" =>
        /\ StrictlyMoreProtective(decision.action.target, requeried.sl, order.side)
        /\ requeried.tp = decision.action.preserveTp

(* WAITING_BE is a hard gate: a trailing stop is sent only over a broker    *)
(* stop that already covers break-even, whatever was paused, lost, edited   *)
(* or restored since break-even was confirmed.                              *)
HardGate ==
    pc = "send" /\ decision.action.reason \in Trailing =>
        AtLeastAsProtective(requeried.sl, RawBreakEven(decision.state), order.side)

(* No stop leaves the service short of break-even: a break-even request is  *)
(* not clamped or rounded to the losing side, and trailing never undoes it. *)
ProfitLocked ==
    pc = "send" =>
        AtLeastAsProtective(decision.action.target, RawBreakEven(decision.state),
                            order.side)

(* An intent is never orphaned: once no request of this poll stands behind  *)
(* it, a pending action is only found in a STALE runtime, which the next    *)
(* fresh snapshot reconciles.                                               *)
NoOrphanedIntent ==
    managed # Untracked /\ managed.state.pending # NoAction =>
        \/ managed.state.phase = "STALE"
        \/ held /\ pc \in Mutating /\ managed.state = decision.state

(* While a request is on its way nobody takes its runtime elsewhere: a      *)
(* command either found it pending and was refused, or removed the runtime. *)
IntentIsCurrent ==
    pc \in {"requery", "send", "verify"} /\ held => managed.state = decision.state

(* Retries are bounded: no request is sent once the budget is spent. *)
RetryBudget == pc = "send" => decision.state.retries <= MaxRetries

Dormant(runtime) ==
    /\ runtime # Untracked
    /\ EffectivePhase(runtime.state) \in {"PAUSED", "ERROR_NON_RETRYABLE"}

(* Management that the user paused, or that a hard error stopped, is never  *)
(* taken up again by the service itself, whatever quotes are missing and    *)
(* whatever decision was under way.  Account activation is set apart: its   *)
(* last step replaces what was registered while the file was read.          *)
NeverSelfRevives ==
    [][caller' = caller /\ pc # "restore" /\ Dormant(managed)
         => managed' = Untracked \/ Dormant(managed')]_vars

(* The poll never writes over a pause that won the race against it (a       *)
(* restart, which forgets everything, is not counted).                     *)
PauseWins ==
    [][/\ caller' = caller /\ pc \in {"outage", "commit"}
       /\ managed # Untracked /\ managed' # Untracked
       /\ EffectivePhase(managed.state) = "PAUSED"
       => EffectivePhase(managed'.state) = "PAUSED"]_vars

(* The service drops an open position from its tracking only when the user  *)
(* asked: otherwise the position has really been closed.                    *)
TrackedUntilClosed ==
    [][active /\ active' /\ caller' = caller
         => (managed # Untracked /\ managed' = Untracked => broker.status = "closed")]_vars

(* The state file never forgets a position that is still open: tracking is  *)
(* removed only when its ticket is confirmed to be gone (order-management-  *)
(* contract.md, section 2).                                                *)
FileKeepsOpenPosition ==
    [][broker.status = "open" /\ disk # Untracked => disk' # Untracked]_vars

(* A process that could read the file never makes it forget a position that *)
(* is still open, whatever saves fail or are cut off by a restart.         *)
LoadedFileKeepsPosition ==
    [][broker.status = "open" /\ disk # Untracked /\ store.loaded
         => disk' # Untracked]_vars

AtRest == active /\ pc = "idle" /\ \A c \in Callers : caller[c].step = "idle"

(* When no thread is in the middle of a save and the last one was not       *)
(* reported as failed, the file holds what memory holds: a restart at that  *)
(* point loses nothing.                                                    *)
DurableAtRest == AtRest /\ store.saved => disk = Image(managed)

(* A tight trail is not taken back to a wide one while nobody touches the   *)
(* position's stop.                                                         *)
TightStaysTight ==
    [](managed # Untracked /\ managed.state.phase = "TRAIL_TIGHT"
         => [](managed # Untracked => managed.state.phase # "TRAIL_WIDE"))

(* STALE is transient: once MT5 stays reachable, every stale runtime is     *)
(* reconciled and leaves the phase.                                         *)
StaleResolves ==
    <>[]link => (managed # Untracked /\ managed.state.phase = "STALE"
                   ~> managed = Untracked \/ managed.state.phase # "STALE")

(* Once MT5 stays reachable, a managed open position in enough profit gets  *)
(* its break-even stop, unless management has stopped.                      *)
GetsProtected ==
    <>[]link => (managed # Untracked /\ active
                   ~> \/ broker.status # "open" \/ managed = Untracked
                      \/ Dormant(managed)
                      \/ AtLeastAsProtective(broker.sl, RawBreakEven(managed.state),
                                             order.side))

(* Once saves succeed, a pause ends up in the file, whichever save of it    *)
(* failed before and whichever overtook it, unless it is taken back first. *)
PauseBecomesDurable ==
    <>[]store.saved =>
        (active /\ managed # Untracked /\ managed.state.phase = "PAUSED"
           ~> \/ managed = Untracked \/ managed.state.phase # "PAUSED"
              \/ disk # Untracked /\ disk.state.phase = "PAUSED")

=============================================================================
