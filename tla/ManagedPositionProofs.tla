----------------------- MODULE ManagedPositionProofs -----------------------
(***************************************************************************)
(* Safety of one managed position, for every price grid, setting, order,   *)
(* set of command threads and failure switch: type correctness, the three  *)
(* promises about the stop that is sent, and the two about the intent that *)
(* is recorded before it is sent; then, for the life of a runtime beyond   *)
(* one request, the retry budget, what stays stopped, what stays tracked,  *)
(* and what the file keeps.                                                *)
(*                                                                         *)
(* None of the first is inductive alone.  What is sent was decided several *)
(* steps earlier, so the invariant carries the soundness of the decision   *)
(* (EvaluateSound) from commit to verify; what is decided depends on the   *)
(* intent found in the runtime, so it carries the provenance of every      *)
(* intent: in memory, and in what activation is about to put back there.   *)
(*                                                                         *)
(* The second part rests on Flow: every state that memory, the file, an    *)
(* image or the poll holds after a step is one of those held before it,    *)
(* after a single change of the code, or a new registration's.  A race of   *)
(* the service that breaks a property is kept out of its theorem by a       *)
(* hypothesis []Q on the behaviour, where Q names the window in which       *)
(* nobody else may act; runs and configurations of the project show most    *)
(* of these races.                                                         *)
(***************************************************************************)
EXTENDS ManagedPosition, OrderStateMachineProofs

(* The captured runtime is still the registered one, in the steps that use  *)
(* it.                                                                     *)
HeldIsTracked ==
    held => /\ managed # Untracked
            /\ pc \in {"outage", "observe", "commit", "collect"} \cup Mutating

Proposed == pc \in Mutating \/ (pc = "commit" /\ decision.action # NoAction)

(* From commit to verify the decision is one the state machine made.        *)
DecisionIsSound ==
    Proposed => /\ Recorded(decision) /\ Protective(decision)
                /\ decision.state.side = order.side

(* A decision to stay leaves no intent behind.                              *)
StayIsSettled ==
    pc = "commit" /\ decision.action = NoAction =>
        decision.state.pending = NoAction \/ decision.state.phase = "STALE"

(* What order_send is about to replace is what the decision was based on.   *)
RequeryAgrees ==
    pc = "send" => /\ requeried.sl = decision.action.expectedSl
                   /\ requeried.tp = decision.action.preserveTp

(* What activation restores or keeps has no intent but a STALE one.         *)
RestoredIsReconciled ==
    ((pc = "load" /\ active) \/ pc = "restore") /\ image # Untracked =>
        (image.state.pending # NoAction => image.state.phase = "STALE")

(* A runtime whose request is under way is the one that was decided: a      *)
(* command cannot move it, only remove it.                                  *)
InFlightIsCurrent == pc \in Mutating /\ held => managed.state = decision.state

IInv ==
    /\ TypeOK
    /\ HeldIsTracked /\ DecisionIsSound /\ StayIsSettled
    /\ RequeryAgrees /\ RestoredIsReconciled
    /\ NoOrphanedIntent /\ InFlightIsCurrent

-----------------------------------------------------------------------------
(* Helpers *)

(* Replacing the state of a runtime. *)
LEMMA WithState ==
    ASSUME NEW r \in Runtimes, NEW s \in ManagedStates
    PROVE  /\ [r EXCEPT !.state = s] \in Runtimes
           /\ [r EXCEPT !.state = s].state = s
           /\ [r EXCEPT !.state = s] # Untracked
  BY PositionAssumption DEF Runtimes

(* What is saved is a runtime. *)
LEMMA ImageType ==
    ASSUME NEW r \in Runtimes \cup {Untracked}
    PROVE  Image(r) \in Runtimes \cup {Untracked}
  BY DEF Image, Runtimes, ManagedStates

(* What is restored is a runtime, and keeps no intent but a STALE one. *)
LEMMA RestoreType ==
    ASSUME NEW r \in Runtimes \cup {Untracked}
    PROVE  /\ RestoreRuntime(r) \in Runtimes \cup {Untracked}
           /\ RestoreRuntime(r) = Untracked => r = Untracked
           /\ RestoreRuntime(r) # Untracked =>
                (RestoreRuntime(r).state.pending # NoAction =>
                    RestoreRuntime(r).state.phase = "STALE")
<1>1. CASE r = Untracked \/ r.state.pending = NoAction
  BY <1>1 DEF RestoreRuntime
<1>2. CASE ~(r = Untracked \/ r.state.pending = NoAction)
  <2>1. r \in Runtimes /\ r.state.pending.source \in Active
    BY <1>2 DEF Runtimes, ManagedStates, Actions
  <2> DEFINE stale == [r.state EXCEPT !.phase = "STALE",
                                      !.resume = r.state.pending.source]
  <2>2. stale \in ManagedStates /\ stale.phase = "STALE"
    BY <2>1 DEF Runtimes, ManagedStates, Phases
  <2> HIDE DEF stale
  <2>3. RestoreRuntime(r) = [r EXCEPT !.state = stale]
    BY <1>2, <2>1 DEF RestoreRuntime, Runtimes, ManagedStates, stale
  <2> QED
    BY <2>1, <2>2, <2>3, WithState
<1> QED
  BY <1>1, <1>2

(* Pending intents are withdrawn one at a time. *)
LEMMA WithdrawType ==
    ASSUME NEW r \in Runtimes
    PROVE  /\ WithdrawIntent(r) \in Runtimes /\ WithdrawIntent(r) # Untracked
           /\ WithdrawIntent(r).state.pending = NoAction
  BY PositionAssumption DEF WithdrawIntent, Runtimes, ManagedStates, Actions

(* A new registration has no intent. *)
LEMMA RegistrationType ==
    ASSUME order \in Orders, broker.entry \in Nat, NEW atr \in BOOLEAN
    PROVE  /\ Registration(atr) \in Runtimes
           /\ Registration(atr).state.pending = NoAction
<1> DEFINE r == [order EXCEPT !.entry = broker.entry]
<1>1. r \in [side : Sides, entry : Int, initialSl : Int]
  BY PositionAssumption
<1> HIDE DEF r
<1>2. StartManagement(r) \in ManagedStates /\ StartManagement(r).pending = NoAction
  BY <1>1, StartType
<1> QED
  BY <1>2 DEF Registration, Runtimes, r

(* The empty values of the poll's local state have their types. *)
LEMMA NothingType ==
    /\ NoState \in ManagedStates
    /\ NoDecision \in Decisions
    /\ NoSnapshot \in [exists : BOOLEAN, entry : Nat, sl : Int, tp : Nat,
                       allowed : BOOLEAN]
    /\ NoStops \in [sl : Int, tp : Nat]
<1> DEFINE start == StartManagement([side |-> "buy", entry |-> 0, initialSl |-> 0])
<1>1. start \in ManagedStates
  BY StartType DEF Sides
<1> HIDE DEF start
<1>2. NoState \in ManagedStates
  BY <1>1 DEF NoState, ManagedStates, Phases, start
<1>3. NoDecision \in Decisions
  BY <1>2 DEF NoDecision, Decision, Decisions, Actions
<1> QED
  BY <1>2, <1>3 DEF NoSnapshot, NoStops

(* What the poll evaluates is a position. *)
LEMMA PositionType ==
    ASSUME IInv
    PROVE  Position \in Positions /\ Position.side = order.side /\ Position.exists
  BY PositionAssumption DEF Position, Positions, IInv, TypeOK

(* A quote is a market tick, and so is a missing one. *)
LEMMA TicksType == Ticks \subseteq MarketTicks
<1>1. ASSUME NEW p \in Prices
      PROVE  [bid |-> p, ask |-> p, fresh |-> TRUE] \in MarketTicks
  <2>1. p \in Int
    BY PositionAssumption
  <2> QED
    BY <2>1 DEF MarketTicks
<1>2. StaleTick \in MarketTicks
  BY DEF StaleTick, MarketTicks
<1> QED
  BY <1>1, <1>2 DEF Ticks, Quotes

-----------------------------------------------------------------------------
(* The initial states satisfy the invariant. *)
LEMMA InitIInv ==
    ASSUME Init PROVE IInv
<1>1. order \in Orders /\ order.entry \in Nat /\ order.initialSl \in Int
  BY PositionAssumption DEF Init
<1>2. broker \in [status : {"none", "open", "closed"},
                  entry : Nat, sl : Int, tp : Nat]
  BY <1>1, PositionAssumption DEF Init
<1>3. disk \in Runtimes \cup {Untracked}
  BY <1>1, <1>2, RegistrationType, PositionAssumption DEF Init
<1>4. TypeOK
  BY <1>1, <1>2, <1>3, NothingType DEF Init, TypeOK, Steps, Replies, Decisions
<1> QED
  BY <1>4 DEF Init, IInv, HeldIsTracked, DecisionIsSound, StayIsSettled, Proposed,
     Mutating, RequeryAgrees, RestoredIsReconciled, NoOrphanedIntent, InFlightIsCurrent

-----------------------------------------------------------------------------
(* Every step preserves the invariant *)

(* Steps that leave the poll, its decision and the runtime alone. *)
LEMMA OutsideStep ==
    ASSUME IInv, OrderFilled \/ PositionClosed \/ UserEdit \/ LinkChange
    PROVE  IInv'
<1>1. /\ broker' \in [status : {"none", "open", "closed"},
                      entry : Nat, sl : Int, tp : Nat]
      /\ link' \in BOOLEAN
  <2>1. CASE OrderFilled
    BY <2>1 DEF IInv, TypeOK, OrderFilled
  <2>2. CASE PositionClosed
    BY <2>2 DEF IInv, TypeOK, PositionClosed
  <2>3. CASE UserEdit
    BY <2>3, PositionAssumption DEF IInv, TypeOK, UserEdit
  <2>4. CASE LinkChange
    BY <2>4 DEF IInv, TypeOK, LinkChange
  <2> QED
    BY <2>1, <2>2, <2>3, <2>4
<1>2. UNCHANGED <<order, managed, active, pollVars, caller, disk, store>>
  BY DEF OrderFilled, PositionClosed, UserEdit, LinkChange, Environment
<1>3. TypeOK'
  BY <1>1, <1>2 DEF IInv, TypeOK, pollVars
<1> QED
  BY <1>2, <1>3 DEF IInv, HeldIsTracked, DecisionIsSound, StayIsSettled, Proposed,
     RequeryAgrees, RestoredIsReconciled, NoOrphanedIntent, InFlightIsCurrent, pollVars

(* A restart forgets every request and every intent that is not saved. *)
LEMMA RestartStep ==
    ASSUME IInv, Restart PROVE IInv'
<1>1. TypeOK'
  <2>1. store' \in [saved : BOOLEAN, loaded : BOOLEAN]
    BY DEF IInv, TypeOK, Restart
  <2> QED
    BY <2>1, NothingType DEF IInv, TypeOK, Restart, Steps, Replies, Decisions
<1> QED
  BY <1>1 DEF Restart, IInv, HeldIsTracked, DecisionIsSound, StayIsSettled, Proposed,
     Mutating, RequeryAgrees, RestoredIsReconciled, NoOrphanedIntent, InFlightIsCurrent

(* A save leaves one of two documents in the file, and the new one when it  *)
(* succeeds.                                                               *)
LEMMA SaveOutcome ==
    ASSUME TypeOK, NEW document, SaveDocument(document)
    PROVE  /\ disk' \in {disk, document}
           /\ store' \in [saved : BOOLEAN, loaded : BOOLEAN]
           /\ store'.loaded = store.loaded
           /\ store'.saved => disk' = document
<1>1. store \in [saved : BOOLEAN, loaded : BOOLEAN]
  BY DEF TypeOK
<1>2. CASE disk' = document /\ store' = [store EXCEPT !.saved = TRUE]
  BY <1>1, <1>2
<1>3. CASE disk' \in {disk, document} /\ store' = [store EXCEPT !.saved = FALSE]
  BY <1>1, <1>3
<1> QED
  BY <1>2, <1>3 DEF SaveDocument

(* Saving touches the file, and ends the cycle that held the runtime. *)
LEMMA SaveStep ==
    ASSUME IInv, PollCollect \/ PollSave \/ (\E c \in Callers : Persist(c))
    PROVE  IInv'
<1>1. CASE PollCollect
  <2>1. Image(managed) \in Runtimes \cup {Untracked}
    BY ImageType DEF IInv, TypeOK
  <2>2. TypeOK'
    <3>1. pc' \in Steps /\ image' \in Runtimes \cup {Untracked}
      BY <1>1, <2>1 DEF IInv, TypeOK, PollCollect, Steps
    <3>2. decision' \in [state : ManagedStates, action : Actions]
      BY <1>1, NothingType DEF PollCollect, Decisions
    <3> QED
      BY <1>1, <3>1, <3>2, NothingType DEF IInv, TypeOK, PollCollect
  <2> QED
    BY <1>1, <2>2 DEF PollCollect, IInv, HeldIsTracked, DecisionIsSound, StayIsSettled,
       Proposed, Mutating, RequeryAgrees, RestoredIsReconciled, NoOrphanedIntent,
       InFlightIsCurrent
<1>2. CASE PollSave
  <2>1. /\ disk' \in {disk, image}
        /\ store' \in [saved : BOOLEAN, loaded : BOOLEAN]
    BY <1>2, SaveOutcome DEF IInv, PollSave
  <2>2. TypeOK'
    BY <1>2, <2>1 DEF IInv, TypeOK, PollSave, Steps
  <2> QED
    BY <1>2, <2>2 DEF PollSave, IInv, HeldIsTracked, DecisionIsSound, StayIsSettled,
       Proposed, Mutating, RequeryAgrees, RestoredIsReconciled, NoOrphanedIntent,
       InFlightIsCurrent
<1>3. ASSUME NEW c \in Callers, Persist(c) PROVE IInv'
  <2>1. Image(managed) \in Runtimes \cup {Untracked}
    BY ImageType DEF IInv, TypeOK
  <2>2. /\ caller' \in [Callers -> [step : {"idle", "collect", "save"},
                                   image : Runtimes \cup {Untracked}]]
        /\ disk' \in Runtimes \cup {Untracked}
        /\ store' \in [saved : BOOLEAN, loaded : BOOLEAN]
    <3>1. CASE CallerCollect(c)
      BY <2>1, <3>1 DEF CallerCollect, IInv, TypeOK
    <3>2. CASE CallerSave(c)
      <4>1. /\ disk' \in {disk, caller[c].image}
            /\ store' \in [saved : BOOLEAN, loaded : BOOLEAN]
        BY <3>2, SaveOutcome DEF IInv, CallerSave
      <4> QED
        BY <3>2, <4>1 DEF CallerSave, IInv, TypeOK
    <3> QED
      BY <1>3, <3>1, <3>2 DEF Persist
  <2>3. UNCHANGED <<order, broker, link, managed, active, pollVars>>
    BY <1>3 DEF Persist, CallerCollect, CallerSave
  <2>4. TypeOK'
    BY <2>2, <2>3 DEF IInv, TypeOK, pollVars
  <2> QED
    BY <2>3, <2>4 DEF IInv, HeldIsTracked, DecisionIsSound, StayIsSettled, Proposed,
       RequeryAgrees, RestoredIsReconciled, NoOrphanedIntent, InFlightIsCurrent, pollVars
<1> QED
  BY <1>1, <1>2, <1>3

(* Commands of another thread: a runtime whose intent is in flight is not   *)
(* paused, is not paused already, and goes away only by losing its hold.    *)
LEMMA CommandStep ==
    ASSUME IInv, NEW c \in Callers, Command(c) PROVE IInv'
<1> DEFINE Frame == UNCHANGED <<order, broker, link, active, pc, snapshot, observed,
                                decision, requeried, reply, image, disk, store>>
<1>1. /\ Frame
      /\ caller' \in [Callers -> [step : {"idle", "collect", "save"},
                                 image : Runtimes \cup {Untracked}]]
  BY DEF Command, Register, PausePosition, ResumePosition, UnregisterPosition,
     CommandForAnother, Issue, IInv, TypeOK
<1>2. managed # Untracked => managed \in Runtimes /\ managed.state \in ManagedStates
  BY DEF IInv, TypeOK, Runtimes
<1>3. ASSUME managed' \in Runtimes \cup {Untracked}, held' \in BOOLEAN,
             held' => held /\ managed' # Untracked,
             managed' # Untracked =>
                \/ /\ managed # Untracked
                   /\ managed'.state = managed.state
                   /\ held' = held
                \/ /\ managed'.state.pending = NoAction
                   /\ ~(held /\ pc \in Mutating)
      PROVE  IInv'
  <2>1. TypeOK'
    BY <1>1, <1>3 DEF IInv, TypeOK
  <2>2. HeldIsTracked' /\ NoOrphanedIntent' /\ InFlightIsCurrent'
    BY <1>1, <1>3 DEF IInv, HeldIsTracked, NoOrphanedIntent, InFlightIsCurrent, Mutating
  <2> QED
    BY <1>1, <2>1, <2>2 DEF IInv, DecisionIsSound, StayIsSettled, Proposed,
       RequeryAgrees, RestoredIsReconciled
<1>4. held /\ pc \in Mutating =>
        managed.state.pending # NoAction /\ managed.state.phase \in Active
  BY DEF IInv, InFlightIsCurrent, DecisionIsSound, Proposed, Recorded
<1>5. managed # Untracked /\ ~(held /\ pc \in Mutating) =>
        (managed.state.pending # NoAction => managed.state.phase = "STALE")
  BY DEF IInv, NoOrphanedIntent
<1>6. held => managed # Untracked
  BY DEF IInv, HeldIsTracked
<1>7. CASE Register(c)
  <2>1. ASSUME NEW atr \in AtrKnown, managed = Untracked, managed' = Registration(atr)
        PROVE  IInv'
    <3>1. managed' \in Runtimes /\ managed'.state.pending = NoAction
      BY <2>1, RegistrationType, PositionAssumption DEF IInv, TypeOK
    <3> QED
      BY <1>3, <1>6, <1>7, <2>1, <3>1 DEF Register, IInv, TypeOK
  <2>2. ASSUME NEW atr \in AtrKnown, managed # Untracked,
               managed' = [managed EXCEPT !.atr = atr \/ managed.atr]
        PROVE  IInv'
    <3>1. managed' \in Runtimes /\ managed'.state = managed.state
      BY <1>2, <2>2 DEF Runtimes
    <3>2. managed' # Untracked
      BY <3>1, PositionAssumption
    <3> QED
      BY <1>3, <1>7, <2>2, <3>1, <3>2 DEF Register, IInv, TypeOK
  <2> QED
    BY <1>7, <2>1, <2>2 DEF Register
<1>8. CASE PausePosition(c)
  <2>1. managed # Untracked /\ CanPause(managed.state) /\ held' = held
    BY <1>8 DEF PausePosition
  <2>2. /\ Pause(managed.state) \in ManagedStates
        /\ Pause(managed.state).pending = managed.state.pending
    BY <1>2, <2>1, CommandType
  <2>3. /\ managed' \in Runtimes /\ managed' # Untracked
        /\ managed'.state = Pause(managed.state)
    BY <1>2, <1>8, <2>1, <2>2, WithState DEF PausePosition
  <2>4. CASE managed.state.pending = NoAction
    BY <1>3, <1>4, <2>1, <2>2, <2>3, <2>4 DEF IInv, TypeOK
  <2>5. CASE managed.state.phase \in {"CLOSED", "UNMANAGED"}
    BY <1>3, <2>1, <2>3, <2>5 DEF Pause, IInv, TypeOK
  <2> QED
    BY <2>1, <2>4, <2>5 DEF CanPause
<1>9. CASE ResumePosition(c)
  <2>1. managed # Untracked /\ held' = held
    BY <1>9 DEF ResumePosition
  <2>2. /\ Resume(managed.state) \in ManagedStates
        /\ Resume(managed.state).pending = managed.state.pending
    BY <1>2, <2>1, CommandType
  <2>3. /\ managed' \in Runtimes /\ managed' # Untracked
        /\ managed'.state = Resume(managed.state)
    BY <1>2, <1>9, <2>1, <2>2, WithState DEF ResumePosition
  <2>4. CASE managed.state.phase = "PAUSED"
    <3>1. managed.state.pending = NoAction /\ ~(held /\ pc \in Mutating)
      BY <1>4, <1>5, <2>1, <2>4 DEF Active
    <3> QED
      BY <1>3, <2>1, <2>2, <2>3, <3>1 DEF IInv, TypeOK
  <2>5. CASE managed.state.phase # "PAUSED"
    BY <1>3, <2>1, <2>3, <2>5 DEF Resume, IInv, TypeOK
  <2> QED
    BY <2>4, <2>5
<1>10. CASE UnregisterPosition(c)
  BY <1>3, <1>10 DEF UnregisterPosition
<1>11. CASE CommandForAnother(c)
  BY <1>3, <1>6, <1>11 DEF CommandForAnother, IInv, TypeOK
<1> QED
  BY <1>7, <1>8, <1>9, <1>10, <1>11 DEF Command

(* Reading the account: what is read has its type, nothing is decided yet.  *)
LEMMA ReadStep ==
    ASSUME IInv,
           \/ PollOutage \/ PollSnapshot \/ ActivateAccount \/ LoadState
           \/ LoadFails \/ RestoreStates \/ SelectRuntime
    PROVE  IInv'
<1>1. managed # Untracked => managed \in Runtimes /\ managed.state \in ManagedStates
  BY DEF IInv, TypeOK, Runtimes
<1>2. CASE PollOutage
  <2>1. TypeOK'
    <3>1. observed' \in ManagedStates /\ pc' \in Steps /\ held' \in BOOLEAN
      BY <1>1, <1>2 DEF IInv, TypeOK, PollOutage, Steps
    <3> QED
      BY <1>2, <3>1 DEF IInv, TypeOK, PollOutage
  <2> QED
    BY <1>2, <2>1 DEF PollOutage, IInv, HeldIsTracked, DecisionIsSound,
       StayIsSettled, Proposed, Mutating, RequeryAgrees, RestoredIsReconciled,
       NoOrphanedIntent, InFlightIsCurrent
<1>3. CASE PollSnapshot
  <2>1. snapshot' \in [exists : BOOLEAN, entry : Nat, sl : Int, tp : Nat,
                       allowed : BOOLEAN]
    BY <1>3, PositionAssumption DEF IInv, TypeOK, PollSnapshot
  <2>2. TypeOK'
    BY <1>3, <2>1 DEF IInv, TypeOK, PollSnapshot, Steps
  <2> QED
    BY <1>3, <2>2 DEF PollSnapshot, IInv, HeldIsTracked, DecisionIsSound,
       StayIsSettled, Proposed, Mutating, RequeryAgrees, RestoredIsReconciled,
       NoOrphanedIntent, InFlightIsCurrent
<1>4. CASE ActivateAccount
  <2>1. TypeOK'
    BY <1>4 DEF IInv, TypeOK, ActivateAccount
  <2>2. ~held /\ managed # Untracked =>
          (managed.state.pending # NoAction => managed.state.phase = "STALE")
    BY DEF IInv, NoOrphanedIntent
  <2>3. ~held /\ ~held'
    BY <1>4 DEF ActivateAccount, IInv, HeldIsTracked, Mutating
  <2> QED
    BY <1>4, <2>1, <2>2, <2>3 DEF ActivateAccount, IInv, HeldIsTracked, DecisionIsSound,
       StayIsSettled, Proposed, Mutating, RequeryAgrees, RestoredIsReconciled,
       NoOrphanedIntent, InFlightIsCurrent
<1>5. CASE LoadState
  <2>1. /\ image' \in Runtimes \cup {Untracked}
        /\ image' # Untracked =>
             (image'.state.pending # NoAction => image'.state.phase = "STALE")
    BY <1>5, RestoreType DEF IInv, TypeOK, LoadState, RestoredIsReconciled
  <2>2. TypeOK'
    BY <1>5, <2>1 DEF IInv, TypeOK, LoadState, Steps
  <2> QED
    BY <1>5, <2>1, <2>2 DEF LoadState, IInv, HeldIsTracked, DecisionIsSound,
       StayIsSettled, Proposed, Mutating, RequeryAgrees, RestoredIsReconciled,
       NoOrphanedIntent, InFlightIsCurrent
<1>6. CASE RestoreStates
  <2>1. TypeOK'
    BY <1>6 DEF IInv, TypeOK, RestoreStates, Updated, Steps
  <2>2. NoOrphanedIntent'
    BY <1>6 DEF RestoreStates, Updated, IInv, RestoredIsReconciled, NoOrphanedIntent,
       Mutating
  <2> QED
    BY <1>6, <2>1, <2>2 DEF RestoreStates, Updated, IInv, HeldIsTracked,
       DecisionIsSound, StayIsSettled, Proposed, Mutating, RequeryAgrees,
       RestoredIsReconciled, InFlightIsCurrent
<1>7. CASE SelectRuntime
  <2>1. TypeOK'
    <3>1. /\ managed' \in Runtimes \cup {Untracked} /\ held' \in BOOLEAN
          /\ pc' \in Steps
      BY <1>7 DEF IInv, TypeOK, SelectRuntime, Evaluated, Steps
    <3> QED
      BY <1>7, <3>1 DEF IInv, TypeOK, SelectRuntime
  <2> QED
    BY <1>7, <2>1 DEF SelectRuntime, Evaluated, IInv, HeldIsTracked, DecisionIsSound,
       StayIsSettled, Proposed, Mutating, RequeryAgrees, RestoredIsReconciled,
       NoOrphanedIntent, InFlightIsCurrent
<1>8. CASE LoadFails
  <2>1. store' \in [saved : BOOLEAN, loaded : BOOLEAN]
    BY <1>8 DEF IInv, TypeOK, LoadFails
  <2>2. TypeOK'
    BY <1>8, <2>1 DEF IInv, TypeOK, LoadFails, Steps
  <2> QED
    BY <1>8, <2>2 DEF LoadFails, IInv, HeldIsTracked, DecisionIsSound,
       StayIsSettled, Proposed, Mutating, RequeryAgrees, RestoredIsReconciled,
       NoOrphanedIntent, InFlightIsCurrent
<1> QED
  BY <1>2, <1>3, <1>4, <1>5, <1>6, <1>7, <1>8

(* An outage only ever turns the runtime STALE. *)
LEMMA MarkAllStaleStep ==
    ASSUME IInv, MarkAllStale PROVE IInv'
<1>1. MarkStale(observed) \in ManagedStates /\ MarkStale(observed).phase = "STALE"
  BY MarkStaleType DEF IInv, TypeOK
<1>2. held => managed \in Runtimes
  BY DEF IInv, TypeOK, HeldIsTracked
<1>3. held => /\ managed' \in Runtimes
              /\ managed'.state.phase = "STALE"
  BY <1>1, <1>2, WithState DEF MarkAllStale
<1>4. TypeOK'
  <2>1. managed' \in Runtimes \cup {Untracked} /\ pc' \in Steps
    BY <1>3 DEF IInv, TypeOK, MarkAllStale, Steps
  <2> QED
    BY <2>1, NothingType DEF IInv, TypeOK, MarkAllStale
<1> QED
  BY <1>3, <1>4 DEF MarkAllStale, IInv, HeldIsTracked, DecisionIsSound,
       StayIsSettled, Proposed, Mutating, RequeryAgrees, RestoredIsReconciled,
       NoOrphanedIntent, InFlightIsCurrent

(* Deciding: the runtime observed here is the one whose intent, if any, is  *)
(* STALE, so the decision is sound.                                        *)
LEMMA ObserveStep ==
    ASSUME IInv, NEW elapsed \in BOOLEAN, Observe(elapsed) PROVE IInv'
<1>1. CASE ~held
  <2>1. TypeOK'
    BY <1>1 DEF IInv, TypeOK, Observe, Steps
  <2> QED
    BY <1>1, <2>1 DEF Observe, IInv, HeldIsTracked, DecisionIsSound,
       StayIsSettled, Proposed, Mutating, RequeryAgrees, RestoredIsReconciled,
       NoOrphanedIntent, InFlightIsCurrent
<1>2. CASE held
  <2>1. managed \in Runtimes /\ managed.state \in ManagedStates
    BY <1>2 DEF IInv, TypeOK, HeldIsTracked, Runtimes
  <2>2. managed.state.pending # NoAction => managed.state.phase = "STALE"
    BY <2>1, PositionAssumption DEF IInv, NoOrphanedIntent, Observe, Mutating
  <2>3. Position \in Positions /\ Position.side = order.side
    BY PositionType
  <2>4. Ticks \subseteq MarketTicks
    BY TicksType
  <2>5. PICK tick \in Ticks :
          decision' = Evaluate(managed.state, Position, tick, managed.atr, elapsed)
    BY <1>2 DEF Observe
  <2>6. Sound(decision', Position)
    BY <2>1, <2>2, <2>3, <2>4, <2>5, EvaluateSound
  <2>7. decision' \in [state : ManagedStates, action : Actions]
    BY <2>6 DEF Sound, Decisions
  <2>8. TypeOK'
    BY <1>2, <2>1, <2>7 DEF IInv, TypeOK, Observe, Steps
  <2>9. DecisionIsSound' /\ StayIsSettled'
    BY <1>2, <2>3, <2>6 DEF Observe, Sound, DecisionIsSound, StayIsSettled, Proposed,
       Mutating, Recorded, Protective
  <2> QED
    BY <1>2, <2>8, <2>9 DEF Observe, IInv, HeldIsTracked, Mutating, RequeryAgrees,
       RestoredIsReconciled, NoOrphanedIntent, InFlightIsCurrent
<1> QED
  BY <1>1, <1>2

(* Committing: the intent becomes that of a request under way, or of none. *)
LEMMA CommitStep ==
    ASSUME IInv, Commit PROVE IInv'
<1>1. CASE DecisionIsCurrent
  <2>1. managed \in Runtimes /\ held
    BY <1>1 DEF DecisionIsCurrent, IInv, TypeOK, HeldIsTracked
  <2>2. /\ managed' \in Runtimes /\ managed' # Untracked
        /\ managed'.state = decision.state
    <3>1. decision.state \in ManagedStates
      BY DEF IInv, TypeOK
    <3>2. managed' = [managed EXCEPT !.state = decision.state]
      BY <1>1 DEF Commit
    <3> QED
      BY <2>1, <3>1, <3>2, WithState
  <2>3. TypeOK'
    BY <1>1, <2>2 DEF IInv, TypeOK, Commit, Steps
  <2>4. DecisionIsSound' /\ StayIsSettled'
    BY <1>1 DEF Commit, IInv, DecisionIsSound, StayIsSettled, Proposed, Mutating
  <2>5. NoOrphanedIntent' /\ InFlightIsCurrent'
    BY <1>1, <2>1, <2>2 DEF Commit, IInv, StayIsSettled, Mutating, NoOrphanedIntent,
       InFlightIsCurrent
  <2> QED
    BY <1>1, <2>1, <2>2, <2>3, <2>4, <2>5 DEF Commit, IInv, HeldIsTracked, Mutating,
       RequeryAgrees, RestoredIsReconciled
<1>2. CASE ~DecisionIsCurrent
  <2>1. TypeOK'
    BY <1>2 DEF IInv, TypeOK, Commit, Steps
  <2>2. NoOrphanedIntent'
    BY <1>2 DEF Commit, IInv, NoOrphanedIntent, Mutating
  <2> QED
    BY <1>2, <2>1, <2>2 DEF Commit, IInv, HeldIsTracked, DecisionIsSound,
       StayIsSettled, Proposed, Mutating, RequeryAgrees, RestoredIsReconciled,
       InFlightIsCurrent
<1> QED
  BY <1>1, <1>2

(* The gate withdraws the intent it does not let through. *)
LEMMA GateStep ==
    ASSUME IInv, Gate PROVE IInv'
<1>1. CASE held /\ managed.state = decision.state /\ ~snapshot.allowed
  <2>1. managed \in Runtimes
    BY <1>1 DEF IInv, TypeOK, HeldIsTracked
  <2>2. managed' \in Runtimes /\ managed'.state.pending = NoAction
    BY <1>1, <2>1, WithdrawType DEF Gate
  <2>3. managed' # Untracked
    BY <2>2, PositionAssumption
  <2>4. TypeOK'
    BY <1>1, <2>2 DEF IInv, TypeOK, Gate, Steps
  <2>5. NoOrphanedIntent'
    BY <2>2 DEF NoOrphanedIntent
  <2> QED
    BY <1>1, <2>3, <2>4, <2>5 DEF Gate, IInv, HeldIsTracked, DecisionIsSound,
       StayIsSettled, Proposed, Mutating, RequeryAgrees, RestoredIsReconciled,
       InFlightIsCurrent
<1>2. CASE ~(held /\ managed.state = decision.state) \/ snapshot.allowed
  <2>1. TypeOK'
    BY <1>2 DEF IInv, TypeOK, Gate, Steps
  <2> QED
    BY <1>2, <2>1 DEF Gate, IInv, HeldIsTracked, DecisionIsSound,
       StayIsSettled, Proposed, Mutating, RequeryAgrees, RestoredIsReconciled,
       NoOrphanedIntent, InFlightIsCurrent
<1> QED
  BY <1>1, <1>2

(* Whatever confirmation comes back, the intent is settled or STALE. *)
LEMMA ConfirmStep ==
    ASSUME IInv, pc \in Mutating, NEW status \in ConfirmationStatuses,
           NEW sl \in Int, NEW tp \in Int, Confirm(status, sl, tp)
    PROVE  IInv'
<1> DEFINE answer == [status |-> status, sl |-> sl, tp |-> tp]
           settled == ApplyConfirmation(decision.state, answer)
<1>1. decision.state \in ManagedStates /\ decision.state.pending # NoAction
  BY DEF IInv, TypeOK, DecisionIsSound, Proposed, Recorded
<1>2. answer \in Confirmations
  BY DEF Confirmations
<1> HIDE DEF answer
<1>3. /\ settled \in ManagedStates
      /\ settled.pending = NoAction \/ settled.phase = "STALE"
  BY <1>1, <1>2, ConfirmationSettles
<1>4. managed' = IF held THEN [managed EXCEPT !.state = settled] ELSE managed
  BY DEF Confirm, answer
<1> HIDE DEF settled
<1>5. held => /\ managed' \in Runtimes /\ managed' # Untracked
              /\ managed'.state = settled
  <2>1. held => managed \in Runtimes
    BY DEF IInv, TypeOK, HeldIsTracked
  <2> QED
    BY <1>3, <1>4, <2>1, WithState
<1>6. TypeOK'
  BY <1>4, <1>5, NothingType DEF IInv, TypeOK, Confirm, Steps, Replies
<1>7. NoOrphanedIntent'
  BY <1>3, <1>4, <1>5 DEF IInv, NoOrphanedIntent
<1> QED
  BY <1>5, <1>6, <1>7 DEF Confirm, IInv, HeldIsTracked, DecisionIsSound, StayIsSettled,
     Proposed, Mutating, RequeryAgrees, RestoredIsReconciled, InFlightIsCurrent

(* Every request that ends here ends in a confirmation. *)
LEMMA ConfirmedBy ==
    ASSUME IInv,
           \/ RequeryUnavailable \/ RequeryRejected \/ RequeryPreconditionFailed
           \/ VerifyReflected \/ VerifyUnreflected
    PROVE  \E answer \in Confirmations :
             pc \in Mutating /\ Confirm(answer.status, answer.sl, answer.tp)
<1>1. /\ broker.sl \in Int /\ broker.tp \in Int /\ 0 \in Int
      /\ ConfirmationStatuses = {"CONFIRMED", "RETRYABLE_ERROR", "REJECTED", "UNKNOWN"}
  BY DEF IInv, TypeOK, ConfirmationStatuses
<1>2. pc \in Mutating
  BY DEF RequeryUnavailable, RequeryRejected, RequeryPreconditionFailed,
     VerifyReflected, VerifyUnreflected, Mutating
<1>3. PICK status \in ConfirmationStatuses, sl \in Int, tp \in Int :
        Confirm(status, sl, tp)
  BY <1>1 DEF RequeryUnavailable, RequeryRejected, RequeryPreconditionFailed,
     VerifyReflected, VerifyUnreflected
<1> DEFINE answer == [status |-> status, sl |-> sl, tp |-> tp]
<1>4. answer \in Confirmations
  BY DEF Confirmations
<1> QED
  BY <1>2, <1>3, <1>4

(* The request: re-query, send and verify. *)
LEMMA RequestStep ==
    ASSUME IInv,
           \/ RequeryUnavailable \/ RequeryRejected \/ RequeryPreconditionFailed
           \/ RequeryAccepted
           \/ Deliver \/ VerifyReflected \/ VerifyUnreflected
    PROVE  IInv'
<1>1. CASE ~(RequeryAccepted \/ Deliver)
  <2>1. PICK answer \in Confirmations :
          pc \in Mutating /\ Confirm(answer.status, answer.sl, answer.tp)
    BY <1>1, ConfirmedBy
  <2>2. /\ answer.status \in ConfirmationStatuses
        /\ answer.sl \in Int /\ answer.tp \in Int
    BY DEF Confirmations
  <2> QED
    BY <2>1, <2>2, ConfirmStep
<1>2. CASE RequeryAccepted
  <2>1. /\ requeried' \in [sl : Int, tp : Nat]
        /\ requeried'.sl = decision.action.expectedSl
        /\ requeried'.tp = decision.action.preserveTp
    BY <1>2 DEF RequeryAccepted, PreconditionHolds, IInv, TypeOK
  <2>2. TypeOK'
    BY <1>2, <2>1 DEF RequeryAccepted, IInv, TypeOK, Steps
  <2> QED
    BY <1>2, <2>1, <2>2 DEF RequeryAccepted, IInv, HeldIsTracked, DecisionIsSound,
       StayIsSettled, Proposed, Mutating, RequeryAgrees, RestoredIsReconciled,
       NoOrphanedIntent, InFlightIsCurrent
<1>3. CASE Deliver
  <2>1. /\ broker' \in [status : {"none", "open", "closed"},
                        entry : Nat, sl : Int, tp : Nat]
        /\ reply' \in Replies
    <3>1. decision.action \in Actions \ {NoAction}
      BY <1>3 DEF Deliver, SendExecuted, SendNotExecuted, IInv, TypeOK,
         DecisionIsSound, Proposed, Mutating, Recorded
    <3>2. decision.action.target \in Int
      BY <3>1 DEF Actions
    <3>3. broker \in [status : {"none", "open", "closed"},
                      entry : Nat, sl : Int, tp : Nat]
          /\ requeried.tp \in Nat /\ reply \in Replies
      BY DEF IInv, TypeOK
    <3>4. CASE SendExecuted
      BY <3>2, <3>3, <3>4 DEF SendExecuted, Replies
    <3>5. CASE SendNotExecuted
      BY <3>3, <3>5 DEF SendNotExecuted, Replies
    <3> QED
      BY <1>3, <3>4, <3>5 DEF Deliver
  <2>2. /\ pc = "send" /\ pc' = "verify"
        /\ UNCHANGED <<order, link, managed, active, held, snapshot, observed,
                       decision, requeried, image, caller, disk, store>>
    BY <1>3 DEF Deliver, SendExecuted, SendNotExecuted
  <2>3. TypeOK'
    BY <2>1, <2>2 DEF IInv, TypeOK, Steps
  <2> QED
    BY <2>2, <2>3 DEF IInv, HeldIsTracked, DecisionIsSound,
       StayIsSettled, Proposed, Mutating, RequeryAgrees, RestoredIsReconciled,
       NoOrphanedIntent, InFlightIsCurrent
<1> QED
  BY <1>1, <1>2, <1>3

-----------------------------------------------------------------------------
(* Theorems *)

(* The invariant is inductive. *)
LEMMA NextIInv ==
    ASSUME IInv, [Next]_vars PROVE IInv'
<1>1. CASE Poll
  BY <1>1, ReadStep, MarkAllStaleStep, ObserveStep, CommitStep, GateStep,
     RequestStep, SaveStep DEF Poll
<1>2. CASE Outside
  BY <1>2, OutsideStep, RestartStep DEF Outside
<1>3. CASE \E c \in Callers : Command(c) \/ Persist(c)
  BY <1>3, CommandStep, SaveStep
<1>4. CASE UNCHANGED vars
  <2>1. TypeOK'
    BY <1>4 DEF IInv, TypeOK, vars, pollVars
  <2> QED
    BY <1>4, <2>1 DEF vars, pollVars, IInv, HeldIsTracked, DecisionIsSound,
       StayIsSettled, Proposed, Mutating, RequeryAgrees, RestoredIsReconciled,
       NoOrphanedIntent, InFlightIsCurrent
<1> QED
  BY <1>1, <1>2, <1>3, <1>4 DEF Next

(* Every reachable state satisfies the invariant. *)
THEOREM Invariance == Spec => []IInv
  BY InitIInv, NextIInv, PTL DEF Spec

(* Every variable keeps its type: in particular every phase, resume phase  *)
(* and retry count the service stores or saves is one it can read back.    *)
THEOREM TypeCorrect == Spec => []TypeOK
<1>1. IInv => TypeOK
  BY DEF IInv
<1> QED
  BY <1>1, Invariance, PTL

(* The stop that is sent tightens the one read back just before, with the  *)
(* take-profit read back with it.                                          *)
THEOREM Ratchet == Spec => []RatchetAtSend
<1>1. IInv => RatchetAtSend
  BY DEF IInv, RatchetAtSend, RequeryAgrees, DecisionIsSound, Proposed, Mutating,
     Protective
<1> QED
  BY <1>1, Invariance, PTL

(* No trailing stop is sent over a stop short of break-even. *)
THEOREM HardGateHolds == Spec => []HardGate
<1>1. IInv => HardGate
  BY DEF IInv, HardGate, RequeryAgrees, DecisionIsSound, Proposed, Mutating,
     Protective
<1> QED
  BY <1>1, Invariance, PTL

(* No stop short of break-even is sent. *)
THEOREM ProfitIsLocked == Spec => []ProfitLocked
<1>1. IInv => ProfitLocked
  BY DEF IInv, ProfitLocked, DecisionIsSound, Proposed, Mutating, Protective
<1> QED
  BY <1>1, Invariance, PTL

(* Every intent in memory is that of the request under way, or STALE. *)
THEOREM IntentsAreReconciled == Spec => []NoOrphanedIntent
<1>1. IInv => NoOrphanedIntent
  BY DEF IInv
<1> QED
  BY <1>1, Invariance, PTL

(* No command takes a runtime away from the request under way. *)
THEOREM RequestsAreCurrent == Spec => []IntentIsCurrent
<1>1. IInv => IntentIsCurrent
  BY DEF IInv, InFlightIsCurrent, IntentIsCurrent, Mutating
<1> QED
  BY <1>1, Invariance, PTL

-----------------------------------------------------------------------------
(* Where a state comes from                                                *)
(*                                                                         *)
(* What follows is about the life of a runtime beyond one request: in       *)
(* memory, in the file, in an image a thread is about to save, and in what  *)
(* the poll has read or decided.  A state found in one of these places was  *)
(* found in one of them a step before, but for a single change that the     *)
(* code can make to it, or is that of a new registration.  A property every *)
(* such change preserves then holds everywhere.                            *)

Kept == {managed, image, disk} \cup {caller[c].image : c \in Callers}

(* What the poll has read or decided and may still write.                  *)
InUse ==
    IF pc = "outage" THEN {observed}
    ELSE IF pc = "commit" THEN {observed, decision.state}
    ELSE IF pc \in Mutating THEN {decision.state}
    ELSE {}

Known == {r.state : r \in Kept \ {Untracked}} \cup InUse

(* The changes: none, saved, restored, out of sight, gated, evaluated,      *)
(* confirmed, and the two commands, of which a pause is seen in memory.     *)
Follows(known, s) ==
    \/ s = known
    \/ s = [known EXCEPT !.backoff = FALSE]
    \/ /\ known.pending # NoAction
       /\ s = [known EXCEPT !.phase = "STALE", !.resume = known.pending.source]
    \/ s = MarkStale(known)
    \/ s = [known EXCEPT !.pending = NoAction]
    \/ /\ known.pending # NoAction => known.phase = "STALE"
       /\ \E tick \in MarketTicks, atr \in BOOLEAN, elapsed \in BOOLEAN :
            s = Evaluate(known, Position, tick, atr, elapsed).state
    \/ /\ known.pending # NoAction /\ known.phase \in Active
       /\ \E c \in Confirmations : s = ApplyConfirmation(known, c)
    \/ /\ "pause" \in Commands
       /\ CanPause(known) /\ s = Pause(known)
       /\ managed' # Untracked /\ s = managed'.state
    \/ "resume" \in Commands /\ s = Resume(known)

Registered(s) ==
    /\ broker.status = "open"
    /\ s = StartManagement([order EXCEPT !.entry = broker.entry])

Derived(s) == (\E known \in Known : Follows(known, s)) \/ Registered(s)

(* Known states are states, and what is known is derived. *)
LEMMA KnownType ==
    ASSUME IInv
    PROVE  Known \subseteq ManagedStates /\ \A s \in Known : Derived(s)
<1>1. \A r \in Kept : r # Untracked => r \in Runtimes
  BY DEF IInv, TypeOK, Kept
<1>2. InUse \subseteq ManagedStates
  BY DEF IInv, TypeOK, InUse
<1>3. Known \subseteq ManagedStates
  BY <1>1, <1>2 DEF Known, Runtimes
<1>4. \A s \in Known : Follows(s, s)
  BY DEF Follows
<1> QED
  BY <1>3, <1>4 DEF Derived

(* A kept runtime's state is known. *)
LEMMA KeptIsKnown ==
    ASSUME NEW r \in Kept, r # Untracked
    PROVE  r.state \in Known
  BY DEF Known

(* What is saved is a kept state without its backoff. *)
LEMMA ImageDerived ==
    ASSUME IInv, managed # Untracked, Image(managed) # Untracked
    PROVE  Derived(Image(managed).state)
<1>1. managed \in Runtimes /\ managed.state \in Known
  BY KeptIsKnown DEF IInv, TypeOK, Kept
<1>2. Image(managed).state = [managed.state EXCEPT !.backoff = FALSE]
  BY <1>1 DEF Image, Runtimes
<1> QED
  BY <1>1, <1>2 DEF Derived, Follows

(* To show that a step only derives states, look at the places it writes. *)
LEMMA FlowFrame ==
    ASSUME \A r \in {managed', image', disk'} : r # Untracked => Derived(r.state),
           \A c \in Callers : caller'[c].image # Untracked =>
                                Derived(caller'[c].image.state),
           \A s \in InUse' : Derived(s),
           NEW s \in Known'
    PROVE  Derived(s)
  BY DEF Known, Kept

(* The poll before it decides. *)
LEMMA ReadFlow ==
    ASSUME IInv, NEW s \in Known',
           \/ PollOutage \/ MarkAllStale \/ PollSnapshot \/ ActivateAccount
           \/ LoadState \/ LoadFails \/ RestoreStates \/ SelectRuntime
    PROVE  Derived(s)
<1>1. \A r \in {managed, image, disk} : r # Untracked => Derived(r.state)
  BY KnownType, KeptIsKnown DEF Kept
<1>2. \A c \in Callers : caller[c].image # Untracked => Derived(caller[c].image.state)
  BY KnownType, KeptIsKnown DEF Kept
<1>3. CASE PollOutage
  <2>1. \A e \in InUse' : managed # Untracked /\ e = managed.state
    BY <1>3 DEF PollOutage, InUse, Mutating
  <2> QED
    BY <1>1, <1>2, <1>3, <2>1, FlowFrame DEF PollOutage
<1>4. CASE MarkAllStale
  <2>1. held => managed'.state = MarkStale(observed)
    <3>1. held => managed \in Runtimes /\ MarkStale(observed) \in ManagedStates
      BY MarkStaleType DEF IInv, TypeOK, HeldIsTracked
    <3> QED
      BY <1>4, <3>1, WithState DEF MarkAllStale
  <2>2. observed \in Known
    BY <1>4 DEF MarkAllStale, Known, InUse
  <2>3. Derived(MarkStale(observed))
    BY <2>2 DEF Derived, Follows
  <2>4. InUse' = {}
    BY <1>4 DEF MarkAllStale, InUse, Mutating
  <2>5. /\ managed' # managed => held
        /\ image' = image /\ disk' = disk /\ caller' = caller
    BY <1>4 DEF MarkAllStale
  <2> QED
    BY <1>1, <1>2, <2>1, <2>3, <2>4, <2>5, FlowFrame
<1>5. CASE PollSnapshot
  <2>1. InUse' = {}
    BY <1>5 DEF PollSnapshot, InUse, Mutating
  <2> QED
    BY <1>1, <1>2, <1>5, <2>1, FlowFrame DEF PollSnapshot
<1>6. CASE ActivateAccount
  <2>1. InUse' = {}
    BY <1>6 DEF ActivateAccount, InUse, Mutating
  <2> QED
    BY <1>1, <1>2, <1>6, <2>1, FlowFrame DEF ActivateAccount
<1>7. CASE LoadState
  <2>1. InUse' = {}
    BY <1>7 DEF LoadState, InUse, Mutating
  <2>2. ASSUME image' # Untracked PROVE Derived(image'.state)
    <3>1. image' \in {image, disk} \/ image' = RestoreRuntime(disk)
      BY <1>7, <2>2 DEF LoadState
    <3>2. CASE image' \in {image, disk}
      BY <1>1, <2>2, <3>2
    <3>3. CASE /\ image' = RestoreRuntime(disk)
               /\ disk # Untracked /\ disk.state.pending # NoAction
      <4>1. disk \in Runtimes /\ disk.state \in Known
        BY <3>3, KeptIsKnown DEF IInv, TypeOK, Kept
      <4>2. image'.state = [disk.state EXCEPT !.phase = "STALE",
                                              !.resume = disk.state.pending.source]
        BY <3>3, <4>1 DEF RestoreRuntime, Runtimes, ManagedStates
      <4> QED
        BY <3>3, <4>1, <4>2 DEF Derived, Follows
    <3>4. CASE /\ image' = RestoreRuntime(disk)
               /\ disk = Untracked \/ disk.state.pending = NoAction
      BY <1>1, <2>2, <3>4 DEF RestoreRuntime
    <3> QED
      BY <3>1, <3>2, <3>3, <3>4
  <2> QED
    BY <1>1, <1>2, <1>7, <2>1, <2>2, FlowFrame DEF LoadState
<1>8. CASE RestoreStates
  <2>1. InUse' = {}
    BY <1>8 DEF RestoreStates, InUse, Mutating
  <2> QED
    BY <1>1, <1>2, <1>8, <2>1, FlowFrame DEF RestoreStates, Updated
<1>9. CASE SelectRuntime
  <2>1. InUse' = {}
    BY <1>9 DEF SelectRuntime, InUse, Mutating
  <2> QED
    BY <1>1, <1>2, <1>9, <2>1, FlowFrame DEF SelectRuntime
<1>10. CASE LoadFails
  <2>1. InUse' = {}
    BY <1>10 DEF LoadFails, InUse, Mutating
  <2> QED
    BY <1>1, <1>2, <1>10, <2>1, FlowFrame DEF LoadFails
<1> QED
  BY <1>3, <1>4, <1>5, <1>6, <1>7, <1>8, <1>9, <1>10

(* Deciding, committing and gating. *)
LEMMA DecideFlow ==
    ASSUME IInv, NEW s \in Known',
           (\E elapsed \in BOOLEAN : Observe(elapsed)) \/ Commit \/ Gate
    PROVE  Derived(s)
<1>1. \A r \in {managed, image, disk} : r # Untracked => Derived(r.state)
  BY KnownType, KeptIsKnown DEF Kept
<1>2. \A c \in Callers : caller[c].image # Untracked => Derived(caller[c].image.state)
  BY KnownType, KeptIsKnown DEF Kept
<1>3. held => managed \in Runtimes /\ managed # Untracked /\ managed.state \in Known
  BY KeptIsKnown DEF IInv, TypeOK, HeldIsTracked, Kept
<1>4. ASSUME NEW elapsed \in BOOLEAN, Observe(elapsed) PROVE Derived(s)
  <2>1. CASE ~held
    <3>1. InUse' = {}
      BY <1>4, <2>1 DEF Observe, InUse, Mutating
    <3> QED
      BY <1>1, <1>2, <1>4, <3>1, FlowFrame DEF Observe
  <2>2. CASE held
    <3>1. managed.state.pending # NoAction => managed.state.phase = "STALE"
      BY <1>3, <1>4, <2>2 DEF IInv, NoOrphanedIntent, Observe, Mutating
    <3>2. PICK tick \in Ticks :
            decision' = Evaluate(managed.state, Position, tick, managed.atr, elapsed)
      BY <1>4, <2>2 DEF Observe
    <3>3. tick \in MarketTicks /\ managed.atr \in BOOLEAN
      BY <1>3, <2>2, <3>2, TicksType DEF Runtimes
    <3>4. Derived(decision'.state)
      BY <1>3, <2>2, <3>1, <3>2, <3>3 DEF Derived, Follows
    <3>5. InUse' = {managed.state, decision'.state}
      BY <1>4, <2>2 DEF Observe, InUse
    <3> QED
      BY <1>1, <1>2, <1>3, <1>4, <2>2, <3>4, <3>5, FlowFrame DEF Observe
  <2> QED
    BY <2>1, <2>2
<1>5. CASE Commit
  <2>1. decision.state \in Known /\ decision.state \in ManagedStates
    BY <1>5 DEF Commit, Known, InUse, IInv, TypeOK
  <2>2. Derived(decision.state)
    BY <2>1, KnownType
  <2>3. \A e \in InUse' : e = decision.state
    BY <1>5 DEF Commit, InUse, Mutating
  <2>4. managed' # managed => managed'.state = decision.state
    BY <1>3, <1>5, <2>1, WithState DEF Commit, DecisionIsCurrent
  <2> QED
    BY <1>1, <1>2, <1>5, <2>2, <2>3, <2>4, FlowFrame DEF Commit
<1>6. CASE Gate
  <2>1. decision.state \in Known
    BY <1>6 DEF Gate, Known, InUse, Mutating
  <2>2. Derived(decision.state)
    BY <2>1, KnownType
  <2>3. \A e \in InUse' : e = decision.state
    BY <1>6 DEF Gate, InUse, Mutating
  <2>4. ASSUME managed' # managed PROVE Derived(managed'.state)
    <3>1. held /\ managed' = WithdrawIntent(managed)
      BY <1>6, <2>4 DEF Gate
    <3>2. managed'.state = [managed.state EXCEPT !.pending = NoAction]
      BY <1>3, <3>1 DEF WithdrawIntent, Runtimes
    <3> QED
      BY <1>3, <3>1, <3>2 DEF Derived, Follows
  <2> QED
    BY <1>1, <1>2, <1>6, <2>2, <2>3, <2>4, FlowFrame DEF Gate
<1> QED
  BY <1>4, <1>5, <1>6

(* The request and its confirmation. *)
LEMMA RequestFlow ==
    ASSUME IInv, NEW s \in Known',
           \/ RequeryUnavailable \/ RequeryRejected \/ RequeryPreconditionFailed
           \/ RequeryAccepted
           \/ Deliver \/ VerifyReflected \/ VerifyUnreflected
    PROVE  Derived(s)
<1>1. \A r \in {managed, image, disk} : r # Untracked => Derived(r.state)
  BY KnownType, KeptIsKnown DEF Kept
<1>2. \A c \in Callers : caller[c].image # Untracked => Derived(caller[c].image.state)
  BY KnownType, KeptIsKnown DEF Kept
<1>3. ASSUME pc \in Mutating PROVE decision.state \in Known /\ Derived(decision.state)
  <2>1. decision.state \in Known
    BY <1>3 DEF Known, InUse, Mutating
  <2> QED
    BY <2>1, KnownType
<1>4. CASE RequeryAccepted \/ Deliver
  <2>1. /\ pc \in Mutating /\ pc' \in Mutating
        /\ UNCHANGED <<managed, image, disk, caller, decision>>
    BY <1>4 DEF RequeryAccepted, Deliver, SendExecuted, SendNotExecuted, Mutating
  <2>2. \A e \in InUse' : e = decision.state
    BY <2>1 DEF InUse, Mutating
  <2> QED
    BY <1>1, <1>2, <1>3, <2>1, <2>2, FlowFrame
<1>5. CASE ~(RequeryAccepted \/ Deliver)
  <2>1. PICK answer \in Confirmations :
          pc \in Mutating /\ Confirm(answer.status, answer.sl, answer.tp)
    BY <1>5, ConfirmedBy
  <2>2. [status |-> answer.status, sl |-> answer.sl, tp |-> answer.tp] = answer
    BY DEF Confirmations
  <2>3. /\ managed' = IF held
                      THEN [managed EXCEPT !.state =
                              ApplyConfirmation(decision.state, answer)]
                      ELSE managed
        /\ UNCHANGED <<image, disk, caller>> /\ pc' = "collect"
    BY <2>1, <2>2 DEF Confirm
  <2>4. /\ decision.state \in ManagedStates
        /\ decision.state.pending # NoAction /\ decision.state.phase \in Active
    BY <2>1 DEF IInv, TypeOK, DecisionIsSound, Proposed, Recorded
  <2>5. ApplyConfirmation(decision.state, answer) \in ManagedStates
    BY <2>4, ConfirmationSettles
  <2>6. held => managed'.state = ApplyConfirmation(decision.state, answer)
    BY <2>3, <2>5, WithState DEF IInv, TypeOK, HeldIsTracked
  <2>7. Derived(ApplyConfirmation(decision.state, answer))
    BY <1>3, <2>1, <2>4 DEF Derived, Follows
  <2>8. InUse' = {}
    BY <2>3 DEF InUse, Mutating
  <2> QED
    BY <1>1, <1>2, <2>3, <2>6, <2>7, <2>8, FlowFrame
<1> QED
  BY <1>4, <1>5

(* Saving, and the commands. *)
LEMMA CallerFlow ==
    ASSUME IInv, NEW s \in Known',
           PollCollect \/ PollSave \/ (\E c \in Callers : Command(c) \/ Persist(c))
    PROVE  Derived(s)
<1>1. \A r \in {managed, image, disk} : r # Untracked => Derived(r.state)
  BY KnownType, KeptIsKnown DEF Kept
<1>2. \A c \in Callers : caller[c].image # Untracked => Derived(caller[c].image.state)
  BY KnownType, KeptIsKnown DEF Kept
<1>3. Image(managed) # Untracked => Derived(Image(managed).state)
  BY ImageDerived DEF Image
<1>4. \A e \in InUse : Derived(e)
  BY KnownType DEF Known
<1>5. CASE PollCollect
  <2>1. InUse' = {}
    BY <1>5 DEF PollCollect, InUse, Mutating
  <2> QED
    BY <1>1, <1>2, <1>3, <1>5, <2>1, FlowFrame DEF PollCollect
<1>6. CASE PollSave
  <2>1. InUse' = {}
    BY <1>6 DEF PollSave, InUse, Mutating
  <2>2. disk' \in {disk, image}
    BY <1>6, SaveOutcome DEF PollSave, IInv
  <2> QED
    BY <1>1, <1>2, <1>6, <2>1, <2>2, FlowFrame DEF PollSave
<1>7. ASSUME NEW c \in Callers, Persist(c) PROVE Derived(s)
  <2>1. InUse' = InUse
    BY <1>7 DEF Persist, CallerCollect, CallerSave, InUse, pollVars
  <2>2. \A d \in Callers :
          caller'[d].image \in {caller[d].image, Image(managed), Untracked}
    BY <1>7 DEF Persist, CallerCollect, CallerSave, IInv, TypeOK
  <2>3. /\ UNCHANGED <<managed, image>>
        /\ disk' = disk \/ disk' = caller[c].image
    BY <1>7, SaveOutcome DEF Persist, CallerCollect, CallerSave, pollVars, IInv
  <2> QED
    BY <1>1, <1>2, <1>3, <1>4, <2>1, <2>2, <2>3, FlowFrame
<1>8. ASSUME NEW c \in Callers, Command(c) PROVE Derived(s)
  <2>1. UNCHANGED <<image, disk, pc, observed, decision>>
    BY <1>8 DEF Command, Register, PausePosition, ResumePosition, UnregisterPosition,
       CommandForAnother, Issue
  <2>2. \A d \in Callers : caller'[d].image = caller[d].image
    BY <1>8 DEF Command, Register, PausePosition, ResumePosition, UnregisterPosition,
       CommandForAnother, Issue, IInv, TypeOK
  <2>3. InUse' = InUse
    BY <2>1 DEF InUse
  <2>4. managed # Untracked => managed \in Runtimes /\ managed.state \in ManagedStates
    BY DEF IInv, TypeOK, Runtimes
  <2>5. managed # Untracked => managed.state \in Known
    BY KeptIsKnown DEF Kept
  <2>6. ASSUME managed' # Untracked PROVE Derived(managed'.state)
    <3>1. CASE Register(c)
      <4>1. ASSUME NEW atr \in AtrKnown, managed' = Registration(atr)
            PROVE  Derived(managed'.state)
        BY <3>1, <4>1 DEF Register, Registration, Derived, Registered
      <4>2. ASSUME NEW atr \in AtrKnown, managed # Untracked,
                   managed' = [managed EXCEPT !.atr = atr \/ managed.atr]
            PROVE  Derived(managed'.state)
        <5>1. managed'.state = managed.state
          BY <2>4, <4>2 DEF Runtimes
        <5> QED
          BY <1>1, <4>2, <5>1
      <4> QED
        BY <3>1, <4>1, <4>2 DEF Register
    <3>2. CASE PausePosition(c)
      <4>1. managed' # Untracked /\ managed'.state = Pause(managed.state)
        BY <2>4, <3>2, CommandType, WithState DEF PausePosition
      <4> QED
        BY <2>5, <3>2, <4>1 DEF PausePosition, Issue, Derived, Follows
    <3>3. CASE ResumePosition(c)
      <4>1. managed'.state = Resume(managed.state)
        BY <2>4, <3>3, CommandType, WithState DEF ResumePosition
      <4> QED
        BY <2>5, <3>3, <4>1 DEF ResumePosition, Issue, Derived, Follows
    <3>4. CASE UnregisterPosition(c)
      BY <2>6, <3>4 DEF UnregisterPosition
    <3>5. CASE CommandForAnother(c)
      BY <1>1, <2>6, <3>5 DEF CommandForAnother
    <3> QED
      BY <1>8, <3>1, <3>2, <3>3, <3>4, <3>5 DEF Command
  <2> QED
    BY <1>1, <1>2, <1>4, <2>1, <2>2, <2>3, <2>6, FlowFrame
<1> QED
  BY <1>5, <1>6, <1>7, <1>8

(* No step invents a state. *)
LEMMA Flow ==
    ASSUME IInv, [Next]_vars, NEW s \in Known'
    PROVE  Derived(s)
<1>1. CASE Poll
  BY <1>1, ReadFlow, DecideFlow, RequestFlow, CallerFlow DEF Poll
<1>2. CASE \E c \in Callers : Command(c) \/ Persist(c)
  BY <1>2, CallerFlow
<1>3. CASE Restart
  <2>1. \A e \in Known' : disk # Untracked /\ e = disk.state
    BY <1>3 DEF Restart, Known, Kept, InUse, Mutating
  <2> QED
    BY <2>1, KnownType, KeptIsKnown DEF Kept
<1>4. CASE OrderFilled \/ PositionClosed \/ UserEdit \/ LinkChange
  <2>1. Known' = Known
    BY <1>4 DEF OrderFilled, PositionClosed, UserEdit, LinkChange, Environment, pollVars,
       Known, Kept, InUse
  <2> QED
    BY <2>1, KnownType
<1>5. CASE UNCHANGED vars
  <2>1. Known' = Known
    BY <1>5 DEF vars, pollVars, Known, Kept, InUse
  <2> QED
    BY <2>1, KnownType
<1> QED
  BY <1>1, <1>2, <1>3, <1>4, <1>5 DEF Next, Outside

-----------------------------------------------------------------------------
(* The steps between the account's snapshot and the runtimes it is compared *)
(* with.                                                                   *)
Opening == {"load", "restore", "select"}

(* Who writes what, in a step.                                             *)
OutsideFrame ==
    /\ order' = order
    /\ ~Outages => link' = link
    /\ \/ broker'.status = broker.status
       \/ broker.status = "none" /\ broker'.status = "open"
       \/ broker.status = "open" /\ broker'.status = "closed"
    /\ broker'.entry \in {broker.entry} \cup UserEntries

ReadingFrame ==
    /\ pc' = "commit" =>
         \/ \E elapsed \in BOOLEAN : Observe(elapsed) /\ held
         \/ UNCHANGED <<pc, observed, decision>>
    /\ pc' = "outage" =>
         \/ PollOutage
         \/ UNCHANGED <<pc, observed, managed, held>>
         \/ \E c \in Callers : Command(c)

SnapshotFrame ==
    /\ snapshot' # snapshot =>
         PollSnapshot \/ (snapshot' = NoSnapshot /\ pc' \in {"idle", "save"})
    /\ pc' \in Opening => PollSnapshot \/ pc \in Opening
    /\ pc' = "observe" => UNCHANGED snapshot /\ (snapshot.exists \/ pc = "observe")

MemoryFrame ==
    managed' # managed =>
        \/ MarkAllStale \/ Commit \/ RestoreStates
        \/ pc \in Mutating /\ held
        \/ ActivateAccount \/ (SelectRuntime /\ ~snapshot.exists) \/ Restart
        \/ \E c \in Callers : Command(c)

(* The file, its images and the account change where they are read and      *)
(* saved, and between a snapshot and a save the poll leaves them alone.    *)
FileFrame ==
    \/ ActivateAccount \/ LoadState \/ LoadFails \/ RestoreStates
    \/ PollCollect \/ PollSave \/ Restart
    \/ \E c \in Callers : Persist(c)
    \/ (\E c \in Callers : Command(c)) /\ UNCHANGED <<pc, active, image, disk, store>>
    \/ /\ UNCHANGED <<active, image, disk, store, caller>>
       /\ \/ UNCHANGED <<pc, managed>>
          \/ PollSnapshot
          \/ {pc, pc'} \cap {"load", "restore", "save"} = {} /\ pc' # "idle"

(* The one place where the whole next-state relation is unfolded for the    *)
(* proofs below.                                                           *)
LEMMA StepFrame ==
    ASSUME IInv, [Next]_vars
    PROVE  OutsideFrame /\ ReadingFrame /\ SnapshotFrame /\ MemoryFrame /\ FileFrame
<1> USE DEF vars, pollVars, Next, Poll, PollOutage, MarkAllStale, PollSnapshot,
            ActivateAccount, LoadState, LoadFails, RestoreStates, SelectRuntime, Observe,
            Commit, Gate, RequeryUnavailable, RequeryRejected, RequeryPreconditionFailed,
            RequeryAccepted, Confirm, Deliver, SendExecuted, SendNotExecuted,
            VerifyReflected, VerifyUnreflected, PollCollect, PollSave,
            Outside, OrderFilled, PositionClosed, UserEdit, LinkChange, Environment,
            Restart, Command, Issue, Register, PausePosition, ResumePosition,
            UnregisterPosition, CommandForAnother, Persist, CallerCollect, CallerSave
<1>1. OutsideFrame
  BY DEF IInv, TypeOK, OutsideFrame
<1>2. ReadingFrame
  BY DEF ReadingFrame
<1>3. SnapshotFrame
  BY DEF SnapshotFrame, Opening
<1>4. MemoryFrame
  BY DEF MemoryFrame, Mutating
<1>5. FileFrame
  <2>1. \/ ActivateAccount \/ LoadState \/ LoadFails \/ RestoreStates
        \/ PollCollect \/ PollSave \/ Restart
        \/ \E c \in Callers : Command(c) \/ Persist(c)
        \/ /\ UNCHANGED <<active, image, disk, store, caller>>
           /\ \/ UNCHANGED <<pc, managed>>
              \/ PollSnapshot
              \/ {pc, pc'} \cap {"load", "restore", "save"} = {} /\ pc' # "idle"
    OBVIOUS
  <2>2. \A c \in Callers : Command(c) => UNCHANGED <<pc, active, image, disk, store>>
    OBVIOUS
  <2> QED
    BY ONLY <2>1, <2>2 DEF FileFrame
<1> QED
  BY <1>1, <1>2, <1>3, <1>4, <1>5

-----------------------------------------------------------------------------
(* What every state keeps                                                  *)

Identity(s) == <<s.side, s.entry>>

Open(s) == {s.phase, s.resume} \cap Ended = {}

(* The phases a runtime that has used its retries up may be in: when no     *)
(* command resumes, a pause is as final as an error.                       *)
SpentPhases == IF "resume" \in Commands THEN {"ERROR_NON_RETRYABLE"} ELSE Stopped

WithinBudget(s) == s.retries > MaxRetries => EffectivePhase(s) \in SpentPhases

(* A pause that may be taken back is not issued for a runtime whose retries *)
(* are spent: an outage before it, or after it, would make the runtime      *)
(* forget that they are (ManagedPosition_spent_retry.cfg).                 *)
NoSpentPause ==
    "resume" \in Commands /\ managed # Untracked /\ managed.state.retries > MaxRetries
        => managed.state.phase # "PAUSED"

(* Every change keeps the identity, stays out of the closed phases and      *)
(* leaves no intent where management has stopped.                          *)
LEMMA FollowsKeeps ==
    ASSUME IInv, NEW known \in ManagedStates, Settled(known),
           NEW s, Follows(known, s)
    PROVE  /\ Identity(s) = Identity(known)
           /\ Open(known) => Open(s)
           /\ Settled(s)
           /\ NoSpentPause' /\ WithinBudget(known) => WithinBudget(s)
<1> DEFINE Keeps == /\ Identity(s) = Identity(known)
                    /\ Open(known) => Open(s)
                    /\ Settled(s)
                    /\ NoSpentPause' /\ WithinBudget(known) => WithinBudget(s)
<1>1. CASE s = known
  BY <1>1
<1>2. CASE s = [known EXCEPT !.backoff = FALSE] \/ s = [known EXCEPT !.pending = NoAction]
  BY <1>2 DEF ManagedStates, Identity, Open, Settled, EffectivePhase, WithinBudget
<1>3. CASE /\ known.pending # NoAction
           /\ s = [known EXCEPT !.phase = "STALE", !.resume = known.pending.source]
  <2>1. known.pending.source \in Active /\ EffectivePhase(known) \notin Stopped
    BY <1>3 DEF ManagedStates, Actions, Settled
  <2>2. /\ Identity(s) = Identity(known) /\ s.retries = known.retries
        /\ s.phase = "STALE" /\ s.resume \in Active
    BY <1>3, <2>1 DEF ManagedStates, Identity
  <2> QED
    BY <2>1, <2>2 DEF Open, Ended, Settled, EffectivePhase, Stopped, Active,
       WithinBudget, SpentPhases
<1>4. CASE s = MarkStale(known)
  <2>1. /\ Identity(s) = Identity(known) /\ s.retries = known.retries
        /\ s.pending = known.pending
        /\ EffectivePhase(s) = EffectivePhase(known)
        /\ Open(known) => Open(s)
    BY <1>4 DEF MarkStale, ManagedStates, Identity, EffectivePhase, Open, Ended
  <2> QED
    BY <2>1 DEF Settled, WithinBudget
<1>5. ASSUME known.pending # NoAction => known.phase = "STALE",
             NEW tick \in MarketTicks, NEW atr \in BOOLEAN, NEW elapsed \in BOOLEAN,
             s = Evaluate(known, Position, tick, atr, elapsed).state
      PROVE  Keeps
  <2>1. /\ s.side = known.side /\ s.entry = known.entry
        /\ s.retries \in {known.retries, 0}
        /\ Open(known) => Open(s)
        /\ Settled(s)
        /\ EffectivePhase(known) \in Stopped => EffectivePhase(s) \in Stopped
        /\ EffectivePhase(known) = "ERROR_NON_RETRYABLE" =>
             EffectivePhase(s) = "ERROR_NON_RETRYABLE"
    BY <1>5, PositionType, EvaluateKeeps DEF Open
  <2> QED
    BY <2>1, SettingsAssumption DEF Identity, WithinBudget, SpentPhases
<1>6. ASSUME known.pending # NoAction, known.phase \in Active,
             NEW c \in Confirmations, s = ApplyConfirmation(known, c)
      PROVE  Keeps
  <2>1. /\ s.side = known.side /\ s.entry = known.entry
        /\ \/ s.retries \in {known.retries, 0} \cup 0..MaxRetries
           \/ s.phase = "ERROR_NON_RETRYABLE"
        /\ Open(s) /\ Settled(s)
    BY <1>6, ConfirmationKeeps DEF Open
  <2>2. EffectivePhase(known) \notin Stopped
    BY <1>6 DEF EffectivePhase, Stopped, Active
  <2>3. WithinBudget(known) => WithinBudget(s)
    BY <2>1, <2>2, SettingsAssumption DEF WithinBudget, SpentPhases, EffectivePhase,
       Stopped, ManagedStates
  <2> QED
    BY <2>1, <2>3 DEF Identity
<1>7. CASE /\ CanPause(known) /\ s = Pause(known)
           /\ managed' # Untracked /\ s = managed'.state
  <2>1. s = known \/ s = [known EXCEPT !.phase = "PAUSED", !.resume = known.phase]
    BY <1>7 DEF Pause
  <2>2. known.pending = NoAction \/ s = known
    BY <1>7 DEF CanPause, Pause
  <2>3. CASE known.pending = NoAction /\
             s = [known EXCEPT !.phase = "PAUSED", !.resume = known.phase]
    <3>1. /\ Identity(s) = Identity(known) /\ s.retries = known.retries
          /\ s.phase = "PAUSED" /\ s.pending = NoAction
          /\ Open(known) => Open(s)
      BY <2>3 DEF ManagedStates, Identity, Open, Ended
    <3>2. NoSpentPause' => WithinBudget(s)
      BY <1>7, <3>1 DEF NoSpentPause, WithinBudget, SpentPhases, EffectivePhase, Stopped
    <3> QED
      BY <3>1, <3>2 DEF Settled
  <2> QED
    BY <1>1, <2>1, <2>2, <2>3
<1>8. CASE "resume" \in Commands /\ s = Resume(known)
  <2>1. CASE known.phase # "PAUSED"
    BY <1>1, <1>8, <2>1 DEF Resume
  <2>2. CASE known.phase = "PAUSED"
    <3>1. s = [known EXCEPT !.phase = Or(known.resume, "WAITING_BE"),
                            !.resume = NoPhase]
      BY <1>8, <2>2 DEF Resume
    <3>2. known.pending = NoAction /\ EffectivePhase(known) = "PAUSED"
      BY <2>2 DEF Settled, EffectivePhase, Stopped
    <3>3. /\ Identity(s) = Identity(known) /\ s.retries = known.retries
          /\ s.pending = NoAction
          /\ Open(known) => Open(s)
      BY <3>1, <3>2 DEF ManagedStates, Identity, Open, Ended, Or, NoPhase
    <3> QED
      BY <1>8, <3>2, <3>3 DEF Settled, WithinBudget, SpentPhases
  <2> QED
    BY <2>1, <2>2
<1> HIDE DEF Keeps
<1>9. Keeps
  BY <1>1, <1>2, <1>3, <1>4, <1>5, <1>6, <1>7, <1>8 DEF Keeps, Follows
<1> QED
  BY <1>9 DEF Keeps

(* A new registration starts from the broker's entry, with nothing pending. *)
LEMMA RegisteredKeeps ==
    ASSUME IInv, NEW s, Registered(s)
    PROVE  /\ Identity(s) = <<order.side, broker.entry>>
           /\ Open(s) /\ Settled(s) /\ WithinBudget(s)
<1>1. /\ s.side = order.side /\ s.entry = broker.entry
      /\ s.phase = "WAITING_BE" /\ s.resume = NoPhase
      /\ s.pending = NoAction /\ s.retries = 0
  BY PositionAssumption DEF Registered, StartManagement, IInv, TypeOK
<1> QED
  BY <1>1, SettingsAssumption DEF Identity, Open, Ended, NoPhase, Settled, WithinBudget

(* Every state, wherever it is kept: it manages the order's side, it is not *)
(* CLOSED or UNMANAGED (a closed position is dropped, not kept as closed),  *)
(* and it has no intent if management has stopped.                         *)
StatesAreSettled ==
    \A s \in Known : s.side = order.side /\ Open(s) /\ Settled(s)

(* No step changes that. *)
LEMMA NextSettled ==
    ASSUME IInv, StatesAreSettled, [Next]_vars PROVE StatesAreSettled'
<1> SUFFICES ASSUME NEW s \in Known'
             PROVE  s.side = order.side /\ Open(s) /\ Settled(s)
  <2>1. order' = order
    BY StepFrame DEF OutsideFrame
  <2> QED
    BY <2>1 DEF StatesAreSettled
<1>1. Derived(s)
  BY Flow
<1>2. CASE Registered(s)
  BY <1>2, RegisteredKeeps DEF Identity
<1>3. ASSUME NEW known \in Known, Follows(known, s)
      PROVE  s.side = order.side /\ Open(s) /\ Settled(s)
  <2>1. known \in ManagedStates
    BY KnownType
  <2> QED
    BY <1>3, <2>1, FollowsKeeps DEF StatesAreSettled, Identity
<1> QED
  BY <1>1, <1>2, <1>3 DEF Derived

(* At the start only the file may know a state: that of a registration. *)
LEMMA InitKnown ==
    ASSUME Init, NEW s \in Known
    PROVE  IInv /\ Registered(s)
<1>1. PICK atr \in AtrKnown : s = Registration(atr).state /\ Preopened
  BY DEF Init, Known, Kept, InUse, Mutating
<1>2. broker.status = "open"
  BY <1>1 DEF Init
<1>3. Registered(s)
  BY <1>1, <1>2 DEF Registration, Registered
<1> QED
  BY <1>3, InitIInv

(* What every state keeps, in every reachable state of the service. *)
LEMMA Settledness == Spec => []StatesAreSettled
<1>1. Init => StatesAreSettled
  BY InitKnown, RegisteredKeeps DEF StatesAreSettled, Identity
<1>2. IInv /\ StatesAreSettled /\ [Next]_vars => StatesAreSettled'
  BY NextSettled
<1> QED
  BY <1>1, <1>2, Invariance, PTL DEF Spec

-----------------------------------------------------------------------------
(* The retry budget *)

StatesAreWithinBudget == \A s \in Known : WithinBudget(s)

(* No request is sent once its retries are spent, as long as no spent       *)
(* runtime is paused: neither a confirmation that never comes, nor a        *)
(* restart, nor an outage makes the service forget how often it has tried. *)
THEOREM RetriesAreBounded ==
    Spec /\ []NoSpentPause => []RetryBudget
<1>1. Init => StatesAreWithinBudget
  BY InitKnown, RegisteredKeeps DEF StatesAreWithinBudget
<1>2. IInv /\ StatesAreSettled /\ StatesAreWithinBudget /\ [Next]_vars /\ NoSpentPause'
        => StatesAreWithinBudget'
  <2> SUFFICES ASSUME IInv, StatesAreSettled, StatesAreWithinBudget, [Next]_vars,
                      NoSpentPause', NEW s \in Known'
               PROVE  WithinBudget(s)
    BY DEF StatesAreWithinBudget, WithinBudget, SpentPhases
  <2>1. Derived(s)
    BY Flow
  <2>2. ASSUME NEW known \in Known, Follows(known, s) PROVE WithinBudget(s)
    BY <2>2, KnownType, FollowsKeeps
       DEF StatesAreSettled, StatesAreWithinBudget
  <2> QED
    BY <2>1, <2>2, RegisteredKeeps DEF Derived
<1>3. IInv /\ StatesAreWithinBudget => RetryBudget
  <2> SUFFICES ASSUME IInv, StatesAreWithinBudget, pc = "send"
               PROVE  decision.state.retries <= MaxRetries
    BY DEF RetryBudget
  <2>1. decision.state \in Known /\ decision.state \in ManagedStates
    BY DEF Known, InUse, Mutating, IInv, TypeOK
  <2>2. decision.state.phase \in Active
    BY DEF IInv, DecisionIsSound, Proposed, Mutating, Recorded
  <2> QED
    BY <2>1, <2>2, SettingsAssumption DEF StatesAreWithinBudget, WithinBudget,
       EffectivePhase, SpentPhases, Stopped, Active, ManagedStates
<1> QED
  BY <1>1, <1>2, <1>3, Invariance, Settledness, PTL DEF Spec

-----------------------------------------------------------------------------
(* Management that has stopped                                             *)

(* An outage is noticed in one step and recorded in another, from what the  *)
(* first one read.  No thread is between a command and the end of its save  *)
(* in between: the race the run lost_pause shows.                          *)
QuietOutage == pc = "outage" => \A c \in Callers : caller[c].step = "idle"

(* What was decided of a stopped runtime leaves it stopped.                 *)
DecisionKeepsStopped ==
    pc = "commit" /\ EffectivePhase(observed) \in Stopped =>
        EffectivePhase(decision.state) \in Stopped

(* The runtime an outage is recorded in is then the one it read.           *)
OutageIsCurrent == pc = "outage" /\ held => managed.state = observed

(* What the evaluation may do to the state it reads. *)
LEMMA ObserveKeeps ==
    ASSUME IInv, StatesAreSettled, NEW elapsed \in BOOLEAN, Observe(elapsed), held
    PROVE  /\ observed' = managed.state /\ managed.state.side = order.side
           /\ EffectivePhase(observed') \in Stopped =>
                EffectivePhase(decision'.state) \in Stopped
           /\ EffectivePhase(observed') = "PAUSED" /\ snapshot.entry = managed.state.entry
                => EffectivePhase(decision'.state) = "PAUSED"
<1>1. managed \in Runtimes /\ managed # Untracked /\ managed.state \in ManagedStates
  BY DEF IInv, TypeOK, HeldIsTracked, Runtimes
<1>2. managed.state \in Known
  BY <1>1, KeptIsKnown DEF Kept
<1>3. Settled(managed.state) /\ managed.state.side = order.side
  BY <1>2 DEF StatesAreSettled
<1>4. managed.state.pending # NoAction => managed.state.phase = "STALE"
  BY <1>1 DEF IInv, NoOrphanedIntent, Observe, Mutating
<1>5. observed' = managed.state
  BY DEF Observe
<1>6. PICK tick \in MarketTicks :
        decision' = Evaluate(managed.state, Position, tick, managed.atr, elapsed)
  BY TicksType DEF Observe
<1>7. snapshot.entry = managed.state.entry => ~IdentityError(managed.state, Position)
  BY <1>3, PositionType DEF IdentityError, Position
<1> QED
  BY <1>1, <1>3, <1>4, <1>5, <1>6, <1>7, PositionType, EvaluateKeeps

(* A decision is only ever made from the state it was read from. *)
LEMMA NextStopped ==
    ASSUME IInv, StatesAreSettled, DecisionKeepsStopped, [Next]_vars
    PROVE  DecisionKeepsStopped'
  BY StepFrame, ObserveKeeps DEF ReadingFrame, DecisionKeepsStopped

(* A command is a step of its caller. *)
LEMMA CommandMoves ==
    ASSUME IInv, NEW c \in Callers, Command(c)
    PROVE  caller' # caller /\ caller'[c].step = "collect"
  BY DEF Command, Register, PausePosition, ResumePosition, UnregisterPosition,
     CommandForAnother, Issue, IInv, TypeOK

(* Between noticing an outage and recording it only a caller moves.         *)
LEMMA NextOutage ==
    ASSUME IInv, OutageIsCurrent, [Next]_vars, QuietOutage'
    PROVE  OutageIsCurrent'
<1> SUFFICES ASSUME pc' = "outage", held' PROVE managed'.state = observed'
  BY DEF OutageIsCurrent
<1>1. ~\E c \in Callers : Command(c)
  BY CommandMoves DEF QuietOutage
<1>2. CASE PollOutage
  BY <1>2 DEF PollOutage
<1>3. CASE UNCHANGED <<pc, observed, managed, held>>
  BY <1>3 DEF OutageIsCurrent
<1> QED
  BY <1>1, <1>2, <1>3, StepFrame DEF ReadingFrame

(* A runtime whose management has stopped, by the user or by a hard error,  *)
(* is not taken up again by the service itself: it is dropped, or it stays  *)
(* stopped, STALE or not, until a command says otherwise; provided no       *)
(* command falls between an outage noticed and recorded.                   *)
THEOREM NothingRevivesItself ==
    Spec /\ []QuietOutage => NeverSelfRevives
<1> DEFINE Step == caller' = caller /\ pc # "restore" /\ Dormant(managed)
                     => managed' = Untracked \/ Dormant(managed')
<1>1. Init => DecisionKeepsStopped /\ OutageIsCurrent
  BY DEF Init, DecisionKeepsStopped, OutageIsCurrent
<1>2. IInv /\ StatesAreSettled /\ DecisionKeepsStopped /\ [Next]_vars
        => DecisionKeepsStopped'
  BY NextStopped
<1>3. IInv /\ OutageIsCurrent /\ [Next]_vars /\ QuietOutage' => OutageIsCurrent'
  BY NextOutage
<1>4. IInv /\ DecisionKeepsStopped /\ OutageIsCurrent /\ [Next]_vars => [Step]_vars
  <2> SUFFICES ASSUME IInv, DecisionKeepsStopped, OutageIsCurrent, [Next]_vars,
                      caller' = caller, pc # "restore", Dormant(managed),
                      managed' # Untracked
               PROVE  Dormant(managed')
    OBVIOUS
  <2>1. managed \in Runtimes /\ EffectivePhase(managed.state) \in Stopped
    BY DEF IInv, TypeOK, Dormant, Stopped
  <2>2. CASE managed' = managed
    BY <2>2
  <2>3. CASE MarkAllStale
    <3>1. CASE held
      <4>1. managed.state = observed
        BY <2>3, <3>1 DEF MarkAllStale, OutageIsCurrent
      <4>2. managed'.state = MarkStale(managed.state)
        BY <2>1, <2>3, <3>1, <4>1, MarkStaleType, WithState
           DEF MarkAllStale, Runtimes
      <4>3. EffectivePhase(MarkStale(managed.state)) = EffectivePhase(managed.state)
        BY <2>1 DEF MarkStale, EffectivePhase, Runtimes, ManagedStates
      <4> QED
        BY <2>1, <4>2, <4>3 DEF Dormant, Stopped
    <3> QED
      BY <2>2, <2>3, <3>1 DEF MarkAllStale
  <2>4. CASE Commit
    <3>1. CASE DecisionIsCurrent
      <4>1. managed'.state = decision.state
        <5>1. decision.state \in ManagedStates
          BY DEF IInv, TypeOK
        <5>2. managed' = [managed EXCEPT !.state = decision.state]
          BY <2>4, <3>1 DEF Commit
        <5> QED
          BY <2>1, <5>1, <5>2, WithState
      <4>2. EffectivePhase(decision.state) \in Stopped
        BY <2>1, <2>4, <3>1 DEF Commit, DecisionIsCurrent, DecisionKeepsStopped
      <4> QED
        BY <4>1, <4>2 DEF Dormant, Stopped
    <3> QED
      BY <2>2, <2>4, <3>1 DEF Commit
  <2>5. CASE pc \in Mutating /\ held
    <3>1. managed.state.phase \in Active
      BY <2>5 DEF IInv, InFlightIsCurrent, DecisionIsSound, Proposed, Recorded
    <3> QED
      BY <2>1, <3>1 DEF EffectivePhase, Stopped, Active
  <2>6. CASE \E c \in Callers : Command(c)
    BY <2>6, CommandMoves
  <2>7. CASE ActivateAccount \/ SelectRuntime \/ Restart
    BY <2>2, <2>7 DEF ActivateAccount, SelectRuntime, Restart
  <2>8. ~RestoreStates
    BY DEF RestoreStates
  <2> QED
    BY <2>2, <2>3, <2>4, <2>5, <2>6, <2>7, <2>8, StepFrame DEF MemoryFrame
<1>5. Spec /\ []QuietOutage => [][Step]_vars
  BY <1>1, <1>2, <1>3, <1>4, Invariance, Settledness, PTL DEF Spec
<1> QED
  BY <1>5 DEF NeverSelfRevives

-----------------------------------------------------------------------------
(* Tracked until closed *)

(* A runtime is only dropped by activation, by a snapshot without the       *)
(* position, by a command, or by a restart.                                *)
LEMMA DropFrame ==
    ASSUME IInv, [Next]_vars, managed # Untracked, managed' = Untracked
    PROVE  \/ ActivateAccount \/ (SelectRuntime /\ ~snapshot.exists) \/ Restart
           \/ \E c \in Callers : Command(c)
<1>1. managed \in Runtimes
  BY DEF IInv, TypeOK
<1>2. ~MarkAllStale
  <2>1. MarkStale(observed) \in ManagedStates
    BY MarkStaleType DEF IInv, TypeOK
  <2> QED
    BY <1>1, <2>1, WithState DEF MarkAllStale
<1>3. ~Commit
  <2>1. decision.state \in ManagedStates
    BY DEF IInv, TypeOK
  <2> QED
    BY <1>1, <2>1, WithState DEF Commit
<1>4. ~RestoreStates
  BY DEF RestoreStates, Updated
<1>5. ASSUME pc \in Mutating, held, ~Restart, ~\E c \in Callers : Command(c)
      PROVE  FALSE
  <2>1. held'
    <3>1. CASE Gate
      BY <1>5, <3>1 DEF Gate
    <3>2. CASE RequeryAccepted \/ Deliver
      BY <1>5, <3>2 DEF RequeryAccepted, Deliver, SendExecuted, SendNotExecuted
    <3>3. CASE \/ RequeryUnavailable \/ RequeryRejected \/ RequeryPreconditionFailed
               \/ VerifyReflected \/ VerifyUnreflected
      <4>1. PICK answer \in Confirmations :
              Confirm(answer.status, answer.sl, answer.tp)
        BY <3>3, ConfirmedBy
      <4> QED
        BY <1>5, <4>1 DEF Confirm
    <3>4. CASE ~Poll
      <4>1. \/ UNCHANGED vars
            \/ OrderFilled \/ PositionClosed \/ UserEdit \/ LinkChange
            \/ \E c \in Callers : Persist(c)
        BY <1>5, <3>4 DEF Next, Outside
      <4>2. UNCHANGED held
        BY <4>1 DEF vars, pollVars, OrderFilled, PositionClosed, UserEdit, LinkChange,
           Environment, Persist, CallerCollect, CallerSave
      <4> QED
        BY <1>5, <4>2
    <3> QED
      BY <1>5, <3>1, <3>2, <3>3, <3>4 DEF Poll, Mutating, PollOutage, MarkAllStale,
         PollSnapshot, ActivateAccount, LoadState, LoadFails, RestoreStates,
         SelectRuntime, Observe, Commit, PollCollect, PollSave
  <2> QED
    BY <2>1, NextIInv DEF IInv, HeldIsTracked
<1> QED
  BY <1>2, <1>3, <1>4, <1>5, StepFrame DEF MemoryFrame

(* A position the snapshot does not show has been closed, provided it was   *)
(* open before the process started.                                        *)
AbsentIsClosed ==
    Preopened => /\ broker.status # "none"
                 /\ pc \in Opening /\ ~snapshot.exists => broker.status = "closed"

(* The field of a record is what was put there, a formula too. *)
LEMMA ShownField ==
    \A a, b, c, d, e :
        [exists |-> a, entry |-> b, sl |-> c, tp |-> d, allowed |-> e].exists = a
  OBVIOUS

(* A position stays closed, and a snapshot is used in the order it is taken. *)
LEMMA NextAbsent ==
    ASSUME IInv, AbsentIsClosed, [Next]_vars
    PROVE  AbsentIsClosed'
<1> SUFFICES ASSUME Preopened
             PROVE  /\ broker'.status # "none"
                    /\ pc' \in Opening /\ ~snapshot'.exists => broker'.status = "closed"
  BY DEF AbsentIsClosed
<1>1. broker.status \in {"open", "closed"} /\ broker'.status \in {"open", "closed"}
  BY StepFrame DEF OutsideFrame, AbsentIsClosed, IInv, TypeOK
<1>2. ASSUME pc' \in Opening, ~snapshot'.exists
      PROVE  broker'.status = "closed"
  <2>1. CASE PollSnapshot
    <3>1. broker' = broker /\ snapshot'.exists = (broker.status = "open")
      <4>1. PICK allowed \in Permissions :
              snapshot' = [exists |-> broker.status = "open", entry |-> broker.entry,
                           sl |-> broker.sl, tp |-> broker.tp, allowed |-> allowed]
        BY <2>1, Zenon DEF PollSnapshot
      <4>2. broker' = broker
        BY <2>1 DEF PollSnapshot
      <4> QED
        BY <4>1, <4>2, ShownField, Zenon
    <3>2. broker.status # "open"
      BY <1>2, <3>1, Zenon
    <3> QED
      BY <1>1, <3>1, <3>2
  <2>2. CASE ~PollSnapshot
    <3>1. pc \in Opening /\ snapshot' = snapshot
      BY <1>2, <2>2, StepFrame DEF SnapshotFrame, Opening
    <3> QED
      BY <1>2, <3>1, StepFrame DEF OutsideFrame, AbsentIsClosed
  <2> QED
    BY <2>1, <2>2
<1> QED
  BY <1>1, <1>2

(* The absence of a position means that in every reachable state. *)
LEMMA Absence == Spec => []AbsentIsClosed
<1>1. Init => AbsentIsClosed
  BY DEF Init, AbsentIsClosed, Opening
<1> QED
  BY <1>1, NextAbsent, Invariance, PTL DEF Spec

(* No order is filled between a snapshot and the comparison of the runtimes *)
(* with it: the race ManagedPosition_late_registration.cfg shows.  For a    *)
(* position that was open before the process started it is Absence.        *)
NoFillUnseen == pc \in Opening /\ ~snapshot.exists => broker.status # "open"

(* Nothing is known of an order that is not filled yet. *)
UnfilledIsUnknown == broker.status = "none" => Known = {}

(* What is known of it later was known, or is registered when it is filled. *)
LEMMA NextUnfilled ==
    ASSUME IInv, UnfilledIsUnknown, [Next]_vars
    PROVE  UnfilledIsUnknown'
<1> SUFFICES ASSUME broker'.status = "none", NEW s \in Known' PROVE FALSE
  BY DEF UnfilledIsUnknown
<1>1. broker.status = "none"
  BY StepFrame DEF OutsideFrame
<1>2. Derived(s)
  BY Flow
<1> QED
  BY <1>1, <1>2 DEF UnfilledIsUnknown, Derived, Registered

(* The service drops a position from its tracking only when it is closed or *)
(* when the user asks, provided no order is filled, and registered, between *)
(* a snapshot and its use.                                                 *)
THEOREM TrackedTillClosed ==
    Spec /\ []NoFillUnseen => TrackedUntilClosed
<1> DEFINE Step == active /\ active' /\ caller' = caller
                     => (managed # Untracked /\ managed' = Untracked
                           => broker.status = "closed")
<1>1. Init => UnfilledIsUnknown
  BY InitKnown DEF UnfilledIsUnknown, Registered
<1>2. IInv /\ UnfilledIsUnknown /\ NoFillUnseen /\ [Next]_vars => [Step]_vars
  <2> SUFFICES ASSUME IInv, UnfilledIsUnknown, NoFillUnseen, [Next]_vars, active,
                      active', caller' = caller, managed # Untracked,
                      managed' = Untracked
               PROVE  broker.status = "closed"
    OBVIOUS
  <2>1. ~ActivateAccount /\ ~Restart
    BY DEF ActivateAccount, Restart
  <2>2. ~\E c \in Callers : Command(c)
    BY CommandMoves
  <2>3. pc = "select" /\ ~snapshot.exists
    BY <2>1, <2>2, DropFrame DEF SelectRuntime
  <2>4. broker.status # "none"
    BY KeptIsKnown DEF UnfilledIsUnknown, Kept
  <2> QED
    BY <2>3, <2>4 DEF NoFillUnseen, Opening, IInv, TypeOK
<1>3. Spec /\ []NoFillUnseen => [][Step]_vars
  BY <1>1, <1>2, NextUnfilled, Invariance, PTL DEF Spec
<1> QED
  BY <1>3 DEF TrackedUntilClosed

-----------------------------------------------------------------------------
(* The entry, and a pause that survives *)

EntryIsFixed == UserEntries = {}

(* While no netting deal moves the average entry, every state, the broker   *)
(* and the snapshot agree on it.                                           *)
EntriesAgree ==
    /\ broker.entry = order.entry
    /\ snapshot.exists => snapshot.entry = order.entry
    /\ pc = "observe" => snapshot.exists
    /\ \A s \in Known : s.entry = order.entry

(* What derives from states that agree agrees. *)
LEMMA NextEntries ==
    ASSUME EntryIsFixed, IInv, StatesAreSettled, EntriesAgree, [Next]_vars
    PROVE  EntriesAgree'
<1>1. broker'.entry = order'.entry
  BY StepFrame DEF OutsideFrame, EntryIsFixed, EntriesAgree
<1>2. /\ snapshot'.exists => snapshot'.entry = order'.entry
      /\ pc' = "observe" => snapshot'.exists
  BY StepFrame DEF SnapshotFrame, OutsideFrame, EntriesAgree, PollSnapshot, NoSnapshot
<1>3. ASSUME NEW s \in Known' PROVE s.entry = order'.entry
  <2>1. Derived(s)
    BY Flow
  <2>2. ASSUME NEW known \in Known, Follows(known, s) PROVE s.entry = known.entry
    BY <2>2, KnownType, FollowsKeeps DEF StatesAreSettled, Identity
  <2> QED
    BY <2>1, <2>2, RegisteredKeeps, StepFrame
       DEF OutsideFrame, Derived, EntriesAgree, Identity
<1> QED
  BY <1>1, <1>2, <1>3 DEF EntriesAgree

(* With a fixed entry they agree in every reachable state. *)
LEMMA Entries ==
    ASSUME EntryIsFixed
    PROVE  Spec => []EntriesAgree
<1>1. Init => EntriesAgree
  <2> SUFFICES ASSUME Init PROVE EntriesAgree
    OBVIOUS
  <2>1. broker.entry = order.entry /\ ~snapshot.exists /\ pc = "idle"
    BY DEF Init, NoSnapshot
  <2>2. \A s \in Known : s.entry = broker.entry
    BY InitKnown, RegisteredKeeps DEF Identity
  <2> QED
    BY <2>1, <2>2 DEF EntriesAgree
<1>2. IInv /\ StatesAreSettled /\ EntriesAgree /\ [Next]_vars => EntriesAgree'
  BY NextEntries
<1> QED
  BY <1>1, <1>2, Invariance, Settledness, PTL DEF Spec

(* What was decided of a paused runtime leaves it paused.                   *)
DecisionKeepsPause ==
    pc = "commit" /\ EffectivePhase(observed) = "PAUSED" =>
        EffectivePhase(decision.state) = "PAUSED"

(* The poll never writes over a pause that won the race against it: the     *)
(* commit finds the pause or drops its decision, and an outage is recorded  *)
(* over it without losing it; provided no command falls between an outage   *)
(* noticed and recorded, and the entry does not make an error of the pause. *)
THEOREM PauseSurvives ==
    ASSUME EntryIsFixed
    PROVE  Spec /\ []QuietOutage => PauseWins
<1> DEFINE Step == /\ caller' = caller /\ pc \in {"outage", "commit"}
                   /\ managed # Untracked /\ managed' # Untracked
                   /\ EffectivePhase(managed.state) = "PAUSED"
                   => EffectivePhase(managed'.state) = "PAUSED"
<1>1. Init => DecisionKeepsPause /\ OutageIsCurrent
  BY DEF Init, DecisionKeepsPause, OutageIsCurrent
<1>2. IInv /\ StatesAreSettled /\ EntriesAgree /\ DecisionKeepsPause /\ [Next]_vars
        => DecisionKeepsPause'
  <2> SUFFICES ASSUME IInv, StatesAreSettled, EntriesAgree, DecisionKeepsPause,
                      [Next]_vars, pc' = "commit",
                      EffectivePhase(observed') = "PAUSED"
               PROVE  EffectivePhase(decision'.state) = "PAUSED"
    BY DEF DecisionKeepsPause
  <2>1. ASSUME NEW elapsed \in BOOLEAN, Observe(elapsed), held
        PROVE  EffectivePhase(decision'.state) = "PAUSED"
    <3>1. managed.state \in Known
      BY <2>1, KeptIsKnown DEF IInv, HeldIsTracked, Kept
    <3>2. snapshot.exists
      BY <2>1 DEF Observe, EntriesAgree
    <3> QED
      BY <2>1, <3>1, <3>2, ObserveKeeps DEF EntriesAgree
  <2> QED
    BY <2>1, StepFrame DEF ReadingFrame, DecisionKeepsPause
<1>3. IInv /\ OutageIsCurrent /\ [Next]_vars /\ QuietOutage' => OutageIsCurrent'
  BY NextOutage
<1>4. IInv /\ DecisionKeepsPause /\ OutageIsCurrent /\ [Next]_vars => [Step]_vars
  <2> SUFFICES ASSUME IInv, DecisionKeepsPause, OutageIsCurrent, [Next]_vars,
                      caller' = caller, pc \in {"outage", "commit"},
                      managed # Untracked, managed' # Untracked,
                      EffectivePhase(managed.state) = "PAUSED"
               PROVE  EffectivePhase(managed'.state) = "PAUSED"
    OBVIOUS
  <2>1. /\ managed \in Runtimes /\ managed.state \in ManagedStates
        /\ decision.state \in ManagedStates
    BY DEF IInv, TypeOK, Runtimes
  <2>2. CASE managed' = managed
    BY <2>2
  <2>3. CASE Commit
    <3>1. CASE DecisionIsCurrent
      <4>1. managed' = [managed EXCEPT !.state = decision.state]
        BY <2>3, <3>1 DEF Commit
      <4>2. managed'.state = decision.state
        BY <2>1, <4>1, WithState
      <4> QED
        BY <2>3, <3>1, <4>2 DEF Commit, DecisionIsCurrent, DecisionKeepsPause
    <3> QED
      BY <2>2, <2>3, <3>1 DEF Commit
  <2>4. CASE MarkAllStale
    <3>1. CASE held
      <4>1. managed.state = observed
        BY <2>4, <3>1 DEF MarkAllStale, OutageIsCurrent
      <4>2. managed'.state = MarkStale(managed.state)
        BY <2>1, <2>4, <3>1, <4>1, MarkStaleType, WithState DEF MarkAllStale
      <4>3. EffectivePhase(MarkStale(managed.state)) = EffectivePhase(managed.state)
        BY <2>1 DEF MarkStale, EffectivePhase, ManagedStates
      <4> QED
        BY <4>2, <4>3
    <3> QED
      BY <2>2, <2>4, <3>1 DEF MarkAllStale
  <2>5. ~RestoreStates /\ ~ActivateAccount /\ ~SelectRuntime /\ ~Restart
        /\ pc \notin Mutating /\ ~\E c \in Callers : Command(c)
    BY CommandMoves DEF RestoreStates, ActivateAccount, SelectRuntime, Restart, Mutating
  <2> QED
    BY <2>2, <2>3, <2>4, <2>5, StepFrame DEF MemoryFrame
<1>5. Spec /\ []QuietOutage => [][Step]_vars
  BY <1>1, <1>2, <1>3, <1>4, Invariance, Settledness, Entries, PTL DEF Spec
<1> QED
  BY <1>5 DEF PauseWins

-----------------------------------------------------------------------------
(* The file                                                                *)

(* No two saves are under way at a time.  A save that overtakes another     *)
(* leaves the older image in the file until the next poll.                 *)
SavesDoNotOverlap ==
    /\ pc = "save" => \A c \in Callers : caller[c].step # "save"
    /\ \A c, d \in Callers :
         caller[c].step = "save" /\ caller[d].step = "save" => c = d

(* While nobody has still to collect, a save under way is of what memory    *)
(* holds, and without one the file has it unless the last save failed.     *)
SaveIsCurrent ==
    active /\ (\A c \in Callers : caller[c].step # "collect") =>
        /\ pc = "save" => image = Image(managed)
        /\ pc = "idle" =>
             /\ \A c \in Callers : caller[c].step = "save" =>
                                     caller[c].image = Image(managed)
             /\ (\A c \in Callers : caller[c].step # "save") /\ store.saved
                  => disk = Image(managed)

(* No step makes a save under way an old one, unless another one is.       *)
LEMMA NextSave ==
    ASSUME IInv, SavesDoNotOverlap, SavesDoNotOverlap', SaveIsCurrent, [Next]_vars
    PROVE  SaveIsCurrent'
<1>1. CASE ActivateAccount \/ LoadState \/ LoadFails \/ RestoreStates
  BY <1>1 DEF ActivateAccount, LoadState, LoadFails, RestoreStates, SaveIsCurrent
<1>2. CASE PollCollect
  BY <1>2 DEF PollCollect, HasAccount, SaveIsCurrent, Image
<1>3. CASE PollSave
  <2>1. store'.saved => disk' = image
    BY <1>3, SaveOutcome DEF PollSave, IInv
  <2> QED
    BY <1>3, <2>1 DEF PollSave, SaveIsCurrent, SavesDoNotOverlap, Image
<1>4. CASE Restart
  BY <1>4 DEF Restart, SaveIsCurrent
<1>5. CASE PollSnapshot
  BY <1>5 DEF PollSnapshot, SaveIsCurrent
<1>6. CASE UNCHANGED <<active, image, disk, store, caller, pc, managed>>
  BY <1>6 DEF SaveIsCurrent, Image
<1>7. CASE {pc, pc'} \cap {"load", "restore", "save"} = {} /\ pc' # "idle"
  BY <1>7 DEF SaveIsCurrent
<1>8. ASSUME NEW c \in Callers, Command(c)
      PROVE  SaveIsCurrent'
  BY <1>8, CommandMoves DEF SaveIsCurrent
<1>9. ASSUME NEW c \in Callers, CallerCollect(c)
      PROVE  SaveIsCurrent'
  <2>1. caller'[c] = IF active THEN [step |-> "save", image |-> Image(managed)]
                     ELSE [step |-> "idle", image |-> Untracked]
    BY <1>9 DEF CallerCollect, HasAccount, IInv, TypeOK
  <2>2. UNCHANGED <<managed, active, pc, image, disk, store>>
    BY <1>9 DEF CallerCollect, pollVars
  <2>3. Image(managed)' = Image(managed)
    BY <2>2 DEF Image
  <2>4. CASE active
    <3>1. caller'[c].step = "save" /\ caller'[c].image = Image(managed)
      BY <2>1, <2>4
    <3> QED
      BY <2>2, <2>3, <3>1 DEF SaveIsCurrent, SavesDoNotOverlap
  <2> QED
    BY <2>2, <2>4 DEF SaveIsCurrent
<1>10. ASSUME NEW c \in Callers, CallerSave(c)
       PROVE  SaveIsCurrent'
  <2>1. /\ \A d \in Callers \ {c} : caller'[d] = caller[d]
        /\ caller'[c] = [step |-> "idle", image |-> Untracked]
    BY <1>10 DEF CallerSave, IInv, TypeOK
  <2>2. /\ UNCHANGED <<managed, active, pc, image>>
        /\ store'.saved => disk' = caller[c].image
        /\ caller[c].step = "save"
    BY <1>10, SaveOutcome DEF CallerSave, pollVars, IInv
  <2>3. \A d \in Callers \ {c} : caller[d].step # "save"
    BY <2>2 DEF SavesDoNotOverlap
  <2>4. Image(managed)' = Image(managed)
    BY <2>2 DEF Image
  <2>5. pc # "save"
    BY <2>2 DEF SavesDoNotOverlap
  <2>6. (\A d \in Callers : caller'[d].step # "collect") =>
          \A d \in Callers : caller[d].step # "collect"
    BY <2>1, <2>2
  <2> QED
    BY <2>1, <2>2, <2>3, <2>4, <2>5, <2>6 DEF SaveIsCurrent
<1> QED
  BY <1>1, <1>2, <1>3, <1>4, <1>5, <1>6, <1>7, <1>8, <1>9, <1>10, StepFrame
     DEF FileFrame, Persist

(* When no two saves overlap, the file holds what memory holds whenever     *)
(* every thread is at rest, unless the last save was reported as failed: a  *)
(* crash at that point loses nothing.                                      *)
THEOREM RestIsDurable ==
    Spec /\ []SavesDoNotOverlap => []DurableAtRest
<1>1. Init => SaveIsCurrent
  BY DEF Init, SaveIsCurrent
<1>2. IInv /\ SavesDoNotOverlap /\ SavesDoNotOverlap' /\ SaveIsCurrent /\ [Next]_vars
        => SaveIsCurrent'
  BY NextSave
<1>3. SaveIsCurrent => DurableAtRest
  BY DEF SaveIsCurrent, DurableAtRest, AtRest
<1> QED
  BY <1>1, <1>2, <1>3, Invariance, PTL DEF Spec

(* No thread is between a command and the end of its save while the poll    *)
(* reads the file: the race the run activation_empties_file shows.         *)
QuietActivation ==
    active /\ pc \in {"load", "restore"} => \A c \in Callers : caller[c].step = "idle"

(* What is tracked is only taken from the file and paused or resumed.      *)
NoRegistration == Commands \subseteq {"pause", "resume", "other"}

NothingHeld ==
    /\ managed = Untracked /\ image = Untracked
    /\ \A c \in Callers : caller[c].image = Untracked

(* Nothing is tracked before the file is read, nor at all when it could not *)
(* be; what the file says of an open position is in memory or on its way    *)
(* there, then in memory and in every image on its way back.               *)
OpenIsCovered ==
    /\ image # Untracked => pc \in {"restore", "save"}
    /\ \A c \in Callers : caller[c].image # Untracked => caller[c].step = "save"
    /\ pc = "restore" => active
    /\ pc = "load" \/ ~active => managed = Untracked /\ store.loaded
    /\ Preopened \/ (NothingHeld /\ disk = Untracked)
    /\ ~store.loaded \/ (broker.status = "open" /\ disk = Untracked) => NothingHeld
    /\ broker.status = "open" /\ disk # Untracked /\ store.loaded =>
         /\ active /\ pc \notin {"load", "restore"} => managed # Untracked
         /\ pc \in {"restore", "save"} => image # Untracked
         /\ \A c \in Callers : caller[c].step = "save" => caller[c].image # Untracked

(* A runtime that is managed is saved. *)
LEMMA ImageTracked ==
    ASSUME NEW r \in Runtimes, r.state.phase \notin NotSaved
    PROVE  Image(r) # Untracked
<1> DEFINE saved == [r.state EXCEPT !.backoff = FALSE]
<1>1. saved \in ManagedStates
  BY DEF Runtimes, ManagedStates
<1>2. Image(r) = [r EXCEPT !.state = saved]
  BY PositionAssumption DEF Image, Runtimes
<1> HIDE DEF saved
<1> QED
  BY <1>1, <1>2, WithState

(* The poll itself only starts to manage what it restores.                *)
LEMMA UntrackedStays ==
    ASSUME IInv, [Next]_vars, managed = Untracked, managed' # Untracked
    PROVE  RestoreStates \/ \E c \in Callers : Command(c)
  BY StepFrame DEF MemoryFrame, MarkAllStale, Commit, DecisionIsCurrent, IInv,
     HeldIsTracked, ActivateAccount, SelectRuntime, Restart

(* What a thread collects of a tracked position is not empty. *)
LEMMA CollectedIsTracked ==
    ASSUME IInv, StatesAreSettled, managed # Untracked
    PROVE  Image(managed) # Untracked
<1>1. managed.state \in Known
  BY KeptIsKnown DEF Kept
<1>2. managed.state.phase \notin NotSaved
  BY <1>1 DEF StatesAreSettled, Open, Ended, NotSaved
<1> QED
  BY <1>2, ImageTracked DEF IInv, TypeOK

(* What only pauses and resumes keeps what is tracked. *)
LEMMA CommandKeepsTrack ==
    ASSUME NoRegistration, IInv, [Next]_vars, NEW c \in Callers, Command(c)
    PROVE  /\ managed' = Untracked <=> managed = Untracked
           /\ \A d \in Callers : /\ caller'[d].image = caller[d].image
                                 /\ \/ caller'[d].step = caller[d].step
                                    \/ /\ caller[d].step = "idle"
                                       /\ caller'[d].step = "collect"
<1>1. PausePosition(c) \/ ResumePosition(c) \/ CommandForAnother(c)
  BY DEF Command, Register, UnregisterPosition, Issue, NoRegistration
<1>2. managed # Untracked => managed' # Untracked
  <2> SUFFICES ASSUME managed # Untracked PROVE managed' # Untracked
    OBVIOUS
  <2>1. managed \in Runtimes /\ managed.state \in ManagedStates
    BY DEF IInv, TypeOK, Runtimes
  <2>2. /\ Pause(managed.state) \in ManagedStates
        /\ Resume(managed.state) \in ManagedStates
    BY <2>1, CommandType
  <2> QED
    BY <1>1, <2>1, <2>2, WithState DEF PausePosition, ResumePosition, CommandForAnother
<1>3. managed = Untracked => managed' = Untracked
  BY <1>1 DEF PausePosition, ResumePosition, CommandForAnother
<1>4. \A d \in Callers : /\ caller'[d].image = caller[d].image
                         /\ \/ caller'[d].step = caller[d].step
                            \/ /\ caller[d].step = "idle"
                               /\ caller'[d].step = "collect"
  <2>1. /\ caller' = [caller EXCEPT ![c].step = "collect"]
        /\ caller[c].step = "idle"
        /\ caller \in [Callers -> [step : {"idle", "collect", "save"},
                                   image : Runtimes \cup {Untracked}]]
    BY <1>1 DEF PausePosition, ResumePosition, CommandForAnother, Issue, IInv, TypeOK
  <2> QED
    BY <2>1
<1> QED
  BY <1>2, <1>3, <1>4

(* Only a snapshot without the position ends the cover, and with a fixed    *)
(* entry the stored copy always passes for the position shown.             *)
LEMMA NextCovered ==
    ASSUME NoRegistration, EntryIsFixed, QuietActivation, IInv, StatesAreSettled,
           AbsentIsClosed, EntriesAgree, OpenIsCovered, [Next]_vars
    PROVE  OpenIsCovered'
<1>1. broker'.status = "open" /\ Preopened => broker.status = "open"
  BY StepFrame DEF OutsideFrame, AbsentIsClosed
<1>2. CASE ActivateAccount
  BY <1>1, <1>2 DEF ActivateAccount, OpenIsCovered, NothingHeld
<1>3. CASE LoadState
  <2>1. broker.status = "open" /\ disk # Untracked =>
          snapshot.exists /\ disk.state.entry = snapshot.entry
    <3>1. disk # Untracked => disk.state \in Known
      BY KeptIsKnown DEF Kept
    <3> QED
      BY <1>3, <3>1
         DEF LoadState, AbsentIsClosed, EntriesAgree, OpenIsCovered, NothingHeld,
         Opening
  <2>2. disk # Untracked => RestoreRuntime(disk) # Untracked
    BY RestoreType DEF IInv, TypeOK
  <2> QED
    BY <1>1, <1>3, <2>1, <2>2 DEF LoadState, OpenIsCovered, NothingHeld
<1>4. CASE RestoreStates
  BY <1>1, <1>4 DEF RestoreStates, Updated, OpenIsCovered, NothingHeld
<1>5. CASE PollCollect
  <2>1. Image(Untracked) = Untracked
    BY DEF Image
  <2> QED
    BY <1>1, <1>5, <2>1, CollectedIsTracked
       DEF PollCollect, HasAccount, OpenIsCovered, NothingHeld
<1>6. CASE PollSave
  <2>1. disk' \in {disk, image} /\ store'.loaded = store.loaded
    BY <1>6, SaveOutcome DEF PollSave, IInv
  <2> QED
    BY <1>1, <1>6, <2>1 DEF PollSave, OpenIsCovered, NothingHeld
<1>7. CASE Restart
  <2>1. store'.loaded
    BY <1>7 DEF Restart, IInv, TypeOK
  <2> QED
    BY <1>1, <1>7, <2>1 DEF Restart, OpenIsCovered, NothingHeld
<1>8. ASSUME NEW c \in Callers, CallerCollect(c)
      PROVE  OpenIsCovered'
  <2>1. Image(Untracked) = Untracked
    BY DEF Image
  <2>2. /\ \A d \in Callers \ {c} : caller'[d] = caller[d]
        /\ caller'[c] = IF active THEN [step |-> "save", image |-> Image(managed)]
                        ELSE [step |-> "idle", image |-> Untracked]
    BY <1>8 DEF CallerCollect, HasAccount, IInv, TypeOK
  <2>3. active => pc \notin {"load", "restore"}
    BY <1>8 DEF CallerCollect, QuietActivation
  <2>4. UNCHANGED <<managed, active, pc, image, disk, store>>
    BY <1>8 DEF CallerCollect, pollVars
  <2> QED
    BY <1>1, <2>1, <2>2, <2>3, <2>4, CollectedIsTracked
       DEF OpenIsCovered, NothingHeld
<1>9. ASSUME NEW c \in Callers, CallerSave(c)
      PROVE  OpenIsCovered'
  <2>1. /\ \A d \in Callers \ {c} : caller'[d] = caller[d]
        /\ caller'[c] = [step |-> "idle", image |-> Untracked]
    BY <1>9 DEF CallerSave, IInv, TypeOK
  <2>2. /\ UNCHANGED <<managed, active, pc, image>>
        /\ disk' \in {disk, caller[c].image} /\ store'.loaded = store.loaded
        /\ caller[c].step = "save"
    BY <1>9, SaveOutcome DEF CallerSave, pollVars, IInv
  <2> QED
    BY <1>1, <2>1, <2>2 DEF OpenIsCovered, NothingHeld
<1>10. ASSUME NEW c \in Callers, Command(c),
              UNCHANGED <<pc, active, image, disk, store>>
       PROVE  OpenIsCovered'
  <2>1. /\ managed' = Untracked <=> managed = Untracked
        /\ \A d \in Callers : /\ caller'[d].image = caller[d].image
                              /\ \/ caller'[d].step = caller[d].step
                                 \/ /\ caller[d].step = "idle"
                                    /\ caller'[d].step = "collect"
    BY <1>10, CommandKeepsTrack
  <2>2. NothingHeld' <=> NothingHeld
    BY <1>10, <2>1 DEF NothingHeld
  <2>3. broker'.status = "open" => broker.status = "open" \/ ~Preopened
    BY <1>1
  <2> QED
    BY <1>10, <2>1, <2>2, <2>3 DEF OpenIsCovered, NothingHeld
<1>11. ASSUME UNCHANGED <<active, image, disk, store, caller>>, ~RestoreStates,
              \/ UNCHANGED <<pc, managed>>
              \/ PollSnapshot
              \/ {pc, pc'} \cap {"load", "restore", "save"} = {}
       PROVE  OpenIsCovered'
  <2>1. CASE UNCHANGED <<pc, managed>>
    BY <1>1, <1>11, <2>1 DEF OpenIsCovered, NothingHeld
  <2>2. CASE PollSnapshot
    BY <1>1, <1>11, <2>2 DEF PollSnapshot, OpenIsCovered, NothingHeld
  <2>3. CASE {pc, pc'} \cap {"load", "restore", "save"} = {}
    <3>1. ~\E c \in Callers : Command(c)
      BY <1>11, CommandMoves
    <3>2. broker.status = "open" /\ disk # Untracked /\ store.loaded /\ active
            => managed' # Untracked
      <4> SUFFICES ASSUME broker.status = "open", disk # Untracked, store.loaded,
                          active, managed' = Untracked
                   PROVE  FALSE
        OBVIOUS
      <4>1. managed # Untracked
        BY <2>3 DEF OpenIsCovered
      <4>2. SelectRuntime /\ ~snapshot.exists
        BY <1>11, <2>3, <3>1, <4>1, DropFrame DEF ActivateAccount, Restart
      <4> QED
        BY <4>2 DEF SelectRuntime, AbsentIsClosed, OpenIsCovered, NothingHeld, Opening
    <3>3. pc \notin {"load", "restore", "save"} /\ pc' \notin {"load", "restore", "save"}
      BY <2>3
    <3>4. managed = Untracked => managed' = Untracked
      BY <1>11, <3>1, UntrackedStays
    <3> QED
      BY <1>1, <1>11, <3>2, <3>3, <3>4 DEF OpenIsCovered, NothingHeld
  <2> QED
    BY <1>11, <2>1, <2>2, <2>3
<1>12. CASE LoadFails
  <2>1. ~store'.loaded
    BY <1>12 DEF LoadFails, IInv, TypeOK
  <2> QED
    BY <1>1, <1>12, <2>1
       DEF LoadFails, QuietActivation, OpenIsCovered, NothingHeld
<1> QED
  BY <1>2, <1>3, <1>4, <1>5, <1>6, <1>7, <1>8, <1>9, <1>10, <1>11, <1>12, StepFrame
     DEF FileFrame, Persist

(* A file that could be read never forgets a position that is still open,  *)
(* whatever saves of the poll and of the command threads fail or overtake   *)
(* each other, through outages, and through restarts at any step: provided  *)
(* no thread saves while the poll reads the file, nothing is registered or  *)
(* unregistered, and the entry is fixed.                                   *)
THEOREM OpenPositionIsOnFile ==
    ASSUME NoRegistration, EntryIsFixed
    PROVE  Spec /\ []QuietActivation => LoadedFileKeepsPosition
<1> DEFINE Step == broker.status = "open" /\ disk # Untracked /\ store.loaded
                     => disk' # Untracked
<1>1. Init => OpenIsCovered
  <2> SUFFICES ASSUME Init PROVE OpenIsCovered
    OBVIOUS
  <2>1. /\ managed = Untracked /\ image = Untracked /\ pc = "idle" /\ ~active
        /\ \A c \in Callers : caller[c] = [step |-> "idle", image |-> Untracked]
        /\ store.loaded
    BY DEF Init
  <2>2. disk # Untracked => Preopened
    BY DEF Init
  <2> QED
    BY <2>1, <2>2 DEF OpenIsCovered, NothingHeld
<1>2. OpenIsCovered /\ IInv /\ [Next]_vars => [Step]_vars
  <2> SUFFICES ASSUME OpenIsCovered, IInv, [Next]_vars, broker.status = "open",
                      disk # Untracked, store.loaded
               PROVE  disk' # Untracked
    OBVIOUS
  <2>1. disk' = disk \/ PollSave \/ \E c \in Callers : CallerSave(c)
    BY StepFrame DEF FileFrame, Persist, CallerCollect, ActivateAccount, LoadState,
       LoadFails, RestoreStates, PollCollect, Restart
  <2> QED
    BY <2>1, SaveOutcome DEF PollSave, CallerSave, OpenIsCovered, IInv
<1>3. Spec /\ []QuietActivation => [][Step]_vars
  BY <1>1, <1>2, NextCovered, Invariance, Settledness, Absence, Entries, PTL DEF Spec
<1> QED
  BY <1>3 DEF LoadedFileKeepsPosition

=============================================================================
