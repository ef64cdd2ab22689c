---------------------- MODULE OrderStateMachineProofs ----------------------
(***************************************************************************)
(* What the break-even / trailing state machine decides, for every state,  *)
(* observation and setting.  A decision is Sound when it satisfies what    *)
(* the service relies on when it carries the decision out.  The lemmas     *)
(* follow Evaluate inside out, one per stage.                              *)
(***************************************************************************)
EXTENDS OrderStateMachine, TLAPS

Positions == [side : Sides, entry : Int, sl : Int, tp : Int,
              exists : BOOLEAN, fresh : BOOLEAN]

MarketTicks == [bid : Int, ask : Int, fresh : BOOLEAN]

Decisions == [state : ManagedStates, action : Actions]

(* The intent is recorded in the state it comes with.                      *)
Recorded(d) ==
    /\ d.action # NoAction
    /\ d.state.pending = d.action
    /\ d.state.phase \in Active

(* The stop to send tightens the observed one, reaches break-even, and      *)
(* trails only above a stop that already does.                             *)
Protective(d) ==
    /\ StrictlyMoreProtective(d.action.target, d.action.expectedSl, d.state.side)
    /\ AtLeastAsProtective(d.action.target, RawBreakEven(d.state), d.state.side)
    /\ d.action.reason \in Trailing =>
         AtLeastAsProtective(d.action.expectedSl, RawBreakEven(d.state), d.state.side)

Sound(d, position) ==
    /\ d \in Decisions
    /\ d.action # NoAction =>
         /\ Recorded(d)
         /\ Protective(d)
         /\ d.state.side = position.side
    /\ d.action = NoAction =>
         d.state.pending = NoAction \/ d.state.phase = "STALE"

-----------------------------------------------------------------------------
(* Types *)

(* Rounding a stop target to the tick grid yields a number. *)
LEMMA NormalizeType ==
    ASSUME NEW raw \in Int, NEW side \in Sides, NEW close \in Int
    PROVE  NormalizeStopTarget(raw, side, close) \in Int
<1>1. ASSUME NEW price \in Int, NEW unit \in Nat \ {0}
      PROVE  RoundToGrid(price, unit, side) \in Int
  BY <1>1 DEF RoundToGrid
<1>2. TickSize \in Nat \ {0} /\ DigitQuantum \in Nat \ {0} /\ StopDistance \in Nat
  BY ConstraintsAssumption
<1> DEFINE clamped ==
       IF side = "buy"
       THEN IF raw < close - StopDistance THEN raw ELSE close - StopDistance
       ELSE IF raw > close + StopDistance THEN raw ELSE close + StopDistance
<1>3. clamped \in Int
  BY <1>2
<1>4. RoundToGrid(RoundToGrid(clamped, TickSize, side), DigitQuantum, side) \in Int
  BY <1>1, <1>2, <1>3
<1> QED
  BY <1>4 DEF NormalizeStopTarget, Missing

(* A proposed action is one the rest of the service accepts. *)
LEMMA ProposeType ==
    ASSUME NEW s \in ManagedStates, NEW reason \in ActionReasons,
           NEW target \in Int, NEW position \in Positions, NEW source \in Active,
           NEW d, d = Propose(s, reason, target, position, source)
    PROVE  /\ d \in Decisions
           /\ d.action # NoAction
           /\ d.state.pending = d.action
           /\ d.state.phase = s.phase
           /\ d.state.side = s.side
           /\ d.state.entry = s.entry
           /\ d.action.reason = reason
           /\ d.action.target = target
           /\ d.action.expectedSl = position.sl
<1> DEFINE action == [reason |-> reason, target |-> target,
                      preserveTp |-> position.tp, expectedSl |-> position.sl,
                      source |-> source]
<1>1. action \in Actions
  BY DEF Actions, Positions
<1>2. action # NoAction
  BY DEF NoAction, NoPhase, Active
<1>3. [s EXCEPT !.pending = action] \in ManagedStates
  BY <1>1 DEF ManagedStates
<1> HIDE DEF action
<1>4. Decision([s EXCEPT !.pending = action], action) \in Decisions
  BY <1>1, <1>3 DEF Decision, Decisions
<1>5. /\ action.reason = reason /\ action.target = target
      /\ action.expectedSl = position.sl
  BY DEF action
<1>6. Propose(s, reason, target, position, source)
        = Decision([s EXCEPT !.pending = action], action)
  BY DEF Propose, action
<1> QED
  BY <1>2, <1>4, <1>5, <1>6 DEF Decision, ManagedStates

(* Every stage but a proposal only moves phase, extreme and retry fields.   *)
LEMMA ExtremeType ==
    ASSUME NEW s \in ManagedStates, NEW close \in Int
    PROVE  NewExtreme(s.side, s.extreme, close) \in Int
  BY DEF NewExtreme, ManagedStates

(* A decision without an action is sound when its state carries no intent. *)
LEMMA StaySound ==
    ASSUME NEW s \in ManagedStates, NEW position \in Positions,
           s.pending = NoAction \/ s.phase = "STALE"
    PROVE  Sound(Stay(s), position)
<1>1. NoAction \in Actions
  BY DEF Actions
<1> QED
  BY <1>1 DEF Sound, Stay, Decision, Decisions

-----------------------------------------------------------------------------
(* The stages of Evaluate *)

(* WAITING_BE: only a stop that reaches break-even is proposed. *)
LEMMA WaitingBeSound ==
    ASSUME NEW s \in ManagedStates, NEW position \in Positions, NEW close \in Int,
           s.phase = "WAITING_BE", s.pending = NoAction, s.side = position.side
    PROVE  Sound(EvaluateWaitingBe(s, position, close), position)
<1> DEFINE rawBe  == RawBreakEven(s)
           seen   == [s EXCEPT !.extreme = NewExtreme(s.side, s.extreme, close)]
           target == NormalizeStopTarget(rawBe, s.side, close)
           reached == [seen EXCEPT !.phase = "BE_ACTIVE", !.retries = 0,
                                   !.backoff = FALSE]
<1>1. /\ seen \in ManagedStates
      /\ seen.phase = s.phase /\ seen.side = s.side /\ seen.entry = s.entry
      /\ seen.pending = NoAction
  BY ExtremeType DEF ManagedStates
<1>2. reached \in ManagedStates /\ reached.pending = NoAction
  BY <1>1 DEF ManagedStates, Phases, Active
<1>3. rawBe \in Int /\ s.side \in Sides
  BY SettingsAssumption DEF RawBreakEven, ManagedStates
<1>4. target \in Int
  BY <1>3, NormalizeType
<1> DEFINE d == Propose(seen, "BREAKEVEN", target, position, "WAITING_BE")
<1>5. ASSUME ReachesBreakEven(target, rawBe, s.side),
             StrictlyMoreProtective(target, position.sl, s.side)
      PROVE  Sound(d, position)
  <2> "BREAKEVEN" \in ActionReasons /\ "WAITING_BE" \in Active
    BY DEF ActionReasons, Active
  <2> HIDE DEF seen, target
  <2>1. /\ d \in Decisions /\ d.action # NoAction
        /\ d.state.pending = d.action /\ d.state.phase = seen.phase
        /\ d.state.side = seen.side /\ d.state.entry = seen.entry
        /\ d.action.reason = "BREAKEVEN" /\ d.action.target = target
        /\ d.action.expectedSl = position.sl
    <3>1. d = Propose(seen, "BREAKEVEN", target, position, "WAITING_BE")
      OBVIOUS
    <3> HIDE DEF d
    <3> QED
      BY <1>1, <1>4, <3>1, ProposeType
  <2> HIDE DEF d
  <2>2. RawBreakEven(d.state) = rawBe
    BY <1>1, <2>1 DEF RawBreakEven
  <2>3. Protective(d)
    BY <1>1, <1>5, <2>1, <2>2 DEF Protective, ReachesBreakEven, Trailing
  <2>4. Recorded(d)
    BY <1>1, <2>1 DEF Recorded, Active
  <2> QED
    BY <1>1, <2>1, <2>3, <2>4 DEF Sound
<1>6. Sound(Stay(reached), position) /\ Sound(Stay(s), position)
  BY <1>2, StaySound
<1> HIDE DEF rawBe, seen, target, reached, d
<1>7. EvaluateWaitingBe(s, position, close) =
        IF AtLeastAsProtective(position.sl, rawBe, s.side) THEN Stay(reached)
        ELSE IF /\ ThresholdReached(s, close, BeTriggerR)
                /\ ReachesBreakEven(target, rawBe, s.side)
                /\ StrictlyMoreProtective(target, position.sl, s.side)
        THEN d ELSE Stay(s)
  BY DEF EvaluateWaitingBe, rawBe, seen, target, reached, d
<1> QED
  BY <1>5, <1>6, <1>7

(* BE_ACTIVE: the trail is armed, nothing is sent yet. *)
LEMMA ArmSound ==
    ASSUME NEW s \in ManagedStates, NEW position \in Positions, NEW close \in Int,
           s.pending = NoAction
    PROVE  Sound(ArmTrailing(s, close), position)
<1> DEFINE armed == [s EXCEPT !.phase = IF ThresholdReached(s, close, TightTriggerR)
                                        THEN "TRAIL_TIGHT" ELSE "TRAIL_WIDE",
                              !.extreme = NewExtreme(s.side, s.extreme, close),
                              !.retries = 0, !.backoff = FALSE]
<1>1. armed \in ManagedStates /\ armed.pending = NoAction
  BY ExtremeType DEF ManagedStates, Phases, Active
<1>2. ArmTrailing(s, close) = Stay(armed)
  BY DEF ArmTrailing
<1> HIDE DEF armed
<1> QED
  BY <1>1, <1>2, StaySound

(* A stop that improves on one beyond break-even is itself beyond it. *)
LEMMA BeyondBreakEven ==
    ASSUME NEW side \in Sides, NEW target \in Int, NEW sl \in Int, NEW rawBe \in Int,
           AtLeastAsProtective(sl, rawBe, side), target > 0,
           StrictlyMoreProtective(target, sl, side)
    PROVE  AtLeastAsProtective(target, rawBe, side)
  BY DEF AtLeastAsProtective, StrictlyMoreProtective, Sides

(* Trailing starts from a stop beyond break-even and only tightens it. *)
LEMMA TrailingSound ==
    ASSUME NEW s \in ManagedStates, NEW position \in Positions, NEW close \in Int,
           NEW atr, s.phase \in Trailing, s.pending = NoAction,
           s.side = position.side,
           AtLeastAsProtective(position.sl, RawBreakEven(s), s.side)
    PROVE  Sound(EvaluateTrailing(s, position, close, atr), position)
<1> DEFINE phase    == IF ThresholdReached(s, close, TightTriggerR)
                       THEN "TRAIL_TIGHT" ELSE s.phase
           extreme  == NewExtreme(s.side, s.extreme, close)
           working  == [s EXCEPT !.phase = phase, !.extreme = extreme]
           distance == IF phase = "TRAIL_TIGHT" THEN TightDistance ELSE WideDistance
           raw      == IF s.side = "buy" THEN extreme - distance
                                         ELSE extreme + distance
           target   == NormalizeStopTarget(raw, s.side, close)
           d        == Propose(working, phase, target, position, phase)
<1>1. phase \in Trailing
  BY DEF Trailing
<1>2. extreme \in Int
  BY ExtremeType
<1>3. /\ working \in ManagedStates
      /\ working.phase = phase /\ working.side = s.side /\ working.entry = s.entry
      /\ working.pending = NoAction
  BY <1>1, <1>2 DEF ManagedStates, Phases, Active, Trailing
<1>4. distance \in Int
  BY SettingsAssumption
<1> HIDE DEF phase, extreme, distance, working
<1>5. raw \in Int /\ s.side \in Sides
  BY <1>2, <1>4 DEF ManagedStates
<1> HIDE DEF raw
<1>6. target \in Int
  BY <1>5, NormalizeType
<1> HIDE DEF target
<1>7. ASSUME target > 0, Improves(target, position)
      PROVE  Sound(d, position)
  <2>1. phase \in ActionReasons /\ phase \in Active
    BY <1>1 DEF Trailing, ActionReasons, Active
  <2>2. /\ d \in Decisions /\ d.action # NoAction
        /\ d.state.pending = d.action /\ d.state.phase = working.phase
        /\ d.state.side = working.side /\ d.state.entry = working.entry
        /\ d.action.target = target /\ d.action.expectedSl = position.sl
    <3>1. d = Propose(working, phase, target, position, phase)
      OBVIOUS
    <3> HIDE DEF d
    <3> QED
      BY <1>3, <1>6, <2>1, <3>1, ProposeType
  <2> HIDE DEF d
  <2>3. RawBreakEven(d.state) = RawBreakEven(s)
    BY <1>3, <2>2 DEF RawBreakEven
  <2>4. RawBreakEven(s) \in Int
    BY SettingsAssumption DEF RawBreakEven, ManagedStates
  <2>5. StrictlyMoreProtective(target, position.sl, s.side)
    BY <1>7 DEF Improves
  <2>6. AtLeastAsProtective(target, RawBreakEven(s), s.side)
    BY <1>5, <1>6, <1>7, <2>4, <2>5, BeyondBreakEven DEF Positions
  <2>7. Protective(d)
    BY <1>3, <2>2, <2>3, <2>5, <2>6 DEF Protective
  <2>8. Recorded(d)
    BY <1>3, <2>1, <2>2 DEF Recorded
  <2> QED
    BY <1>3, <2>2, <2>7, <2>8 DEF Sound
<1>8. Sound(Stay(working), position)
  BY <1>3, StaySound
<1>9. EvaluateTrailing(s, position, close, atr) =
        IF atr /\ target > 0 /\ Improves(target, position) THEN d ELSE Stay(working)
  BY DEF EvaluateTrailing, target, raw, distance, working, extreme, phase
<1> HIDE DEF d
<1> QED
  BY <1>7, <1>8, <1>9

-----------------------------------------------------------------------------
(* Composing the stages *)

(* Active phases: the stop the broker shows decides between the stages.    *)
LEMMA ActiveSound ==
    ASSUME NEW s \in ManagedStates, NEW position \in Positions, NEW close \in Int,
           NEW atr, s.pending = NoAction, s.side = position.side
    PROVE  Sound(EvaluateActive(s, position, close, atr), position)
<1> DEFINE reset == [s EXCEPT !.phase = "WAITING_BE", !.pending = NoAction,
                              !.resume = NoPhase]
           working == IF ProtectionLost(s, position) THEN reset ELSE s
           failed == [working EXCEPT !.phase = "ERROR_NON_RETRYABLE"]
<1>1. /\ reset \in ManagedStates
      /\ reset.phase = "WAITING_BE" /\ reset.side = s.side
      /\ reset.pending = NoAction
  BY DEF ManagedStates, Phases, Active, Actions
<1> HIDE DEF reset
<1>2. /\ working \in ManagedStates
      /\ working.side = position.side /\ working.pending = NoAction
  BY <1>1
<1>3. working.phase \in Trailing =>
        AtLeastAsProtective(position.sl, RawBreakEven(working), working.side)
  BY <1>1 DEF ProtectionLost, Protected, Trailing
<1> HIDE DEF working
<1>4. failed \in ManagedStates /\ failed.pending = NoAction
  BY <1>2 DEF ManagedStates, Phases
<1> HIDE DEF failed
<1>5. CASE working.phase = "WAITING_BE"
  <2>1. EvaluateActive(s, position, close, atr)
          = EvaluateWaitingBe(working, position, close)
    BY <1>5 DEF EvaluateActive, working, reset, Trailing
  <2> QED
    BY <1>2, <1>5, <2>1, WaitingBeSound
<1>6. CASE working.phase = "BE_ACTIVE"
  <2>1. EvaluateActive(s, position, close, atr) = ArmTrailing(working, close)
    BY <1>6 DEF EvaluateActive, working, reset, Trailing
  <2> QED
    BY <1>2, <2>1, ArmSound
<1>7. CASE working.phase \in Trailing
  <2>1. EvaluateActive(s, position, close, atr)
          = EvaluateTrailing(working, position, close, atr)
    BY <1>7 DEF EvaluateActive, working, reset, Trailing
  <2> QED
    BY <1>2, <1>3, <1>7, <2>1, TrailingSound
<1>8. CASE working.phase \notin {"WAITING_BE", "BE_ACTIVE"} \cup Trailing
  <2>1. EvaluateActive(s, position, close, atr) = Stay(failed)
    BY <1>8 DEF EvaluateActive, working, reset, failed, Trailing
  <2> QED
    BY <1>4, <2>1, StaySound
<1> QED
  BY <1>5, <1>6, <1>7, <1>8

(* A confirmed intent leaves none behind. *)
LEMMA ConfirmedType ==
    ASSUME NEW s \in ManagedStates, NEW action \in Actions, action # NoAction
    PROVE  LET c == ApplyConfirmedAction(s, action)
           IN  c \in ManagedStates /\ c.pending = NoAction /\ c.side = s.side
<1>1. action.source \in Phases /\ "BE_ACTIVE" \in Phases /\ NoAction \in Actions
  BY DEF Actions, Phases, Active
<1> QED
  BY <1>1 DEF ApplyConfirmedAction, ManagedStates

(* An outstanding intent is only confirmed or left alone.                  *)
LEMMA PendingSound ==
    ASSUME NEW s \in ManagedStates, NEW position \in Positions, NEW close \in Int,
           NEW atr, s.pending = NoAction, s.side = position.side
    PROVE  Sound(EvaluatePending(s, position, close, atr), position)
  BY ActiveSound DEF EvaluatePending

(* A retry resumes the phase the failed request came from.                 *)
LEMMA RetrySound ==
    ASSUME NEW s \in ManagedStates, NEW position \in Positions, NEW close \in Int,
           NEW atr, NEW elapsed, s.pending = NoAction, s.side = position.side
    PROVE  Sound(EvaluateRetry(s, position, close, atr, elapsed), position)
<1> DEFINE spent == [s EXCEPT !.phase = "ERROR_NON_RETRYABLE"]
           again == [s EXCEPT !.phase = Or(s.resume, "WAITING_BE"),
                              !.resume = NoPhase, !.backoff = FALSE]
<1>1. spent \in ManagedStates /\ spent.pending = NoAction
  BY DEF ManagedStates, Phases
<1>2. again \in ManagedStates /\ again.pending = NoAction /\ again.side = s.side
  BY DEF ManagedStates, Phases, Active, Or
<1> HIDE DEF spent, again
<1>3. Sound(Stay(spent), position) /\ Sound(Stay(s), position)
  BY <1>1, StaySound
<1>4. /\ Sound(EvaluatePending(s, position, close, atr), position)
      /\ Sound(EvaluatePending(again, position, close, atr), position)
  BY <1>2, PendingSound
<1> QED
  BY <1>3, <1>4 DEF EvaluateRetry, spent, again

(* A fresh snapshot drops what STALE was holding. *)
LEMMA UnstaleType ==
    ASSUME NEW s \in ManagedStates
    PROVE  LET u == Unstale(s)
           IN  u \in ManagedStates /\ u.pending = NoAction /\ u.side = s.side
  BY DEF Unstale, Or, ManagedStates, Actions, Phases, Active

(* STALE keeps the intent for later reconciliation. *)
LEMMA MarkStaleType ==
    ASSUME NEW s \in ManagedStates
    PROVE  MarkStale(s) \in ManagedStates /\ MarkStale(s).phase = "STALE"
  BY DEF MarkStale, ManagedStates, Phases

(* Whatever is observed, whatever the state went through before: an action *)
(* evaluate proposes is recorded as the pending intent of an active phase, *)
(* tightens the observed stop, reaches break-even and, when it trails,     *)
(* starts from a stop beyond break-even.  An intent that is not in flight  *)
(* must be STALE for this, and stays so.                                   *)
THEOREM EvaluateSound ==
    ASSUME NEW s \in ManagedStates, NEW position \in Positions,
           NEW tick \in MarketTicks, NEW atr, NEW elapsed,
           s.pending # NoAction => s.phase = "STALE"
    PROVE  Sound(Evaluate(s, position, tick, atr, elapsed), position)
<1> DEFINE close   == ClosingPrice(tick, s.side)
           working == IF s.phase = "STALE" THEN Unstale(s) ELSE s
           wrong   == [s EXCEPT !.phase = "ERROR_NON_RETRYABLE", !.pending = NoAction]
           closed  == [s EXCEPT !.phase = "CLOSED", !.pending = NoAction,
                                !.resume = NoPhase]
<1>1. close \in Int
  BY DEF ClosingPrice, MarketTicks
<1>2. /\ working \in ManagedStates /\ working.pending = NoAction
      /\ working.side = s.side
  BY UnstaleType
<1>3. wrong \in ManagedStates /\ wrong.pending = NoAction
  BY DEF ManagedStates, Phases, Actions
<1>4. closed \in ManagedStates /\ closed.pending = NoAction
  BY DEF ManagedStates, Phases, Actions
<1> HIDE DEF close, working, wrong, closed
<1>5. /\ Sound(Stay(s), position)
      /\ Sound(Stay(MarkStale(s)), position)
      /\ Sound(Stay(wrong), position)
      /\ Sound(Stay(closed), position)
      /\ Sound(Stay(working), position)
  BY <1>2, <1>3, <1>4, MarkStaleType, StaySound
<1>6. ASSUME s.pending # NoAction
      PROVE  Sound(Stay(ApplyConfirmedAction(s, s.pending)), position)
  BY <1>6, ConfirmedType, StaySound DEF ManagedStates
<1>7. ASSUME ~IdentityError(s, position)
      PROVE  Sound(EvaluateRetry(working, position, close, atr, elapsed), position)
  <2>1. s.side = position.side
    BY <1>7 DEF IdentityError
  <2> QED
    BY <1>1, <1>2, <2>1, RetrySound
<1>8. Evaluate(s, position, tick, atr, elapsed) =
        IF s.phase \in {"UNMANAGED", "CLOSED"} THEN Stay(s)
        ELSE IF ~position.fresh \/ ~tick.fresh THEN Stay(MarkStale(s))
        ELSE IF IdentityError(s, position) THEN Stay(wrong)
        ELSE IF ~position.exists THEN Stay(closed)
        ELSE IF s.phase \in {"PAUSED", "ERROR_NON_RETRYABLE"} THEN Stay(s)
        ELSE IF close <= 0 THEN Stay(MarkStale(s))
        ELSE IF /\ s.phase = "STALE" /\ s.pending # NoAction
                /\ ActionIsReflected(s.pending, position)
        THEN Stay(ApplyConfirmedAction(s, s.pending))
        ELSE IF working.phase \in {"PAUSED", "ERROR_NON_RETRYABLE"} THEN Stay(working)
        ELSE EvaluateRetry(working, position, close, atr, elapsed)
  BY DEF Evaluate, close, working, wrong, closed
<1> QED
  BY <1>5, <1>6, <1>7, <1>8

-----------------------------------------------------------------------------
(* Confirmation and commands *)

Confirmations == [status : ConfirmationStatuses, sl : Int, tp : Int]

(* Whatever the broker answers, the intent is settled or waits as STALE.    *)
LEMMA ConfirmationSettles ==
    ASSUME NEW s \in ManagedStates, s.pending # NoAction, NEW c \in Confirmations
    PROVE  /\ ApplyConfirmation(s, c) \in ManagedStates
           /\ \/ ApplyConfirmation(s, c).pending = NoAction
              \/ ApplyConfirmation(s, c).phase = "STALE"
<1> DEFINE next == ApplyConfirmation(s, c)
           retry == [s EXCEPT !.phase = "ERROR_RETRYABLE", !.pending = NoAction,
                              !.resume = s.pending.source,
                              !.retries = s.retries + 1, !.backoff = TRUE]
           lost == [s EXCEPT !.phase = "STALE", !.resume = s.pending.source]
           failed == FailWith(s)
           spent == [failed EXCEPT !.retries = s.retries + 1]
           good == ApplyConfirmedAction(s, s.pending)
<1>1. s.pending \in Actions /\ s.pending.source \in Active /\ NoAction \in Actions
  BY DEF ManagedStates, Actions
<1>2. failed \in ManagedStates /\ failed.pending = NoAction
  BY <1>1 DEF FailWith, ManagedStates, Phases
<1>3. retry \in ManagedStates /\ retry.pending = NoAction
  <2>1. /\ s.retries + 1 \in Nat
        /\ s.pending.source \in Phases \cup {NoPhase}
        /\ "ERROR_RETRYABLE" \in Phases
    BY <1>1 DEF ManagedStates, Phases
  <2> QED
    BY <1>1, <2>1 DEF ManagedStates
<1>4. lost \in ManagedStates /\ lost.phase = "STALE"
  BY <1>1 DEF ManagedStates, Phases
<1> HIDE DEF failed
<1>5. spent \in ManagedStates /\ spent.pending = NoAction
  BY <1>2 DEF ManagedStates
<1>6. good \in ManagedStates /\ good.pending = NoAction
  BY <1>1, ConfirmedType
<1> HIDE DEF retry, lost, spent, good
<1>7. next \in {good, failed, spent, retry, lost}
  <2>1. CASE c.status = "CONFIRMED"
    BY <2>1 DEF ApplyConfirmation, good, failed
  <2>2. CASE c.status = "RETRYABLE_ERROR"
    BY <2>2 DEF ApplyConfirmation, spent, failed, retry
  <2>3. CASE c.status = "UNKNOWN"
    BY <2>3 DEF ApplyConfirmation, lost
  <2>4. CASE c.status = "REJECTED"
    BY <2>4 DEF ApplyConfirmation, failed
  <2> QED
    BY <2>1, <2>2, <2>3, <2>4 DEF Confirmations, ConfirmationStatuses
<1> HIDE DEF next
<1>8. next \in ManagedStates /\ (next.pending = NoAction \/ next.phase = "STALE")
  BY <1>2, <1>3, <1>4, <1>5, <1>6, <1>7
<1> QED
  BY <1>8 DEF next

(* pause and resume keep the intent and the type. *)
LEMMA CommandType ==
    ASSUME NEW s \in ManagedStates
    PROVE  /\ Pause(s) \in ManagedStates /\ Pause(s).pending = s.pending
           /\ Resume(s) \in ManagedStates /\ Resume(s).pending = s.pending
  BY DEF Pause, Resume, Or, ManagedStates, Phases, Active

(* A registration starts without an intent. *)
LEMMA StartType ==
    ASSUME NEW r \in [side : Sides, entry : Int, initialSl : Int]
    PROVE  StartManagement(r) \in ManagedStates /\ StartManagement(r).pending = NoAction
  BY DEF StartManagement, ManagedStates, Phases, Active, Actions, Missing

-----------------------------------------------------------------------------
(* What an evaluation may do to a state *)

Ended == {"CLOSED", "UNMANAGED"}

Stopped == {"PAUSED", "ERROR_NON_RETRYABLE"}

(* A state in which management has stopped, even when it is STALE on top,   *)
(* carries no intent: a fresh snapshot then has nothing to start it with.   *)
Settled(s) == EffectivePhase(s) \in Stopped => s.pending = NoAction

(* What the stages of an active phase do to a state without an intent.     *)
Advances(s, next) ==
    /\ next.side = s.side /\ next.entry = s.entry
    /\ next.retries \in {s.retries, 0}
    /\ next.resume \in {s.resume, NoPhase}
    /\ next = s \/ next.phase \in Active \cup {"ERROR_NON_RETRYABLE"}
    /\ next.phase = "ERROR_NON_RETRYABLE" => next.pending = NoAction

(* Stages up to the retry gate stay among the active phases or give up. *)
LEMMA ActiveAdvances ==
    ASSUME NEW s \in ManagedStates, NEW position, NEW close, NEW atr,
           s.pending = NoAction
    PROVE  Advances(s, EvaluateActive(s, position, close, atr).state)
<1> DEFINE reset == [s EXCEPT !.phase = "WAITING_BE", !.pending = NoAction,
                              !.resume = NoPhase]
           working == IF ProtectionLost(s, position) THEN reset ELSE s
           Shifted(next) == /\ next.side = s.side /\ next.entry = s.entry
                            /\ next.retries \in {s.retries, 0}
                            /\ next.resume \in {s.resume, NoPhase}
<1>1. /\ working \in [side : Sides, entry : Int, initialSl : Int, phase : Phases,
                      extreme : Int, pending : Actions,
                      resume : Phases \cup {NoPhase}, retries : Nat,
                      backoff : BOOLEAN]
      /\ Shifted(working) /\ working.pending = NoAction
  BY DEF ManagedStates, Phases, Active, Actions
<1> HIDE DEF working
<1>2. CASE working.phase = "WAITING_BE"
  <2>1. EvaluateActive(s, position, close, atr)
          = EvaluateWaitingBe(working, position, close)
    BY <1>2 DEF EvaluateActive, working, reset, Trailing
  <2>2. /\ Shifted(EvaluateWaitingBe(working, position, close).state)
        /\ EvaluateWaitingBe(working, position, close).state.phase
             \in {"WAITING_BE", "BE_ACTIVE"}
    BY <1>1, <1>2 DEF EvaluateWaitingBe, Stay, Propose, Decision
  <2> QED
    BY <2>1, <2>2 DEF Advances, Active
<1>3. CASE working.phase = "BE_ACTIVE"
  <2>1. EvaluateActive(s, position, close, atr) = ArmTrailing(working, close)
    BY <1>3 DEF EvaluateActive, working, reset, Trailing
  <2>2. /\ Shifted(ArmTrailing(working, close).state)
        /\ ArmTrailing(working, close).state.phase \in Trailing
    BY <1>1 DEF ArmTrailing, Stay, Decision, Trailing
  <2> QED
    BY <2>1, <2>2 DEF Advances, Active, Trailing
<1>4. CASE working.phase \in Trailing
  <2>1. EvaluateActive(s, position, close, atr)
          = EvaluateTrailing(working, position, close, atr)
    BY <1>4 DEF EvaluateActive, working, reset, Trailing
  <2>2. /\ Shifted(EvaluateTrailing(working, position, close, atr).state)
        /\ EvaluateTrailing(working, position, close, atr).state.phase \in Trailing
    BY <1>1, <1>4 DEF EvaluateTrailing, Stay, Propose, Decision, Trailing
  <2> QED
    BY <2>1, <2>2 DEF Advances, Active, Trailing
<1>5. CASE working.phase \notin {"WAITING_BE", "BE_ACTIVE"} \cup Trailing
  <2>1. EvaluateActive(s, position, close, atr)
          = Stay([working EXCEPT !.phase = "ERROR_NON_RETRYABLE"])
    BY <1>5 DEF EvaluateActive, working, reset, Trailing
  <2> QED
    BY <1>1, <2>1 DEF Stay, Decision, Advances
<1> QED
  BY <1>2, <1>3, <1>4, <1>5

(* A retry goes back to its phase, waits, or has spent its budget. *)
LEMMA RetryAdvances ==
    ASSUME NEW s \in ManagedStates, NEW position, NEW close, NEW atr, NEW elapsed,
           s.pending = NoAction
    PROVE  Advances(s, EvaluateRetry(s, position, close, atr, elapsed).state)
<1> DEFINE again == [s EXCEPT !.phase = Or(s.resume, "WAITING_BE"),
                              !.resume = NoPhase, !.backoff = FALSE]
           spent == [s EXCEPT !.phase = "ERROR_NON_RETRYABLE"]
<1>1. /\ again \in ManagedStates /\ again.pending = NoAction
      /\ again.side = s.side /\ again.entry = s.entry /\ again.resume = NoPhase
      /\ again.retries = s.retries /\ again.phase \in Phases
  BY DEF ManagedStates, Phases, Active, Or
<1>2. Advances(s, spent) /\ Advances(s, s)
  BY DEF Advances, ManagedStates
<1> HIDE DEF again, spent
<1>3. Advances(s, EvaluateActive(s, position, close, atr).state)
  BY ActiveAdvances
<1>4. s.phase = "ERROR_RETRYABLE" =>
        Advances(s, EvaluateActive(again, position, close, atr).state)
  <2> DEFINE next == EvaluateActive(again, position, close, atr).state
  <2>1. Advances(again, next)
    BY <1>1, ActiveAdvances
  <2>2. next.phase \in Active \cup {"ERROR_NON_RETRYABLE"}
    <3>1. CASE again.phase \in Active
      BY <2>1, <3>1 DEF Advances
    <3>2. CASE again.phase \notin Active
      BY <1>1, <3>2 DEF EvaluateActive, ProtectionLost, Protected, Trailing, Active,
         Stay, Decision, ManagedStates
    <3> QED
      BY <3>1, <3>2
  <2> HIDE DEF next
  <2>3. Advances(s, next)
    BY <1>1, <2>1, <2>2 DEF Advances
  <2> QED
    BY <2>3 DEF next
<1>5. EvaluateRetry(s, position, close, atr, elapsed).state
        \in {s, spent, EvaluateActive(s, position, close, atr).state}
             \cup (IF s.phase = "ERROR_RETRYABLE"
                   THEN {EvaluateActive(again, position, close, atr).state} ELSE {})
  BY <1>1 DEF EvaluateRetry, EvaluatePending, Stay, Decision, again, spent
<1> QED
  BY <1>2, <1>3, <1>4, <1>5

(* Whatever is observed of a position that exists, a state keeps its        *)
(* identity, stays clear of the closed phases, does not gain a retry, and   *)
(* when management has stopped it is not started again.  Only a mistaken    *)
(* identity turns a pause into an error.                                   *)
THEOREM EvaluateKeeps ==
    ASSUME NEW s \in ManagedStates, NEW position \in Positions, position.exists,
           NEW tick \in MarketTicks, NEW atr, NEW elapsed,
           s.pending # NoAction => s.phase = "STALE", Settled(s),
           NEW next, next = Evaluate(s, position, tick, atr, elapsed).state
    PROVE  /\ next.side = s.side /\ next.entry = s.entry
           /\ next.retries \in {s.retries, 0}
           /\ {s.phase, s.resume} \cap Ended = {} =>
                {next.phase, next.resume} \cap Ended = {}
           /\ Settled(next)
           /\ EffectivePhase(s) \in Stopped => EffectivePhase(next) \in Stopped
           /\ EffectivePhase(s) = "ERROR_NON_RETRYABLE" =>
                EffectivePhase(next) = "ERROR_NON_RETRYABLE"
           /\ EffectivePhase(s) = "PAUSED" /\ ~IdentityError(s, position) =>
                EffectivePhase(next) = "PAUSED"
<1> DEFINE close   == ClosingPrice(tick, s.side)
           working == IF s.phase = "STALE" THEN Unstale(s) ELSE s
           wrong   == [s EXCEPT !.phase = "ERROR_NON_RETRYABLE", !.pending = NoAction]
           done    == ApplyConfirmedAction(s, s.pending)
           retried == EvaluateRetry(working, position, close, atr, elapsed).state
           Keeps(e) ==
             /\ e.side = s.side /\ e.entry = s.entry
             /\ e.retries \in {s.retries, 0}
             /\ {s.phase, s.resume} \cap Ended = {} =>
                  {e.phase, e.resume} \cap Ended = {}
             /\ Settled(e)
             /\ EffectivePhase(s) \in Stopped => EffectivePhase(e) \in Stopped
             /\ EffectivePhase(s) = "ERROR_NON_RETRYABLE" =>
                  EffectivePhase(e) = "ERROR_NON_RETRYABLE"
             /\ EffectivePhase(s) = "PAUSED" /\ ~IdentityError(s, position) =>
                  EffectivePhase(e) = "PAUSED"
<1>1. Keeps(s)
  OBVIOUS
<1>2. Keeps(MarkStale(s))
  BY DEF MarkStale, ManagedStates, Phases, Settled, EffectivePhase, Ended, Stopped
<1>3. IdentityError(s, position) => Keeps(wrong)
  BY DEF ManagedStates, Settled, EffectivePhase, Ended, Stopped
<1>4. s.pending # NoAction => Keeps(done)
  <2> SUFFICES ASSUME s.pending # NoAction PROVE Keeps(done)
    OBVIOUS
  <2>1. s.pending.source \in Active /\ EffectivePhase(s) \notin Stopped
    BY DEF ManagedStates, Actions, Settled
  <2>2. /\ done.phase \in Active /\ done.resume = NoPhase
        /\ done.side = s.side /\ done.entry = s.entry /\ done.retries = 0
    BY <2>1 DEF ApplyConfirmedAction, ManagedStates, Active
  <2> QED
    BY <2>1, <2>2 DEF Settled, EffectivePhase, Ended, Stopped, Active, NoPhase
<1>5. /\ working \in ManagedStates /\ working.pending = NoAction
      /\ working.side = s.side /\ working.entry = s.entry
      /\ working.retries = s.retries
      /\ working.phase = IF s.phase # "STALE" THEN s.phase
                         ELSE IF s.pending # NoAction THEN s.pending.source
                         ELSE Or(s.resume, "WAITING_BE")
      /\ working.resume = IF s.phase # "STALE" THEN s.resume ELSE NoPhase
  <2>1. s.pending # NoAction => s.pending.source \in Active
    BY DEF ManagedStates, Actions
  <2> QED
    BY <2>1, UnstaleType DEF Unstale, ManagedStates, Or, Active, NoPhase
<1>6. EffectivePhase(s) \in Stopped => working.phase = EffectivePhase(s)
  BY <1>5 DEF Settled, EffectivePhase, Stopped, Or, NoPhase
<1>7. {s.phase, s.resume} \cap Ended = {} =>
        {working.phase, working.resume} \cap Ended = {}
  <2>1. s.pending # NoAction => s.pending.source \in Active
    BY DEF ManagedStates, Actions
  <2> QED
    BY <1>5, <2>1 DEF Ended, Or, NoPhase, Active
<1> HIDE DEF working, wrong, done
<1>8. working.phase \in Stopped => Keeps(working)
  BY <1>5, <1>6, <1>7 DEF Settled, EffectivePhase, Stopped
<1>9. working.phase \notin Stopped => Keeps(retried)
  <2> SUFFICES ASSUME working.phase \notin Stopped PROVE Keeps(retried)
    OBVIOUS
  <2>1. Advances(working, retried)
    BY <1>5, RetryAdvances
  <2> HIDE DEF retried
  <2>2. EffectivePhase(s) \notin Stopped
    BY <1>6
  <2>3. Settled(retried)
    BY <1>5, <2>1 DEF Advances, Settled, EffectivePhase, Stopped, Active
  <2>4. {working.phase, working.resume} \cap Ended = {} =>
          {retried.phase, retried.resume} \cap Ended = {}
    BY <2>1 DEF Advances, Ended, Active, NoPhase
  <2> QED
    BY <1>5, <1>7, <2>1, <2>2, <2>3, <2>4 DEF Advances, Stopped
<1>10. \/ next \in {s, MarkStale(s)}
       \/ IdentityError(s, position) /\ next = wrong
       \/ s.pending # NoAction /\ next = done
       \/ working.phase \in Stopped /\ next = working
       \/ working.phase \notin Stopped /\ next = retried
  BY DEF Evaluate, Stay, Decision, Stopped, working, wrong, done
<1> HIDE DEF retried
<1> QED
  BY <1>1, <1>2, <1>3, <1>4, <1>8, <1>9, <1>10

(* Whatever the broker answers to the intent of an active phase: the state  *)
(* keeps its identity, and a retry beyond the budget is an error.           *)
LEMMA ConfirmationKeeps ==
    ASSUME NEW s \in ManagedStates, s.pending # NoAction,
           NEW c \in Confirmations, NEW next, next = ApplyConfirmation(s, c)
    PROVE  /\ next.side = s.side /\ next.entry = s.entry
           /\ \/ next.retries \in {s.retries, 0} \cup 0..MaxRetries
              \/ next.phase = "ERROR_NON_RETRYABLE"
           /\ {next.phase, next.resume} \cap Ended = {}
           /\ Settled(next)
<1>1. s.pending.source \in Active /\ s.retries + 1 \in Nat /\ MaxRetries \in Nat
  BY SettingsAssumption DEF ManagedStates, Actions
<1> DEFINE Keeps(e) ==
             /\ e.side = s.side /\ e.entry = s.entry
             /\ \/ e.retries \in {s.retries, 0} \cup 0..MaxRetries
                \/ e.phase = "ERROR_NON_RETRYABLE"
             /\ {e.phase, e.resume} \cap Ended = {}
             /\ Settled(e)
           retry == [s EXCEPT !.phase = "ERROR_RETRYABLE", !.pending = NoAction,
                              !.resume = s.pending.source,
                              !.retries = s.retries + 1, !.backoff = TRUE]
           lost == [s EXCEPT !.phase = "STALE", !.resume = s.pending.source]
           spent == [FailWith(s) EXCEPT !.retries = s.retries + 1]
           good == ApplyConfirmedAction(s, s.pending)
<1>2. Keeps(FailWith(s)) /\ Keeps(spent)
  BY <1>1 DEF FailWith, ManagedStates, Settled, EffectivePhase, Stopped, Ended, Active
<1>3. s.retries + 1 <= MaxRetries => Keeps(retry)
  BY <1>1 DEF ManagedStates, Settled, EffectivePhase, Stopped, Ended, Active
<1>4. Keeps(lost)
  BY <1>1 DEF ManagedStates, Settled, EffectivePhase, Stopped, Ended, Active
<1>5. Keeps(good)
  BY <1>1 DEF ApplyConfirmedAction, ManagedStates, Settled, EffectivePhase, Stopped,
     Ended, Active, NoPhase
<1>6. \/ next \in {FailWith(s), spent, lost, good}
      \/ s.retries + 1 <= MaxRetries /\ next = retry
  <2>1. CASE c.status = "CONFIRMED"
    BY <2>1 DEF ApplyConfirmation
  <2>2. CASE c.status = "RETRYABLE_ERROR"
    BY <1>1, <2>2 DEF ApplyConfirmation
  <2>3. CASE c.status = "UNKNOWN"
    BY <2>3 DEF ApplyConfirmation
  <2>4. CASE c.status = "REJECTED"
    BY <2>4 DEF ApplyConfirmation
  <2> QED
    BY <2>1, <2>2, <2>3, <2>4 DEF Confirmations, ConfirmationStatuses
<1> HIDE DEF retry, lost, spent, good
<1> QED
  BY <1>2, <1>3, <1>4, <1>5, <1>6

=============================================================================
