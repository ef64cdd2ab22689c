------------------------- MODULE OrderStateMachine -------------------------
(***************************************************************************)
(* The pure break-even / trailing-stop state machine of                    *)
(* core/order_management_state_machine.py: immutable records in, a         *)
(* decision out, no side effect.  Every definition here is an operator;    *)
(* the modules that own the threads, the broker and the disk extend it.    *)
(*                                                                         *)
(* Prices are integers on the broker's price grid.  0 stands for a missing *)
(* price: _is_positive_number treats None, 0 and negative numbers alike.   *)
(* The price tolerance (a millionth of a tick) absorbs float noise only,   *)
(* so it is 0 here.  last_error is a diagnostic and is left out.           *)
(***************************************************************************)
EXTENDS Integers

CONSTANTS
    TickSize,       \* trade tick size, in units of the integer grid
    DigitQuantum,   \* 10^(-digits), in the same unit
    StopDistance,   \* max(stops level, freeze level) * point
    BeTriggerR,     \* be_trigger_r
    BeOffset,       \* be_offset
    TightTriggerR,  \* tight_trigger_r
    WideDistance,   \* ATR * wide_atr_multiplier
    TightDistance,  \* ATR * tight_atr_multiplier
    MinImprovement, \* minimum_update_ticks * tick_size
    MaxRetries      \* max_retries

ASSUME ConstraintsAssumption ==
    /\ TickSize \in Nat \ {0}
    /\ DigitQuantum \in Nat \ {0}
    /\ StopDistance \in Nat

ASSUME SettingsAssumption ==
    /\ BeTriggerR \in Nat \ {0}
    /\ BeOffset \in Nat
    /\ TightTriggerR \in Nat \ {0}
    /\ WideDistance \in Nat \ {0}
    /\ TightDistance \in Nat \ {0}
    /\ MinImprovement \in Nat
    /\ MaxRetries \in Nat

-----------------------------------------------------------------------------
(* Records *)

Missing == 0

Sides == {"buy", "sell"}

Active == {"WAITING_BE", "BE_ACTIVE", "TRAIL_WIDE", "TRAIL_TIGHT"}

Phases == Active \cup {"UNMANAGED", "PAUSED", "STALE", "ERROR_RETRYABLE",
                       "ERROR_NON_RETRYABLE", "CLOSED"}

NoPhase == "NONE"

Trailing == {"TRAIL_WIDE", "TRAIL_TIGHT"}

Protected == {"BE_ACTIVE"} \cup Trailing

NoAction == [reason |-> "NONE", target |-> Missing, preserveTp |-> Missing,
             expectedSl |-> Missing, source |-> NoPhase]

ActionReasons == {"BREAKEVEN"} \cup Trailing

Actions ==
    {NoAction} \cup [reason : ActionReasons, target : Int, preserveTp : Int,
                    expectedSl : Int, source : Active]

ManagedStates == [side : Sides, entry : Int, initialSl : Int, phase : Phases,
                  extreme : Int, pending : Actions,
                  resume : Phases \cup {NoPhase}, retries : Nat,
                  backoff : BOOLEAN]

(* start_management: the initial stop lies on the losing side of the entry. *)
ValidRegistration(r) ==
    /\ r.side \in Sides
    /\ r.entry > 0 /\ r.initialSl > 0
    /\ r.side = "buy" => r.initialSl < r.entry
    /\ r.side = "sell" => r.initialSl > r.entry

StartManagement(r) ==
    [side |-> r.side, entry |-> r.entry, initialSl |-> r.initialSl,
     phase |-> "WAITING_BE", extreme |-> Missing, pending |-> NoAction,
     resume |-> NoPhase, retries |-> 0, backoff |-> FALSE]

Or(phase, default) == IF phase = NoPhase THEN default ELSE phase

(* The phase behind STALE, which only says that the broker is out of sight. *)
EffectivePhase(s) == IF s.phase = "STALE" THEN s.resume ELSE s.phase

-----------------------------------------------------------------------------
(* Price predicates *)

AtLeastAsProtective(actual, target, side) ==
    /\ actual > 0
    /\ side = "buy" => actual >= target
    /\ side = "sell" => actual <= target

StrictlyMoreProtective(candidate, sl, side) ==
    \/ sl <= 0
    \/ /\ side = "buy"
       /\ candidate - sl >= MinImprovement
       /\ candidate > sl
    \/ /\ side = "sell"
       /\ sl - candidate >= MinImprovement
       /\ candidate < sl

SameOptionalPrice(a, b) == a = b \/ (a <= 0 /\ b <= 0)

RawBreakEven(s) ==
    IF s.side = "buy" THEN s.entry + BeOffset ELSE s.entry - BeOffset

ClosingPrice(tick, side) == IF side = "buy" THEN tick.bid ELSE tick.ask

Risk(s) == IF s.side = "buy" THEN s.entry - s.initialSl
                             ELSE s.initialSl - s.entry

(* profit_r >= r, multiplied by the positive risk. *)
ThresholdReached(s, close, r) ==
    (IF s.side = "buy" THEN close - s.entry ELSE s.entry - close) >= r * Risk(s)

NewExtreme(side, previous, close) ==
    IF \/ previous <= 0
       \/ side = "buy" /\ close > previous
       \/ side = "sell" /\ close < previous
    THEN close
    ELSE previous

(* Rounding to a grid away from the market: down for BUY, up for SELL. *)
RoundToGrid(price, unit, side) ==
    IF side = "buy" THEN (price \div unit) * unit
                    ELSE -(((-price) \div unit) * unit)

(* normalize_stop_target; Missing where the code raises ValueError. *)
NormalizeStopTarget(raw, side, close) ==
    LET clamped ==
            IF side = "buy"
            THEN IF raw < close - StopDistance THEN raw ELSE close - StopDistance
            ELSE IF raw > close + StopDistance THEN raw ELSE close + StopDistance
    IN  IF raw <= 0 \/ close <= 0 \/ clamped <= 0
        THEN Missing
        ELSE RoundToGrid(RoundToGrid(clamped, TickSize, side), DigitQuantum, side)

-----------------------------------------------------------------------------
(* User commands *)

CanAlwaysPause(s) == TRUE  \* mutant of CanPause

(* pause: not allowed (ValueError) while a broker action is unconfirmed. *)
CanPause(s) == s.phase \in {"CLOSED", "UNMANAGED"} \/ s.pending = NoAction

Pause(s) ==
    IF s.phase \in {"CLOSED", "UNMANAGED", "PAUSED"} THEN s
    ELSE [s EXCEPT !.phase = "PAUSED", !.resume = s.phase]

Resume(s) ==
    IF s.phase # "PAUSED" THEN s
    ELSE [s EXCEPT !.phase = Or(s.resume, "WAITING_BE"), !.resume = NoPhase]

-----------------------------------------------------------------------------
(* Confirmation *)

ResumeSource(s, action) ==  \* mutant of ApplyConfirmedAction
    [s EXCEPT !.phase = IF action.reason = "BREAKEVEN" THEN "BE_ACTIVE"
                        ELSE s.resume,
              !.pending = NoAction]

ApplyConfirmedAction(s, action) ==
    [s EXCEPT !.phase = IF action.reason = "BREAKEVEN" THEN "BE_ACTIVE"
                        ELSE action.source,
              !.pending = NoAction, !.resume = NoPhase,
              !.retries = 0, !.backoff = FALSE]

ActionIsReflected(action, position) ==
    /\ AtLeastAsProtective(position.sl, action.target, position.side)
    /\ SameOptionalPrice(position.tp, action.preserveTp)

ConfirmationStatuses == {"CONFIRMED", "RETRYABLE_ERROR", "REJECTED", "UNKNOWN"}

FailAndGoOn(s) ==  \* mutant of FailWith
    [s EXCEPT !.phase = s.pending.source, !.pending = NoAction]

FailKeepingIntent(s) ==  \* mutant of FailWith
    [s EXCEPT !.phase = "ERROR_NON_RETRYABLE", !.resume = s.pending.source]

FailWith(s) ==
    [s EXCEPT !.phase = "ERROR_NON_RETRYABLE", !.pending = NoAction,
              !.resume = s.pending.source]

(* apply_confirmation, for a position the caller reports as existing.       *)
(* backoff stands for retry_not_before lying ahead of the clock.           *)
ApplyConfirmation(s, c) ==
    CASE c.status = "CONFIRMED" ->
            IF /\ AtLeastAsProtective(c.sl, s.pending.target, s.side)
               /\ SameOptionalPrice(c.tp, s.pending.preserveTp)
            THEN ApplyConfirmedAction(s, s.pending)
            ELSE FailWith(s)
      [] c.status = "RETRYABLE_ERROR" ->
            IF s.retries + 1 > MaxRetries
            THEN [FailWith(s) EXCEPT !.retries = s.retries + 1]
            ELSE [s EXCEPT !.phase = "ERROR_RETRYABLE", !.pending = NoAction,
                           !.resume = s.pending.source,
                           !.retries = s.retries + 1, !.backoff = TRUE]
      [] c.status = "UNKNOWN" ->
            [s EXCEPT !.phase = "STALE", !.resume = s.pending.source]
      [] OTHER -> FailWith(s)

-----------------------------------------------------------------------------
(* Evaluation of one observation *)

Decision(s, action) == [state |-> s, action |-> action]

Stay(s) == Decision(s, NoAction)

MarkStale(s) ==
    IF s.phase = "STALE" THEN s
    ELSE [s EXCEPT !.phase = "STALE", !.resume = s.phase]

Propose(s, reason, target, position, source) ==
    LET action == [reason |-> reason, target |-> target,
                   preserveTp |-> position.tp, expectedSl |-> position.sl,
                   source |-> source]
    IN  Decision([s EXCEPT !.pending = action], action)

AnyTarget(target, rawBe, side) == target # Missing  \* mutant of ReachesBreakEven

ReachesBreakEven(target, rawBe, side) == AtLeastAsProtective(target, rawBe, side)

(* The hard gate: no trailing target before the broker shows break-even.   *)
EvaluateWaitingBe(s, position, close) ==
    LET rawBe  == RawBreakEven(s)
        seen   == [s EXCEPT !.extreme = NewExtreme(s.side, s.extreme, close)]
        target == NormalizeStopTarget(rawBe, s.side, close)
    IN  IF AtLeastAsProtective(position.sl, rawBe, s.side)
        THEN Stay([seen EXCEPT !.phase = "BE_ACTIVE", !.retries = 0,
                               !.backoff = FALSE])
        ELSE IF /\ ThresholdReached(s, close, BeTriggerR)
                /\ ReachesBreakEven(target, rawBe, s.side)
                /\ StrictlyMoreProtective(target, position.sl, s.side)
        THEN Propose(seen, "BREAKEVEN", target, position, "WAITING_BE")
        ELSE Stay(s)

ArmTrailing(s, close) ==
    Stay([s EXCEPT !.phase = IF ThresholdReached(s, close, TightTriggerR)
                             THEN "TRAIL_TIGHT" ELSE "TRAIL_WIDE",
                   !.extreme = NewExtreme(s.side, s.extreme, close),
                   !.retries = 0, !.backoff = FALSE])

Improves(target, position) ==
    StrictlyMoreProtective(target, position.sl, position.side)

(* A target the normalization cannot produce proposes nothing.             *)
EvaluateTrailing(s, position, close, atr) ==
    LET phase    == IF ThresholdReached(s, close, TightTriggerR)
                    THEN "TRAIL_TIGHT" ELSE s.phase
        extreme  == NewExtreme(s.side, s.extreme, close)
        working  == [s EXCEPT !.phase = phase, !.extreme = extreme]
        distance == IF phase = "TRAIL_TIGHT" THEN TightDistance ELSE WideDistance
        raw      == IF s.side = "buy" THEN extreme - distance
                                      ELSE extreme + distance
        target   == NormalizeStopTarget(raw, s.side, close)
    IN  IF /\ atr
           /\ target > 0
           /\ Improves(target, position)
        THEN Propose(working, phase, target, position, phase)
        ELSE Stay(working)

TrustPhase(s, position) == FALSE  \* mutant of ProtectionLost

ProtectionLost(s, position) ==
    /\ s.phase \in Protected
    /\ ~AtLeastAsProtective(position.sl, RawBreakEven(s), s.side)

(* Active phases, with no action outstanding.  Broker protection that was  *)
(* removed or loosened after break-even re-enters the break-even gate.     *)
EvaluateActive(s, position, close, atr) ==
    LET working ==
            IF ProtectionLost(s, position)
            THEN [s EXCEPT !.phase = "WAITING_BE", !.pending = NoAction,
                           !.resume = NoPhase]
            ELSE s
    IN  CASE working.phase = "WAITING_BE" ->
                EvaluateWaitingBe(working, position, close)
          [] working.phase = "BE_ACTIVE" -> ArmTrailing(working, close)
          [] working.phase \in Trailing ->
                EvaluateTrailing(working, position, close, atr)
          [] OTHER -> Stay([working EXCEPT !.phase = "ERROR_NON_RETRYABLE"])

EvaluatePending(s, position, close, atr) ==
    IF s.pending = NoAction THEN EvaluateActive(s, position, close, atr)
    ELSE IF ActionIsReflected(s.pending, position)
         THEN Stay(ApplyConfirmedAction(s, s.pending))
         ELSE Stay(s)

EvaluateRetry(s, position, close, atr, elapsed) ==
    IF s.phase # "ERROR_RETRYABLE" THEN EvaluatePending(s, position, close, atr)
    ELSE IF s.retries > MaxRetries
         THEN Stay([s EXCEPT !.phase = "ERROR_NON_RETRYABLE"])
    ELSE IF s.backoff /\ ~elapsed THEN Stay(s)
    ELSE EvaluatePending([s EXCEPT !.phase = Or(s.resume, "WAITING_BE"),
                                   !.resume = NoPhase, !.backoff = FALSE],
                         position, close, atr)

KeepPending(s) ==  \* mutant of Unstale
    [s EXCEPT !.phase = Or(s.pending.source, Or(s.resume, "WAITING_BE")),
              !.resume = NoPhase]

(* A fresh snapshot resolves STALE: a pending action the broker reflects is *)
(* confirmed, any other is dropped and recomputed from broker truth.        *)
Unstale(s) ==
    [s EXCEPT !.phase = IF s.pending # NoAction
                        THEN Or(s.pending.source, "WAITING_BE")
                        ELSE Or(s.resume, "WAITING_BE"),
              !.pending = NoAction, !.resume = NoPhase]

IdentityError(s, position) ==
    \/ position.side # s.side
    \/ position.exists /\ position.entry # s.entry

Evaluate(s, position, tick, atr, elapsed) ==
    LET close   == ClosingPrice(tick, s.side)
        working == IF s.phase = "STALE" THEN Unstale(s) ELSE s
    IN  IF s.phase \in {"UNMANAGED", "CLOSED"} THEN Stay(s)
        ELSE IF ~position.fresh \/ ~tick.fresh THEN Stay(MarkStale(s))
        ELSE IF IdentityError(s, position)
        THEN Stay([s EXCEPT !.phase = "ERROR_NON_RETRYABLE", !.pending = NoAction])
        ELSE IF ~position.exists
        THEN Stay([s EXCEPT !.phase = "CLOSED", !.pending = NoAction,
                            !.resume = NoPhase])
        ELSE IF s.phase \in {"PAUSED", "ERROR_NON_RETRYABLE"} THEN Stay(s)
        ELSE IF close <= 0 THEN Stay(MarkStale(s))
        ELSE IF /\ s.phase = "STALE"
                /\ s.pending # NoAction
                /\ ActionIsReflected(s.pending, position)
        THEN Stay(ApplyConfirmedAction(s, s.pending))
        ELSE IF working.phase \in {"PAUSED", "ERROR_NON_RETRYABLE"} THEN Stay(working)
        ELSE EvaluateRetry(working, position, close, atr, elapsed)

=============================================================================
