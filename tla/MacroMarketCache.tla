------------------------- MODULE MacroMarketCache -------------------------
(***************************************************************************)
(* The single-flight cache of macro market downloads, for one key          *)
(* (ticker, period, interval): keys share nothing but dictionaries.        *)
(*                                                                         *)
(* A caller that finds nothing usable claims the key's flight or joins the *)
(* one under way.  The owner looks again, downloads, records what came of  *)
(* it and publishes one outcome to all who joined.  Cached frame and       *)
(* attempt bookkeeping are guarded by two different locks, so that every   *)
(* read of one and of the other is a step of its own.  The per-key lock is *)
(* never contended: it is taken and released inside a flight.              *)
(***************************************************************************)
EXTENDS Naturals, FiniteSets

CONSTANTS
    Threads,        \* threads that call _fetch
    Ttl,            \* how long a download is fresh
    StaleIfError,   \* how long it may be served after a failure
    RetryTtl,       \* how long a failure keeps others from trying
    MaxClock,       \* bound: instants
    None            \* no frame cached

Instants == 0 .. MaxClock

\* "born" is history: when the download behind the frame was asked for.
Frames == [fetched : Instants, born : Instants]

ASSUME CacheAssumption ==
    /\ Ttl \in Nat \ {0}
    /\ StaleIfError \in Nat \ {0}
    /\ RetryTtl \in Nat \ {0}
    /\ MaxClock \in Nat
    /\ None \notin Frames

VARIABLES
    clock,      \* now
    entry,      \* the cached frame: _FrameEntry
    state,      \* retry bookkeeping: _AttemptState
    flight,     \* a flight is active
    thread      \* where every caller is in _fetch

vars == <<clock, entry, state, flight, thread>>

States == [failed : BOOLEAN, retryAt : Nat]

\* What a caller is given: a frame or an exception.
Outcomes ==
    {o \in [kind : {"fresh", "stale", "error"}, frame : Frames \cup {None},
            checked : Instants] : (o.kind = "error") = (o.frame = None)}

Outcome(kind, frame, checked) ==
    [kind |-> kind, frame |-> frame, checked |-> checked]

NoOutcome == Outcome("error", None, 0)

CanServeStale(frame, checked) ==
    frame # None /\ checked < frame.fetched + StaleIfError

AlwaysStale(frame, checked) == Outcome("stale", frame, checked)

StaleOrError(frame, checked) ==
    IF CanServeStale(frame, checked) THEN Outcome("stale", frame, checked)
    ELSE Outcome("error", None, checked)

\* _cached_entry_outcome: does the cache answer, and what?
Gated(checked) == state.failed /\ checked < state.retryAt

Fresh(frame, checked) ==
    ~state.failed /\ frame # None /\ checked < frame.fetched + Ttl

Answers(frame, checked) == Gated(checked) \/ Fresh(frame, checked)

CachedOutcome(frame, checked) ==
    IF Gated(checked) THEN StaleOrError(frame, checked)
    ELSE Outcome("fresh", frame, checked)

----------------------------------------------------------------------------
(* A caller: force and checked are its arguments, seen the frame it read,  *)
(* outcome what it is given; "warned" is history: a failure was pending    *)
(* when it came, and there has been no success since.                      *)

Caller(pc, force, checked, warned) ==
    [pc |-> pc, force |-> force, checked |-> checked, seen |-> None,
     outcome |-> NoOutcome, warned |-> warned]

Resting == Caller("idle", FALSE, 0, FALSE)

At(t, pc) == thread[t].pc = pc

GoTo(t, pc) == thread' = [thread EXCEPT ![t].pc = pc]

Give(t, outcome) ==
    thread' = [thread EXCEPT ![t].pc = "done", ![t].outcome = outcome]

Call(t) ==
    /\ At(t, "idle")
    /\ \E force \in BOOLEAN :
        thread' = [thread EXCEPT ![t] =
            Caller(IF force THEN "claim" ELSE "peek", force, clock, state.failed)]
    /\ UNCHANGED <<clock, entry, state, flight>>

\* The frame is read under the cache lock ...
Peek(t) ==
    /\ At(t, "peek")
    /\ thread' = [thread EXCEPT ![t].pc = "judge", ![t].seen = entry]
    /\ UNCHANGED <<clock, entry, state, flight>>

\* ... and judged by the bookkeeping read under the other lock.
Judge(t) ==
    /\ At(t, "judge")
    /\ IF Answers(thread[t].seen, thread[t].checked)
       THEN Give(t, CachedOutcome(thread[t].seen, thread[t].checked))
       ELSE GoTo(t, "claim")
    /\ UNCHANGED <<clock, entry, state, flight>>

ClaimOrJoin(t) ==
    /\ At(t, "claim")
    /\ GoTo(t, IF flight THEN "wait" ELSE "owner")
    /\ flight' = TRUE
    /\ UNCHANGED <<clock, entry, state>>

\* Only an owner writes frame and bookkeeping: its second look is one step.
LookAgain(t) ==
    /\ At(t, "owner")
    /\ ~thread[t].force /\ Answers(entry, thread[t].checked)
    /\ thread' = [thread EXCEPT ![t].pc = "publish",
            ![t].outcome = CachedOutcome(entry, thread[t].checked)]
    /\ UNCHANGED <<clock, entry, state, flight>>

DownloadAtOnce(t) ==
    /\ At(t, "owner")
    /\ GoTo(t, "download")
    /\ UNCHANGED <<clock, entry, state, flight>>

StartDownload(t) ==
    /\ At(t, "owner")
    /\ ~thread[t].force => ~Answers(entry, thread[t].checked)
    /\ GoTo(t, "download")
    /\ UNCHANGED <<clock, entry, state, flight>>

\* The download raises, or its frame is empty or cannot be read.
Failed(checked) ==
    [state EXCEPT !.failed = TRUE, !.retryAt = checked + RetryTtl]

DownloadFails(t) ==
    /\ At(t, "download")
    /\ state' = Failed(thread[t].checked)
    /\ GoTo(t, "failed")
    /\ UNCHANGED <<clock, entry, flight>>

Renewed(frame, checked) ==
    IF frame = None THEN None ELSE [frame EXCEPT !.fetched = checked]

\* Only the error type is written to the cached frame.
AfterFailure(frame, checked) == frame

ServeFailure(t) ==
    /\ At(t, "failed")
    /\ entry' = AfterFailure(entry, thread[t].checked)
    /\ thread' = [thread EXCEPT ![t].pc = "publish",
            ![t].outcome = StaleOrError(entry, thread[t].checked)]
    /\ UNCHANGED <<clock, state, flight>>

DownloadSucceeds(t) ==
    /\ At(t, "download")
    /\ entry' = [fetched |-> thread[t].checked, born |-> thread[t].checked]
    /\ GoTo(t, "stored")
    /\ UNCHANGED <<clock, state, flight>>

ClearFailure(t) ==
    /\ At(t, "stored")
    /\ state' = [failed |-> FALSE, retryAt |-> 0]
    /\ thread' = [u \in Threads |->
            IF u = t
            THEN [thread[t] EXCEPT !.pc = "publish", !.warned = FALSE,
                    !.outcome = Outcome("fresh", entry, thread[t].checked)]
            ELSE [thread[u] EXCEPT !.warned = FALSE]]
    /\ UNCHANGED <<clock, entry, flight>>

\* Anything else that goes wrong in the owner leaves frame and bookkeeping as
\* they are by then; its callers are given the error.
FetchFails(t) ==
    /\ thread[t].pc \in {"owner", "download", "failed", "stored", "publish"}
    /\ thread' = [thread EXCEPT ![t].pc = "publish",
            ![t].outcome = Outcome("error", None, thread[t].checked)]
    /\ UNCHANGED <<clock, entry, state, flight>>

Nobody == {}

Waiting == {t \in Threads : At(t, "wait")}

\* The outcome is published and the flight retired in one step.
Publish(t) ==
    /\ At(t, "publish")
    /\ flight' = FALSE
    /\ thread' = [u \in Threads |->
            IF u \in Waiting \cup {t}
            THEN [thread[u] EXCEPT !.pc = "done", !.outcome = thread[t].outcome]
            ELSE thread[u]]
    /\ UNCHANGED <<clock, entry, state>>

Return(t) ==
    /\ At(t, "done")
    /\ thread' = [thread EXCEPT ![t] = Resting]
    /\ UNCHANGED <<clock, entry, state, flight>>

Tick ==
    /\ clock < MaxClock
    /\ clock' = clock + 1
    /\ UNCHANGED <<entry, state, flight, thread>>

Init ==
    /\ clock = 0
    /\ entry = None
    /\ state = [failed |-> FALSE, retryAt |-> 0]
    /\ flight = FALSE
    /\ thread = [t \in Threads |-> Resting]

EndDownload(t) == DownloadFails(t) \/ DownloadSucceeds(t)

Fetch(t) ==
    \/ Peek(t) \/ Judge(t) \/ ClaimOrJoin(t) \/ LookAgain(t) \/ StartDownload(t)
    \/ EndDownload(t) \/ ServeFailure(t) \/ ClearFailure(t) \/ FetchFails(t)
    \/ Publish(t) \/ Return(t)

Next == Tick \/ \E t \in Threads : Call(t) \/ Fetch(t)

Spec == Init /\ [][Next]_vars

\* A thread inside _fetch goes on, and a download ends one way or the other.
FairSpec == Spec /\ \A t \in Threads : WF_vars(Fetch(t))

----------------------------------------------------------------------------
(* Properties                                                              *)

Pcs == {"idle", "peek", "judge", "claim", "wait", "owner", "download",
        "failed", "stored", "publish", "done"}

TypeOK ==
    /\ clock \in Instants
    /\ entry \in Frames \cup {None}
    /\ state \in States
    /\ flight \in BOOLEAN
    /\ thread \in [Threads ->
            [pc : Pcs, force : BOOLEAN, checked : Instants,
             seen : Frames \cup {None}, outcome : Outcomes,
             warned : BOOLEAN]]

(* At most one download is under way, and one that nobody forced starts    *)
(* only when the cache, as it is at that moment, does not answer: callers  *)
(* that raced past their first look do not download a second time.         *)
NoNeedlessDownload ==
    [][\A t \in Threads :
        thread'[t].pc = "download" /\ ~At(t, "download") =>
            /\ \A u \in Threads : ~At(u, "download")
            /\ thread[t].force \/ ~Answers(entry, thread[t].checked)]_vars

(* A failed refresh neither lengthens the life of the data it left in      *)
(* place, counted from the download itself, nor is forgotten: whoever      *)
(* comes after it gets fresh data only after a success.                    *)
FailureIsRemembered ==
    \A t \in Threads :
        LET o == thread[t].outcome
        IN At(t, "done") =>
            /\ o.frame # None => o.checked < o.frame.born + StaleIfError
            /\ o.kind = "fresh" => ~thread[t].warned

(* Every caller gets an outcome: no owner forgets those who joined it,      *)
(* wherever it fails.                                                      *)
EveryCallReturns ==
    \A t \in Threads : thread[t].pc # "idle" ~> thread[t].pc = "idle"

=============================================================================
