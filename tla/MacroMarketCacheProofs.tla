---------------------- MODULE MacroMarketCacheProofs ----------------------
(***************************************************************************)
(* Proofs about the macro market cache, for any number of threads and any  *)
(* windows: the types, that one thread at a time owns the flight, and what *)
(* follows from it.                                                        *)
(***************************************************************************)
EXTENDS MacroMarketCache, TLAPS

(* The outcomes a caller can be given are well typed.                      *)
LEMMA OutcomeType ==
    ASSUME NEW kind \in {"fresh", "stale", "error"}, NEW frame \in Frames \cup {None},
           NEW checked \in Instants, (kind = "error") = (frame = None)
    PROVE  /\ Outcome(kind, frame, checked) \in Outcomes
           /\ Outcome(kind, frame, checked).kind = kind
           /\ Outcome(kind, frame, checked).frame = frame
           /\ Outcome(kind, frame, checked).checked = checked
BY DEF Outcome, Outcomes

LEMMA StaleOrErrorType ==
    ASSUME NEW frame \in Frames \cup {None}, NEW checked \in Instants
    PROVE  /\ StaleOrError(frame, checked) \in Outcomes
           /\ StaleOrError(frame, checked).kind # "fresh"
           /\ StaleOrError(frame, checked).checked = checked
           /\ StaleOrError(frame, checked).frame \in {None, frame}
           /\ StaleOrError(frame, checked).frame # None =>
                 CanServeStale(frame, checked)
<1>1. CASE CanServeStale(frame, checked)
  BY <1>1, OutcomeType DEF StaleOrError, CanServeStale
<1>2. CASE ~CanServeStale(frame, checked)
  BY <1>2, OutcomeType DEF StaleOrError
<1>3. QED
  BY <1>1, <1>2

LEMMA CachedType ==
    ASSUME TypeOK, NEW frame \in Frames \cup {None}, NEW checked \in Instants,
           Answers(frame, checked)
    PROVE  CachedOutcome(frame, checked) \in Outcomes
<1>1. CASE Gated(checked)
  BY <1>1, StaleOrErrorType DEF CachedOutcome
<1>2. CASE ~Gated(checked)
  BY <1>2, OutcomeType DEF CachedOutcome, Answers, Fresh
<1>3. QED
  BY <1>1, <1>2

\* Where every caller is, as a type.
ThreadRecords ==
    [pc : Pcs, force : BOOLEAN, checked : Instants, seen : Frames \cup {None},
     outcome : Outcomes, warned : BOOLEAN]

(* A thread outside _fetch.                                                *)
LEMMA RestingType == Resting \in ThreadRecords /\ Resting.pc = "idle"
<1>1. 0 \in Instants
  BY CacheAssumption DEF Instants
<1>2. NoOutcome \in Outcomes
  BY <1>1, OutcomeType DEF NoOutcome
<1>3. QED
  BY <1>1, <1>2 DEF Resting, Caller, ThreadRecords, Pcs

\* A download that was stored is there when its failure flag is cleared.
StoredIsThere == \A t \in Threads : At(t, "stored") => entry # None

(* A caller that only moves on keeps its type.                             *)
LEMMA MoveType ==
    ASSUME TypeOK, NEW t \in Threads, NEW pc \in Pcs, GoTo(t, pc)
    PROVE  thread' \in [Threads -> ThreadRecords]
BY DEF TypeOK, GoTo, ThreadRecords

LEMMA GiveType ==
    ASSUME TypeOK, NEW t \in Threads, NEW pc \in Pcs, NEW o \in Outcomes,
           thread' = [thread EXCEPT ![t].pc = pc, ![t].outcome = o]
    PROVE  thread' \in [Threads -> ThreadRecords]
BY DEF TypeOK, ThreadRecords

(* Every step keeps the types.                                             *)
LEMMA StepType ==
    ASSUME TypeOK, StoredIsThere, [Next]_vars
    PROVE  TypeOK' /\ StoredIsThere'
<1> USE CacheAssumption
<1>0. ASSUME NEW t \in Threads
      PROVE  /\ thread[t].checked \in Instants
             /\ thread[t].seen \in Frames \cup {None}
             /\ thread[t].outcome \in Outcomes
  BY DEF TypeOK
<1>1. CASE UNCHANGED vars
  BY <1>1 DEF vars, TypeOK, StoredIsThere, At
<1>2. CASE Tick
  BY <1>2 DEF Tick, TypeOK, StoredIsThere, At, Instants
<1>3. ASSUME NEW t \in Threads, Call(t)
      PROVE  TypeOK' /\ StoredIsThere'
  <2>1. PICK force \in BOOLEAN : thread' = [thread EXCEPT ![t] =
            Caller(IF force THEN "claim" ELSE "peek", force, clock, state.failed)]
    BY <1>3 DEF Call
  <2>2. NoOutcome \in Outcomes
    BY OutcomeType DEF NoOutcome, Instants
  <2>3. Caller(IF force THEN "claim" ELSE "peek", force, clock, state.failed)
            \in ThreadRecords
    BY <2>2 DEF Caller, ThreadRecords, TypeOK, Pcs, States
  <2>4. thread' \in [Threads -> ThreadRecords]
    BY <2>1, <2>3 DEF TypeOK, ThreadRecords
  <2>5. StoredIsThere'
    BY <1>3, <2>1 DEF Call, StoredIsThere, At, Caller, TypeOK
  <2>6. QED
    BY <1>3, <2>4, <2>5 DEF Call, TypeOK, ThreadRecords
<1>4. ASSUME NEW t \in Threads, Peek(t)
      PROVE  TypeOK' /\ StoredIsThere'
  <2>1. thread' \in [Threads -> ThreadRecords]
    <3>1. thread[t] \in ThreadRecords /\ entry \in Frames \cup {None}
      BY DEF TypeOK, ThreadRecords
    <3>2. [thread[t] EXCEPT !.pc = "judge", !.seen = entry] \in ThreadRecords
      BY <3>1 DEF ThreadRecords, Pcs
    <3>3. thread' = [thread EXCEPT ![t] =
                        [thread[t] EXCEPT !.pc = "judge", !.seen = entry]]
      BY <1>4 DEF Peek, TypeOK
    <3>4. QED
      BY <3>2, <3>3 DEF TypeOK, ThreadRecords
  <2>2. QED
    BY <1>4, <2>1 DEF Peek, TypeOK, StoredIsThere, At, ThreadRecords
<1>5. ASSUME NEW t \in Threads, Judge(t)
      PROVE  TypeOK' /\ StoredIsThere'
  <2>1. thread' \in [Threads -> ThreadRecords]
    <3>1. CASE Answers(thread[t].seen, thread[t].checked)
      BY <1>5, <1>0, <3>1, CachedType, GiveType DEF Judge, Give, Pcs
    <3>2. CASE ~Answers(thread[t].seen, thread[t].checked)
      BY <1>5, <3>2, MoveType DEF Judge, Pcs
    <3>3. QED
      BY <3>1, <3>2
  <2>2. QED
    BY <1>5, <2>1 DEF Judge, Give, GoTo, TypeOK, StoredIsThere, At, ThreadRecords
<1>6. ASSUME NEW t \in Threads, ClaimOrJoin(t)
      PROVE  TypeOK' /\ StoredIsThere'
  <2>1. thread' \in [Threads -> ThreadRecords]
    BY <1>6, MoveType DEF ClaimOrJoin, Pcs
  <2>2. QED
    BY <1>6, <2>1 DEF ClaimOrJoin, GoTo, TypeOK, StoredIsThere, At, ThreadRecords
<1>7. ASSUME NEW t \in Threads, LookAgain(t)
      PROVE  TypeOK' /\ StoredIsThere'
  <2>1. thread' \in [Threads -> ThreadRecords]
    BY <1>7, <1>0, CachedType, GiveType DEF LookAgain, Pcs, TypeOK
  <2>2. QED
    BY <1>7, <2>1 DEF LookAgain, TypeOK, StoredIsThere, At, ThreadRecords
<1>8. ASSUME NEW t \in Threads, StartDownload(t)
      PROVE  TypeOK' /\ StoredIsThere'
  <2>1. thread' \in [Threads -> ThreadRecords]
    BY <1>8, MoveType DEF StartDownload, Pcs
  <2>2. QED
    BY <1>8, <2>1 DEF StartDownload, GoTo, TypeOK, StoredIsThere, At, ThreadRecords
<1>9. ASSUME NEW t \in Threads, DownloadFails(t)
      PROVE  TypeOK' /\ StoredIsThere'
  <2>1. thread' \in [Threads -> ThreadRecords]
    BY <1>9, MoveType DEF DownloadFails, Pcs
  <2>2. state' \in States
    <3>1. thread[t].checked + RetryTtl \in Nat
      BY <1>0 DEF Instants
    <3>2. QED
      BY <1>9, <3>1 DEF DownloadFails, Failed, States, TypeOK
  <2>3. QED
    BY <1>9, <2>1, <2>2
       DEF DownloadFails, GoTo, TypeOK, StoredIsThere, At, ThreadRecords
<1>10. ASSUME NEW t \in Threads, ServeFailure(t)
       PROVE  TypeOK' /\ StoredIsThere'
  <2>1. thread' \in [Threads -> ThreadRecords]
    BY <1>10, <1>0, StaleOrErrorType, GiveType DEF ServeFailure, Pcs, TypeOK
  <2>2. QED
    BY <1>10, <2>1
       DEF ServeFailure, AfterFailure, TypeOK, StoredIsThere, At, ThreadRecords
<1>11. ASSUME NEW t \in Threads, DownloadSucceeds(t)
       PROVE  TypeOK' /\ StoredIsThere'
  <2>1. thread' \in [Threads -> ThreadRecords]
    BY <1>11, MoveType DEF DownloadSucceeds, Pcs
  <2>2. entry' \in Frames
    BY <1>11, <1>0 DEF DownloadSucceeds, Frames
  <2>3. QED
    BY <1>11, <2>1, <2>2
       DEF DownloadSucceeds, GoTo, TypeOK, StoredIsThere, At, ThreadRecords
<1>12. ASSUME NEW t \in Threads, ClearFailure(t)
       PROVE  TypeOK' /\ StoredIsThere'
  <2>1. Outcome("fresh", entry, thread[t].checked) \in Outcomes
    BY <1>12, <1>0, OutcomeType DEF ClearFailure, StoredIsThere, TypeOK
  <2>2. thread' \in [Threads -> ThreadRecords]
    <3>1. ASSUME NEW u \in Threads
          PROVE  thread'[u] \in ThreadRecords
      <4>1. CASE u = t
        BY <1>12, <2>1, <4>1 DEF ClearFailure, TypeOK, ThreadRecords, Pcs
      <4>2. CASE u # t
        BY <1>12, <4>2 DEF ClearFailure, TypeOK, ThreadRecords
      <4>3. QED
        BY <4>1, <4>2
    <3>2. QED
      BY <1>12, <3>1 DEF ClearFailure
  <2>3. state' \in States
    BY <1>12 DEF ClearFailure, States
  <2>4. StoredIsThere'
    BY <1>12 DEF ClearFailure, StoredIsThere, At, TypeOK
  <2>5. QED
    BY <1>12, <2>2, <2>3, <2>4 DEF ClearFailure, TypeOK, ThreadRecords
<1>13. ASSUME NEW t \in Threads, Publish(t)
       PROVE  TypeOK' /\ StoredIsThere'
  <2>1. thread' \in [Threads -> ThreadRecords]
    <3>1. ASSUME NEW u \in Threads
          PROVE  thread'[u] \in ThreadRecords
      <4>1. CASE u \in Waiting \cup {t}
        <5>1. thread'[u] = [thread[u] EXCEPT !.pc = "done", !.outcome = thread[t].outcome]
          BY <1>13, <4>1 DEF Publish
        <5>2. thread[u] \in ThreadRecords /\ thread[t].outcome \in Outcomes
          BY <1>0 DEF TypeOK, ThreadRecords
        <5>3. QED
          BY <5>1, <5>2 DEF ThreadRecords, Pcs
      <4>2. CASE u \notin Waiting \cup {t}
        BY <1>13, <4>2 DEF Publish, TypeOK, ThreadRecords
      <4>3. QED
        BY <4>1, <4>2
    <3>2. QED
      BY <1>13, <3>1 DEF Publish
  <2>2. StoredIsThere'
    BY <1>13 DEF Publish, StoredIsThere, At, TypeOK
  <2>3. QED
    BY <1>13, <2>1, <2>2 DEF Publish, TypeOK, ThreadRecords
<1>14. ASSUME NEW t \in Threads, Return(t)
       PROVE  TypeOK' /\ StoredIsThere'
  BY <1>14, RestingType DEF Return, TypeOK, StoredIsThere, At, ThreadRecords
<1>15. ASSUME NEW t \in Threads, FetchFails(t)
       PROVE  TypeOK' /\ StoredIsThere'
  <2>1. Outcome("error", None, thread[t].checked) \in Outcomes
    BY <1>0, OutcomeType
  <2>2. thread' \in [Threads -> ThreadRecords]
    BY <1>15, <2>1, GiveType DEF FetchFails, Pcs, TypeOK
  <2>3. QED
    BY <1>15, <2>2 DEF FetchFails, TypeOK, StoredIsThere, At, ThreadRecords
<1>16. QED
  BY <1>1, <1>2, <1>3, <1>4, <1>5, <1>6, <1>7, <1>8, <1>9, <1>10, <1>11, <1>12, <1>13,
     <1>14, <1>15 DEF Next, Fetch, EndDownload

(* Every variable keeps its type.                                          *)
THEOREM TypeCorrect == Spec => [](TypeOK /\ StoredIsThere)
<1>1. Init => TypeOK /\ StoredIsThere
  <2>1. Init => thread \in [Threads -> ThreadRecords]
    BY RestingType DEF Init
  <2>2. Init => StoredIsThere
    <3>1. Init => \A t \in Threads : thread[t].pc = "idle"
      BY RestingType DEF Init
    <3>2. QED
      BY <3>1 DEF StoredIsThere, At
  <2>3. Init => clock \in Instants /\ state \in States /\ flight \in BOOLEAN
    <3>1. Init => clock \in Instants
      BY CacheAssumption DEF Init, Instants
    <3>2. [failed |-> FALSE, retryAt |-> 0] \in States
      BY DEF States
    <3>3. QED
      BY <3>1, <3>2 DEF Init
  <2>4. QED
    BY <2>1, <2>2, <2>3 DEF Init, TypeOK, ThreadRecords
<1>2. QED
  BY <1>1, StepType, PTL DEF Spec

---------------------------------------------------------------------------
(* One owner at a time                                                     *)

Owning == {"owner", "download", "failed", "stored", "publish"}

Owns(t) == thread[t].pc \in Owning

\* A claimed flight has one owner.
SingleOwner ==
    /\ \A t \in Threads : Owns(t) => flight
    /\ \A t, u \in Threads : Owns(t) /\ Owns(u) => t = u

(* The flight keeps its one owner.                                         *)
LEMMA StepOwner ==
    ASSUME TypeOK, SingleOwner, [Next]_vars
    PROVE  SingleOwner'
<1>1. CASE UNCHANGED <<flight, thread>>
  BY <1>1 DEF SingleOwner, Owns
<1>2. ASSUME NEW t \in Threads, UNCHANGED flight, Owns(t)' => Owns(t),
             \A u \in Threads \ {t} : Owns(u)' => Owns(u)
      PROVE  SingleOwner'
  BY <1>2 DEF SingleOwner
<1>3. ASSUME NEW t \in Threads, Call(t) \/ Peek(t) \/ Judge(t) \/ LookAgain(t)
                \/ StartDownload(t) \/ EndDownload(t) \/ ServeFailure(t) \/ FetchFails(t)
                \/ Return(t)
      PROVE  SingleOwner'
  <2>1. \A u \in Threads \ {t} : thread'[u] = thread[u]
    BY <1>3 DEF Call, Peek, Judge, LookAgain, StartDownload, EndDownload, DownloadFails,
       DownloadSucceeds, ServeFailure, FetchFails, Return, Give, GoTo, TypeOK
  <2>2. Owns(t)' => Owns(t)
    BY <1>3 DEF Call, Peek, Judge, LookAgain, StartDownload, EndDownload, DownloadFails,
       DownloadSucceeds, ServeFailure, FetchFails, Return, Give, GoTo, TypeOK, Owns, Owning, At,
       Caller, Resting
  <2>3. UNCHANGED flight
    BY <1>3 DEF Call, Peek, Judge, LookAgain, StartDownload, EndDownload, DownloadFails,
       DownloadSucceeds, ServeFailure, FetchFails, Return
  <2>4. QED
    BY <1>2, <2>1, <2>2, <2>3 DEF Owns
<1>4. ASSUME NEW t \in Threads, ClaimOrJoin(t)
      PROVE  SingleOwner'
  <2>1. /\ \A u \in Threads \ {t} : thread'[u] = thread[u]
        /\ thread'[t].pc = IF flight THEN "wait" ELSE "owner"
        /\ flight' = TRUE
    BY <1>4 DEF ClaimOrJoin, GoTo, TypeOK
  <2>2. CASE flight
    BY <1>4, <2>1, <2>2 DEF SingleOwner, Owns, Owning
  <2>3. CASE ~flight
    BY <1>4, <2>1, <2>3 DEF SingleOwner, Owns
  <2>4. QED
    BY <2>2, <2>3
<1>5. ASSUME NEW t \in Threads, ClearFailure(t)
      PROVE  SingleOwner'
  <2>1. UNCHANGED flight
    BY <1>5 DEF ClearFailure
  <2>2. \A u \in Threads \ {t} : Owns(u)' => Owns(u)
    BY <1>5 DEF ClearFailure, Owns, TypeOK
  <2>3. Owns(t)
    BY <1>5 DEF ClearFailure, Owns, Owning, At
  <2>4. QED
    BY <1>2, <2>1, <2>2, <2>3
<1>6. ASSUME NEW t \in Threads, Publish(t)
      PROVE  SingleOwner'
  <2>1. Owns(t)
    BY <1>6 DEF Publish, Owns, Owning, At
  <2>2. ASSUME NEW u \in Threads
        PROVE  ~Owns(u)'
    <3>1. CASE u \in Waiting \cup {t}
      BY <1>6, <3>1 DEF Publish, Owns, Owning, TypeOK
    <3>2. CASE u \notin Waiting \cup {t}
      BY <1>6, <2>1, <3>2 DEF Publish, Owns, SingleOwner
    <3>3. QED
      BY <3>1, <3>2
  <2>3. QED
    BY <2>2 DEF SingleOwner
<1>7. QED
  BY <1>1, <1>3, <1>4, <1>5, <1>6 DEF Next, Fetch, Tick, vars

(* At most one download is under way, and none is needless.                *)
THEOREM DownloadsAreNeeded == Spec => NoNeedlessDownload
<1>1. Init => SingleOwner
  BY RestingType DEF Init, SingleOwner, Owns, Owning
<1>2. TypeOK /\ SingleOwner /\ [Next]_vars =>
        [\A t \in Threads :
            thread'[t].pc = "download" /\ ~At(t, "download") =>
                /\ \A u \in Threads : ~At(u, "download")
                /\ thread[t].force \/ ~Answers(entry, thread[t].checked)]_vars
  <2>1. SUFFICES ASSUME TypeOK, SingleOwner, Next, NEW t \in Threads,
                        thread'[t].pc = "download", ~At(t, "download")
                 PROVE  /\ \A u \in Threads : ~At(u, "download")
                        /\ thread[t].force \/ ~Answers(entry, thread[t].checked)
    OBVIOUS
  <2>2. PICK u \in Threads : Call(u) \/ Fetch(u)
    BY <2>1 DEF Next, Tick, At
  <2>3. StartDownload(t)
    <3>1. CASE Call(u)
      BY <2>1, <3>1 DEF Call, TypeOK, At, Caller
    <3>2. CASE Peek(u) \/ ClaimOrJoin(u)
      BY <2>1, <3>2 DEF Peek, ClaimOrJoin, GoTo, TypeOK, At
    <3>3. CASE Judge(u) \/ LookAgain(u)
      BY <2>1, <3>3 DEF Judge, LookAgain, Give, GoTo, TypeOK, At
    <3>4. CASE EndDownload(u)
      BY <2>1, <3>4 DEF EndDownload, DownloadFails, DownloadSucceeds, GoTo, TypeOK, At
    <3>5. CASE ServeFailure(u)
      BY <2>1, <3>5 DEF ServeFailure, TypeOK, At
    <3>6. CASE Return(u)
      BY <2>1, <3>6 DEF Return, Resting, Caller, TypeOK, At
    <3>7. CASE ClearFailure(u)
      BY <2>1, <3>7 DEF ClearFailure, TypeOK, At
    <3>8. CASE Publish(u)
      BY <2>1, <3>8 DEF Publish, TypeOK, At
    <3>9. CASE StartDownload(u)
      BY <2>1, <3>9 DEF StartDownload, GoTo, TypeOK, At
    <3>10. CASE FetchFails(u)
      BY <2>1, <3>10 DEF FetchFails, TypeOK, At
    <3>11. QED
      BY <2>2, <3>1, <3>2, <3>3, <3>4, <3>5, <3>6, <3>7, <3>8, <3>9, <3>10 DEF Fetch
  <2>4. Owns(t) /\ ~At(t, "download")
    BY <2>1, <2>3 DEF StartDownload, Owns, Owning, At
  <2>5. \A v \in Threads : ~At(v, "download")
    BY <2>1, <2>4 DEF SingleOwner, Owns, Owning, At
  <2>6. QED
    BY <2>3, <2>5 DEF StartDownload
<1>3. Spec => []TypeOK
  BY TypeCorrect, PTL
<1>4. QED
  BY <1>1, <1>2, <1>3, StepOwner, PTL DEF Spec, NoNeedlessDownload

---------------------------------------------------------------------------
(* Failures are remembered                                                 *)

\* The window within which a failure may be covered is no shorter than the
\* one within which a download is fresh, as in the program.
WindowsNest == Ttl <= StaleIfError

\* No refresh has lengthened the life of the frame.
Original(frame) == frame # None => frame.born = frame.fetched

\* The outcome is given within the life of its frame.
Lives(o) == o.frame # None => o.checked < o.frame.born + StaleIfError

FramesAreOriginal == Original(entry) /\ \A t \in Threads : Original(thread[t].seen)

\* What each caller has come to know.
Remembers(t) ==
    /\ thread[t].warned => state.failed
    /\ At(t, "stored") => entry.fetched = thread[t].checked
    /\ thread[t].pc \in {"publish", "done"} => Lives(thread[t].outcome)
    /\ At(t, "publish") /\ thread[t].outcome.kind = "fresh" => ~state.failed
    /\ At(t, "done") /\ thread[t].outcome.kind = "fresh" => ~thread[t].warned

RInv == FramesAreOriginal /\ \A t \in Threads : Remembers(t)

(* An outcome taken from the cache is given within the frame's life, and   *)
(* is fresh only when no failure is pending.                               *)
LEMMA CachedLives ==
    ASSUME WindowsNest, TypeOK, NEW frame \in Frames \cup {None}, Original(frame),
           NEW checked \in Instants, Answers(frame, checked)
    PROVE  /\ Lives(CachedOutcome(frame, checked))
           /\ CachedOutcome(frame, checked).kind = "fresh" => ~state.failed
<1>1. CASE Gated(checked)
  BY <1>1, StaleOrErrorType DEF CachedOutcome, Lives, CanServeStale, Original
<1>2. CASE ~Gated(checked)
  <2>1. /\ ~state.failed /\ frame # None /\ checked < frame.fetched + Ttl
        /\ CachedOutcome(frame, checked) = Outcome("fresh", frame, checked)
    BY <1>2 DEF Answers, Fresh, CachedOutcome
  <2>2. /\ frame.born = frame.fetched /\ frame.fetched \in Nat /\ checked \in Nat
        /\ Ttl \in Nat /\ StaleIfError \in Nat
    BY <2>1, CacheAssumption DEF Original, Frames, Instants
  <2>3. checked < frame.born + StaleIfError
    BY <2>1, <2>2 DEF WindowsNest
  <2>4. QED
    BY <2>1, <2>3, OutcomeType DEF Lives
<1>3. QED
  BY <1>1, <1>2

(* When one caller moves, the others remember what they did.               *)
LEMMA OthersRemember ==
    ASSUME TypeOK, RInv, NEW t \in Threads, FramesAreOriginal',
           \A u \in Threads \ {t} : thread'[u] = thread[u],
           UNCHANGED state, UNCHANGED entry, Remembers(t)'
    PROVE  RInv'
BY DEF RInv, Remembers, At

(* The invariant is inductive.                                             *)
LEMMA StepRemembers ==
    ASSUME WindowsNest, TypeOK, StoredIsThere, SingleOwner, RInv, [Next]_vars
    PROVE  RInv'
<1>0. ASSUME NEW t \in Threads
      PROVE  /\ thread[t] \in ThreadRecords /\ thread[t].checked \in Instants
             /\ thread[t].seen \in Frames \cup {None} /\ Original(thread[t].seen)
             /\ Remembers(t)
  BY DEF TypeOK, ThreadRecords, RInv, FramesAreOriginal
<1>1. CASE UNCHANGED <<entry, state, thread>>
  BY <1>1 DEF RInv, FramesAreOriginal, Remembers, At
<1>2. ASSUME NEW t \in Threads, Call(t)
      PROVE  RInv'
  <2>1. PICK force \in BOOLEAN : thread' = [thread EXCEPT ![t] =
            Caller(IF force THEN "claim" ELSE "peek", force, clock, state.failed)]
    BY <1>2 DEF Call
  <2>2. thread'[t] = Caller(IF force THEN "claim" ELSE "peek", force, clock,
                            state.failed)
    BY <2>1 DEF TypeOK
  <2>3. \A u \in Threads \ {t} : thread'[u] = thread[u]
    BY <2>1 DEF TypeOK
  <2>4. Remembers(t)' /\ FramesAreOriginal'
    BY <1>2, <2>2, <2>3 DEF Call, Remembers, At, Caller, RInv, FramesAreOriginal,
       Original
  <2>5. QED
    BY <1>2, <2>3, <2>4, OthersRemember DEF Call
<1>3. ASSUME NEW t \in Threads, Peek(t) \/ ClaimOrJoin(t) \/ StartDownload(t)
                \/ Return(t)
      PROVE  RInv'
  <2>1. \A u \in Threads \ {t} : thread'[u] = thread[u]
    BY <1>3 DEF Peek, ClaimOrJoin, StartDownload, Return, GoTo, TypeOK
  <2>2. /\ thread'[t].pc \in {"judge", "wait", "owner", "download", "idle"}
        /\ thread'[t].warned \in {thread[t].warned, FALSE}
        /\ thread'[t].seen \in {thread[t].seen, entry, None}
    <3>1. CASE Peek(t)
      <4>1. thread'[t] = [thread[t] EXCEPT !.pc = "judge", !.seen = entry]
        BY <3>1 DEF Peek, TypeOK
      <4>2. QED
        BY <1>0, <4>1 DEF ThreadRecords
    <3>2. CASE ClaimOrJoin(t) \/ StartDownload(t)
      <4>1. PICK pc \in {"wait", "owner", "download"} :
                thread'[t] = [thread[t] EXCEPT !.pc = pc]
        BY <3>2 DEF ClaimOrJoin, StartDownload, GoTo, TypeOK
      <4>2. QED
        BY <1>0, <4>1 DEF ThreadRecords
    <3>3. CASE Return(t)
      <4>1. thread'[t] = Resting
        BY <3>3 DEF Return, TypeOK
      <4>2. QED
        BY <4>1 DEF Resting, Caller
    <3>4. QED
      BY <1>3, <3>1, <3>2, <3>3
  <2>3. UNCHANGED <<entry, state>>
    BY <1>3 DEF Peek, ClaimOrJoin, StartDownload, Return
  <2>4. FramesAreOriginal'
    BY <1>0, <2>1, <2>2, <2>3 DEF RInv, FramesAreOriginal, Original
  <2>5. Remembers(t)'
    BY <1>0, <2>2, <2>3 DEF Remembers, At
  <2>6. QED
    BY <2>1, <2>3, <2>4, <2>5, OthersRemember
<1>4. ASSUME NEW t \in Threads, NEW pc \in {"publish", "done"}, NEW o \in Outcomes,
             thread' = [thread EXCEPT ![t].pc = pc, ![t].outcome = o],
             UNCHANGED <<entry, state>>, Lives(o), o.kind = "fresh" => ~state.failed
      PROVE  RInv'
  <2>1. /\ thread'[t].pc = pc /\ thread'[t].outcome = o
        /\ thread'[t].warned = thread[t].warned /\ thread'[t].seen = thread[t].seen
    BY <1>4 DEF TypeOK
  <2>2. \A u \in Threads \ {t} : thread'[u] = thread[u]
    BY <1>4 DEF TypeOK
  <2>3. FramesAreOriginal'
    BY <1>0, <1>4, <2>1, <2>2 DEF RInv, FramesAreOriginal, Original
  <2>4. Remembers(t)'
    BY <1>0, <1>4, <2>1 DEF Remembers, At, Lives
  <2>5. QED
    BY <1>4, <2>2, <2>3, <2>4, OthersRemember
<1>5. ASSUME NEW t \in Threads, Judge(t)
      PROVE  RInv'
  <2>1. CASE Answers(thread[t].seen, thread[t].checked)
    BY <1>0, <1>4, <1>5, <2>1, CachedLives, CachedType DEF Judge, Give
  <2>2. CASE ~Answers(thread[t].seen, thread[t].checked)
    <3>1. \A u \in Threads \ {t} : thread'[u] = thread[u]
      BY <1>5, <2>2 DEF Judge, GoTo, TypeOK
    <3>2. /\ thread'[t].pc = "claim" /\ thread'[t].warned = thread[t].warned
          /\ thread'[t].seen = thread[t].seen
      BY <1>5, <2>2 DEF Judge, GoTo, TypeOK
    <3>3. UNCHANGED <<entry, state>>
      BY <1>5 DEF Judge
    <3>4. FramesAreOriginal' /\ Remembers(t)'
      BY <1>0, <3>1, <3>2, <3>3 DEF RInv, FramesAreOriginal, Original, Remembers, At
    <3>5. QED
      BY <3>1, <3>3, <3>4, OthersRemember
  <2>3. QED
    BY <2>1, <2>2
<1>6. ASSUME NEW t \in Threads, LookAgain(t)
      PROVE  RInv'
  <2>1. Original(entry) /\ entry \in Frames \cup {None}
    BY DEF RInv, FramesAreOriginal, TypeOK
  <2>2. QED
    BY <1>0, <1>4, <1>6, <2>1, CachedLives, CachedType DEF LookAgain
<1>7. ASSUME NEW t \in Threads, ServeFailure(t)
      PROVE  RInv'
  <2>1. Original(entry) /\ entry \in Frames \cup {None}
    BY DEF RInv, FramesAreOriginal, TypeOK
  <2>2. /\ StaleOrError(entry, thread[t].checked) \in Outcomes
        /\ StaleOrError(entry, thread[t].checked).kind # "fresh"
        /\ Lives(StaleOrError(entry, thread[t].checked))
    BY <1>0, <2>1, StaleOrErrorType DEF Lives, CanServeStale, Original
  <2>3. QED
    BY <1>4, <1>7, <2>2 DEF ServeFailure, AfterFailure
<1>8. ASSUME NEW t \in Threads, Owns(t)
      PROVE  \A u \in Threads \ {t} : ~At(u, "stored") /\ ~At(u, "publish")
  BY <1>8 DEF SingleOwner, Owns, Owning, At
<1>9. ASSUME NEW t \in Threads, DownloadFails(t)
      PROVE  RInv'
  <2>1. /\ \A u \in Threads : thread'[u] =
                IF u = t THEN [thread[t] EXCEPT !.pc = "failed"] ELSE thread[u]
        /\ UNCHANGED entry
    BY <1>9 DEF DownloadFails, GoTo, TypeOK
  <2>2. Owns(t)
    BY <1>9 DEF DownloadFails, Owns, Owning, At
  <2>3. state'.failed = TRUE
    BY <1>9 DEF DownloadFails, Failed, TypeOK, States
  <2>4. FramesAreOriginal'
    <3>1. ASSUME NEW u \in Threads PROVE thread'[u].seen = thread[u].seen
      <4>1. thread[u] \in ThreadRecords
        BY <1>0
      <4>2. CASE u = t
        BY <2>1, <4>1, <4>2 DEF ThreadRecords
      <4>3. CASE u # t
        BY <2>1, <4>1, <4>3 DEF ThreadRecords
      <4>4. QED
        BY <4>2, <4>3
    <3>2. QED
      BY <2>1, <3>1 DEF RInv, FramesAreOriginal, Original
  <2>5. ASSUME NEW u \in Threads PROVE Remembers(u)'
    <3>1. CASE u = t
      <4>1. thread'[t].pc = "failed"
        BY <1>0, <2>1 DEF ThreadRecords
      <4>2. QED
        BY <2>3, <3>1, <4>1 DEF Remembers, At
    <3>2. CASE u # t
      BY <1>0, <1>8, <2>1, <2>2, <2>3, <3>2 DEF Remembers, At
    <3>3. QED
      BY <3>1, <3>2
  <2>6. QED
    BY <2>4, <2>5 DEF RInv
<1>10. ASSUME NEW t \in Threads, DownloadSucceeds(t)
       PROVE  RInv'
  <2>1. /\ \A u \in Threads : thread'[u] =
                IF u = t THEN [thread[t] EXCEPT !.pc = "stored"] ELSE thread[u]
        /\ UNCHANGED state
        /\ entry' = [fetched |-> thread[t].checked, born |-> thread[t].checked]
    BY <1>10 DEF DownloadSucceeds, GoTo, TypeOK
  <2>2. Owns(t)
    BY <1>10 DEF DownloadSucceeds, Owns, Owning, At
  <2>3. FramesAreOriginal'
    <3>1. ASSUME NEW u \in Threads PROVE thread'[u].seen = thread[u].seen
      <4>1. thread[u] \in ThreadRecords
        BY <1>0
      <4>2. CASE u = t
        BY <2>1, <4>1, <4>2 DEF ThreadRecords
      <4>3. CASE u # t
        BY <2>1, <4>1, <4>3 DEF ThreadRecords
      <4>4. QED
        BY <4>2, <4>3
    <3>2. QED
      BY <2>1, <3>1 DEF RInv, FramesAreOriginal, Original
  <2>4. ASSUME NEW u \in Threads PROVE Remembers(u)'
    <3>1. CASE u = t
      <4>1. /\ thread'[t].pc = "stored" /\ thread'[t].checked = thread[t].checked
            /\ thread'[t].warned = thread[t].warned
        BY <1>0, <2>1 DEF ThreadRecords
      <4>2. QED
        BY <1>0, <2>1, <3>1, <4>1 DEF Remembers, At
    <3>2. CASE u # t
      BY <1>0, <1>8, <2>1, <2>2, <3>2 DEF Remembers, At
    <3>3. QED
      BY <3>1, <3>2
  <2>5. QED
    BY <2>3, <2>4 DEF RInv
<1>11. ASSUME NEW t \in Threads, ClearFailure(t)
       PROVE  RInv'
  <2>1. /\ \A u \in Threads \ {t} : thread'[u] = [thread[u] EXCEPT !.warned = FALSE]
        /\ thread'[t] = [thread[t] EXCEPT !.pc = "publish", !.warned = FALSE,
                            !.outcome = Outcome("fresh", entry, thread[t].checked)]
        /\ state'.failed = FALSE /\ UNCHANGED entry /\ At(t, "stored")
    BY <1>11 DEF ClearFailure
  <2>2. Owns(t)
    BY <2>1 DEF Owns, Owning, At
  <2>3. FramesAreOriginal'
    <3>1. ASSUME NEW u \in Threads PROVE thread'[u].seen = thread[u].seen
      <4>1. thread[u] \in ThreadRecords
        BY <1>0
      <4>2. CASE u = t
        <5>1. thread'[t] = [thread[t] EXCEPT !.pc = "publish", !.warned = FALSE,
                            !.outcome = Outcome("fresh", entry, thread[t].checked)]
          BY <2>1
        <5>2. thread'[t].seen = thread[t].seen
          BY <1>0, <5>1 DEF ThreadRecords
        <5>3. QED
          BY <4>2, <5>2
      <4>3. CASE u # t
        <5>1. thread'[u] = [thread[u] EXCEPT !.warned = FALSE]
          BY <2>1, <4>3
        <5>2. QED
          BY <4>1, <5>1 DEF ThreadRecords
      <4>4. QED
        BY <4>2, <4>3
    <3>2. QED
      BY <2>1, <3>1 DEF RInv, FramesAreOriginal, Original
  <2>4. ASSUME NEW u \in Threads \ {t} PROVE Remembers(u)'
    <3>1. /\ thread'[u].pc = thread[u].pc /\ thread'[u].warned = FALSE
          /\ thread'[u].outcome = thread[u].outcome
          /\ thread'[u].checked = thread[u].checked
      <4>1. thread[u] \in ThreadRecords
        BY <1>0
      <4>2. thread'[u] = [thread[u] EXCEPT !.warned = FALSE]
        BY <2>1
      <4>3. QED
        BY <4>1, <4>2 DEF ThreadRecords
    <3>2. QED
      BY <1>0, <2>1, <3>1 DEF Remembers, At, Lives
  <2>5. Remembers(t)'
    <3>1. /\ thread'[t].pc = "publish" /\ thread'[t].warned = FALSE
          /\ thread'[t].outcome = Outcome("fresh", entry, thread[t].checked)
      BY <1>0, <2>1 DEF ThreadRecords
    <3>2. /\ entry # None /\ entry \in Frames /\ entry.born = entry.fetched
          /\ entry.fetched = thread[t].checked
      BY <1>0, <2>1 DEF StoredIsThere, TypeOK, RInv, FramesAreOriginal, Original,
         Remembers
    <3>3. thread[t].checked < entry.born + StaleIfError
      BY <1>0, <3>2, CacheAssumption DEF Instants
    <3>4. Lives(Outcome("fresh", entry, thread[t].checked))
      BY <1>0, <3>2, <3>3, OutcomeType DEF Lives
    <3>5. QED
      BY <2>1, <3>1, <3>4 DEF Remembers, At, Lives
  <2>6. QED
    BY <2>3, <2>4, <2>5 DEF RInv
<1>12. ASSUME NEW t \in Threads, Publish(t)
       PROVE  RInv'
  <2>1. /\ \A u \in Threads : thread'[u] =
              IF u \in Waiting \cup {t}
              THEN [thread[u] EXCEPT !.pc = "done", !.outcome = thread[t].outcome]
              ELSE thread[u]
        /\ UNCHANGED <<entry, state>> /\ At(t, "publish")
    BY <1>12 DEF Publish
  <2>2. Lives(thread[t].outcome)
        /\ (thread[t].outcome.kind = "fresh" => ~state.failed)
    BY <1>0, <2>1 DEF Remembers, At
  <2>3. ASSUME NEW u \in Threads
        PROVE  Remembers(u)' /\ thread'[u].seen = thread[u].seen
    <3>1. CASE u \in Waiting \cup {t}
      <4>1. /\ thread'[u].pc = "done" /\ thread'[u].outcome = thread[t].outcome
            /\ thread'[u].warned = thread[u].warned /\ thread'[u].seen = thread[u].seen
        BY <1>0, <2>1, <3>1 DEF ThreadRecords
      <4>2. QED
        BY <1>0, <2>1, <2>2, <4>1 DEF Remembers, At, Lives
    <3>2. CASE u \notin Waiting \cup {t}
      BY <1>0, <2>1, <3>2 DEF Remembers, At
    <3>3. QED
      BY <3>1, <3>2
  <2>4. FramesAreOriginal'
    BY <2>1, <2>3 DEF RInv, FramesAreOriginal, Original
  <2>5. QED
    BY <2>3, <2>4 DEF RInv
<1>13. ASSUME NEW t \in Threads, FetchFails(t)
       PROVE  RInv'
  <2>1. /\ Outcome("error", None, thread[t].checked) \in Outcomes
        /\ Lives(Outcome("error", None, thread[t].checked))
        /\ Outcome("error", None, thread[t].checked).kind # "fresh"
    BY <1>0, OutcomeType DEF Lives, Outcome
  <2>2. QED
    BY <1>4, <1>13, <2>1 DEF FetchFails
<1>14. QED
  BY <1>1, <1>2, <1>3, <1>5, <1>6, <1>7, <1>9, <1>10, <1>11, <1>12, <1>13
     DEF Next, Fetch, EndDownload, Tick, vars

(* A failed refresh neither lengthens the life of the data nor is          *)
(* forgotten, whatever the threads and the windows.                        *)
THEOREM FailuresAreRemembered ==
    ASSUME WindowsNest
    PROVE  Spec => []FailureIsRemembered
<1>1. Init => SingleOwner /\ RInv
  <2>1. SUFFICES ASSUME Init PROVE SingleOwner /\ RInv
    OBVIOUS
  <2>2. \A t \in Threads : /\ thread[t].pc = "idle" /\ thread[t].warned = FALSE
                           /\ thread[t].seen = None
    BY <2>1 DEF Init, Resting, Caller
  <2>3. SingleOwner
    BY <2>2 DEF SingleOwner, Owns, Owning
  <2>4. RInv
    BY <2>1, <2>2 DEF Init, RInv, FramesAreOriginal, Original, Remembers, At
  <2>5. QED
    BY <2>3, <2>4
<1>2. RInv => FailureIsRemembered
  BY DEF RInv, Remembers, FailureIsRemembered, Lives, At
<1>3. Spec => [](TypeOK /\ StoredIsThere)
  BY TypeCorrect
<1>4. QED
  BY <1>1, <1>2, <1>3, StepOwner, StepRemembers, PTL DEF Spec

===========================================================================
