------------------------- MODULE ScanAftercareProofs -------------------------
(***************************************************************************)
(* Proofs about ScanAftercare.  Whatever the threads, the failing disk and *)
(* the expiring wait do, a marker says only what some job of its scan was  *)
(* claimed with.  That no interrupted scan reads completed needs more:     *)
(* without the early result, nobody but its own worker is at work for a    *)
(* scan before its aftercare is over.                                      *)
(***************************************************************************)
EXTENDS ScanAftercare, TLAPS

Working == {"beginning", "working", "marking", "writing"}

Ending == {"marking", "writing"}

(* Who is where: a worker serves its own scan and never closes the program. *)
StepsAreOwn ==
    /\ \A t \in Threads : job[t].step \in Working => job[t].scan \in Scans
    /\ \A s \in Scans : job[s].step \notin CloseSteps
    /\ \A s \in Scans : job[s].step \in Working => job[s].scan = s
    /\ \A s \in registry : lockOf[s] \in Threads
    /\ \A t \in Threads : job[t].step \in Ending => job[t].lock \in Threads
    /\ \A s \in Scans : writer[s].step # "none" => writer[s].lock \in Threads

(* What is still to be written, and what is written, was claimed. *)
OutcomesAreClaimed ==
    /\ \A t \in Threads : job[t].step \in Ending =>
         job[t].outcome \in Final /\ job[t].outcome \in claims[job[t].scan]
    /\ \A s \in Scans : writer[s].step # "none" => "interrupted" \in claims[s]

TruthInv == TypeOK /\ StepsAreOwn /\ OutcomesAreClaimed /\ MarkerIsTruthful

(* Before its aftercare ends, a scan is not shown, not saved by hand and   *)
(* not claimed as completed.                                               *)
ShownWhenOver ==
    /\ \A s \in Scans : savable = s => job[s].step = "done"
    /\ \A s \in Scans : job[Ui].step \in Working /\ job[Ui].scan = s => job[s].step = "done"
    /\ \A s \in Scans : job[s].step \notin Ending \cup {"done"} => "completed" \notin claims[s]

(* A job writes its first marker under a lock that the writer of its       *)
(* outcome waits for.                                                      *)
FirstMarkerIsGuarded ==
    /\ job[Ui].step = "beginning" => job[Ui].scan \in registry
    /\ \A s \in Scans : job[s].step \in {"idle", "core", "ready", "beginning"} =>
         marker[s] \notin Final
    /\ \A s \in Scans : job[s].step \in {"idle", "core", "ready"} =>
         s \notin registry /\ writer[s].step = "none"
    /\ \A s \in Scans : job[s].step = "beginning" =>
         /\ <<s, s>> \in held
         /\ s \in registry => lockOf[s] = s
         /\ writer[s].step # "none" => writer[s].step = "marking" /\ writer[s].lock = s

LateInv == TruthInv /\ ShownWhenOver /\ FirstMarkerIsGuarded

USE AftercareAssumption

------------------------------------------------------------------------------
(* The marker *)

(* At the start no job exists and no marker is final.                      *)
LEMMA InitTruth == Init => TruthInv
<1> SUFFICES ASSUME Init PROVE TruthInv
  OBVIOUS
<1>1. TypeOK
  BY DEF Init, TypeOK, Job, Threads, WorkSteps, CloseSteps, Outcomes, Final, Markers
<1>2. StepsAreOwn
  BY DEF Init, StepsAreOwn, Job, Threads, Working, Ending, CloseSteps
<1>3. OutcomesAreClaimed
  BY DEF Init, OutcomesAreClaimed, Job, Threads, Ending
<1>4. MarkerIsTruthful
  BY DEF Init, MarkerIsTruthful, Final
<1> QED  BY <1>1, <1>2, <1>3, <1>4 DEF TruthInv

(* Every step writes a claimed outcome or no outcome at all.               *)
LEMMA TruthStep == TruthInv /\ [Next]_vars => TruthInv'
<1> SUFFICES ASSUME TruthInv, [Next]_vars PROVE TruthInv'
  OBVIOUS
<1> USE DEF TruthInv, Threads, Working, Ending
<1>1. ASSUME NEW s \in Scans, StartScan(s) \/ CoreReady(s) \/ FailScan(s)
      PROVE  TruthInv'
  <2>1. /\ job[s].step \notin Working
        /\ \E step \in {"core", "ready", "done"} : job' = [job EXCEPT ![s].step = step]
        /\ savable' \in Scans \cup {Nothing}
        /\ UNCHANGED <<registry, lockOf, held, writer, marker, claims>>
    BY <1>1 DEF StartScan, CoreReady, FailScan, TypeOK
  <2>2. TypeOK'
    BY <2>1 DEF TypeOK, WorkSteps
  <2>3. StepsAreOwn' /\ OutcomesAreClaimed' /\ MarkerIsTruthful'
    BY <2>1 DEF TypeOK, StepsAreOwn, OutcomesAreClaimed, MarkerIsTruthful, CloseSteps
  <2> QED  BY <2>2, <2>3
<1>2. ASSUME NEW s \in Scans, BeginAftercare(s)
      PROVE  TruthInv'
  BY <1>2 DEF BeginAftercare, Begin, Job, TypeOK, StepsAreOwn,
              OutcomesAreClaimed, MarkerIsTruthful, WorkSteps, CloseSteps, Outcomes
<1>3. CASE SaveByHand
  BY <1>3 DEF SaveByHand, Begin, Job, TypeOK, StepsAreOwn, OutcomesAreClaimed,
              MarkerIsTruthful, WorkSteps, CloseSteps, Outcomes
<1>4. ASSUME NEW t \in Threads, WriteRunning(t)
      PROVE  TruthInv'
  BY <1>4 DEF WriteRunning, Written, TypeOK, StepsAreOwn, OutcomesAreClaimed,
              MarkerIsTruthful, WorkSteps, CloseSteps, Markers, Final
<1>5. ASSUME NEW t \in Threads, NEW outcome \in Final, Claim(t, outcome)
      PROVE  TruthInv'
  <2> DEFINE s == job[t].scan
  <2>1. s \in Scans
    BY <1>5 DEF Claim, StepsAreOwn
  <2>2. CASE s \in registry
    <3>1. /\ job[t].step = "working"
          /\ registry' = registry \ {s}
          /\ job' = [job EXCEPT ![t] = [step |-> "marking", scan |-> s,
                                        outcome |-> outcome, lock |-> lockOf[s]]]
          /\ claims' = [claims EXCEPT ![s] = @ \cup {outcome}]
          /\ UNCHANGED <<savable, lockOf, held, writer, marker>>
      BY <1>5, <2>2 DEF Claim, StillRegistered, Record, Job
    <3>2. TypeOK'
      BY <2>1, <2>2, <3>1 DEF TypeOK, StepsAreOwn, WorkSteps, Outcomes
    <3>3. StepsAreOwn'
      BY <2>1, <2>2, <3>1 DEF TypeOK, StepsAreOwn, CloseSteps
    <3>4. OutcomesAreClaimed' /\ MarkerIsTruthful'
      BY <2>1, <3>1 DEF TypeOK, StepsAreOwn, OutcomesAreClaimed, MarkerIsTruthful
    <3> QED  BY <3>2, <3>3, <3>4
  <2>3. CASE s \notin registry
    <3>1. /\ \E step \in {"idle", "done"} :
               job' = [job EXCEPT ![t] = [step |-> step, scan |-> Nothing,
                                          outcome |-> "none", lock |-> Nothing]]
          /\ savable' \in Scans \cup {Nothing}
          /\ UNCHANGED <<registry, claims, lockOf, held, writer, marker>>
      BY <1>5, <2>3 DEF Claim, StillRegistered, Finished, Show, Job, TypeOK
    <3>2. TypeOK'
      BY <3>1 DEF TypeOK, WorkSteps, Outcomes
    <3>3. StepsAreOwn' /\ OutcomesAreClaimed' /\ MarkerIsTruthful'
      BY <3>1 DEF TypeOK, StepsAreOwn, OutcomesAreClaimed, MarkerIsTruthful, CloseSteps
    <3> QED  BY <3>2, <3>3
  <2> QED  BY <2>2, <2>3
<1>6. ASSUME NEW t \in Threads, LockMarker(t)
      PROVE  TruthInv'
  BY <1>6 DEF LockMarker, TypeOK, StepsAreOwn, OutcomesAreClaimed,
              MarkerIsTruthful, WorkSteps, CloseSteps
<1>7. ASSUME NEW t \in Threads, WriteFinal(t)
      PROVE  TruthInv'
  <2> DEFINE s == job[t].scan
  <2>1. /\ s \in Scans /\ job[t].outcome \in Final /\ job[t].outcome \in claims[s]
        /\ \E step \in {"idle", "done"} :
             job' = [job EXCEPT ![t] = [step |-> step, scan |-> Nothing,
                                        outcome |-> "none", lock |-> Nothing]]
        /\ savable' \in Scans \cup {Nothing}
        /\ lockOf' = lockOf \/ (s \notin registry /\ lockOf' = [lockOf EXCEPT ![s] = Nothing])
        /\ held' \subseteq held
        /\ marker' = marker \/ marker' = [marker EXCEPT ![s] = job[t].outcome]
        /\ UNCHANGED <<registry, writer, claims>>
    <3>1. s \in Scans /\ job[t].outcome \in Final /\ job[t].outcome \in claims[s]
      BY <1>7 DEF WriteFinal, StepsAreOwn, OutcomesAreClaimed
    <3>2. marker' = marker \/ marker' = [marker EXCEPT ![s] = job[t].outcome]
      BY <1>7 DEF WriteFinal, Written
    <3>3. lockOf' = lockOf \/ (s \notin registry /\ lockOf' = [lockOf EXCEPT ![s] = Nothing])
      BY <1>7 DEF WriteFinal, Forget
    <3>4. savable' \in Scans \cup {Nothing}
      BY <1>7 DEF WriteFinal, Show, TypeOK
    <3> QED  BY <1>7, <3>1, <3>2, <3>3, <3>4 DEF WriteFinal, Finished, Job
  <2>2. TypeOK'
    BY <2>1 DEF TypeOK, WorkSteps, Outcomes, Markers
  <2>3. StepsAreOwn'
    BY <2>1 DEF TypeOK, StepsAreOwn, CloseSteps
  <2>4. OutcomesAreClaimed' /\ MarkerIsTruthful'
    BY <2>1 DEF TypeOK, OutcomesAreClaimed, MarkerIsTruthful
  <2> QED  BY <2>2, <2>3, <2>4
<1>8. ASSUME NEW s \in Scans, LockDeferred(s)
      PROVE  TruthInv'
  BY <1>8 DEF LockDeferred, TypeOK, StepsAreOwn, OutcomesAreClaimed, MarkerIsTruthful
<1>9. ASSUME NEW s \in Scans, WriteDeferred(s)
      PROVE  TruthInv'
  <2>1. /\ "interrupted" \in claims[s]
        /\ writer' = [writer EXCEPT ![s] = [step |-> "none", lock |-> Nothing]]
        /\ lockOf' = lockOf \/ (s \notin registry /\ lockOf' = [lockOf EXCEPT ![s] = Nothing])
        /\ held' \subseteq held
        /\ marker' = marker \/ marker' = [marker EXCEPT ![s] = "interrupted"]
        /\ UNCHANGED <<job, savable, registry, claims>>
    <3>1. "interrupted" \in claims[s]
      BY <1>9 DEF WriteDeferred, OutcomesAreClaimed
    <3>2. marker' = marker \/ marker' = [marker EXCEPT ![s] = "interrupted"]
      BY <1>9 DEF WriteDeferred, Written, LeftOver
    <3>3. lockOf' = lockOf \/ (s \notin registry /\ lockOf' = [lockOf EXCEPT ![s] = Nothing])
      BY <1>9 DEF WriteDeferred, Forget
    <3> QED  BY <1>9, <3>1, <3>2, <3>3 DEF WriteDeferred
  <2>2. TypeOK'
    BY <2>1 DEF TypeOK, Markers, Final
  <2>3. StepsAreOwn'
    BY <2>1 DEF TypeOK, StepsAreOwn
  <2>4. OutcomesAreClaimed' /\ MarkerIsTruthful'
    BY <2>1 DEF TypeOK, OutcomesAreClaimed, MarkerIsTruthful
  <2> QED  BY <2>2, <2>3, <2>4
<1>10. CASE WaitForAftercare \/ NoneLeft \/ Exit
  <2>1. /\ job[Ui].step \notin Working
        /\ \E step \in CloseSteps : job' = [job EXCEPT ![Ui].step = step]
        /\ UNCHANGED <<savable, registry, lockOf, held, writer, marker, claims>>
    BY <1>10 DEF WaitForAftercare, NoneLeft, Exit, CloseSteps
  <2>2. TypeOK'
    BY <2>1 DEF TypeOK
  <2>3. StepsAreOwn' /\ OutcomesAreClaimed' /\ MarkerIsTruthful'
    BY <2>1 DEF TypeOK, StepsAreOwn, OutcomesAreClaimed, MarkerIsTruthful, CloseSteps
  <2> QED  BY <2>2, <2>3
<1>11. CASE Expire
  <2>1. /\ job[Ui].step \notin Working
        /\ job' = [job EXCEPT ![Ui].step = "expired"]
        /\ registry' = {}
        /\ writer' = [s \in Scans |->
                        IF s \in registry THEN [step |-> "marking", lock |-> lockOf[s]]
                        ELSE writer[s]]
        /\ claims' = [s \in Scans |->
                        IF s \in registry THEN claims[s] \cup {"interrupted"} ELSE claims[s]]
        /\ UNCHANGED <<savable, lockOf, held, marker>>
    BY <1>11 DEF Expire
  <2>2. TypeOK'
    BY <2>1 DEF TypeOK, CloseSteps, Final
  <2>3. StepsAreOwn'
    BY <2>1 DEF TypeOK, StepsAreOwn, CloseSteps
  <2>4. OutcomesAreClaimed' /\ MarkerIsTruthful'
    BY <2>1 DEF TypeOK, StepsAreOwn, OutcomesAreClaimed, MarkerIsTruthful
  <2> QED  BY <2>2, <2>3, <2>4
<1>12. CASE UNCHANGED vars
  BY <1>12 DEF vars, TypeOK, StepsAreOwn, OutcomesAreClaimed, MarkerIsTruthful
<1> QED  BY <1>1, <1>2, <1>3, <1>4, <1>5, <1>6, <1>7, <1>8, <1>9, <1>10, <1>11, <1>12
         DEF Next, Work, Close

(* The invariant of the markers holds in every reachable state.            *)
THEOREM Truth == Spec => []TruthInv
BY InitTruth, TruthStep, PTL DEF Spec

(* Every variable of the registry and its callers keeps its type.          *)
THEOREM TypeCorrect == Spec => []TypeOK
BY Truth, PTL DEF TruthInv

(* A marker says only what some job of its scan was claimed with, whatever *)
(* the disk, the deadline and a second registration do: with and without   *)
(* the early result.                                                       *)
THEOREM Truthful == Spec => []MarkerIsTruthful
BY Truth, PTL DEF TruthInv

------------------------------------------------------------------------------
(* The close of the program, without the early result *)

(* At the start nothing is shown, begun or claimed.                        *)
LEMMA InitLate == Init => ShownWhenOver /\ FirstMarkerIsGuarded
BY DEF Init, Job, ShownWhenOver, FirstMarkerIsGuarded, Threads, Working, Ending, Final

(* Without the early result, a worker is alone with its scan until it is   *)
(* done with it.                                                           *)
LEMMA LateStep ==
    ASSUME EarlyCore = FALSE
    PROVE  LateInv /\ [Next]_vars => LateInv'
<1> SUFFICES ASSUME LateInv, [Next]_vars PROVE ShownWhenOver' /\ FirstMarkerIsGuarded'
  BY TruthStep DEF LateInv
<1> USE DEF LateInv, TruthInv, Threads, Working, Ending
<1>1. ASSUME NEW s \in Scans, StartScan(s) \/ CoreReady(s) \/ FailScan(s)
      PROVE  ShownWhenOver' /\ FirstMarkerIsGuarded'
  <2>1. /\ job[s].step \in {"idle", "core"}
        /\ \E step \in {"core", "ready", "done"} : job' = [job EXCEPT ![s].step = step]
        /\ savable' \in {Nothing, savable}
        /\ UNCHANGED <<registry, lockOf, held, writer, marker, claims>>
    BY <1>1 DEF StartScan, CoreReady, FailScan
  <2>2. ShownWhenOver'
    BY <2>1 DEF TypeOK, StepsAreOwn, ShownWhenOver
  <2>3. FirstMarkerIsGuarded'
    BY <2>1 DEF TypeOK, StepsAreOwn, FirstMarkerIsGuarded
  <2> QED  BY <2>2, <2>3
<1>2. ASSUME NEW s \in Scans, BeginAftercare(s)
      PROVE  ShownWhenOver' /\ FirstMarkerIsGuarded'
  <2>1. ShownWhenOver'
    BY <1>2 DEF BeginAftercare, Begin, Job, TypeOK, StepsAreOwn, ShownWhenOver
  <2>2. FirstMarkerIsGuarded'
    BY <1>2 DEF BeginAftercare, Begin, Job, TypeOK, StepsAreOwn, FirstMarkerIsGuarded
  <2> QED  BY <2>1, <2>2
<1>3. CASE SaveByHand
  <2>1. savable \in Scans /\ job[savable].step = "done"
    BY <1>3 DEF SaveByHand, TypeOK, ShownWhenOver
  <2>2. ShownWhenOver'
    BY <1>3, <2>1 DEF SaveByHand, Begin, Job, TypeOK, StepsAreOwn, ShownWhenOver
  <2>3. FirstMarkerIsGuarded'
    BY <1>3, <2>1 DEF SaveByHand, Begin, Job, TypeOK, StepsAreOwn, FirstMarkerIsGuarded
  <2> QED  BY <2>2, <2>3
<1>4. ASSUME NEW t \in Threads, WriteRunning(t)
      PROVE  ShownWhenOver' /\ FirstMarkerIsGuarded'
  <2>1. ShownWhenOver'
    BY <1>4 DEF WriteRunning, TypeOK, StepsAreOwn, ShownWhenOver
  <2>2. FirstMarkerIsGuarded'
    BY <1>4 DEF WriteRunning, Written, TypeOK, StepsAreOwn, ShownWhenOver,
                FirstMarkerIsGuarded, Final
  <2> QED  BY <2>1, <2>2
<1>5. ASSUME NEW t \in Threads, NEW outcome \in Final, Claim(t, outcome)
      PROVE  ShownWhenOver' /\ FirstMarkerIsGuarded'
  <2> DEFINE s == job[t].scan
  <2>1. s \in Scans /\ (t # Ui => s = t) /\ (t = Ui => job[s].step = "done")
    BY <1>5 DEF Claim, StepsAreOwn, ShownWhenOver
  <2>2. CASE s \in registry
    <3>1. /\ job[t].step = "working"
          /\ registry' = registry \ {s}
          /\ job' = [job EXCEPT ![t] = [step |-> "marking", scan |-> s,
                                        outcome |-> outcome, lock |-> lockOf[s]]]
          /\ claims' = [claims EXCEPT ![s] = @ \cup {outcome}]
          /\ UNCHANGED <<savable, lockOf, held, writer, marker>>
      BY <1>5, <2>2 DEF Claim, StillRegistered, Record, Job
    <3>2. ShownWhenOver'
      BY <2>1, <3>1 DEF TypeOK, StepsAreOwn, ShownWhenOver
    <3>3. FirstMarkerIsGuarded'
      BY <2>1, <3>1 DEF TypeOK, StepsAreOwn, ShownWhenOver, FirstMarkerIsGuarded
    <3> QED  BY <3>2, <3>3
  <2>3. CASE s \notin registry
    <3>1. /\ job[t].step = "working"
          /\ job' = [job EXCEPT ![t] = [step |-> Finished(t), scan |-> Nothing,
                                        outcome |-> "none", lock |-> Nothing]]
          /\ t = Ui => savable' = savable
          /\ t # Ui => savable' \in {t, savable}
          /\ UNCHANGED <<registry, claims, lockOf, held, writer, marker>>
      BY <1>5, <2>3 DEF Claim, StillRegistered, Show, Job
    <3>2. ShownWhenOver'
      BY <2>1, <3>1 DEF Finished, TypeOK, StepsAreOwn, ShownWhenOver
    <3>3. FirstMarkerIsGuarded'
      BY <2>1, <3>1 DEF Finished, TypeOK, StepsAreOwn, FirstMarkerIsGuarded
    <3> QED  BY <3>2, <3>3
  <2> QED  BY <2>2, <2>3
<1>6. ASSUME NEW t \in Threads, LockMarker(t)
      PROVE  ShownWhenOver' /\ FirstMarkerIsGuarded'
  <2>1. ShownWhenOver'
    BY <1>6 DEF LockMarker, TypeOK, StepsAreOwn, ShownWhenOver
  <2>2. FirstMarkerIsGuarded'
    BY <1>6 DEF LockMarker, TypeOK, StepsAreOwn, FirstMarkerIsGuarded
  <2> QED  BY <2>1, <2>2
<1>7. ASSUME NEW t \in Threads, WriteFinal(t)
      PROVE  ShownWhenOver' /\ FirstMarkerIsGuarded'
  <2> DEFINE s == job[t].scan
  <2>1. s \in Scans /\ (t # Ui => s = t) /\ (t = Ui => job[s].step = "done")
    BY <1>7 DEF WriteFinal, StepsAreOwn, ShownWhenOver
  <2>2. /\ job' = [job EXCEPT ![t] = [step |-> Finished(t), scan |-> Nothing,
                                      outcome |-> "none", lock |-> Nothing]]
        /\ t = Ui => savable' = savable
        /\ t # Ui => savable' \in {t, savable}
        /\ held' = held \ {<<s, job[t].lock>>}
        /\ \A r \in Scans : r # s => marker'[r] = marker[r]
        /\ \A r \in Scans : r \in registry \/ r # s => lockOf'[r] = lockOf[r]
        /\ UNCHANGED <<registry, claims, writer>>
    BY <1>7 DEF WriteFinal, Written, Forget, Show, Job, TypeOK
  <2>3. ShownWhenOver'
    BY <2>1, <2>2, <1>7 DEF WriteFinal, Finished, TypeOK, StepsAreOwn, ShownWhenOver
  <2>4. /\ job[s].step \notin {"idle", "core", "ready", "beginning"}
        /\ job'[s].step \notin {"idle", "core", "ready", "beginning"}
    BY <2>1, <2>2, <1>7 DEF WriteFinal, Finished, TypeOK
  <2>5. FirstMarkerIsGuarded'
    BY <2>1, <2>2, <2>4 DEF Finished, TypeOK, StepsAreOwn, FirstMarkerIsGuarded
  <2> QED  BY <2>3, <2>5
<1>8. ASSUME NEW s \in Scans, LockDeferred(s)
      PROVE  ShownWhenOver' /\ FirstMarkerIsGuarded'
  <2>1. ShownWhenOver'
    BY <1>8 DEF LockDeferred, TypeOK, StepsAreOwn, ShownWhenOver
  <2>2. FirstMarkerIsGuarded'
    BY <1>8 DEF LockDeferred, LockFree, TypeOK, StepsAreOwn, FirstMarkerIsGuarded
  <2> QED  BY <2>1, <2>2
<1>9. ASSUME NEW s \in Scans, WriteDeferred(s)
      PROVE  ShownWhenOver' /\ FirstMarkerIsGuarded'
  <2>1. ShownWhenOver'
    BY <1>9 DEF WriteDeferred, TypeOK, StepsAreOwn, ShownWhenOver
  <2>2. job[s].step \notin {"idle", "core", "ready", "beginning"}
    BY <1>9 DEF WriteDeferred, FirstMarkerIsGuarded
  <2>3. /\ \A r \in Scans : r # s => marker'[r] = marker[r] /\ writer'[r] = writer[r]
        /\ \A r \in Scans : r # s => lockOf'[r] = lockOf[r]
        /\ held' = held \ {<<s, writer[s].lock>>}
        /\ UNCHANGED <<job, registry>>
    BY <1>9 DEF WriteDeferred, Written, Forget, TypeOK
  <2>4. \A r \in Scans : job'[r].step \in {"idle", "core", "ready", "beginning"} =>
          /\ r # s /\ marker'[r] = marker[r] /\ writer'[r].step = writer[r].step
          /\ writer'[r].lock = writer[r].lock /\ lockOf'[r] = lockOf[r]
          /\ <<r, r>> \in held => <<r, r>> \in held'
    BY <2>2, <2>3
  <2>5. FirstMarkerIsGuarded'
    <3>1. job' = job /\ registry' = registry
      BY <2>3
    <3>2. job[Ui].step = "beginning" => job[Ui].scan \in registry
      BY DEF FirstMarkerIsGuarded
    <3>3. ASSUME NEW r \in Scans, job[r].step \in {"idle", "core", "ready", "beginning"}
          PROVE  marker'[r] \notin Final
      BY <2>4, <3>1, <3>3 DEF FirstMarkerIsGuarded
    <3>4. ASSUME NEW r \in Scans, job[r].step \in {"idle", "core", "ready"}
          PROVE  r \notin registry /\ writer'[r].step = "none"
      BY <2>4, <3>1, <3>4 DEF FirstMarkerIsGuarded
    <3>5. ASSUME NEW r \in Scans, job[r].step = "beginning"
          PROVE  /\ <<r, r>> \in held'
                 /\ r \in registry => lockOf'[r] = r
                 /\ writer'[r].step # "none" =>
                      writer'[r].step = "marking" /\ writer'[r].lock = r
      BY <2>4, <3>1, <3>5 DEF FirstMarkerIsGuarded
    <3> QED  BY <3>1, <3>2, <3>3, <3>4, <3>5 DEF FirstMarkerIsGuarded
  <2> QED  BY <2>1, <2>5
<1>10. CASE WaitForAftercare \/ NoneLeft \/ Exit
  <2>1. /\ job[Ui].step \notin Working
        /\ \E step \in CloseSteps : job' = [job EXCEPT ![Ui].step = step]
        /\ UNCHANGED <<savable, registry, lockOf, held, writer, marker, claims>>
    BY <1>10 DEF WaitForAftercare, NoneLeft, Exit, CloseSteps
  <2>2. ShownWhenOver' /\ FirstMarkerIsGuarded'
    BY <2>1 DEF TypeOK, ShownWhenOver, FirstMarkerIsGuarded, CloseSteps
  <2> QED  BY <2>2
<1>11. CASE Expire
  <2>1. job[Ui].step \notin Working
    BY <1>11 DEF Expire
  <2>2. /\ job' = [job EXCEPT ![Ui].step = "expired"]
        /\ \A s \in Scans : "completed" \in claims'[s] => "completed" \in claims[s]
        /\ registry' = {} /\ savable' = savable
        /\ \A s \in registry : writer'[s].step = "marking" /\ writer'[s].lock = lockOf[s]
        /\ \A s \in Scans \ registry : writer'[s] = writer[s]
        /\ UNCHANGED <<lockOf, held, marker>>
    BY <1>11 DEF Expire, TypeOK
  <2>3. ShownWhenOver'
    BY <2>1, <2>2 DEF TypeOK, ShownWhenOver
  <2>4. FirstMarkerIsGuarded'
    BY <2>1, <2>2 DEF TypeOK, FirstMarkerIsGuarded
  <2> QED  BY <2>3, <2>4
<1>12. CASE UNCHANGED vars
  BY <1>12 DEF vars, ShownWhenOver, FirstMarkerIsGuarded
<1> QED  BY <1>1, <1>2, <1>3, <1>4, <1>5, <1>6, <1>7, <1>8, <1>9, <1>10, <1>11, <1>12
         DEF Next, Work, Close

(* The invariant of the late result holds in every reachable state.        *)
LEMMA LateInvariance ==
    ASSUME EarlyCore = FALSE
    PROVE  Spec => []LateInv
<1>1. Init => LateInv
  BY InitTruth, InitLate DEF LateInv
<1>2. LateInv /\ [Next]_vars => LateInv'
  BY LateStep
<1> QED  BY <1>1, <1>2, PTL DEF Spec

(* Where a scan is shown only after its aftercare, a program closed in the  *)
(* middle of an aftercare never leaves a marker that says it was completed. *)
THEOREM InterruptionIsSeen ==
    ASSUME EarlyCore = FALSE
    PROVE  Spec => []NoSilentInterruption
<1>1. LateInv => NoSilentInterruption
  BY DEF LateInv, TruthInv, MarkerIsTruthful, ShownWhenOver, FirstMarkerIsGuarded,
         NoSilentInterruption, AtWork, Ending, Final
<1> QED  BY <1>1, LateInvariance, PTL

(* There, too, a late first write never reopens the marker of a job that    *)
(* has ended: who ends a job waits for the lock its first write holds.      *)
THEOREM MarkerIsNotReopened ==
    ASSUME EarlyCore = FALSE
    PROVE  Spec => MarkerNeverReverts
<1> DEFINE Reopened(s) == marker[s] \in Final /\ marker'[s] = "running"
<1>1. LateInv /\ [Next]_vars => \A s \in Scans : Reopened(s) => s \in registry
  <2> SUFFICES ASSUME LateInv, [Next]_vars, NEW s \in Scans, Reopened(s)
               PROVE  s \in registry
    OBVIOUS
  <2>1. \E t \in Threads : WriteRunning(t) /\ job[t].scan = s
    <3> SUFFICES ASSUME \A t \in Threads : WriteRunning(t) => job[t].scan # s
                 PROVE  FALSE
      OBVIOUS
    <3> USE DEF LateInv, TruthInv
    <3>1. CASE marker' = marker
      BY <3>1 DEF Final
    <3>2. ASSUME NEW t \in Threads, WriteRunning(t) PROVE FALSE
      BY <3>2 DEF WriteRunning, Written, TypeOK, Final
    <3>3. ASSUME NEW t \in Threads, WriteFinal(t) PROVE FALSE
      BY <3>3 DEF WriteFinal, Written, TypeOK, OutcomesAreClaimed, Ending, Final
    <3>4. ASSUME NEW r \in Scans, WriteDeferred(r) PROVE FALSE
      BY <3>4 DEF WriteDeferred, Written, LeftOver, TypeOK, Final
    <3> QED
      BY <3>1, <3>2, <3>3, <3>4 DEF Next, Work, Close, StartScan, CoreReady, FailScan,
         BeginAftercare, SaveByHand, Begin, Claim, LockMarker, LockDeferred,
         WaitForAftercare, NoneLeft, Expire, Exit, vars
  <2>2. PICK t \in Threads : WriteRunning(t) /\ job[t].scan = s
    BY <2>1
  <2>3. t = Ui
    BY <2>2 DEF WriteRunning, LateInv, TruthInv, StepsAreOwn, FirstMarkerIsGuarded,
                Working, Threads
  <2> QED  BY <2>2, <2>3 DEF WriteRunning, LateInv, FirstMarkerIsGuarded
<1> QED  BY <1>1, LateInvariance, PTL DEF Spec, MarkerNeverReverts

=============================================================================
