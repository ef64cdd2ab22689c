--------------------------- MODULE ScanAftercare ---------------------------
(***************************************************************************)
(* What follows a market scan, and the program being closed meanwhile:     *)
(* services/scanner_job_state.py with its callers in                       *)
(* controllers/scanner_controller.py.  A scan's worker thread registers an *)
(* aftercare job, does the slow work (market brief, Telegram, snapshots)   *)
(* and completes it; the UI thread may save the shown scan by hand, under  *)
(* the same scan id, and closes the program, waiting for the registered    *)
(* jobs for a bounded time.  A marker file per scan records the outcome.   *)
(*                                                                         *)
(* Every action is one critical section of the registry's condition, or    *)
(* one file operation outside it; a file operation may fail or stall.      *)
(* Only jobs with markers (durable ones) are modelled.                     *)
(***************************************************************************)
EXTENDS Naturals

CONSTANTS
    Scans,          \* scan ids; each names the worker thread of its scan too
    Ui,             \* the UI thread
    Nothing,        \* no scan, no thread
    EarlyCore,      \* scanner_core_result_early: shown before the aftercare
    DiskFailures    \* TRUE: a marker write may fail

Threads == Scans \cup {Ui}

ASSUME AftercareAssumption ==
    /\ Ui \notin Scans /\ Nothing \notin Threads
    /\ EarlyCore \in BOOLEAN /\ DiskFailures \in BOOLEAN

VARIABLES
    job,        \* per thread: step, scan, claimed outcome, captured lock
    savable,    \* the scan the save button saves, or Nothing
    registry,   \* _jobs: scans with a running job
    lockOf,     \* _marker_locks: whose lock, by the thread that made it
    held,       \* the marker locks that are held: <<scan, maker>>
    writer,     \* per scan: the deferred marker writer and its lock
    marker,     \* per scan: the marker file
    claims      \* per scan: the outcomes its jobs were claimed with

vars == <<job, savable, registry, lockOf, held, writer, marker, claims>>

Final == {"completed", "interrupted"}

Markers == {"none", "running"} \cup Final

Outcomes == Final \cup {"none"}

WorkSteps == {"idle", "core", "ready", "beginning", "working", "marking", "writing", "done"}

CloseSteps == {"waiting", "quiet", "expired", "exited"}

Job(step, scan, outcome, lock) ==
    [step |-> step, scan |-> scan, outcome |-> outcome, lock |-> lock]

Init ==
    /\ job = [t \in Threads |-> Job("idle", Nothing, "none", Nothing)]
    /\ savable = Nothing /\ registry = {}
    /\ lockOf = [s \in Scans |-> Nothing] /\ held = {}
    /\ writer = [s \in Scans |-> [step |-> "none", lock |-> Nothing]]
    /\ marker = [s \in Scans |-> "none"]
    /\ claims = [s \in Scans |-> {}]

Alive == job[Ui].step # "exited"

IoInside == {"beginning", "writing"}  \* mutant of Inside

(* Steps in which a thread holds the condition while a file is written.    *)
Inside == {}

ConditionFree == \A t \in Threads : job[t].step \notin Inside

-----------------------------------------------------------------------------
(* Scans *)

(* The scan lock: a scan holds it until its aftercare is over. *)
NoActiveScan == \A s \in Scans : job[s].step \in {"idle", "done"}

StartScan(s) ==
    /\ job[Ui].step = "idle" /\ job[s].step = "idle"
    /\ NoActiveScan
    /\ job' = [job EXCEPT ![s].step = "core"]
    /\ savable' = Nothing
    /\ UNCHANGED <<registry, lockOf, held, writer, marker, claims>>

(* The analysis is over: with the early result the UI shows it at once. *)
CoreReady(s) ==
    /\ Alive /\ job[s].step = "core"
    /\ job' = [job EXCEPT ![s].step = "ready"]
    /\ savable' = IF EarlyCore THEN s ELSE savable
    /\ UNCHANGED <<registry, lockOf, held, writer, marker, claims>>

(* An error in the analysis ends the scan. *)
FailScan(s) ==
    /\ Alive /\ job[s].step = "core"
    /\ job' = [job EXCEPT ![s].step = "done"]
    /\ UNCHANGED <<savable, registry, lockOf, held, writer, marker, claims>>

(* begin_aftercare: the marker's lock is taken before the job is published. *)
Begin(t, s) ==
    /\ ConditionFree
    /\ job' = [job EXCEPT ![t] = Job("beginning", s, "none", Nothing)]
    /\ registry' = registry \cup {s}
    /\ lockOf' = [lockOf EXCEPT ![s] = t]
    /\ held' = held \cup {<<s, t>>}
    /\ UNCHANGED <<writer, marker, claims>>

BeginAftercare(s) ==
    /\ Alive /\ job[s].step = "ready"
    /\ Begin(s, s)
    /\ UNCHANGED savable

(* The save button: persist_scan with manage_job. *)
SaveByHand ==
    /\ job[Ui].step = "idle" /\ savable # Nothing
    /\ Begin(Ui, savable)
    /\ UNCHANGED savable

Written(s, state) ==
    \/ marker' = [marker EXCEPT ![s] = state]
    \/ DiskFailures /\ UNCHANGED marker

WriteRunning(t) ==
    /\ Alive /\ job[t].step = "beginning"
    /\ Written(job[t].scan, "running")
    /\ held' = held \ {<<job[t].scan, t>>}
    /\ job' = [job EXCEPT ![t].step = "working"]
    /\ UNCHANGED <<savable, registry, lockOf, writer, claims>>

-----------------------------------------------------------------------------
(* The end of a job *)

Finished(t) == IF t = Ui THEN "idle" ELSE "done"

(* Without the early result, a scan is shown once its aftercare is over,   *)
(* unless an error failed it.                                              *)
Show(t, outcome) ==
    IF t = Ui \/ EarlyCore THEN UNCHANGED savable
    ELSE savable' \in {t} \cup (IF outcome = "completed" THEN {} ELSE {savable})

ClaimAnyway(s) == TRUE  \* mutant of StillRegistered

StillRegistered(s) == s \in registry

Record(s, outcome) ==
    claims' = [claims EXCEPT ![s] = IF s \in registry THEN @ \cup {outcome} ELSE @]

(* complete_aftercare, or mark_interrupted after an error: only a job that *)
(* is still registered is claimed.                                         *)
Claim(t, outcome) ==
    /\ Alive /\ ConditionFree
    /\ job[t].step = "working"
    /\ LET s == job[t].scan IN
         IF StillRegistered(s)
         THEN /\ registry' = registry \ {s}
              /\ job' = [job EXCEPT ![t] = Job("marking", s, outcome, lockOf[s])]
              /\ Record(s, outcome)
              /\ UNCHANGED savable
         ELSE /\ job' = [job EXCEPT ![t] = Job(Finished(t), Nothing, "none", Nothing)]
              /\ Show(t, outcome)
              /\ UNCHANGED <<registry, claims>>
    /\ UNCHANGED <<lockOf, held, writer, marker>>

AnyTime(s, lock) == TRUE  \* mutant of LockFree

LockFree(s, lock) == <<s, lock>> \notin held

LockMarker(t) ==
    /\ Alive /\ job[t].step = "marking"
    /\ LockFree(job[t].scan, job[t].lock)
    /\ held' = held \cup {<<job[t].scan, job[t].lock>>}
    /\ job' = [job EXCEPT ![t].step = "writing"]
    /\ UNCHANGED <<savable, registry, lockOf, writer, marker, claims>>

(* _forget_marker_lock. *)
Forget(s, lock) ==
    lockOf' = IF s \notin registry /\ lockOf[s] = lock
              THEN [lockOf EXCEPT ![s] = Nothing] ELSE lockOf

WriteFinal(t) ==
    /\ Alive /\ job[t].step = "writing"
    /\ Written(job[t].scan, job[t].outcome)
    /\ held' = held \ {<<job[t].scan, job[t].lock>>}
    /\ Forget(job[t].scan, job[t].lock)
    /\ job' = [job EXCEPT ![t] = Job(Finished(t), Nothing, "none", Nothing)]
    /\ Show(t, job[t].outcome)
    /\ UNCHANGED <<registry, writer, claims>>

-----------------------------------------------------------------------------
(* Closing the program *)

(* AppController.shutdown; a restart of the program calls it twice. *)
WaitForAftercare ==
    /\ job[Ui].step \in {"idle", "quiet", "expired"}
    /\ ConditionFree
    /\ job' = [job EXCEPT ![Ui].step = "waiting"]
    /\ UNCHANGED <<savable, registry, lockOf, held, writer, marker, claims>>

NoneLeft ==
    /\ job[Ui].step = "waiting" /\ ConditionFree
    /\ registry = {}
    /\ job' = [job EXCEPT ![Ui].step = "quiet"]
    /\ UNCHANGED <<savable, registry, lockOf, held, writer, marker, claims>>

Success == "completed"  \* mutant of LeftOver

Reason == "shutdown_timeout"  \* mutant of LeftOver

LeftOver == "interrupted"

(* The deadline passes: every job left is claimed in the same critical     *)
(* section, and its marker left to a writer thread.                        *)
Expire ==
    /\ job[Ui].step = "waiting" /\ ConditionFree
    /\ registry # {}
    /\ registry' = {}
    /\ writer' = [s \in Scans |->
                    IF s \in registry THEN [step |-> "marking", lock |-> lockOf[s]]
                    ELSE writer[s]]
    /\ claims' = [s \in Scans |->
                    IF s \in registry THEN claims[s] \cup {"interrupted"} ELSE claims[s]]
    /\ job' = [job EXCEPT ![Ui].step = "expired"]
    /\ UNCHANGED <<savable, lockOf, held, marker>>

LockDeferred(s) ==
    /\ Alive /\ writer[s].step = "marking"
    /\ LockFree(s, writer[s].lock)
    /\ held' = held \cup {<<s, writer[s].lock>>}
    /\ writer' = [writer EXCEPT ![s].step = "writing"]
    /\ UNCHANGED <<job, savable, registry, lockOf, marker, claims>>

WriteDeferred(s) ==
    /\ Alive /\ writer[s].step = "writing"
    /\ Written(s, LeftOver)
    /\ held' = held \ {<<s, writer[s].lock>>}
    /\ Forget(s, writer[s].lock)
    /\ writer' = [writer EXCEPT ![s] = [step |-> "none", lock |-> Nothing]]
    /\ UNCHANGED <<job, savable, registry, claims>>

(* The process ends, and every thread with it. *)
Exit ==
    /\ job[Ui].step \in {"quiet", "expired"}
    /\ job' = [job EXCEPT ![Ui].step = "exited"]
    /\ UNCHANGED <<savable, registry, lockOf, held, writer, marker, claims>>

-----------------------------------------------------------------------------

Work(t) ==
    \/ WriteRunning(t) \/ (\E outcome \in Final : Claim(t, outcome))
    \/ LockMarker(t) \/ WriteFinal(t)

Close == WaitForAftercare \/ NoneLeft \/ Expire \/ Exit

Next ==
    \/ \E s \in Scans : StartScan(s) \/ CoreReady(s) \/ FailScan(s)
    \/ \E s \in Scans : BeginAftercare(s)
    \/ SaveByHand
    \/ \E t \in Threads : Work(t)
    \/ \E s \in Scans : LockDeferred(s) \/ WriteDeferred(s)
    \/ Close

Spec == Init /\ [][Next]_vars

(* The UI thread runs and its deadline passes.  Nothing is assumed of the   *)
(* workers, the disk or the network behind them.                           *)
FairSpec == Spec /\ WF_vars(NoneLeft \/ Expire)

-----------------------------------------------------------------------------
(* Properties *)

TypeOK ==
    /\ job \in [Threads -> [step : WorkSteps \cup CloseSteps,
                            scan : Scans \cup {Nothing},
                            outcome : Outcomes,
                            lock : Threads \cup {Nothing}]]
    /\ savable \in Scans \cup {Nothing}
    /\ registry \subseteq Scans
    /\ lockOf \in [Scans -> Threads \cup {Nothing}]
    /\ held \subseteq Scans \X Threads
    /\ writer \in [Scans -> [step : {"none", "marking", "writing"},
                             lock : Threads \cup {Nothing}]]
    /\ marker \in [Scans -> Markers]
    /\ claims \in [Scans -> SUBSET Final]

(* A marker never says of a scan what none of its jobs was claimed with: a  *)
(* job the shutdown gave up is not recorded as completed by its worker      *)
(* finishing late.                                                          *)
MarkerIsTruthful == \A s \in Scans : marker[s] \in Final => marker[s] \in claims[s]

(* A final marker is only reopened by a job that is really running: a slow  *)
(* first write cannot land on the outcome of its own job.                   *)
MarkerNeverReverts ==
    [][\A s \in Scans : marker[s] \in Final /\ marker'[s] = "running"
         => s \in registry]_vars

AtWork(s) == job[s].step \in {"beginning", "working"}

(* A program closed in the middle of an aftercare never leaves a marker     *)
(* that says the aftercare was completed.                                   *)
NoSilentInterruption ==
    job[Ui].step = "exited" => \A s \in Scans : AtWork(s) => marker[s] # "completed"

(* The wait ends, within its deadline, however long the workers and the     *)
(* disk take.                                                               *)
ShutdownBounded == job[Ui].step = "waiting" ~> job[Ui].step \in {"quiet", "expired"}

=============================================================================
