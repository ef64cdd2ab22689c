--------------------------- MODULE ServiceExecutor ---------------------------
(***************************************************************************)
(* The thread that talks to the broker: the single-worker executor of      *)
(* services/order_management_service.py.  The Qt thread asks for refreshes  *)
(* when its timer ticks, submits manual operations and shuts the service   *)
(* down; the worker runs polls and operations in order, and an operation's *)
(* completion asks for a refresh in turn.  What a poll decides is in       *)
(* ManagedPosition; here it only reads the broker.                         *)
(*                                                                         *)
(* A done callback runs in the worker, or, when the future is done before  *)
(* the callback is added, in the thread that adds it: every thread takes   *)
(* the same steps of request_refresh and of the callbacks.  Each action is *)
(* one critical section, one executor call or one step of the worker.      *)
(***************************************************************************)
EXTENDS Naturals, Sequences, FiniteSets

CONSTANTS
    Futures,        \* futures in flight, or done with their callback to run
    None,           \* no future
    MaxOperations   \* bound: manual operations in flight

ASSUME ExecutorAssumption == None \notin Futures /\ MaxOperations \in Nat

VARIABLES
    queue,      \* what the worker has not taken yet, in order
    future,     \* per future: its state, its task, whether its callback is on
    marker,     \* _refresh_future
    shut,       \* _shutdown
    thread,     \* per thread: its step and the future the step is about
    unread,     \* an operation changed the broker and no poll has read it
    cancelled   \* operations that were queued when the service was shut down

vars == <<queue, future, marker, shut, thread, unread, cancelled>>

Threads == {"qt", "worker"}

FutureStates == {"free", "queued", "running", "done"}

Steps == {"idle", "refreshing", "adding", "completing",
          "checking", "calling", "polling", "ending",
          "draining", "disconnected"}

At(step, f) == [step |-> step, future |-> f]

OperationEvent == "close_position"  \* mutant of OperationKind

OperationKind == "operation"

FreeFuture == [state |-> "free", task |-> "poll", added |-> FALSE]

Is(f, task, states) == future[f].task = task /\ future[f].state \in states

InFlight(task) == {f \in Futures : Is(f, task, {"queued", "running"})}

Init ==
    /\ queue = <<>>
    /\ future = [f \in Futures |-> FreeFuture]
    /\ marker = None /\ shut = FALSE
    /\ thread = [t \in Threads |-> At("idle", None)]
    /\ unread = FALSE /\ cancelled = {}

HeldForWorker == thread["qt"].step # "draining"  \* mutant of LockIsFree

(* No thread waits for another one while it holds the service's lock.      *)
LockIsFree == TRUE

-----------------------------------------------------------------------------
(* Refreshes *)

Goto(t, step, f) == thread' = [thread EXCEPT ![t] = At(step, f)]

Submit(t, f, task) ==
    /\ future[f].state = "free"
    /\ queue' = Append(queue, f)
    /\ future' = [future EXCEPT ![f] = [state |-> "queued", task |-> task, added |-> FALSE]]
    /\ Goto(t, "adding", f)

Tick ==
    /\ thread["qt"].step = "idle"
    /\ Goto("qt", "refreshing", None)
    /\ UNCHANGED <<queue, future, marker, shut, unread, cancelled>>

NeverPending == FALSE  \* mutant of RefreshPending

RefreshPending == marker # None /\ future[marker].state # "done"

RefreshRefused(t) ==
    /\ thread[t].step = "refreshing" /\ LockIsFree
    /\ shut \/ RefreshPending
    /\ Goto(t, "idle", None)
    /\ UNCHANGED <<queue, future, marker, shut, unread, cancelled>>

RequestRefresh(t) ==
    /\ thread[t].step = "refreshing" /\ LockIsFree
    /\ ~shut /\ ~RefreshPending
    /\ \E f \in Futures :
         /\ Submit(t, f, "poll")
         /\ marker' = f
    /\ UNCHANGED <<shut, unread, cancelled>>

NeverDone(f) == FALSE  \* mutant of AlreadyDone

(* add_done_callback finds the future done: it calls the callback itself.  *)
AlreadyDone(f) == future[f].state = "done"

(* add_done_callback *)
AddCallback(t) ==
    /\ thread[t].step = "adding"
    /\ LET f == thread[t].future IN
         IF AlreadyDone(f)
         THEN /\ Goto(t, "completing", f)
              /\ UNCHANGED future
         ELSE /\ future' = [future EXCEPT ![f].added = TRUE]
              /\ Goto(t, "idle", None)
    /\ UNCHANGED <<queue, marker, shut, unread, cancelled>>

(* _refresh_completed: whichever future it is called for. *)
RefreshCompleted(t) ==
    /\ thread[t].step = "completing" /\ LockIsFree
    /\ LET f == thread[t].future IN
         /\ future[f].task = "poll"
         /\ future' = [future EXCEPT ![f] = FreeFuture]
    /\ marker' = None
    /\ Goto(t, "idle", None)
    /\ UNCHANGED <<queue, shut, unread, cancelled>>

-----------------------------------------------------------------------------
(* Manual operations *)

SubmitOperation ==
    /\ thread["qt"].step = "idle"
    /\ ~shut
    /\ Cardinality({f \in Futures : Is(f, OperationKind, FutureStates \ {"free"})})
         < MaxOperations
    /\ \E f \in Futures : Submit("qt", f, OperationKind)
    /\ UNCHANGED <<marker, shut, unread, cancelled>>

NoFollowUp == "idle"  \* mutant of FollowUp

FollowUp == "refreshing"

OperationCompleted(t) ==
    /\ thread[t].step = "completing"
    /\ LET f == thread[t].future IN
         /\ future[f].task # "poll"
         /\ future' = [future EXCEPT ![f] = FreeFuture]
         /\ cancelled' = cancelled \ {f}
    /\ Goto(t, FollowUp, None)
    /\ UNCHANGED <<queue, marker, shut, unread>>

-----------------------------------------------------------------------------
(* The worker *)

Running == thread["worker"].future

Take ==
    /\ thread["worker"].step = "idle" /\ queue # <<>>
    /\ LET f == Head(queue) IN
         /\ future' = [future EXCEPT ![f].state = "running"]
         /\ Goto("worker", IF future[f].task = "poll" THEN "polling" ELSE "checking", f)
    /\ queue' = Tail(queue)
    /\ UNCHANGED <<marker, shut, unread, cancelled>>

NeverBlocked == FALSE  \* mutant of Blocked

Blocked == shut

(* execute_if_still_allowed *)
Check ==
    /\ thread["worker"].step = "checking" /\ LockIsFree
    /\ Goto("worker", IF Blocked THEN "ending" ELSE "calling", Running)
    /\ UNCHANGED <<queue, future, marker, shut, unread, cancelled>>

CallBroker ==
    /\ thread["worker"].step = "calling"
    /\ unread' \in {unread, TRUE}
    /\ Goto("worker", "ending", Running)
    /\ UNCHANGED <<queue, future, marker, shut, cancelled>>

Poll ==
    /\ thread["worker"].step = "polling" /\ LockIsFree
    /\ unread' = FALSE
    /\ Goto("worker", "ending", Running)
    /\ UNCHANGED <<queue, future, marker, shut, cancelled>>

(* The future gets its result: from now on done() holds, and the callback  *)
(* is called next if it is there.                                          *)
SetResult ==
    /\ thread["worker"].step = "ending"
    /\ future' = [future EXCEPT ![Running].state = "done"]
    /\ IF future[Running].added THEN Goto("worker", "completing", Running)
       ELSE Goto("worker", "idle", None)
    /\ UNCHANGED <<queue, marker, shut, unread, cancelled>>

-----------------------------------------------------------------------------
(* Shutdown *)

Shutdown ==
    /\ thread["qt"].step = "idle" /\ ~shut
    /\ shut' = TRUE
    /\ cancelled' = {f \in Futures : Is(f, OperationKind, {"queued"})}
    /\ Goto("qt", "draining", None)
    /\ UNCHANGED <<queue, future, marker, unread>>

Drained == queue = <<>> /\ thread["worker"].step = "idle"

(* The executor has joined its worker: the state is saved and the terminal *)
(* disconnected.                                                           *)
Disconnect ==
    /\ thread["qt"].step = "draining"
    /\ Drained
    /\ Goto("qt", "disconnected", None)
    /\ UNCHANGED <<queue, future, marker, shut, unread, cancelled>>

-----------------------------------------------------------------------------

Callbacks(t) ==
    \/ RefreshRefused(t) \/ RequestRefresh(t) \/ AddCallback(t)
    \/ RefreshCompleted(t) \/ OperationCompleted(t)

WorkerStep == Take \/ Check \/ CallBroker \/ Poll \/ SetResult \/ Callbacks("worker")

Next ==
    \/ Tick \/ SubmitOperation \/ Shutdown \/ Disconnect
    \/ Callbacks("qt")
    \/ WorkerStep

Spec == Init /\ [][Next]_vars

(* The threads run, and a broker call returns.  The timer, the user and    *)
(* the moment of the shutdown are left free.                               *)
FairSpec == Spec /\ WF_vars(WorkerStep) /\ WF_vars(Callbacks("qt")) /\ WF_vars(Disconnect)

-----------------------------------------------------------------------------
(* Properties *)

TypeOK ==
    /\ queue \in Seq(Futures)
    /\ future \in [Futures -> [state : FutureStates, task : {"poll", "operation"},
                               added : BOOLEAN]]
    /\ marker \in Futures \cup {None}
    /\ shut \in BOOLEAN /\ unread \in BOOLEAN
    /\ thread \in [Threads -> [step : Steps, future : Futures \cup {None}]]
    /\ cancelled \subseteq Futures

(* When nothing is left to run, a poll has read what the last operation    *)
(* did: a completion never leaves its refresh to one that read before it.  *)
ResultsAreRead ==
    /\ queue = <<>> /\ ~shut
    /\ \A t \in Threads : thread[t].step = "idle"
    => ~unread

(* The race that lets a second refresh in does not repeat itself: the      *)
(* backlog never grows beyond two polls.                                   *)
BacklogIsBounded == Cardinality(InFlight("poll")) <= 2

(* An operation still queued when the service shuts down is never sent.    *)
QueuedAreCancelled == thread["worker"].step = "calling" => Running \notin cancelled

(* Nobody is left without an answer: when the terminal is disconnected,    *)
(* every refresh and operation that was accepted is over and its callback  *)
(* has run, wherever its future was done before the callback was added.    *)
AnsweredBeforeDisconnect ==
    thread["qt"].step = "disconnected" => \A f \in Futures : future[f].state = "free"

(* The shutdown's wait for the worker ends.                                *)
ShutdownCompletes == thread["qt"].step = "draining" ~> thread["qt"].step = "disconnected"

=============================================================================
