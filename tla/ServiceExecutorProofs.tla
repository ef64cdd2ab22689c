------------------------ MODULE ServiceExecutorProofs ------------------------
(***************************************************************************)
(* Proofs about ServiceExecutor.  That a poll reads what the last          *)
(* operation did rests on three facts: a future's callback is always held  *)
(* by exactly one thread or attached, the worker runs what it says it      *)
(* runs, and a pending refresh has not read the broker yet.  That the      *)
(* backlog stays bounded is a second invariant over the first: the marked  *)
(* poll is the newest, and at most one poll is not marked.                 *)
(***************************************************************************)
EXTENDS ServiceExecutor, FiniteSetTheorems, TLAPS

Busy == {"checking", "calling", "polling", "ending"}

Holding == {"adding", "completing"}

(* The queue holds the queued futures, each once. *)
QueueIsQueued ==
    /\ \A i \in 1..Len(queue) : future[queue[i]].state = "queued"
    /\ \A i, j \in 1..Len(queue) : queue[i] = queue[j] => i = j
    /\ \A f \in Futures : future[f].state = "queued"
         => \E i \in 1..Len(queue) : queue[i] = f

(* The worker runs the one running future, and a poll that is ending has   *)
(* read the broker.                                                        *)
WorkerRuns ==
    /\ thread["qt"].step \notin Busy
    /\ thread["worker"].step \notin {"draining", "disconnected"}
    /\ thread["worker"].step \in Busy =>
         Running \in Futures /\ future[Running].state = "running"
    /\ \A f \in Futures : future[f].state = "running"
         => thread["worker"].step \in Busy /\ Running = f
    /\ thread["worker"].step \in {"checking", "calling"} =>
         future[Running].task = "operation"
    /\ thread["worker"].step = "polling" => future[Running].task = "poll"
    /\ thread["worker"].step = "ending" /\ future[Running].task = "poll" => ~unread

(* Every callback that is still to run is attached, or one thread has it.  *)
CallbacksAreHeld ==
    /\ \A t \in Threads : thread[t].step = "adding" =>
         /\ thread[t].future \in Futures
         /\ future[thread[t].future].state # "free"
         /\ ~future[thread[t].future].added
    /\ \A t \in Threads : thread[t].step = "completing" =>
         thread[t].future \in Futures /\ future[thread[t].future].state = "done"
    /\ thread["qt"].step \in Holding /\ thread["worker"].step \in Holding =>
         thread["qt"].future # thread["worker"].future
    /\ \A f \in Futures : future[f].state = "done" =>
         \E t \in Threads : thread[t].step \in Holding /\ thread[t].future = f
    /\ \A f \in Futures : future[f].state \in {"queued", "running"} /\ ~future[f].added =>
         \E t \in Threads : thread[t].step = "adding" /\ thread[t].future = f

MarkerIsPoll ==
    marker # None => future[marker].task = "poll" /\ future[marker].state # "free"

ShutdownIsFinal ==
    /\ shut <=> thread["qt"].step \in {"draining", "disconnected"}
    /\ cancelled # {} => shut

WorkerIsGone ==
    thread["qt"].step = "disconnected" => queue = <<>> /\ thread["worker"].step = "idle"

(* What promises that an unread result will be read: its operation's       *)
(* callback, a request for a refresh, or a poll that has not read yet.     *)
Follower ==
    \/ \E f \in Futures : future[f].task = "operation" /\ future[f].state \in {"running", "done"}
    \/ \E t \in Threads : thread[t].step = "refreshing"
    \/ \E f \in Futures : future[f].task = "poll" /\ future[f].state = "queued"
    \/ thread["worker"].step = "polling"

ResultIsFollowed == unread /\ ~shut => Follower

IInv ==
    /\ TypeOK /\ QueueIsQueued /\ WorkerRuns /\ CallbacksAreHeld /\ MarkerIsPoll
    /\ ShutdownIsFinal /\ QueuedAreCancelled /\ WorkerIsGone
    /\ ResultIsFollowed

USE ExecutorAssumption

(* The timer starts nothing by itself.                                     *)
LEMMA TickStep ==
    ASSUME IInv, Tick
    PROVE  IInv'
<1> USE DEF Tick, IInv, Goto, At, FreeFuture, FutureStates, Steps, Threads,
            Running, Busy, Holding
<1>1. TypeOK'
  BY DEF TypeOK
<1>2. /\ QueueIsQueued' /\ WorkerRuns' /\ CallbacksAreHeld' /\ MarkerIsPoll'
      /\ ShutdownIsFinal' /\ QueuedAreCancelled' /\ WorkerIsGone'
  BY DEF TypeOK, QueueIsQueued, WorkerRuns, CallbacksAreHeld, MarkerIsPoll,
         ShutdownIsFinal, QueuedAreCancelled, WorkerIsGone
<1>3. ResultIsFollowed'
  BY DEF TypeOK, ResultIsFollowed, Follower
<1> QED  BY <1>1, <1>2, <1>3

(* A refresh is only refused when one is pending, and that one has not     *)
(* read the broker: were it ending, there would be nothing unread.         *)
LEMMA RefusedStep ==
    ASSUME IInv, NEW t \in Threads, RefreshRefused(t)
    PROVE  IInv'
<1> USE DEF RefreshRefused, RefreshPending, IInv, Goto, At, FreeFuture,
            FutureStates, Steps, Threads, Running, Busy, Holding
<1>1. TypeOK'
  BY DEF TypeOK
<1>2. /\ QueueIsQueued' /\ WorkerRuns' /\ CallbacksAreHeld' /\ MarkerIsPoll'
      /\ ShutdownIsFinal' /\ QueuedAreCancelled' /\ WorkerIsGone'
  BY DEF TypeOK, QueueIsQueued, WorkerRuns, CallbacksAreHeld, MarkerIsPoll,
         ShutdownIsFinal, QueuedAreCancelled, WorkerIsGone
<1>3. ResultIsFollowed'
  BY DEF TypeOK, ResultIsFollowed, WorkerRuns, MarkerIsPoll, Follower
<1> QED  BY <1>1, <1>2, <1>3

(* A new refresh is queued and its callback held by the thread that asked. *)
LEMMA RequestStep ==
    ASSUME IInv, NEW t \in Threads, RequestRefresh(t)
    PROVE  IInv'
<1> USE DEF RequestRefresh, Submit, IInv, Goto, At, FreeFuture, FutureStates,
            Steps, Threads, Running, Busy, Holding
<1>1. TypeOK'
  BY DEF TypeOK
<1>2. /\ QueueIsQueued' /\ WorkerRuns' /\ CallbacksAreHeld' /\ MarkerIsPoll'
      /\ ShutdownIsFinal' /\ QueuedAreCancelled' /\ WorkerIsGone'
  BY DEF TypeOK, QueueIsQueued, WorkerRuns, CallbacksAreHeld, MarkerIsPoll,
         ShutdownIsFinal, QueuedAreCancelled, WorkerIsGone
<1>3. ResultIsFollowed'
  BY DEF TypeOK, ResultIsFollowed, Follower
<1> QED  BY <1>1, <1>2, <1>3

(* The callback goes to the future, or stays with the thread if it is      *)
(* late.                                                                   *)
LEMMA AddStep ==
    ASSUME IInv, NEW t \in Threads, AddCallback(t)
    PROVE  IInv'
<1> DEFINE f == thread[t].future
<1> USE DEF IInv, Goto, At, FutureStates, Steps, Threads, Running, Busy, Holding
<1>1. f \in Futures /\ future[f].state # "free" /\ ~future[f].added
  BY DEF AddCallback, CallbacksAreHeld
<1>2. CASE future[f].state = "done"
  <2> USE <1>1, <1>2
  <2>0. /\ thread' = [thread EXCEPT ![t] = [step |-> "completing", future |-> f]]
        /\ UNCHANGED <<queue, future, marker, shut, unread, cancelled>>
    BY DEF AddCallback, AlreadyDone
  <2>1. TypeOK'
    BY <2>0 DEF TypeOK
  <2>2. /\ QueueIsQueued' /\ WorkerRuns' /\ MarkerIsPoll' /\ ShutdownIsFinal'
        /\ QueuedAreCancelled' /\ WorkerIsGone'
    BY <2>0 DEF AddCallback, TypeOK, QueueIsQueued, WorkerRuns, MarkerIsPoll,
                ShutdownIsFinal, QueuedAreCancelled, WorkerIsGone
  <2>3. CallbacksAreHeld'
    BY <2>0 DEF AddCallback, TypeOK, CallbacksAreHeld
  <2>4. ResultIsFollowed'
    BY <2>0 DEF AddCallback, TypeOK, ResultIsFollowed, Follower
  <2> QED  BY <2>1, <2>2, <2>3, <2>4
<1>3. CASE future[f].state # "done"
  <2> USE <1>1, <1>3
  <2>0. /\ future' = [future EXCEPT ![f].added = TRUE]
        /\ thread' = [thread EXCEPT ![t] = [step |-> "idle", future |-> None]]
        /\ UNCHANGED <<queue, marker, shut, unread, cancelled>>
    BY DEF AddCallback, AlreadyDone
  <2>1. TypeOK'
    BY ZenonT(30), <2>0 DEF TypeOK
  <2>2. /\ QueueIsQueued' /\ WorkerRuns' /\ MarkerIsPoll' /\ ShutdownIsFinal'
        /\ QueuedAreCancelled' /\ WorkerIsGone'
    BY <2>0 DEF AddCallback, TypeOK, QueueIsQueued, WorkerRuns, MarkerIsPoll,
                ShutdownIsFinal, QueuedAreCancelled, WorkerIsGone
  <2>3. CallbacksAreHeld'
    BY <2>0 DEF AddCallback, TypeOK, CallbacksAreHeld
  <2>4. ResultIsFollowed'
    BY <2>0 DEF AddCallback, TypeOK, ResultIsFollowed, Follower
  <2> QED  BY <2>1, <2>2, <2>3, <2>4
<1> QED  BY <1>2, <1>3

(* The future of a callback that has run is forgotten, and the marker with *)
(* it.                                                                     *)
LEMMA RefreshedStep ==
    ASSUME IInv, NEW t \in Threads, RefreshCompleted(t)
    PROVE  IInv'
<1> USE DEF RefreshCompleted, IInv, Goto, At, FreeFuture, FutureStates, Steps,
            Threads, Running, Busy, Holding
<1>1. TypeOK'
  BY DEF TypeOK, CallbacksAreHeld
<1>2. /\ CallbacksAreHeld' /\ MarkerIsPoll' /\ ShutdownIsFinal'
      /\ QueuedAreCancelled' /\ WorkerIsGone'
  BY DEF TypeOK, CallbacksAreHeld, MarkerIsPoll, ShutdownIsFinal,
         QueuedAreCancelled, WorkerIsGone
<1>3. QueueIsQueued'
  BY DEF TypeOK, QueueIsQueued, CallbacksAreHeld
<1>4. WorkerRuns'
  BY DEF TypeOK, WorkerRuns, CallbacksAreHeld
<1>5. ResultIsFollowed'
  BY DEF TypeOK, ResultIsFollowed, CallbacksAreHeld, Follower
<1> QED  BY <1>1, <1>2, <1>3, <1>4, <1>5

(* An operation's callback is held by the Qt thread.                       *)
LEMMA SubmitStep ==
    ASSUME IInv, SubmitOperation
    PROVE  IInv'
<1> USE DEF SubmitOperation, Submit, OperationKind, IInv, Goto, At,
            FreeFuture, FutureStates, Steps, Threads, Running, Busy, Holding
<1>1. TypeOK'
  BY DEF TypeOK
<1>2. /\ QueueIsQueued' /\ WorkerRuns' /\ CallbacksAreHeld' /\ MarkerIsPoll'
      /\ ShutdownIsFinal' /\ QueuedAreCancelled' /\ WorkerIsGone'
  BY DEF TypeOK, QueueIsQueued, WorkerRuns, CallbacksAreHeld, MarkerIsPoll,
         ShutdownIsFinal, QueuedAreCancelled, WorkerIsGone
<1>3. ResultIsFollowed'
  BY DEF TypeOK, ResultIsFollowed, Follower
<1> QED  BY <1>1, <1>2, <1>3

(* An operation that is over has a refresh requested for it.               *)
LEMMA CompletedStep ==
    ASSUME IInv, NEW t \in Threads, OperationCompleted(t)
    PROVE  IInv'
<1> USE DEF OperationCompleted, FollowUp, IInv, Goto, At, FreeFuture,
            FutureStates, Steps, Threads, Running, Busy, Holding
<1>1. TypeOK'
  BY DEF TypeOK, CallbacksAreHeld
<1>2. /\ CallbacksAreHeld' /\ MarkerIsPoll' /\ ShutdownIsFinal'
      /\ QueuedAreCancelled' /\ WorkerIsGone'
  BY DEF TypeOK, CallbacksAreHeld, MarkerIsPoll, ShutdownIsFinal,
         QueuedAreCancelled, WorkerIsGone
<1>3. QueueIsQueued'
  BY DEF TypeOK, QueueIsQueued, CallbacksAreHeld
<1>4. WorkerRuns'
  BY DEF TypeOK, WorkerRuns, CallbacksAreHeld
<1>5. ResultIsFollowed'
  BY DEF TypeOK, ResultIsFollowed, Follower
<1> QED  BY <1>1, <1>2, <1>3, <1>4, <1>5

(* The head of the queue becomes the running future.                       *)
LEMMA TakeStep ==
    ASSUME IInv, Take
    PROVE  IInv'
<1> DEFINE f == Head(queue)
<1> USE DEF IInv, Goto, At, FutureStates, Steps, Threads, Running, Busy, Holding
<1>1. /\ Len(queue) \in Nat /\ Len(queue) >= 1
      /\ f = queue[1] /\ f \in Futures
      /\ Len(queue') = Len(queue) - 1
      /\ \A i \in 1..Len(queue') : queue'[i] = queue[i + 1]
      /\ queue' \in Seq(Futures)
  BY DEF Take, TypeOK
<1>2. future[f].state = "queued"
  BY <1>1 DEF QueueIsQueued
<1>3. future' = [future EXCEPT ![f].state = "running"]
  BY DEF Take
<1>4. TypeOK'
  BY ZenonT(30), <1>1 DEF Take, TypeOK
<1>5. /\ MarkerIsPoll' /\ ShutdownIsFinal' /\ QueuedAreCancelled'
      /\ WorkerIsGone'
  BY DEF Take, TypeOK, MarkerIsPoll, ShutdownIsFinal, QueuedAreCancelled,
         WorkerIsGone
<1>6. QueueIsQueued'
  <2>1. \A i \in 1..Len(queue') : queue'[i] # f /\ future'[queue'[i]].state = "queued"
    BY SMTT(30), <1>1, <1>3 DEF TypeOK, QueueIsQueued
  <2>2. \A i, j \in 1..Len(queue') : queue'[i] = queue'[j] => i = j
    BY <1>1 DEF QueueIsQueued
  <2>3. ASSUME NEW g \in Futures, future'[g].state = "queued"
        PROVE  \E i \in 1..Len(queue') : queue'[i] = g
    <3>1. g # f /\ future[g].state = "queued"
      BY <1>1, <1>3, <2>3 DEF TypeOK
    <3>2. PICK k \in 1..Len(queue) : queue[k] = g
      BY <3>1 DEF QueueIsQueued
    <3>3. k # 1 /\ k - 1 \in 1..Len(queue') /\ queue'[k - 1] = g
      BY <1>1, <3>1, <3>2
    <3> QED  BY <3>3
  <2> QED  BY <2>1, <2>2, <2>3 DEF QueueIsQueued
<1>7. WorkerRuns'
  BY <1>1, <1>3 DEF Take, TypeOK, WorkerRuns
<1>8. CallbacksAreHeld'
  BY <1>1, <1>2, <1>3 DEF Take, TypeOK, CallbacksAreHeld
<1>9. ResultIsFollowed'
  BY DEF Take, TypeOK, ResultIsFollowed, Follower
<1> QED  BY <1>4, <1>5, <1>6, <1>7, <1>8, <1>9

(* No cancelled operation passes: there are none before the shutdown.      *)
LEMMA CheckStep ==
    ASSUME IInv, Check
    PROVE  IInv'
<1> USE DEF Check, Blocked, IInv, Goto, At, FreeFuture, FutureStates, Steps,
            Threads, Running, Busy, Holding
<1>1. TypeOK'
  BY DEF TypeOK
<1>2. /\ QueueIsQueued' /\ WorkerRuns' /\ CallbacksAreHeld' /\ MarkerIsPoll'
      /\ ShutdownIsFinal' /\ WorkerIsGone'
  BY DEF TypeOK, QueueIsQueued, WorkerRuns, CallbacksAreHeld, MarkerIsPoll,
         ShutdownIsFinal, WorkerIsGone
<1>3. QueuedAreCancelled'
  BY DEF TypeOK, QueuedAreCancelled, ShutdownIsFinal
<1>4. ResultIsFollowed'
  BY DEF TypeOK, ResultIsFollowed, Follower
<1> QED  BY <1>1, <1>2, <1>3, <1>4

(* The operation under way is what follows its own result.                 *)
LEMMA CallStep ==
    ASSUME IInv, CallBroker
    PROVE  IInv'
<1> USE DEF CallBroker, IInv, Goto, At, FreeFuture, FutureStates, Steps,
            Threads, Running, Busy, Holding
<1>1. TypeOK'
  BY DEF TypeOK, QueueIsQueued, WorkerRuns, CallbacksAreHeld, MarkerIsPoll,
         ShutdownIsFinal, QueuedAreCancelled, WorkerIsGone,
         ResultIsFollowed
<1>2. /\ QueueIsQueued' /\ WorkerRuns' /\ CallbacksAreHeld' /\ MarkerIsPoll'
      /\ ShutdownIsFinal' /\ QueuedAreCancelled' /\ WorkerIsGone'
  BY DEF TypeOK, QueueIsQueued, WorkerRuns, CallbacksAreHeld, MarkerIsPoll,
         ShutdownIsFinal, QueuedAreCancelled, WorkerIsGone
<1>3. ResultIsFollowed'
  BY DEF TypeOK, ResultIsFollowed, WorkerRuns, Follower
<1> QED  BY <1>1, <1>2, <1>3

(* A poll reads all there is.                                              *)
LEMMA PollStep ==
    ASSUME IInv, Poll
    PROVE  IInv'
<1> USE DEF Poll, IInv, Goto, At, FreeFuture, FutureStates, Steps, Threads,
            Running, Busy, Holding
<1>1. TypeOK'
  BY DEF TypeOK, QueueIsQueued, WorkerRuns, CallbacksAreHeld, MarkerIsPoll,
         ShutdownIsFinal, QueuedAreCancelled, WorkerIsGone,
         ResultIsFollowed
<1>2. /\ QueueIsQueued' /\ WorkerRuns' /\ CallbacksAreHeld' /\ MarkerIsPoll'
      /\ ShutdownIsFinal' /\ QueuedAreCancelled' /\ WorkerIsGone'
  BY DEF TypeOK, QueueIsQueued, WorkerRuns, CallbacksAreHeld, MarkerIsPoll,
         ShutdownIsFinal, QueuedAreCancelled, WorkerIsGone
<1>3. ResultIsFollowed'
  BY DEF TypeOK, ResultIsFollowed, Follower
<1> QED  BY <1>1, <1>2, <1>3

(* A result passes the callback from the future to the worker, or leaves   *)
(* it with the thread that has it.                                         *)
LEMMA SetResultStep ==
    ASSUME IInv, SetResult
    PROVE  IInv'
<1> USE DEF SetResult, IInv, Goto, At, FreeFuture, FutureStates, Steps,
            Threads, Running, Busy, Holding
<1>1. TypeOK'
  BY DEF TypeOK, WorkerRuns
<1>2. /\ MarkerIsPoll' /\ ShutdownIsFinal' /\ QueuedAreCancelled'
      /\ WorkerIsGone'
  BY SMTT(30) DEF TypeOK, MarkerIsPoll, ShutdownIsFinal, QueuedAreCancelled,
         WorkerIsGone
<1>3. QueueIsQueued'
  BY DEF TypeOK, QueueIsQueued, WorkerRuns
<1>4. WorkerRuns'
  BY DEF TypeOK, WorkerRuns, CallbacksAreHeld
<1>5. CallbacksAreHeld'
  BY SMTT(30) DEF TypeOK, CallbacksAreHeld, WorkerRuns
<1>6. ResultIsFollowed'
  BY DEF TypeOK, ResultIsFollowed, WorkerRuns, Follower
<1> QED  BY <1>1, <1>2, <1>3, <1>4, <1>5, <1>6

(* What is cancelled is queued, so it is not what the worker runs.         *)
LEMMA ShutdownStep ==
    ASSUME IInv, Shutdown
    PROVE  IInv'
<1> USE DEF Shutdown, Is, OperationKind, IInv, Goto, At, FreeFuture,
            FutureStates, Steps, Threads, Running, Busy, Holding
<1>1. TypeOK'
  BY DEF TypeOK
<1>2. /\ QueueIsQueued' /\ WorkerRuns' /\ CallbacksAreHeld' /\ MarkerIsPoll'
      /\ ShutdownIsFinal' /\ WorkerIsGone'
  BY DEF TypeOK, QueueIsQueued, WorkerRuns, CallbacksAreHeld, MarkerIsPoll,
         ShutdownIsFinal, WorkerIsGone
<1>3. QueuedAreCancelled'
  BY DEF TypeOK, QueuedAreCancelled, WorkerRuns
<1>4. ResultIsFollowed'
  BY DEF TypeOK, ResultIsFollowed, Follower
<1> QED  BY <1>1, <1>2, <1>3, <1>4

(* Nothing is left when the wait ends.                                     *)
LEMMA DisconnectStep ==
    ASSUME IInv, Disconnect
    PROVE  IInv'
<1> USE DEF Disconnect, Drained, IInv, Goto, At, FreeFuture, FutureStates,
            Steps, Threads, Running, Busy, Holding
<1>1. TypeOK'
  BY DEF TypeOK
<1>2. /\ QueueIsQueued' /\ WorkerRuns' /\ CallbacksAreHeld' /\ MarkerIsPoll'
      /\ ShutdownIsFinal' /\ QueuedAreCancelled' /\ WorkerIsGone'
  BY DEF TypeOK, QueueIsQueued, WorkerRuns, CallbacksAreHeld, MarkerIsPoll,
         ShutdownIsFinal, QueuedAreCancelled, WorkerIsGone
<1>3. ResultIsFollowed'
  BY DEF TypeOK, ResultIsFollowed, Follower
<1> QED  BY <1>1, <1>2, <1>3

-----------------------------------------------------------------------------

(* At the start no future exists.                                          *)
LEMMA InitIInv == Init => IInv
<1> SUFFICES ASSUME Init PROVE IInv
  OBVIOUS
<1> USE DEF Init, At, FreeFuture, FutureStates, Threads, Running, Busy, Holding
<1>1. TypeOK
  <2>1. queue \in Seq(Futures)
    OBVIOUS
  <2>2. future \in [Futures -> [state : FutureStates, task : {"poll", "operation"},
                                added : BOOLEAN]]
    OBVIOUS
  <2>3. thread \in [Threads -> [step : Steps, future : Futures \cup {None}]]
    BY DEF Steps
  <2>4. cancelled \subseteq Futures
    OBVIOUS
  <2> QED  BY <2>1, <2>2, <2>3, <2>4 DEF TypeOK
<1>2. QueueIsQueued
  BY DEF QueueIsQueued
<1>3. WorkerRuns /\ CallbacksAreHeld
  BY DEF WorkerRuns, CallbacksAreHeld
<1>4. /\ MarkerIsPoll /\ ShutdownIsFinal /\ QueuedAreCancelled
      /\ WorkerIsGone /\ ResultIsFollowed
  BY DEF MarkerIsPoll, ShutdownIsFinal, QueuedAreCancelled, WorkerIsGone,
         ResultIsFollowed
<1> QED  BY <1>1, <1>2, <1>3, <1>4 DEF IInv

(* The invariant reads the variables of the executor only.                 *)
LEMMA StutterIInv == IInv /\ UNCHANGED vars => IInv'
BY DEF vars, Running, IInv, TypeOK, QueueIsQueued, WorkerRuns, CallbacksAreHeld,
       MarkerIsPoll, ShutdownIsFinal, QueuedAreCancelled, WorkerIsGone,
       ResultIsFollowed, Follower

(* Every action, of either thread, keeps the invariant.                    *)
LEMMA NextIInv == IInv /\ [Next]_vars => IInv'
<1> SUFFICES ASSUME IInv, [Next]_vars PROVE IInv'
  OBVIOUS
<1>1. ASSUME NEW t \in Threads, Callbacks(t) PROVE IInv'
  BY <1>1, RefusedStep, RequestStep, AddStep, RefreshedStep, CompletedStep DEF Callbacks
<1>2. CASE WorkerStep
  BY <1>1, <1>2, TakeStep, CheckStep, CallStep, PollStep, SetResultStep
     DEF WorkerStep, Threads
<1>3. CASE Callbacks("qt")
  BY <1>1, <1>3 DEF Threads
<1>4. CASE Tick \/ SubmitOperation \/ Shutdown \/ Disconnect
  BY <1>4, TickStep, SubmitStep, ShutdownStep, DisconnectStep
<1>5. CASE UNCHANGED vars
  BY <1>5, StutterIInv
<1> QED  BY <1>2, <1>3, <1>4, <1>5 DEF Next

(* The inductive invariant of the worker, its queue and its callbacks.     *)
THEOREM Invariance == Spec => []IInv
BY InitIInv, NextIInv, PTL DEF Spec

(* Every variable of the executor keeps its type.                          *)
THEOREM TypeCorrect == Spec => []TypeOK
BY Invariance, PTL DEF IInv

(* When the service has come to rest, a poll has read what the last manual *)
(* operation did: request_refresh never declines in favour of a refresh    *)
(* that read the broker before the operation.                              *)
THEOREM ResultsRead == Spec => []ResultsAreRead
<1>1. IInv => ResultsAreRead
  <2> SUFFICES ASSUME IInv, queue = <<>>, ~shut, unread,
                      \A t \in Threads : thread[t].step = "idle"
               PROVE  FALSE
    BY DEF ResultsAreRead, IInv, TypeOK
  <2>1. \A f \in Futures : future[f].state \notin {"queued", "running", "done"}
    BY DEF IInv, QueueIsQueued, WorkerRuns, CallbacksAreHeld, Threads, Busy, Holding
  <2> QED  BY <2>1 DEF IInv, ResultIsFollowed, Follower, Threads
<1> QED  BY <1>1, Invariance, PTL

(* An operation that was still queued when the service shut down is never  *)
(* sent to the broker.                                                     *)
THEOREM QueuedCancelled == Spec => []QueuedAreCancelled
BY Invariance, PTL DEF IInv

(* When the terminal is disconnected every refresh and operation that was  *)
(* accepted has its answer: no callback is lost between a future that is   *)
(* done and the thread that adds the callback to it.                       *)
THEOREM EveryoneIsAnswered == Spec => []AnsweredBeforeDisconnect
<1>1. IInv => AnsweredBeforeDisconnect
  <2> SUFFICES ASSUME IInv, thread["qt"].step = "disconnected", NEW f \in Futures
               PROVE  future[f].state = "free"
    BY DEF AnsweredBeforeDisconnect
  <2>1. queue = <<>> /\ thread["worker"].step = "idle"
    BY DEF IInv, WorkerIsGone
  <2>2. future[f].state # "queued"
    BY <2>1 DEF IInv, QueueIsQueued
  <2>3. future[f].state # "running"
    BY <2>1 DEF IInv, WorkerRuns, Busy
  <2>4. future[f].state # "done"
    BY <2>1 DEF IInv, CallbacksAreHeld, Threads, Holding
  <2> QED  BY <2>2, <2>3, <2>4 DEF IInv, TypeOK, FutureStates
<1> QED  BY <1>1, Invariance, PTL

-----------------------------------------------------------------------------
(* How the backlog stays bounded *)

LivePoll(f) == Is(f, "poll", FutureStates \ {"free"})

(* At most one poll has escaped the marker: the one whose place was taken   *)
(* while its callback had not run.                                         *)
OneStray ==
    \A f, g \in Futures :
        LivePoll(f) /\ LivePoll(g) /\ f # marker /\ g # marker => f = g

(* The marked poll was submitted last, so the stray one ends before it.     *)
MarkerIsNewest ==
    marker # None =>
        /\ future[marker].state = "done" => InFlight("poll") = {}
        /\ future[marker].state = "running" =>
             \A f \in Futures : ~Is(f, "poll", {"queued"})
        /\ \A i, j \in 1..Len(queue) :
             queue[i] = marker /\ future[queue[j]].task = "poll" => j <= i

Backlog == OneStray /\ MarkerIsNewest

(* Most steps leave the queue, the marker and every future where they are. *)
LEMMA BacklogFrame ==
    ASSUME IInv, Backlog,
           UNCHANGED <<queue, marker>>,
           \A f \in Futures : /\ future'[f].state = future[f].state
                              /\ future'[f].task = future[f].task
    PROVE  Backlog'
  BY DEF IInv, TypeOK, Backlog, OneStray, MarkerIsNewest, LivePoll, InFlight, Is

(* A refresh is submitted over a marker only when the marked poll is done.  *)
(* Its callback, which has not run, is all that the other thread holds: so *)
(* it is the only poll left, and the new one is behind it.                  *)
LEMMA BacklogRequest ==
    ASSUME IInv, Backlog, NEW t \in Threads, RequestRefresh(t)
    PROVE  Backlog'
<1>1. PICK f \in Futures :
        /\ future[f].state = "free"
        /\ queue' = Append(queue, f)
        /\ future' = [future EXCEPT ![f] = [state |-> "queued", task |-> "poll",
                                            added |-> FALSE]]
        /\ marker' = f
  BY DEF RequestRefresh, Submit
<1>2. /\ future'[f].state = "queued" /\ future'[f].task = "poll"
      /\ \A g \in Futures \ {f} : future'[g] = future[g]
  BY <1>1 DEF IInv, TypeOK
<1>3. ASSUME NEW g \in Futures, NEW h \in Futures, LivePoll(g), LivePoll(h)
      PROVE  g = h
  <2>1. CASE marker = None
    BY <1>3, <2>1, ExecutorAssumption DEF Backlog, OneStray
  <2>2. CASE marker # None
    <3>1. InFlight("poll") = {}
      BY <2>2 DEF RequestRefresh, RefreshPending, Backlog, MarkerIsNewest
    <3>2. future[g].state = "done" /\ future[h].state = "done"
      BY <1>3, <3>1 DEF LivePoll, InFlight, Is, FutureStates
    <3>3. thread[t].step \notin Holding
      BY DEF RequestRefresh, Holding
    <3> QED
      BY <3>2, <3>3 DEF IInv, CallbacksAreHeld, Threads
  <2> QED
    BY <2>1, <2>2
<1>4. OneStray'
  <2>1. ASSUME NEW g \in Futures, LivePoll(g)', g # marker'
        PROVE  LivePoll(g)
    BY <1>1, <1>2, <2>1 DEF LivePoll, Is
  <2> QED
    BY <1>3, <2>1 DEF OneStray
<1>5. MarkerIsNewest'
  <2>1. \A i \in 1..Len(queue) : queue[i] # f
    BY <1>1 DEF IInv, QueueIsQueued
  <2>2. queue \in Seq(Futures)
    BY DEF IInv, TypeOK
  <2>3. /\ Len(queue') = Len(queue) + 1
        /\ \A i \in 1..Len(queue) : queue'[i] = queue[i]
    BY <1>1, <2>2
  <2>4. \A i \in 1..Len(queue') : queue'[i] = f => i = Len(queue')
    BY <2>1, <2>2, <2>3
  <2>5. \A i, j \in 1..Len(queue') : queue'[i] = f => j <= i
    BY <2>2, <2>3, <2>4
  <2> QED
    BY <1>1, <1>2, <2>5 DEF MarkerIsNewest
<1> QED
  BY <1>4, <1>5 DEF Backlog

(* A callback that has run takes its poll with it, and the marker: what it  *)
(* leaves unmarked is one poll at most.                                    *)
LEMMA BacklogRefreshed ==
    ASSUME IInv, Backlog, NEW t \in Threads, RefreshCompleted(t)
    PROVE  Backlog'
<1> DEFINE f == thread[t].future
<1>1. f \in Futures /\ future[f].state = "done" /\ future[f].task = "poll"
  BY DEF RefreshCompleted, IInv, CallbacksAreHeld
<1>2. future' = [future EXCEPT ![f] = FreeFuture] /\ marker' = None
  BY DEF RefreshCompleted
<1> HIDE DEF f
<1>3. /\ future'[f].state = "free"
      /\ \A g \in Futures \ {f} : future'[g] = future[g]
  BY <1>1, <1>2 DEF IInv, TypeOK, FreeFuture
<1>4. \A g \in Futures : LivePoll(g)' => g # f /\ LivePoll(g)
  BY <1>3 DEF LivePoll, Is
<1>5. LivePoll(f)
  BY <1>1 DEF LivePoll, Is, FutureStates
<1>6. OneStray'
  BY <1>1, <1>4, <1>5 DEF OneStray, Backlog
<1> QED
  BY <1>2, <1>6 DEF Backlog, MarkerIsNewest

(* Operations come and go without touching a poll. *)
LEMMA BacklogOperation ==
    ASSUME IInv, Backlog,
           SubmitOperation \/ \E t \in Threads : OperationCompleted(t)
    PROVE  Backlog'
<1>1. CASE SubmitOperation
  <2>1. PICK f \in Futures :
          /\ future[f].state = "free"
          /\ queue' = Append(queue, f)
          /\ future' = [future EXCEPT ![f] = [state |-> "queued", task |-> "operation",
                                              added |-> FALSE]]
    BY <1>1 DEF SubmitOperation, Submit, OperationKind
  <2>2. /\ future'[f].task = "operation" /\ marker' = marker /\ marker # f
        /\ \A g \in Futures \ {f} : future'[g] = future[g]
    BY <1>1, <2>1, ExecutorAssumption DEF SubmitOperation, IInv, TypeOK, MarkerIsPoll
  <2>3. \A g \in Futures : \A states : Is(g, "poll", states)' => g # f /\ Is(g, "poll", states)
    BY <2>2 DEF Is
  <2>4. OneStray'
    BY <2>2, <2>3 DEF OneStray, LivePoll, Backlog
  <2>5. /\ queue \in Seq(Futures)
        /\ Len(queue') = Len(queue) + 1
        /\ queue'[Len(queue) + 1] = f
        /\ \A i \in 1..Len(queue) : queue'[i] = queue[i] /\ queue[i] # f
    BY <2>1 DEF IInv, TypeOK, QueueIsQueued
  <2>6. ASSUME NEW i \in 1..Len(queue'), NEW j \in 1..Len(queue'),
               queue'[i] = marker, future'[queue'[j]].task = "poll", marker # None
        PROVE  j <= i
    <3>1. i \in 1..Len(queue) /\ j \in 1..Len(queue)
      BY <2>2, <2>5, <2>6
    <3>2. queue[i] = marker /\ future[queue[j]].task = "poll"
      BY <2>2, <2>5, <2>6, <3>1
    <3> QED
      BY <2>6, <3>1, <3>2 DEF Backlog, MarkerIsNewest
  <2>7. marker # None => marker \in Futures /\ future'[marker] = future[marker]
    BY <2>2 DEF IInv, TypeOK
  <2>8. MarkerIsNewest'
    BY <2>2, <2>3, <2>6, <2>7 DEF MarkerIsNewest, InFlight, Backlog
  <2> QED
    BY <2>4, <2>8 DEF Backlog
<1>2. ASSUME NEW t \in Threads, OperationCompleted(t) PROVE Backlog'
  <2> DEFINE f == thread[t].future
  <2>1. f \in Futures /\ future[f].state = "done" /\ future[f].task # "poll"
    BY <1>2 DEF OperationCompleted, IInv, CallbacksAreHeld
  <2>2. /\ future' = [future EXCEPT ![f] = FreeFuture]
        /\ queue' = queue /\ marker' = marker
    BY <1>2 DEF OperationCompleted
  <2> HIDE DEF f
  <2>3. /\ \A g \in Futures \ {f} : future'[g] = future[g]
        /\ future'[f].state = "free" /\ future'[f].task = "poll"
    BY <2>1, <2>2 DEF IInv, TypeOK, FreeFuture
  <2>4. \A i \in 1..Len(queue) : queue[i] \in Futures /\ queue[i] # f
    BY <2>1 DEF IInv, QueueIsQueued, TypeOK
  <2>5. marker # None => marker \in Futures /\ marker # f
    BY <2>1 DEF IInv, MarkerIsPoll, TypeOK
  <2>6. \A g \in Futures : LivePoll(g)' => LivePoll(g)
    BY <2>3 DEF LivePoll, Is
  <2>7. OneStray'
    BY <2>2, <2>6 DEF OneStray, Backlog
  <2>8. MarkerIsNewest'
    BY <2>2, <2>3, <2>4, <2>5 DEF MarkerIsNewest, InFlight, Is, Backlog
  <2> QED
    BY <2>7, <2>8 DEF Backlog
<1> QED
  BY <1>1, <1>2

(* The worker takes polls in the order they were submitted.                *)
LEMMA BacklogWorker ==
    ASSUME IInv, Backlog, Take \/ SetResult
    PROVE  Backlog'
<1>1. CASE Take
  <2> DEFINE f == Head(queue)
  <2>1. /\ queue \in Seq(Futures) /\ Len(queue) \in Nat /\ Len(queue) >= 1
        /\ f = queue[1] /\ f \in Futures
        /\ Len(queue') = Len(queue) - 1
        /\ \A i \in 1..Len(queue') : queue'[i] = queue[i + 1]
    BY <1>1 DEF Take, IInv, TypeOK
  <2>2. future[f].state = "queued"
    BY <2>1 DEF IInv, QueueIsQueued
  <2>3. future' = [future EXCEPT ![f].state = "running"] /\ marker' = marker
    BY <1>1 DEF Take
  <2> HIDE DEF f
  <2>4. /\ \A g \in Futures \ {f} : future'[g] = future[g]
        /\ future'[f].state = "running"
        /\ \A g \in Futures : future'[g].task = future[g].task
    BY <2>1, <2>3 DEF IInv, TypeOK
  <2>5. OneStray'
    BY <2>2, <2>3, <2>4 DEF OneStray, LivePoll, Is, FutureStates, Backlog
  <2>6. ASSUME marker # None
        PROVE  /\ future'[marker].state = "done" => InFlight("poll")' = {}
               /\ future'[marker].state = "running" =>
                    \A g \in Futures : ~Is(g, "poll", {"queued"})'
    <3>1. marker \in Futures
      BY <2>6 DEF IInv, TypeOK
    <3>2. CASE future[marker].state = "done"
      BY <2>2, <2>4, <2>6, <3>1, <3>2 DEF Backlog, MarkerIsNewest, InFlight, Is
    <3>3. CASE future[marker].state = "running"
      BY <2>2, <2>4, <2>6, <3>1, <3>3 DEF Backlog, MarkerIsNewest, Is
    <3>4. CASE marker = f
      <4>1. ASSUME NEW g \in Futures, Is(g, "poll", {"queued"})' PROVE FALSE
        <5>1. g # f /\ future[g].state = "queued" /\ future[g].task = "poll"
          BY <2>4, <4>1 DEF Is
        <5>2. PICK k \in 1..Len(queue) : queue[k] = g
          BY <5>1 DEF IInv, QueueIsQueued
        <5>3. 1 \in 1..Len(queue) /\ queue[1] = marker /\ future[queue[k]].task = "poll"
          BY <2>1, <3>4, <5>1, <5>2
        <5>4. k <= 1
          BY <2>6, <5>3 DEF Backlog, MarkerIsNewest
        <5> QED
          BY <2>1, <5>1, <5>2, <5>4
      <4> QED
        BY <2>4, <3>4, <4>1
    <3>5. CASE marker # f /\ future[marker].state = "queued"
      BY <2>4, <3>1, <3>5
    <3> QED
      BY <3>2, <3>3, <3>4, <3>5, <2>6 DEF IInv, TypeOK, MarkerIsPoll, FutureStates
  <2>7. ASSUME NEW i \in 1..Len(queue'), NEW j \in 1..Len(queue'), marker # None,
               queue'[i] = marker, future'[queue'[j]].task = "poll"
        PROVE  j <= i
    <3>1. /\ i + 1 \in 1..Len(queue) /\ j + 1 \in 1..Len(queue)
          /\ queue[j + 1] \in Futures
      BY <2>1
    <3>2. queue[i + 1] = marker /\ future[queue[j + 1]].task = "poll"
      BY <2>1, <2>4, <2>7, <3>1
    <3>3. j + 1 <= i + 1
      BY <2>7, <3>1, <3>2 DEF Backlog, MarkerIsNewest
    <3> QED
      BY <3>3, <2>1
  <2>8. MarkerIsNewest'
    BY <2>3, <2>6, <2>7 DEF MarkerIsNewest
  <2> QED
    BY <2>5, <2>8 DEF Backlog
<1>2. CASE SetResult
  <2>1. Running \in Futures /\ future[Running].state = "running"
    BY <1>2 DEF SetResult, IInv, WorkerRuns, Busy
  <2>2. /\ future' = [future EXCEPT ![Running].state = "done"]
        /\ queue' = queue /\ marker' = marker
    BY <1>2 DEF SetResult
  <2>3. /\ \A g \in Futures \ {Running} : future'[g] = future[g]
        /\ future'[Running].state = "done"
        /\ \A g \in Futures : future'[g].task = future[g].task
    BY <2>1, <2>2 DEF IInv, TypeOK
  <2>4. OneStray'
    BY <2>1, <2>2, <2>3 DEF OneStray, LivePoll, Is, FutureStates, Backlog
  <2>5. \A g \in Futures : future[g].state = "running" => g = Running
    BY DEF IInv, WorkerRuns
  <2>6. ASSUME marker # None
        PROVE  /\ future'[marker].state = "done" => InFlight("poll")' = {}
               /\ future'[marker].state = "running" =>
                    \A g \in Futures : ~Is(g, "poll", {"queued"})'
    <3>1. marker \in Futures
      BY <2>6 DEF IInv, TypeOK
    <3> QED
      BY <2>1, <2>3, <2>5, <2>6, <3>1 DEF Backlog, MarkerIsNewest, InFlight, Is
  <2>7. \A i \in 1..Len(queue) : queue[i] \in Futures
    BY DEF IInv, TypeOK
  <2>8. MarkerIsNewest'
    BY <2>2, <2>3, <2>6, <2>7 DEF MarkerIsNewest, Backlog
  <2> QED
    BY <2>4, <2>8 DEF Backlog
<1> QED
  BY <1>1, <1>2

(* Every step keeps the backlog's invariant. *)
LEMMA NextBacklog ==
    ASSUME IInv, Backlog, [Next]_vars PROVE Backlog'
<1>1. ASSUME NEW t \in Threads, Callbacks(t) PROVE Backlog'
  <2>1. CASE RefreshRefused(t)
    BY <2>1, BacklogFrame DEF RefreshRefused
  <2>2. CASE AddCallback(t)
    <3>1. \A f \in Futures : /\ future'[f].state = future[f].state
                             /\ future'[f].task = future[f].task
      BY <2>2 DEF AddCallback, AlreadyDone, IInv, TypeOK
    <3> QED
      BY <2>2, <3>1, BacklogFrame DEF AddCallback, AlreadyDone
  <2> QED
    BY <1>1, <2>1, <2>2, BacklogRequest, BacklogRefreshed, BacklogOperation DEF Callbacks
<1>2. CASE WorkerStep
  BY <1>1, <1>2, BacklogWorker, BacklogFrame
     DEF WorkerStep, Threads, Check, CallBroker, Poll
<1>3. CASE Callbacks("qt")
  BY <1>1, <1>3 DEF Threads
<1>4. CASE Tick \/ SubmitOperation \/ Shutdown \/ Disconnect
  BY <1>4, BacklogFrame, BacklogOperation DEF Tick, Shutdown, Disconnect
<1>5. CASE UNCHANGED vars
  BY <1>5, BacklogFrame DEF vars
<1> QED
  BY <1>2, <1>3, <1>4, <1>5 DEF Next

(* At most two polls are queued or running: request_refresh lets a second   *)
(* one in only while the first one's callback has yet to run.              *)
THEOREM BacklogBounded == Spec => []BacklogIsBounded
<1>1. Init => Backlog
  BY DEF Init, Backlog, OneStray, MarkerIsNewest, LivePoll, Is, FreeFuture
<1>2. IInv /\ IInv' /\ Backlog /\ [Next]_vars => Backlog'
  BY NextBacklog
<1>3. IInv /\ Backlog => BacklogIsBounded
  <2> SUFFICES ASSUME IInv, Backlog PROVE Cardinality(InFlight("poll")) <= 2
    BY DEF BacklogIsBounded
  <2>1. \A f \in InFlight("poll") : LivePoll(f) /\ f \in Futures
    BY DEF InFlight, LivePoll, Is, FutureStates
  <2>2. PICK x : InFlight("poll") \subseteq {marker, x}
    BY <2>1 DEF Backlog, OneStray
  <2>3. IsFiniteSet({marker, x}) /\ Cardinality({marker, x}) <= 2
    <3>1. IsFiniteSet({x}) /\ Cardinality({x}) = 1
      BY FS_Singleton
    <3>2. {marker, x} = {x} \cup {marker}
      OBVIOUS
    <3> QED
      BY <3>1, <3>2, FS_AddElement
  <2>4. /\ IsFiniteSet(InFlight("poll"))
        /\ Cardinality(InFlight("poll")) <= Cardinality({marker, x})
    BY <2>2, <2>3, FS_Subset
  <2> QED
    BY <2>3, <2>4, FS_CardinalityType
<1> QED
  BY <1>1, <1>2, <1>3, Invariance, PTL DEF Spec

=============================================================================
