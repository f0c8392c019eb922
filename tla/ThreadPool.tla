----------------------------- MODULE ThreadPool -----------------------------
(***************************************************************************)
(* The thread pool of src/core/thread/ThreadPool.hpp with the queue of     *)
(* PCQueue.hpp between those who push tasks and the workers.  Stop tells   *)
(* the workers to end with one empty task each, and waits for each one no  *)
(* longer than mTimeout.                                                   *)
(*                                                                         *)
(* A section under the mutex of the queue is a step; waiting on the        *)
(* condition gives the mutex back, so Pop is one step up to the wait and   *)
(* another one after it.                                                   *)
(***************************************************************************)
EXTENDS Integers, Sequences, FiniteSets, SequencesExt

CONSTANTS
    mSize,          \* size of the pool
    MaxTasks,       \* bound: calls of PushTask
    MaxStops        \* bound: calls of Stop that find the pool running

ASSUME PoolAssumption ==
    mSize \in Nat \ {0} /\ MaxTasks \in Nat /\ MaxStops \in Nat

Workers == 1 .. mSize * (MaxStops + 1)  \* the threads of all Starts
Tasks   == Nat \ {0}                    \* numbered as they are pushed
Empty   == 0                            \* the empty task

VARIABLES
    mThreads,       \* the threads of the pool, in the order started
    mQueue,         \* tasks and empty tasks
    wpc,            \* a worker: "new", "pop", "wait", "run", "end"
    task,           \* what a worker runs
    spc, i,         \* Start and Stop: where they are, the index they are at
    pushed, ran,    \* history: the number of tasks pushed, those that ran
    due,            \* history: the number pushed when Stop began
    late, stops     \* history: did a join give up; calls of Stop

poolVars == <<mThreads, spc, i, stops>>
histVars == <<pushed, ran, due, late>>
vars == <<poolVars, mQueue, wpc, task, histVars>>

IsRunning == mThreads # <<>>

-----------------------------------------------------------------------------
(* PCQueue                                                                 *)

\* Mutant: nobody is woken.
WakeNone(pcs) == pcs

\* notify_all
WakeAll(pcs) == [w \in Workers |-> IF pcs[w] = "wait" THEN "pop" ELSE pcs[w]]

Push(t) ==
    /\ mQueue' = Append(mQueue, t)
    /\ wpc' = WakeAll(wpc)

-----------------------------------------------------------------------------
(* Start, Stop and PushTask.  Start and Stop hold mRunMutex: there is one  *)
(* of them at a time.                                                      *)

\* mSize new threads that run Loop.
StartThreads ==
    LET n == Cardinality({w \in Workers : wpc[w] # "new"})
        s == [k \in 1 .. mSize |-> n + k]
    IN  /\ n + mSize \in Workers
        /\ mThreads' = s
        /\ wpc' = [w \in Workers |-> IF w \in Range(s) THEN "pop" ELSE wpc[w]]

Start ==
    /\ spc = "none" /\ ~IsRunning
    /\ StartThreads
    /\ UNCHANGED <<spc, i, stops, mQueue, task, histVars>>

StopBegin ==
    /\ spc = "none" /\ IsRunning /\ stops < MaxStops
    /\ stops' = stops + 1
    /\ due' = pushed
    /\ spc' = "pill" /\ i' = 1
    /\ UNCHANGED <<mThreads, mQueue, wpc, task, pushed, ran, late>>

\* Mutant: one empty task too few.
PillsShort == Len(mThreads) - 1

\* An empty task for every thread.
NumPills == Len(mThreads)

StopPill ==
    /\ spc = "pill"
    /\ IF i <= NumPills
       THEN Push(Empty) /\ i' = i + 1 /\ UNCHANGED spc
       ELSE spc' = "join" /\ i' = 1 /\ UNCHANGED <<mQueue, wpc>>
    /\ UNCHANGED <<mThreads, stops, task, histVars>>

\* timed_join: the thread has ended, ...
StopJoin ==
    /\ spc = "join" /\ i <= Len(mThreads)
    /\ wpc[mThreads[i]] = "end"
    /\ i' = i + 1
    /\ UNCHANGED <<mThreads, spc, stops, mQueue, wpc, task, histVars>>

\* ... or the time is up.
StopTimeout ==
    /\ spc = "join" /\ i <= Len(mThreads)
    /\ wpc[mThreads[i]] # "end"
    /\ late' = TRUE
    /\ i' = i + 1
    /\ UNCHANGED <<mThreads, spc, stops, mQueue, wpc, task, pushed, ran, due>>

StopClear ==
    /\ spc = "join" /\ i > Len(mThreads)
    /\ mThreads' = <<>>
    /\ spc' = "none" /\ i' = 0
    /\ UNCHANGED <<stops, mQueue, wpc, task, histVars>>

\* PushTask, at any time, also when the pool is stopped.
PushTask ==
    /\ pushed < MaxTasks
    /\ Push(pushed + 1)
    /\ pushed' = pushed + 1
    /\ UNCHANGED <<poolVars, task, ran, due, late>>

-----------------------------------------------------------------------------
(* Loop, the body of a worker                                              *)

\* Mutant: the task stays in the queue.
Kept == mQueue

\* The queue after its first task was taken.
Popped == Tail(mQueue)

\* Pop, up to the wait if there is nothing, and what Loop does with the
\* task.
Pop(w) ==
    /\ wpc[w] = "pop"
    /\ IF mQueue = <<>>
       THEN /\ wpc' = [wpc EXCEPT ![w] = "wait"]
            /\ UNCHANGED <<mQueue, task>>
       ELSE /\ mQueue' = Popped
            /\ IF Head(mQueue) = Empty
               THEN wpc' = [wpc EXCEPT ![w] = "end"] /\ UNCHANGED task
               ELSE /\ wpc' = [wpc EXCEPT ![w] = "run"]
                    /\ task' = [task EXCEPT ![w] = Head(mQueue)]
    /\ UNCHANGED <<poolVars, histVars>>

\* The condition lets a thread go though nobody notified it.
SpuriousWake(w) ==
    /\ wpc[w] = "wait"
    /\ wpc' = [wpc EXCEPT ![w] = "pop"]
    /\ UNCHANGED <<poolVars, mQueue, task, histVars>>

\* h( ) returns.
Finish(w) ==
    /\ wpc[w] = "run"
    /\ ran' = ran \cup {task[w]}
    /\ task' = [task EXCEPT ![w] = Empty]
    /\ wpc' = [wpc EXCEPT ![w] = "pop"]
    /\ UNCHANGED <<poolVars, mQueue, pushed, due, late>>

Init ==
    /\ mThreads = <<>> /\ mQueue = <<>>
    /\ wpc = [w \in Workers |-> "new"]
    /\ task = [w \in Workers |-> Empty]
    /\ spc = "none" /\ i = 0 /\ stops = 0
    /\ pushed = 0 /\ ran = {} /\ due = 0 /\ late = FALSE

\* Stop goes on: a join need not time out.
StopStep == StopPill \/ StopJoin \/ StopClear

Next ==
    \/ Start \/ StopBegin \/ StopStep \/ StopTimeout \/ PushTask
    \/ \E w \in Workers : Pop(w) \/ SpuriousWake(w) \/ Finish(w)

Spec == Init /\ [][Next]_vars

-----------------------------------------------------------------------------
(* Properties                                                              *)

Pills == {k \in DOMAIN mQueue : mQueue[k] = Empty}
Live  == {w \in Workers : wpc[w] \in {"pop", "wait", "run"}}

\* The variables have their types.
TypeOK ==
    /\ mThreads \in Seq(Workers)
    /\ mQueue \in Seq(Tasks \cup {Empty})
    /\ wpc \in [Workers -> {"new", "pop", "wait", "run", "end"}]
    /\ task \in [Workers -> Tasks \cup {Empty}]
    /\ spc \in {"none", "pill", "join"} /\ i \in 0 .. mSize + 1
    /\ pushed \in Nat /\ due \in 0 .. pushed
    /\ ran \subseteq 1 .. pushed

\* Stop, after however many restarts and joins that gave up: the empty tasks
\* still in the queue are exactly as many as the workers that are to end.
PillsBalance ==
    Cardinality(Live) - Cardinality(Pills) =
        CASE spc = "none" -> Len(mThreads)
          [] spc = "pill" -> Len(mThreads) - (i - 1)
          [] spc = "join" -> 0

\* When Stop has joined the threads, all the tasks pushed before it was
\* called have run, whoever pushes at the same time.
StopDrains ==
    spc = "join" /\ i > Len(mThreads) /\ ~late => 1 .. due \subseteq ran

\* A task is run exactly once.
RunOnce ==
    /\ \A w \in Workers : wpc[w] = "run" => task[w] \notin ran
    /\ \A v, w \in Workers : v # w /\ wpc[v] = "run" => task[v] # task[w]
    /\ \A t \in 1 .. pushed : t \notin ran /\ (\A w \in Workers : task[w] # t)
          => \E k \in DOMAIN mQueue : mQueue[k] = t

\* Of the queue, whoever pushes, pops and stops: a task is run once, the
\* empty tasks are as many as the workers that are to end, and Stop waits for
\* what was pushed before.
PoolInv == TypeOK /\ PillsBalance /\ RunOnce /\ StopDrains

\* A task pushed to a pool that stays up is begun: no wakeup is lost.
EveryTaskRuns ==
    \A t \in 1 .. MaxTasks :
        (t <= pushed) ~>
            (t \in ran \/ (\E w \in Workers : task[w] = t)
               \/ spc # "none" \/ ~IsRunning)

\* A call of Stop returns, without the help of a timeout.
StopReturns == (spc # "none") ~> (spc = "none")
=============================================================================
