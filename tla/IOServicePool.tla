--------------------------- MODULE IOServicePool ---------------------------
(***************************************************************************)
(* The pool of io_services of src/core/network/IOServicePool.{hpp,cpp} on  *)
(* its ThreadPool: every thread of the pool runs one of the services until *)
(* Stop takes its work away and the service has nothing left to do.        *)
(*                                                                         *)
(* The ThreadPool is used either by a program, which pushes tasks of its   *)
(* own at any time, as TestThreadPool.cpp does, or by an IOServicePool,    *)
(* whose tasks are the run() of its services: `user` says which.  Start,   *)
(* Stop and GetIOService hold mMutex, so there is one of them at a time:   *)
(* while Stop joins the threads nobody gets a service.  When a join gives  *)
(* up, a thread is left in a service that Stop deletes; nothing is said of *)
(* what it does then.                                                      *)
(***************************************************************************)
EXTENDS ThreadPool

CONSTANTS
    mNumIOServices,
    Jobs,           \* the handlers posted
    None            \* no work object, no handler

Services == 0 .. mNumIOServices - 1

ASSUME ServicesAssumption ==
    mNumIOServices \in Nat \ {0} /\ None \notin Services \cup Jobs

VARIABLES
    user,           \* "program" or "IOServicePool"
    mWork,          \* the service each work object keeps running, or None
                    \* once it was reset
    mIOServices,    \* the services there are
    mNextIOService,
    stopped,        \* services that ran out of work: run() returns at once
    posted,         \* the handlers waiting, by service
    job,            \* the handler a thread is in, or None
    given, handled  \* history: handlers posted since Start; those that ran

svcVars == <<mWork, mIOServices, mNextIOService>>
runVars == <<stopped, posted, job, given, handled>>
ioVars  == <<svcVars, runVars>>
allVars == <<vars, user, ioVars>>

\* Mutant: every thread runs the first service.
ServiceFirst(k) == 0

\* The service of the k-th work object, and of a task.
ServiceOf(k) == (k - 1) % mNumIOServices
At(w) == ServiceOf(((task[w] - 1) % mSize) + 1)

\* A service has something to do: work of its own, a handler that waits, or
\* one that runs (and may post others).
Busy(s) ==
    \/ \E k \in DOMAIN mWork : mWork[k] = s
    \/ posted[s] # {}
    \/ \E w \in Workers : job[w] # None /\ At(w) = s

-----------------------------------------------------------------------------
\* Start: new services, work for them, a task for each thread, and then
\* ThreadPool::Start.  No thread waits for the tasks yet.
PoolStart ==
    /\ mWork = <<>>
    /\ mIOServices' = Services
    /\ mWork' = [k \in 1 .. mSize |-> ServiceOf(k)]
    /\ mQueue' = mQueue \o [k \in 1 .. mSize |-> pushed + k]
    /\ pushed' = pushed + mSize
    /\ StartThreads
    /\ stopped' = {} /\ given' = {}
    /\ UNCHANGED <<spc, i, stops, task, ran, due, late, mNextIOService, posted,
                   job, handled>>

\* The index after a service was given out.
NextService ==
    IF mNextIOService + 1 = mNumIOServices THEN 0 ELSE mNextIOService + 1

\* GetIOService(), and a handler posted to the service.
Post(j) ==
    /\ mWork # <<>> /\ spc = "none" /\ j \notin given \cup handled
    /\ mNextIOService \in mIOServices
    /\ posted' = [posted EXCEPT ![mNextIOService] = @ \cup {j}]
    /\ given' = given \cup {j}
    /\ mNextIOService' = NextService
    /\ UNCHANGED <<vars, mWork, mIOServices, stopped, job, handled>>

\* Mutant: the services are stopped, as in the code that is commented out.
PoolStopBreaks ==
    /\ StopBegin
    /\ mWork' = [k \in DOMAIN mWork |-> None]
    /\ stopped' = Services
    /\ UNCHANGED <<mIOServices, mNextIOService, posted, job, given, handled>>

\* Stop: the work objects go, then ThreadPool::Stop.
PoolStop ==
    /\ StopBegin
    /\ mWork' = [k \in DOMAIN mWork |-> None]
    /\ UNCHANGED <<mIOServices, mNextIOService, runVars>>

\* ThreadPool::Stop has returned; what is left in the services goes with
\* them.
PoolStopped ==
    /\ StopClear
    /\ mWork' = <<>> /\ mIOServices' = {}
    /\ posted' = [s \in Services |-> {}]
    /\ UNCHANGED <<mNextIOService, stopped, job, given, handled>>

-----------------------------------------------------------------------------
(* io_service::run(), the task of a thread                                 *)

RunOne(w, j) ==
    /\ wpc[w] = "run" /\ job[w] = None /\ At(w) \notin stopped
    /\ j \in posted[At(w)]
    /\ posted' = [posted EXCEPT ![At(w)] = @ \ {j}]
    /\ job' = [job EXCEPT ![w] = j]
    /\ UNCHANGED <<vars, svcVars, stopped, given, handled>>

HandlerDone(w) ==
    /\ job[w] # None
    /\ handled' = handled \cup {job[w]}
    /\ job' = [job EXCEPT ![w] = None]
    /\ UNCHANGED <<vars, svcVars, stopped, posted, given>>

\* run() finds nothing to do, which stops the service for all its threads.
RunReturns(w) ==
    /\ job[w] = None
    /\ At(w) \in stopped \/ ~Busy(At(w))
    /\ Finish(w)
    /\ stopped' = stopped \cup {At(w)}
    /\ UNCHANGED <<svcVars, posted, job, given, handled>>

-----------------------------------------------------------------------------
PoolInit ==
    /\ Init
    /\ user \in {"program", "IOServicePool"}
    /\ mWork = <<>> /\ mIOServices = {} /\ mNextIOService = 0
    /\ stopped = {} /\ posted = [s \in Services |-> {}]
    /\ job = [w \in Workers |-> None]
    /\ given = {} /\ handled = {}

\* A join gave up, and the services are gone under the thread.
Undefined == late /\ mWork = <<>>

PoolStopStep ==
    IF user = "program"
    THEN StopStep /\ UNCHANGED ioVars
    ELSE \/ (StopPill \/ StopJoin) /\ UNCHANGED ioVars
         \/ PoolStopped

WorkerStep(w) ==
    \/ Pop(w) /\ UNCHANGED ioVars
    \/ user = "program" /\ Finish(w) /\ UNCHANGED ioVars
    \/ /\ user = "IOServicePool" /\ ~Undefined
       /\ HandlerDone(w) \/ RunReturns(w) \/ \E j \in Jobs : RunOne(w, j)

PoolNext ==
    /\ \/ /\ user = "program" /\ UNCHANGED ioVars
          /\ Start \/ StopBegin \/ PushTask
       \/ /\ user = "IOServicePool" /\ ~Undefined
          /\ PoolStart \/ PoolStop \/ \E j \in Jobs : Post(j)
       \/ PoolStopStep
       \/ StopTimeout /\ UNCHANGED ioVars
       \/ \E w \in Workers :
             WorkerStep(w) \/ (SpuriousWake(w) /\ UNCHANGED ioVars)
    /\ UNCHANGED user

PoolSpec == PoolInit /\ [][PoolNext]_allVars

\* Threads run, tasks and handlers come to an end, and a Stop that began goes
\* on.  No join needs to time out.
PoolFairSpec ==
    /\ PoolSpec
    /\ WF_allVars(PoolStopStep /\ UNCHANGED user)
    /\ \A w \in Workers : WF_allVars(WorkerStep(w) /\ UNCHANGED user)

-----------------------------------------------------------------------------
(* Properties                                                              *)

\* The variables have their types; mNextIOService is an index of mIOServices.
ServiceTypes ==
    /\ mNextIOService \in Services
    /\ mIOServices \in {{}, Services}
    /\ posted \in [Services -> SUBSET Jobs]
    /\ job \in [Workers -> Jobs \cup {None}]
    /\ given \subseteq Jobs /\ handled \subseteq Jobs

\* TestIOServicePool.cpp: when Stop returns every handler posted since Start
\* has run, also when Stop came before the threads had begun to run the
\* services.
StopDrainsServices == mWork = <<>> /\ ~late => given \subseteq handled

\* No thread is inside a service that was destroyed.
ServicesOutliveThreads ==
    user = "IOServicePool" /\ ~late =>
        \A w \in Workers : wpc[w] = "run" => mIOServices = Services

\* A graceful Stop, as long as no join gives up: nothing that was posted is
\* left, and nothing is deleted under a thread.
ServicesInv == ServiceTypes /\ StopDrainsServices /\ ServicesOutliveThreads

\* IOServicePool.hpp: "Run all io_service objects in the pool."  A handler
\* that is posted runs, whichever service GetIOService gave.
EveryJobRuns == \A j \in Jobs : (j \in given) ~> (j \in handled \/ late)
=============================================================================
