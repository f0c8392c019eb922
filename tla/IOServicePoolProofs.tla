------------------------ MODULE IOServicePoolProofs ------------------------
(***************************************************************************)
(* Proofs about ThreadPool and IOServicePool, for any size of the pool and *)
(* any number of services, tasks and handlers.                             *)
(***************************************************************************)
EXTENDS IOServicePool, FiniteSetTheorems, SequenceTheorems, TLAPS

(***************************************************************************)
(* The inductive invariant of the ThreadPool                               *)
(***************************************************************************)

\* The workers are started in the order of their numbers.
Started ==
    \E n \in 0 .. mSize * (MaxStops + 1) :
        \A w \in Workers : wpc[w] # "new" <=> w <= n

\* The threads of the pool are mSize workers; as long as no join gave up, no
\* other worker is left, and those that Stop joined have ended.
Threads ==
    /\ mThreads # <<>> => Len(mThreads) = mSize
    /\ spc # "none" => mThreads # <<>> /\ i >= 1
    /\ ~late => \A w \in Live : \E k \in 1 .. Len(mThreads) : mThreads[k] = w
    /\ spc = "join" /\ ~late =>
          \A k \in 1 .. Len(mThreads) : k < i => wpc[mThreads[k]] = "end"

\* A task is in one place: the queue, once, or a worker, or it ran.
OnePlace ==
    /\ \A k \in DOMAIN mQueue : mQueue[k] <= pushed /\ mQueue[k] \notin ran
    /\ \A k \in DOMAIN mQueue, w \in Workers :
          mQueue[k] # Empty => task[w] # mQueue[k]
    /\ \A k, l \in DOMAIN mQueue : mQueue[k] = mQueue[l] /\ k # l =>
          mQueue[k] = Empty
    /\ \A w \in Workers : task[w] # Empty <=> wpc[w] = "run"
    /\ \A w \in Workers : task[w] <= pushed

\* Once Stop has pushed an empty task, there is one behind every task that was
\* pushed before Stop.
PillBehind ==
    spc = "join" \/ (spc = "pill" /\ i > 1) =>
        \A k \in DOMAIN mQueue : mQueue[k] \in 1 .. due =>
            \E l \in DOMAIN mQueue : l > k /\ mQueue[l] = Empty

\* StopDrains follows from these.
ThreadInv ==
    /\ TypeOK /\ PillsBalance /\ RunOnce
    /\ Started /\ Threads /\ OnePlace /\ PillBehind

(***************************************************************************)
(* The inductive invariant of the IOServicePool                            *)
(***************************************************************************)

\* The service that task t runs.
TaskService(t) == ServiceOf(((t - 1) % mSize) + 1)

\* The ThreadPool of a program runs no services; that of an IOServicePool has
\* its threads as long as there is work.
Users ==
    /\ user \in {"program", "IOServicePool"}
    /\ user = "program" => mWork = <<>> /\ given = {}
    /\ user = "IOServicePool" => (mWork = <<>> <=> mThreads = <<>>)
    /\ mWork # <<>> => DOMAIN mWork = 1 .. mSize

\* The tasks of an IOServicePool are pushed by Start, mSize at a time, and
\* the work objects are there until Stop begins.
Rounds ==
    user = "IOServicePool" =>
        /\ mWork # <<>> => mIOServices = Services /\ pushed >= mSize
        /\ spc = "none" => \A k \in DOMAIN mWork : mWork[k] = ServiceOf(k)
        /\ spc # "none" => due = pushed
        /\ \E r \in Nat : pushed = mSize * r

\* A handler is posted, in a thread that runs a service, or done; a service
\* that stopped has none left, and it stopped because Stop took its work.  The
\* services whose run() returned in this run have stopped.
Handlers ==
    /\ \A w \in Workers : job[w] # None =>
          wpc[w] = "run" /\ user = "IOServicePool"
    /\ user = "IOServicePool" /\ ~late =>
        /\ \A j \in given : \/ j \in handled
                            \/ \E s \in Services : j \in posted[s]
                            \/ \E w \in Workers : job[w] = j
        /\ mWork # <<>> => \A s \in stopped :
              /\ spc # "none" /\ posted[s] = {}
              /\ \A w \in Workers : job[w] # None => At(w) # s
        /\ mWork # <<>> => \A t \in pushed - mSize + 1 .. pushed :
              t \in ran => TaskService(t) \in stopped

\* ServicesOutliveThreads follows from these and the invariant of the
\* ThreadPool.
ServicesIInv == ServiceTypes /\ Rounds /\ Handlers /\ StopDrainsServices


-----------------------------------------------------------------------------
(***************************************************************************)
(* Lemmas: the workers and the queue                                       *)
(***************************************************************************)

\* Workers and tasks are natural numbers, and there are finitely many workers.
LEMMA Sizes ==
  /\ mSize \in Nat /\ mSize >= 1 /\ mSize * (MaxStops + 1) \in Nat
  /\ Workers = 1 .. mSize * (MaxStops + 1)
  /\ IsFiniteSet(Workers) /\ Workers \subseteq Nat
  /\ Empty = 0 /\ Tasks \cup {Empty} = Nat
<1>1. mSize \in Nat /\ mSize >= 1 /\ MaxStops + 1 \in Nat
  BY PoolAssumption
<1>2. mSize * (MaxStops + 1) \in Nat
  BY <1>1
<1>3. IsFiniteSet(1 .. mSize * (MaxStops + 1))
  BY <1>2, FS_Interval
<1>4. Tasks \cup {Empty} = Nat
  BY DEF Tasks, Empty
<1>5. QED BY <1>1, <1>2, <1>3, <1>4 DEF Workers, Empty

\* The types of what the proofs count.
LEMMA Counted ==
  ASSUME TypeOK
  PROVE  /\ mQueue \in Seq(Nat) /\ Len(mQueue) \in Nat
         /\ DOMAIN mQueue = 1 .. Len(mQueue)
         /\ IsFiniteSet(Pills) /\ Cardinality(Pills) \in Nat
         /\ IsFiniteSet(Live) /\ Cardinality(Live) \in Nat
         /\ Live \subseteq Workers
<1>1. mQueue \in Seq(Nat)
  BY Sizes DEF TypeOK
<1>2. Len(mQueue) \in Nat /\ DOMAIN mQueue = 1 .. Len(mQueue)
  BY <1>1, LenProperties
<1>3. IsFiniteSet(1 .. Len(mQueue))
  BY <1>2, FS_Interval
<1>4. Pills \subseteq 1 .. Len(mQueue)
  BY <1>2 DEF Pills
<1>5. IsFiniteSet(Pills)
  BY <1>3, <1>4, FS_Subset
<1>6. Live \subseteq Workers
  BY DEF Live
<1>7. IsFiniteSet(Live)
  BY <1>6, Sizes, FS_Subset
<1>8. QED BY <1>1, <1>2, <1>5, <1>6, <1>7, FS_CardinalityType

\* PCQueue::Push puts a task at the end.
LEMMA QueuePush ==
  ASSUME TypeOK, NEW t \in Nat, mQueue' = Append(mQueue, t)
  PROVE  /\ mQueue' \in Seq(Nat)
         /\ DOMAIN mQueue = 1 .. Len(mQueue) /\ Len(mQueue) \in Nat
         /\ DOMAIN mQueue' = 1 .. Len(mQueue) + 1
         /\ \A k \in 1 .. Len(mQueue) : mQueue'[k] = mQueue[k]
         /\ mQueue'[Len(mQueue) + 1] = t
<1>1. /\ mQueue \in Seq(Nat) /\ Len(mQueue) \in Nat
      /\ DOMAIN mQueue = 1 .. Len(mQueue)
  BY Counted
<1>2. /\ mQueue' \in Seq(Nat) /\ Len(mQueue') = Len(mQueue) + 1
      /\ \A k \in 1 .. Len(mQueue) : mQueue'[k] = mQueue[k]
      /\ mQueue'[Len(mQueue) + 1] = t
  BY <1>1, AppendProperties
<1>3. DOMAIN mQueue' = 1 .. Len(mQueue')
  BY <1>2, LenProperties
<1>4. QED BY <1>1, <1>2, <1>3

\* PCQueue::Pop takes the first one.
LEMMA QueuePop ==
  ASSUME TypeOK, mQueue # <<>>, mQueue' = Popped
  PROVE  /\ mQueue' \in Seq(Nat) /\ Len(mQueue) \in Nat /\ Len(mQueue) >= 1
         /\ DOMAIN mQueue = 1 .. Len(mQueue)
         /\ DOMAIN mQueue' = 1 .. Len(mQueue) - 1
         /\ \A k \in 1 .. Len(mQueue) - 1 : mQueue'[k] = mQueue[k + 1]
         /\ Head(mQueue) = mQueue[1] /\ Head(mQueue) \in Nat
<1>1. /\ mQueue \in Seq(Nat) /\ Len(mQueue) \in Nat
      /\ DOMAIN mQueue = 1 .. Len(mQueue)
  BY Counted
<1>2. /\ mQueue' \in Seq(Nat) /\ Len(mQueue') = Len(mQueue) - 1
      /\ \A k \in 1 .. Len(mQueue') : mQueue'[k] = mQueue[k + 1]
      /\ Head(mQueue) = mQueue[1] /\ Head(mQueue) \in Nat
  BY <1>1, HeadTailProperties DEF Popped
<1>3. DOMAIN mQueue' = 1 .. Len(mQueue') /\ Len(mQueue') \in Nat
  BY <1>2, LenProperties
<1>4. QED BY <1>1, <1>2, <1>3

\* A push adds at most one empty task.
LEMMA PillsPush ==
  ASSUME TypeOK, NEW t \in Nat, mQueue' = Append(mQueue, t)
  PROVE  Cardinality(Pills') =
            IF t = Empty THEN Cardinality(Pills) + 1 ELSE Cardinality(Pills)
<1>1. CASE t = Empty
  <2>1. Pills' = Pills \cup {Len(mQueue) + 1} /\ Len(mQueue) + 1 \notin Pills
    BY <1>1, QueuePush DEF Pills
  <2>2. QED BY <1>1, <2>1, Counted, FS_AddElement
<1>2. CASE t # Empty
  <2>1. Pills' = Pills
    BY <1>2, QueuePush DEF Pills
  <2>2. QED BY <1>2, <2>1
<1>3. QED BY <1>1, <1>2

\* A pop moves the empty tasks on and takes at most one.
LEMMA PillsPop ==
  ASSUME TypeOK, mQueue # <<>>, mQueue' = Popped
  PROVE  Cardinality(Pills') =
            IF Head(mQueue) = Empty THEN Cardinality(Pills) - 1
                                    ELSE Cardinality(Pills)
<1> DEFINE f == [k \in Pills' |-> k + 1]
<1>1. Pills' = {k \in 1 .. Len(mQueue) - 1 : mQueue[k + 1] = Empty}
  BY QueuePop DEF Pills
<1>2. Pills = {k \in 1 .. Len(mQueue) : mQueue[k] = Empty}
  BY QueuePop DEF Pills
<1>3. f \in Bijection(Pills', Pills \ {1})
  <2>1. f \in [Pills' -> Pills \ {1}]
    BY <1>1, <1>2, QueuePop
  <2>2. \A k, l \in Pills' : f[k] = f[l] => k = l
    BY <1>1, QueuePop
  <2>3. \A l \in Pills \ {1} : \E k \in Pills' : f[k] = l
    <3> SUFFICES ASSUME NEW l \in Pills \ {1}
                 PROVE  l - 1 \in Pills' /\ f[l - 1] = l
      OBVIOUS
    <3>1. l \in 2 .. Len(mQueue) /\ mQueue[l] = Empty
      BY <1>2, QueuePop
    <3>2. l - 1 \in 1 .. Len(mQueue) - 1 /\ (l - 1) + 1 = l
      BY <3>1, QueuePop
    <3>3. QED BY <1>1, <3>1, <3>2
  <2> HIDE DEF f
  <2>4. QED
    BY <2>1, <2>2, <2>3, Zenon DEF Bijection, Injection, Surjection, IsInjective
<1>4. IsFiniteSet(Pills \ {1})
  BY Counted, FS_RemoveElement
<1>5. IsFiniteSet(Pills') /\ Cardinality(Pills \ {1}) = Cardinality(Pills')
  <2>1. IsFiniteSet(Pills')
    <3>1. Pills' \subseteq 1 .. Len(mQueue) - 1 /\ Len(mQueue) - 1 \in Int
      BY <1>1, QueuePop
    <3>2. IsFiniteSet(1 .. Len(mQueue) - 1)
      BY <3>1, FS_Interval
    <3>3. QED BY <3>1, <3>2, FS_Subset
  <2>2. ExistsBijection(Pills', Pills \ {1})
    BY <1>3 DEF ExistsBijection
  <2>3. QED BY <2>1, <2>2, FS_Bijection
<1>6. 1 \in Pills <=> Head(mQueue) = Empty
  BY <1>2, QueuePop
<1>7. QED BY <1>5, <1>6, Counted, FS_RemoveElement

\* The pool has mSize threads or none.
LEMMA Running ==
  ASSUME TypeOK, Threads
  PROVE  /\ Len(mThreads) \in Nat /\ i \in Nat /\ i <= mSize + 1
         /\ mThreads = <<>> => Len(mThreads) = 0
         /\ mThreads # <<>> => Len(mThreads) = mSize
         /\ spc # "none" => Len(mThreads) = mSize /\ i >= 1
         /\ \A k \in 1 .. Len(mThreads) : mThreads[k] \in Workers
<1>1. mThreads \in Seq(Workers)
  BY DEF TypeOK
<1>2. /\ Len(mThreads) \in Nat
      /\ \A k \in 1 .. Len(mThreads) : mThreads[k] \in Workers
  BY <1>1
<1>3. mThreads = <<>> => Len(mThreads) = 0
  OBVIOUS
<1>4. i \in Nat /\ i <= mSize + 1
  BY Sizes DEF TypeOK
<1>5. QED BY <1>2, <1>3, <1>4 DEF Threads

\* What counts is unchanged when the workers that are to end are the same.
LEMMA SameLive ==
  ASSUME \A w \in Workers : wpc'[w] \in {"pop", "wait", "run"} <=>
                            wpc[w] \in {"pop", "wait", "run"}
  PROVE  Live' = Live
BY DEF Live

\* notify_all ends nobody and starts nobody.
LEMMA Woken ==
  ASSUME TypeOK, wpc' = WakeAll(wpc)
  PROVE  /\ wpc' \in [Workers -> {"new", "pop", "wait", "run", "end"}]
         /\ \A w \in Workers : /\ wpc'[w] = "new" <=> wpc[w] = "new"
                               /\ wpc'[w] = "end" <=> wpc[w] = "end"
                               /\ wpc'[w] = "run" <=> wpc[w] = "run"
         /\ Live' = Live
<1>1. /\ wpc' \in [Workers -> {"new", "pop", "wait", "run", "end"}]
      /\ \A w \in Workers : wpc'[w] = IF wpc[w] = "wait" THEN "pop" ELSE wpc[w]
  BY DEF WakeAll, TypeOK
<1>2. \A w \in Workers : wpc[w] \in {"new", "pop", "wait", "run", "end"}
  BY DEF TypeOK
<1>3. \A w \in Workers : wpc'[w] \in {"pop", "wait", "run"} <=>
                         wpc[w] \in {"pop", "wait", "run"}
  BY <1>1, <1>2
<1>4. QED BY <1>1, <1>2, <1>3, SameLive

\* StartThreads makes the next mSize workers the threads of the pool.
LEMMA StartEffect ==
  ASSUME TypeOK, Started, StartThreads
  PROVE  \E n \in Nat :
           /\ n + mSize <= mSize * (MaxStops + 1)
           /\ \A w \in Workers : wpc[w] # "new" <=> w <= n
           /\ mThreads' \in Seq(Workers) /\ Len(mThreads') = mSize
           /\ \A k \in 1 .. mSize : mThreads'[k] = n + k
           /\ wpc' \in [Workers -> {"new", "pop", "wait", "run", "end"}]
           /\ \A w \in Workers :
                 wpc'[w] = IF w \in n + 1 .. n + mSize THEN "pop" ELSE wpc[w]
           /\ Live' = Live \cup (n + 1 .. n + mSize)
           /\ Cardinality(Live') = Cardinality(Live) + mSize
<1>1. PICK n \in 0 .. mSize * (MaxStops + 1) :
        \A w \in Workers : wpc[w] # "new" <=> w <= n
  BY DEF Started
<1>2. n \in Nat /\ mSize \in Nat /\ mSize >= 1 /\ n <= mSize * (MaxStops + 1)
  BY Sizes
<1>3. Cardinality({w \in Workers : wpc[w] # "new"}) = n
  <2>1. {w \in Workers : wpc[w] # "new"} = 1 .. n
    BY <1>1, <1>2, Sizes
  <2>2. Cardinality(1 .. n) = n
    BY <1>2, FS_Interval
  <2>3. QED BY <2>1, <2>2
<1> DEFINE s == [k \in 1 .. mSize |-> n + k]
<1>4. /\ n + mSize \in Workers /\ mThreads' = s
      /\ wpc' = [w \in Workers |-> IF w \in Range(s) THEN "pop" ELSE wpc[w]]
  BY <1>3 DEF StartThreads
<1>5. Range(s) = n + 1 .. n + mSize
  <2>1. \A k \in 1 .. mSize : s[k] \in n + 1 .. n + mSize
    BY <1>2
  <2>2. \A w \in n + 1 .. n + mSize : w - n \in 1 .. mSize /\ s[w - n] = w
    BY <1>2
  <2>3. DOMAIN s = 1 .. mSize
    OBVIOUS
  <2> HIDE DEF s
  <2>4. QED BY <2>1, <2>2, <2>3 DEF Range
<1>6. n + mSize <= mSize * (MaxStops + 1)
  BY <1>2, <1>4, Sizes
<1>7. mThreads' \in Seq(Workers) /\ Len(mThreads') = mSize
  <2>1. \A k \in 1 .. mSize : n + k \in Workers
    BY <1>2, <1>6, Sizes
  <2>2. QED BY <1>2, <1>4, <2>1
<1>8. \A k \in 1 .. mSize : mThreads'[k] = n + k
  BY <1>4
<1>9. /\ wpc' \in [Workers -> {"new", "pop", "wait", "run", "end"}]
      /\ \A w \in Workers :
            wpc'[w] = IF w \in n + 1 .. n + mSize THEN "pop" ELSE wpc[w]
  <2> HIDE DEF s
  <2>1. wpc \in [Workers -> {"new", "pop", "wait", "run", "end"}]
    BY DEF TypeOK
  <2>2. QED BY <1>4, <1>5, <2>1
<1> HIDE DEF s
<1>10. /\ n + 1 .. n + mSize \subseteq Workers
       /\ \A w \in n + 1 .. n + mSize : wpc[w] = "new"
  BY <1>1, <1>2, <1>6, Sizes
<1>11. Live' = Live \cup (n + 1 .. n + mSize)
  BY <1>9, <1>10 DEF Live
<1>12. Cardinality(Live') = Cardinality(Live) + mSize
  <2>1. /\ IsFiniteSet(n + 1 .. n + mSize)
        /\ Cardinality(n + 1 .. n + mSize) = mSize
    <3>1. n + 1 \in Int /\ n + mSize \in Int /\ n + 1 <= n + mSize
          /\ (n + mSize) - (n + 1) + 1 = mSize
      BY <1>2
    <3>2. QED BY <3>1, FS_Interval
  <2>2. Live \cap (n + 1 .. n + mSize) = {}
    BY <1>10 DEF Live
  <2>3. IsFiniteSet(Live) /\ Cardinality(Live) \in Nat
    BY Counted
  <2>4. Cardinality(Live \cap (n + 1 .. n + mSize)) = 0
    BY <2>2, FS_EmptySet
  <2>5. Cardinality(Live \cup (n + 1 .. n + mSize)) =
          Cardinality(Live) + Cardinality(n + 1 .. n + mSize)
            - Cardinality(Live \cap (n + 1 .. n + mSize))
    BY <2>1, <2>3, FS_Union
  <2>6. QED BY <1>2, <1>11, <2>1, <2>3, <2>4, <2>5
<1>13. QED BY <1>1, <1>2, <1>6, <1>7, <1>8, <1>9, <1>11, <1>12

-----------------------------------------------------------------------------
(***************************************************************************)
(* The steps of the ThreadPool keep its invariant                          *)
(***************************************************************************)

\* StopBegin does not touch the workers or the queue.
LEMMA StopBeginKeeps ==
  ASSUME ThreadInv, StopBegin
  PROVE  ThreadInv'
<1>0. TypeOK /\ Threads /\ PillsBalance /\ Cardinality(Live) \in Nat
      /\ Cardinality(Pills) \in Nat
  BY Counted DEF ThreadInv
<1>1. /\ spc = "none" /\ mThreads # <<>> /\ spc' = "pill" /\ i' = 1
      /\ due' = pushed
      /\ UNCHANGED <<mThreads, mQueue, wpc, task, pushed, ran, late>>
  BY DEF StopBegin, IsRunning
<1>2. Live' = Live /\ Pills' = Pills
  BY <1>1 DEF Live, Pills
<1>3. TypeOK'
  BY <1>0, <1>1, Sizes DEF TypeOK
<1>4. PillsBalance'
  BY <1>0, <1>1, <1>2, Running DEF PillsBalance
<1>5. RunOnce' /\ Started' /\ OnePlace'
  BY <1>1, SMTT(30) DEF ThreadInv, RunOnce, Started, OnePlace
<1>6. Threads'
  BY <1>0, <1>1, <1>2 DEF Threads
<1>7. PillBehind'
  BY <1>1 DEF PillBehind
<1>8. QED BY <1>3, <1>4, <1>5, <1>6, <1>7 DEF ThreadInv

\* A push of Stop: an empty task, behind all that is in the queue.
LEMMA StopPillKeeps ==
  ASSUME ThreadInv, StopPill
  PROVE  ThreadInv'
<1>0. TypeOK /\ Threads /\ PillsBalance /\ OnePlace /\ RunOnce /\ PillBehind
      /\ Started /\ Cardinality(Live) \in Nat /\ Cardinality(Pills) \in Nat
  BY Counted DEF ThreadInv
<1>1. spc = "pill" /\ UNCHANGED <<mThreads, task, pushed, ran, due, late>>
  BY DEF StopPill, histVars
<1>2. /\ Len(mThreads) = mSize /\ mThreads # <<>>
      /\ i \in Nat /\ i >= 1 /\ i <= mSize + 1
      /\ mSize >= 1 /\ mSize \in Nat
  BY <1>0, <1>1, Running, Sizes DEF Threads
<1>3. CASE i <= Len(mThreads)
  <2>1. /\ mQueue' = Append(mQueue, Empty) /\ wpc' = WakeAll(wpc)
        /\ i' = i + 1 /\ spc' = spc
    BY <1>3 DEF StopPill, NumPills, Push
  <2>2. /\ mQueue' \in Seq(Nat)
        /\ DOMAIN mQueue = 1 .. Len(mQueue) /\ Len(mQueue) \in Nat
        /\ DOMAIN mQueue' = 1 .. Len(mQueue) + 1
        /\ \A k \in 1 .. Len(mQueue) : mQueue'[k] = mQueue[k]
        /\ mQueue'[Len(mQueue) + 1] = 0
        /\ Cardinality(Pills') = Cardinality(Pills) + 1
    BY <1>0, <2>1, QueuePush, PillsPush DEF Empty
  <2>3. /\ wpc' \in [Workers -> {"new", "pop", "wait", "run", "end"}]
        /\ \A w \in Workers : /\ wpc'[w] = "new" <=> wpc[w] = "new"
                              /\ wpc'[w] = "end" <=> wpc[w] = "end"
                              /\ wpc'[w] = "run" <=> wpc[w] = "run"
        /\ Live' = Live
    BY <1>0, <2>1, Woken
  <2>4. TypeOK'
    BY <1>0, <1>1, <1>2, <1>3, <2>1, <2>2, <2>3, Sizes DEF TypeOK
  <2>5. PillsBalance'
    BY <1>0, <1>1, <1>2, <2>1, <2>2, <2>3 DEF PillsBalance
  <2>6. RunOnce'
    BY <1>0, <1>1, <2>2, <2>3 DEF RunOnce
  <2>7. Started'
    BY <1>0, <2>3 DEF Started
  <2>8. Threads'
    BY <1>0, <1>1, <1>2, <2>1, <2>3 DEF Threads
  <2>9. OnePlace'
    <3>1. \A k \in DOMAIN mQueue' :
            mQueue'[k] <= pushed' /\ mQueue'[k] \notin ran'
      <4>1. 0 <= pushed /\ 0 \notin ran
        BY <1>0 DEF TypeOK
      <4>2. QED BY <1>0, <1>1, <2>2, <4>1 DEF OnePlace
    <3>2. \A k \in DOMAIN mQueue', w \in Workers :
            mQueue'[k] # Empty => task'[w] # mQueue'[k]
      BY <1>0, <1>1, <2>2 DEF OnePlace, Empty
    <3>3. \A k, l \in DOMAIN mQueue' : mQueue'[k] = mQueue'[l] /\ k # l =>
            mQueue'[k] = Empty
      BY <1>0, <2>2 DEF OnePlace, Empty
    <3>4. QED BY <1>0, <1>1, <2>3, <3>1, <3>2, <3>3 DEF OnePlace
  <2>10. PillBehind'
    <3> SUFFICES ASSUME NEW k \in DOMAIN mQueue', mQueue'[k] \in 1 .. due
                 PROVE  \E l \in DOMAIN mQueue' : l > k /\ mQueue'[l] = Empty
      BY <1>1 DEF PillBehind
    <3>1. k \in 1 .. Len(mQueue)
      BY <2>2
    <3>2. QED BY <2>2, <3>1 DEF Empty
  <2>11. QED BY <2>4, <2>5, <2>6, <2>7, <2>8, <2>9, <2>10 DEF ThreadInv
<1>4. CASE ~(i <= Len(mThreads))
  <2>1. spc' = "join" /\ i' = 1 /\ UNCHANGED <<mQueue, wpc>> /\ i = mSize + 1
    BY <1>2, <1>4 DEF StopPill, NumPills
  <2>2. Live' = Live /\ Pills' = Pills
    BY <2>1 DEF Live, Pills
  <2>3. TypeOK'
    BY <1>0, <1>1, <1>2, <2>1 DEF TypeOK
  <2>4. PillsBalance'
    BY <1>0, <1>1, <1>2, <2>1, <2>2 DEF PillsBalance
  <2>5. RunOnce' /\ Started' /\ OnePlace'
    BY <1>0, <1>1, <2>1 DEF RunOnce, Started, OnePlace
  <2>6. Threads'
    BY <1>0, <1>1, <1>2, <2>1, <2>2 DEF Threads
  <2>7. PillBehind'
    BY <1>0, <1>1, <1>2, <2>1 DEF PillBehind
  <2>8. QED BY <2>3, <2>4, <2>5, <2>6, <2>7 DEF ThreadInv
<1>5. QED BY <1>3, <1>4

\* A join, that of a thread that ended or one that gives up.
LEMMA StopJoinKeeps ==
  ASSUME ThreadInv, StopJoin \/ StopTimeout
  PROVE  ThreadInv'
<1>0. TypeOK /\ Threads /\ PillsBalance /\ OnePlace /\ RunOnce /\ PillBehind
      /\ Started
  BY DEF ThreadInv
<1>1. /\ spc = "join" /\ i <= Len(mThreads) /\ i' = i + 1
      /\ UNCHANGED <<mThreads, spc, mQueue, wpc, task, pushed, ran, due>>
      /\ \/ late' = TRUE
         \/ late' = late /\ wpc[mThreads[i]] = "end"
  BY DEF StopJoin, StopTimeout, histVars
<1>2. Len(mThreads) = mSize /\ i \in Nat /\ i >= 1 /\ mSize \in Nat
  BY <1>0, <1>1, Running, Sizes
<1>3. Live' = Live /\ Pills' = Pills
  BY <1>1 DEF Live, Pills
<1>4. TypeOK'
  BY <1>0, <1>1, <1>2 DEF TypeOK
<1>5. PillsBalance'
  BY <1>0, <1>1, <1>3 DEF PillsBalance
<1>6. RunOnce' /\ Started' /\ OnePlace'
  BY <1>0, <1>1 DEF RunOnce, Started, OnePlace
<1>7. Threads'
  <2>1. ASSUME ~late', NEW k \in 1 .. Len(mThreads), k < i + 1
        PROVE  wpc[mThreads[k]] = "end"
    BY <1>0, <1>1, <1>2, <2>1 DEF Threads
  <2>2. QED BY <1>0, <1>1, <1>2, <1>3, <2>1 DEF Threads
<1>8. PillBehind'
  BY <1>0, <1>1 DEF PillBehind
<1>9. QED BY <1>4, <1>5, <1>6, <1>7, <1>8 DEF ThreadInv

\* The threads of the pool are forgotten: if no join gave up, they have ended.
LEMMA StopClearKeeps ==
  ASSUME ThreadInv, StopClear
  PROVE  ThreadInv'
<1>0. TypeOK /\ Threads /\ PillsBalance /\ OnePlace /\ RunOnce /\ PillBehind
      /\ Started
  BY DEF ThreadInv
<1>1. /\ spc = "join" /\ i > Len(mThreads) /\ mThreads' = <<>>
      /\ spc' = "none" /\ i' = 0
      /\ UNCHANGED <<mQueue, wpc, task, pushed, ran, due, late>>
  BY DEF StopClear, histVars
<1>2. Len(mThreads) = mSize /\ i \in Nat /\ mSize \in Nat /\ Len(mThreads') = 0
  BY <1>0, <1>1, Running, Sizes
<1>3. Live' = Live /\ Pills' = Pills
  BY <1>1 DEF Live, Pills
<1>4. TypeOK'
  BY <1>0, <1>1, <1>2 DEF TypeOK
<1>5. PillsBalance'
  BY <1>0, <1>1, <1>2, <1>3 DEF PillsBalance
<1>6. RunOnce' /\ Started' /\ OnePlace'
  BY <1>0, <1>1 DEF RunOnce, Started, OnePlace
<1>7. ~late => Live = {}
  BY <1>0, <1>1, <1>2 DEF Threads, Live
<1>8. Threads'
  BY <1>1, <1>3, <1>7 DEF Threads
<1>9. PillBehind'
  BY <1>1 DEF PillBehind
<1>10. QED BY <1>4, <1>5, <1>6, <1>8, <1>9 DEF ThreadInv

\* A task of a program goes behind all that is in the queue.
LEMMA PushTaskKeeps ==
  ASSUME ThreadInv, PushTask
  PROVE  ThreadInv'
<1>0. TypeOK /\ Threads /\ PillsBalance /\ OnePlace /\ RunOnce /\ PillBehind
      /\ Started
  BY DEF ThreadInv
<1>1. /\ mQueue' = Append(mQueue, pushed + 1) /\ wpc' = WakeAll(wpc)
      /\ pushed' = pushed + 1
      /\ UNCHANGED <<mThreads, spc, i, task, ran, due, late>>
  BY DEF PushTask, Push, poolVars
<1>2. pushed \in Nat /\ due \in 0 .. pushed /\ ran \subseteq 1 .. pushed
      /\ pushed + 1 \in Nat /\ pushed + 1 # Empty
  BY <1>0 DEF TypeOK, Empty
<1>3. /\ mQueue' \in Seq(Nat)
      /\ DOMAIN mQueue = 1 .. Len(mQueue) /\ Len(mQueue) \in Nat
      /\ DOMAIN mQueue' = 1 .. Len(mQueue) + 1
      /\ \A k \in 1 .. Len(mQueue) : mQueue'[k] = mQueue[k]
      /\ mQueue'[Len(mQueue) + 1] = pushed + 1
      /\ Cardinality(Pills') = Cardinality(Pills)
  BY <1>0, <1>1, <1>2, QueuePush, PillsPush
<1>4. /\ wpc' \in [Workers -> {"new", "pop", "wait", "run", "end"}]
      /\ \A w \in Workers : /\ wpc'[w] = "new" <=> wpc[w] = "new"
                            /\ wpc'[w] = "end" <=> wpc[w] = "end"
                            /\ wpc'[w] = "run" <=> wpc[w] = "run"
      /\ Live' = Live
  BY <1>0, <1>1, Woken
<1>5. /\ \A k \in 1 .. Len(mQueue) : mQueue[k] \in Nat /\ mQueue[k] <= pushed
      /\ \A w \in Workers : task[w] \in Nat /\ task[w] <= pushed
  <2>1. \A k \in 1 .. Len(mQueue) : mQueue[k] \in Nat
    BY <1>0, Counted
  <2>2. \A w \in Workers : task[w] \in Nat
    BY <1>0, Sizes DEF TypeOK
  <2>3. QED BY <1>0, <1>3, <2>1, <2>2 DEF OnePlace
<1>6. TypeOK'
  <2>1. pushed' \in Nat /\ due' \in 0 .. pushed' /\ ran' \subseteq 1 .. pushed'
    BY <1>1, <1>2
  <2>2. QED BY <1>0, <1>1, <1>3, <1>4, <2>1, Sizes DEF TypeOK
<1>7. PillsBalance'
  BY <1>0, <1>1, <1>3, <1>4 DEF PillsBalance
<1>8. RunOnce'
  <2>1. ASSUME NEW t \in 1 .. pushed', t \notin ran',
               \A w \in Workers : task'[w] # t
        PROVE  \E k \in DOMAIN mQueue' : mQueue'[k] = t
    <3>1. CASE t \in 1 .. pushed
      BY <1>0, <1>1, <1>3, <2>1, <3>1 DEF RunOnce
    <3>2. CASE t = pushed + 1
      BY <1>3, <3>2
    <3>3. QED BY <1>1, <1>2, <3>1, <3>2
  <2>2. QED BY <1>0, <1>1, <1>4, <2>1 DEF RunOnce
<1>9. Started'
  BY <1>0, <1>4 DEF Started
<1>10. Threads'
  BY <1>0, <1>1, <1>4, Running DEF Threads
<1>11. OnePlace'
  <2>1. \A k \in DOMAIN mQueue' :
          mQueue'[k] <= pushed' /\ mQueue'[k] \notin ran'
    BY <1>0, <1>1, <1>2, <1>3, <1>5 DEF OnePlace
  <2>2. \A k \in DOMAIN mQueue', w \in Workers :
          mQueue'[k] # Empty => task'[w] # mQueue'[k]
    <3> SUFFICES ASSUME NEW k \in DOMAIN mQueue', NEW w \in Workers,
                        mQueue'[k] # Empty
                 PROVE  task[w] # mQueue'[k]
      BY <1>1
    <3>1. CASE k \in 1 .. Len(mQueue)
      BY <1>0, <1>3, <3>1 DEF OnePlace
    <3>2. CASE k = Len(mQueue) + 1
      BY <1>2, <1>3, <1>5, <3>2
    <3>3. QED BY <1>3, <3>1, <3>2
  <2>3. \A k, l \in DOMAIN mQueue' : mQueue'[k] = mQueue'[l] /\ k # l =>
          mQueue'[k] = Empty
    BY <1>0, <1>2, <1>3, <1>5 DEF OnePlace
  <2>4. \A w \in Workers : task'[w] <= pushed'
    BY <1>1, <1>2, <1>5
  <2>5. \A w \in Workers : task'[w] # Empty <=> wpc'[w] = "run"
    BY <1>0, <1>1, <1>4 DEF OnePlace
  <2>6. QED BY <2>1, <2>2, <2>3, <2>4, <2>5 DEF OnePlace
<1>12. PillBehind'
  <2> SUFFICES ASSUME spc = "join" \/ (spc = "pill" /\ i > 1),
                      NEW k \in DOMAIN mQueue', mQueue'[k] \in 1 .. due
               PROVE  \E l \in DOMAIN mQueue' : l > k /\ mQueue'[l] = Empty
    BY <1>1 DEF PillBehind
  <2>1. k \in 1 .. Len(mQueue)
    BY <1>2, <1>3
  <2>2. PICK l \in DOMAIN mQueue : l > k /\ mQueue[l] = Empty
    BY <1>0, <1>3, <2>1 DEF PillBehind
  <2>3. QED BY <1>3, <2>2
<1>13. QED BY <1>6, <1>7, <1>8, <1>9, <1>10, <1>11, <1>12 DEF ThreadInv

\* The condition lets a thread go.
LEMMA SpuriousWakeKeeps ==
  ASSUME ThreadInv, NEW w \in Workers, SpuriousWake(w)
  PROVE  ThreadInv'
<1>0. TypeOK /\ Threads /\ PillsBalance /\ OnePlace /\ RunOnce /\ PillBehind
      /\ Started
  BY DEF ThreadInv
<1>1. /\ wpc[w] = "wait" /\ wpc' = [wpc EXCEPT ![w] = "pop"]
      /\ UNCHANGED <<mThreads, spc, i, mQueue, task, pushed, ran, due, late>>
  BY DEF SpuriousWake, poolVars, histVars
<1>2. /\ wpc' \in [Workers -> {"new", "pop", "wait", "run", "end"}]
      /\ \A v \in Workers : wpc'[v] = IF v = w THEN "pop" ELSE wpc[v]
  BY <1>0, <1>1 DEF TypeOK
<1>3. Live' = Live /\ Pills' = Pills
  BY <1>1, <1>2, SameLive DEF Pills
<1>4. TypeOK'
  BY <1>0, <1>1, <1>2 DEF TypeOK
<1>5. PillsBalance'
  BY <1>0, <1>1, <1>3 DEF PillsBalance
<1>6. \A v \in Workers : /\ wpc'[v] = "new" <=> wpc[v] = "new"
                         /\ wpc'[v] = "end" <=> wpc[v] = "end"
                         /\ wpc'[v] = "run" <=> wpc[v] = "run"
  BY <1>1, <1>2
<1>7. RunOnce' /\ Started' /\ OnePlace'
  BY <1>0, <1>1, <1>6 DEF RunOnce, Started, OnePlace
<1>8. Threads'
  BY <1>0, <1>1, <1>3, <1>6, Running DEF Threads
<1>9. PillBehind'
  BY <1>0, <1>1 DEF PillBehind
<1>10. QED BY <1>4, <1>5, <1>7, <1>8, <1>9 DEF ThreadInv

\* A task has run.
LEMMA FinishKeeps ==
  ASSUME ThreadInv, NEW w \in Workers, Finish(w)
  PROVE  ThreadInv'
<1>0. TypeOK /\ Threads /\ PillsBalance /\ OnePlace /\ RunOnce /\ PillBehind
      /\ Started
  BY DEF ThreadInv
<1>1. /\ wpc[w] = "run" /\ wpc' = [wpc EXCEPT ![w] = "pop"]
      /\ task' = [task EXCEPT ![w] = Empty] /\ ran' = ran \cup {task[w]}
      /\ UNCHANGED <<mThreads, spc, i, mQueue, pushed, due, late>>
  BY DEF Finish, poolVars
<1>2. /\ wpc' \in [Workers -> {"new", "pop", "wait", "run", "end"}]
      /\ \A v \in Workers : wpc'[v] = IF v = w THEN "pop" ELSE wpc[v]
      /\ task' \in [Workers -> Nat]
      /\ \A v \in Workers : task'[v] = IF v = w THEN Empty ELSE task[v]
  BY <1>0, <1>1, Sizes DEF TypeOK
<1>3. Live' = Live /\ Pills' = Pills
  BY <1>1, <1>2, SameLive DEF Pills
<1>4. task[w] \in 1 .. pushed /\ pushed \in Nat /\ Empty = 0
  <2>1. /\ task[w] \in Nat /\ task[w] <= pushed /\ task[w] # Empty
        /\ pushed \in Nat
    BY <1>0, <1>1, Sizes DEF OnePlace, TypeOK
  <2>2. QED BY <2>1 DEF Empty
<1>5. TypeOK'
  BY <1>0, <1>1, <1>2, <1>4, Sizes DEF TypeOK
<1>6. PillsBalance'
  BY <1>0, <1>1, <1>3 DEF PillsBalance
<1>7. RunOnce'
  <2>1. \A v \in Workers : wpc'[v] = "run" => task'[v] \notin ran'
    BY <1>0, <1>1, <1>2 DEF RunOnce
  <2>2. \A u, v \in Workers : u # v /\ wpc'[u] = "run" => task'[u] # task'[v]
    BY <1>0, <1>2 DEF RunOnce, OnePlace
  <2>3. \A t \in 1 .. pushed :
          t \notin ran' /\ (\A v \in Workers : task'[v] # t)
          => \E k \in DOMAIN mQueue : mQueue[k] = t
    BY <1>0, <1>1, <1>2 DEF RunOnce
  <2>4. QED BY <1>1, <2>1, <2>2, <2>3 DEF RunOnce
<1>8. Started'
  BY <1>0, <1>1, <1>2 DEF Started
<1>9. Threads'
  BY <1>0, <1>1, <1>2, <1>3, Running DEF Threads
<1>10. OnePlace'
  <2>1. \A k \in DOMAIN mQueue : mQueue[k] <= pushed /\ mQueue[k] \notin ran'
    BY <1>0, <1>1, <1>4 DEF OnePlace
  <2>2. \A k \in DOMAIN mQueue, v \in Workers :
          mQueue[k] # Empty => task'[v] # mQueue[k]
    BY <1>0, <1>2 DEF OnePlace
  <2>3. \A v \in Workers :
          (task'[v] # Empty <=> wpc'[v] = "run") /\ task'[v] <= pushed
    BY <1>0, <1>2, <1>4 DEF OnePlace
  <2>4. QED BY <1>0, <1>1, <2>1, <2>2, <2>3 DEF OnePlace
<1>11. PillBehind'
  BY <1>0, <1>1 DEF PillBehind
<1>12. QED BY <1>5, <1>6, <1>7, <1>8, <1>9, <1>10, <1>11 DEF ThreadInv

\* A worker takes what is first in the queue, or waits.
LEMMA PopKeeps ==
  ASSUME ThreadInv, NEW w \in Workers, Pop(w)
  PROVE  ThreadInv'
<1>0. TypeOK /\ Threads /\ PillsBalance /\ OnePlace /\ RunOnce /\ PillBehind
      /\ Started
  BY DEF ThreadInv
<1>1. /\ wpc[w] = "pop"
      /\ UNCHANGED <<mThreads, spc, i, pushed, ran, due, late>>
  BY DEF Pop, poolVars, histVars
<1>2. task[w] = 0 /\ Empty = 0
  BY <1>0, <1>1 DEF OnePlace, Empty
<1>3. CASE mQueue = <<>>
  <2>1. wpc' = [wpc EXCEPT ![w] = "wait"] /\ UNCHANGED <<mQueue, task>>
    BY <1>3 DEF Pop
  <2>2. /\ wpc' \in [Workers -> {"new", "pop", "wait", "run", "end"}]
        /\ \A v \in Workers : wpc'[v] = IF v = w THEN "wait" ELSE wpc[v]
    BY <1>0, <2>1 DEF TypeOK
  <2>3. Live' = Live /\ Pills' = Pills
    BY <1>1, <2>1, <2>2, SameLive DEF Pills
  <2>4. TypeOK'
    BY <1>0, <1>1, <2>1, <2>2 DEF TypeOK
  <2>5. PillsBalance'
    BY <1>0, <1>1, <2>3 DEF PillsBalance
  <2>6. \A v \in Workers : /\ wpc'[v] = "new" <=> wpc[v] = "new"
                           /\ wpc'[v] = "end" <=> wpc[v] = "end"
                           /\ wpc'[v] = "run" <=> wpc[v] = "run"
    BY <1>1, <2>2
  <2>7. RunOnce' /\ Started' /\ OnePlace'
    BY <1>0, <1>1, <2>1, <2>6 DEF RunOnce, Started, OnePlace
  <2>8. Threads'
    BY <1>0, <1>1, <2>3, <2>6, Running DEF Threads
  <2>9. PillBehind'
    BY <1>0, <1>1, <2>1 DEF PillBehind
  <2>10. QED BY <2>4, <2>5, <2>7, <2>8, <2>9 DEF ThreadInv
<1>4. CASE mQueue # <<>>
  <2> DEFINE h == Head(mQueue)
  <2>1. mQueue' = Popped
    BY <1>4 DEF Pop
  <2>2. /\ mQueue' \in Seq(Nat) /\ Len(mQueue) \in Nat /\ Len(mQueue) >= 1
        /\ DOMAIN mQueue = 1 .. Len(mQueue)
        /\ DOMAIN mQueue' = 1 .. Len(mQueue) - 1
        /\ \A k \in 1 .. Len(mQueue) - 1 : mQueue'[k] = mQueue[k + 1]
        /\ h = mQueue[1] /\ h \in Nat
    BY <1>0, <1>4, <2>1, QueuePop
  <2>3. Cardinality(Pills') = IF h = 0 THEN Cardinality(Pills) - 1
                                       ELSE Cardinality(Pills)
    BY <1>0, <1>2, <1>4, <2>1, PillsPop
  <2>4. /\ wpc' = [wpc EXCEPT ![w] = IF h = 0 THEN "end" ELSE "run"]
        /\ task' = [task EXCEPT ![w] = h]
    <3>1. task = [task EXCEPT ![w] = 0]
      BY <1>0, <1>2 DEF TypeOK
    <3>2. QED BY <1>2, <1>4, <3>1 DEF Pop
  <2> HIDE DEF h
  <2>5. /\ wpc' \in [Workers -> {"new", "pop", "wait", "run", "end"}]
        /\ \A v \in Workers : wpc'[v] =
              IF v = w THEN IF h = 0 THEN "end" ELSE "run" ELSE wpc[v]
        /\ task' \in [Workers -> Nat]
        /\ \A v \in Workers : task'[v] = IF v = w THEN h ELSE task[v]
    BY <1>0, <2>2, <2>4, Sizes DEF TypeOK
  <2>6. TypeOK'
    BY <1>0, <1>1, <2>2, <2>5, Sizes DEF TypeOK
  <2>7. Cardinality(Live') = IF h = 0 THEN Cardinality(Live) - 1
                                      ELSE Cardinality(Live)
    <3>1. CASE h = 0
      <4>1. w \in Live /\ Live' = Live \ {w}
        BY <1>1, <2>5, <3>1 DEF Live
      <4>2. QED BY <1>0, <3>1, <4>1, Counted, FS_RemoveElement
    <3>2. CASE h # 0
      <4>1. Live' = Live
        BY <1>1, <2>5, <3>2, SameLive
      <4>2. QED BY <3>2, <4>1
    <3>3. QED BY <3>1, <3>2
  <2>8. PillsBalance'
    <3>1. Cardinality(Live) \in Nat /\ Cardinality(Pills) \in Nat
      BY <1>0, Counted
    <3>2. Cardinality(Live') - Cardinality(Pills') =
            Cardinality(Live) - Cardinality(Pills)
      BY <2>3, <2>7, <3>1
    <3>3. QED BY <1>0, <1>1, <3>2 DEF PillsBalance
  <2>9. /\ h <= pushed /\ h \notin ran
        /\ \A v \in Workers : h # 0 => task[v] # h
        /\ \A k \in 1 .. Len(mQueue) - 1 : mQueue[k + 1] = h => h = 0
    <3>1. 1 \in DOMAIN mQueue
      BY <2>2
    <3>2. \A k \in 1 .. Len(mQueue) - 1 : k + 1 \in DOMAIN mQueue /\ k + 1 # 1
      BY <2>2
    <3>3. QED BY <1>0, <1>2, <2>2, <3>1, <3>2 DEF OnePlace
  <2>10. RunOnce'
    <3>1. \A v \in Workers : wpc'[v] = "run" => task'[v] \notin ran
      BY <1>0, <2>5, <2>9 DEF RunOnce
    <3>2. \A u, v \in Workers : u # v /\ wpc'[u] = "run" => task'[u] # task'[v]
      <4> SUFFICES ASSUME NEW u \in Workers, NEW v \in Workers, u # v,
                          wpc'[u] = "run"
                   PROVE  task'[u] # task'[v]
        OBVIOUS
      <4>1. CASE u = w
        BY <2>5, <2>9, <4>1
      <4>2. CASE u # w /\ v = w
        <5>1. /\ task[u] # 0 /\ wpc[u] = "run"
              /\ task'[u] = task[u] /\ task'[v] = h
          BY <1>0, <1>2, <2>5, <4>2 DEF OnePlace
        <5>2. QED BY <2>9, <5>1
      <4>3. CASE u # w /\ v # w
        BY <1>0, <2>5, <4>3 DEF RunOnce
      <4>4. QED BY <4>1, <4>2, <4>3
    <3>3. ASSUME NEW t \in 1 .. pushed, t \notin ran,
                 \A v \in Workers : task'[v] # t
          PROVE  \E k \in DOMAIN mQueue' : mQueue'[k] = t
      <4>1. \A v \in Workers : task[v] # t
        BY <1>2, <2>5, <3>3
      <4>2. PICK k \in DOMAIN mQueue : mQueue[k] = t
        BY <1>0, <3>3, <4>1 DEF RunOnce
      <4>3. t # h
        BY <2>5, <3>3
      <4>4. k - 1 \in 1 .. Len(mQueue) - 1 /\ (k - 1) + 1 = k
        BY <2>2, <4>2, <4>3
      <4>5. QED BY <2>2, <4>2, <4>4
    <3>4. QED BY <1>1, <3>1, <3>2, <3>3 DEF RunOnce
  <2>11. Started'
    BY <1>0, <1>1, <2>5 DEF Started
  <2>12. Threads'
    <3>1. Live' \subseteq Live
      BY <1>1, <2>5 DEF Live
    <3>2. \A v \in Workers : wpc[v] = "end" => wpc'[v] = "end"
      BY <1>1, <2>5
    <3>3. QED BY <1>0, <1>1, <3>1, <3>2, Running DEF Threads
  <2>13. OnePlace'
    <3>1. \A k \in DOMAIN mQueue' :
            mQueue'[k] <= pushed /\ mQueue'[k] \notin ran
      <4>1. \A k \in DOMAIN mQueue' :
              k + 1 \in DOMAIN mQueue /\ mQueue'[k] = mQueue[k + 1]
        BY <2>2
      <4>2. QED BY <1>0, <4>1 DEF OnePlace
    <3>2. ASSUME NEW k \in DOMAIN mQueue', NEW v \in Workers, mQueue'[k] # 0
          PROVE  task'[v] # mQueue'[k]
      <4>1. k + 1 \in DOMAIN mQueue /\ mQueue'[k] = mQueue[k + 1]
            /\ k \in 1 .. Len(mQueue) - 1
        BY <2>2
      <4>2. CASE v = w
        BY <2>5, <2>9, <3>2, <4>1, <4>2
      <4>3. CASE v # w
        BY <1>0, <1>2, <2>5, <3>2, <4>1, <4>3 DEF OnePlace
      <4>4. QED BY <4>2, <4>3
    <3>3. ASSUME NEW k \in DOMAIN mQueue', NEW l \in DOMAIN mQueue',
                 mQueue'[k] = mQueue'[l], k # l
          PROVE  mQueue'[k] = 0
      <4>1. /\ k + 1 \in DOMAIN mQueue /\ mQueue'[k] = mQueue[k + 1]
            /\ l + 1 \in DOMAIN mQueue /\ mQueue'[l] = mQueue[l + 1]
            /\ k + 1 # l + 1
        BY <2>2, <3>3
      <4>2. QED BY <1>0, <1>2, <3>3, <4>1 DEF OnePlace
    <3>4. \A v \in Workers :
            (task'[v] # 0 <=> wpc'[v] = "run") /\ task'[v] <= pushed
      BY <1>0, <1>2, <2>5, <2>9 DEF OnePlace
    <3>5. QED BY <1>1, <1>2, <3>1, <3>2, <3>3, <3>4 DEF OnePlace
  <2>14. PillBehind'
    <3> SUFFICES ASSUME spc = "join" \/ (spc = "pill" /\ i > 1),
                        NEW k \in DOMAIN mQueue', mQueue'[k] \in 1 .. due
                 PROVE  \E l \in DOMAIN mQueue' : l > k /\ mQueue'[l] = Empty
      BY <1>1 DEF PillBehind
    <3>1. k + 1 \in DOMAIN mQueue /\ mQueue'[k] = mQueue[k + 1] /\ k \in Nat
      BY <2>2
    <3>2. PICK l \in DOMAIN mQueue : l > k + 1 /\ mQueue[l] = Empty
      BY <1>0, <3>1 DEF PillBehind
    <3>3. l - 1 \in 1 .. Len(mQueue) - 1 /\ l - 1 > k /\ (l - 1) + 1 = l
      BY <2>2, <3>1, <3>2
    <3>4. QED BY <2>2, <3>2, <3>3
  <2>15. QED BY <2>6, <2>8, <2>10, <2>11, <2>12, <2>13, <2>14 DEF ThreadInv
<1>5. QED BY <1>3, <1>4

\* New threads, and n new tasks for them behind what is in the queue: Start of
\* the ThreadPool is the case n = 0, that of the IOServicePool pushes mSize.
LEMMA StartKeeps ==
  ASSUME ThreadInv, StartThreads, spc = "none", mThreads = <<>>, NEW n \in Nat,
         mQueue' \in Seq(Nat),
         DOMAIN mQueue' = 1 .. Len(mQueue) + n,
         \A k \in 1 .. Len(mQueue) : mQueue'[k] = mQueue[k],
         \A k \in 1 .. n : mQueue'[Len(mQueue) + k] = pushed + k,
         pushed' = pushed + n,
         UNCHANGED <<spc, i, task, ran, due, late>>
  PROVE  ThreadInv'
<1>0. TypeOK /\ Threads /\ PillsBalance /\ OnePlace /\ RunOnce /\ Started
  BY DEF ThreadInv
<1>1. PICK m \in Nat :
        /\ m + mSize <= mSize * (MaxStops + 1)
        /\ \A w \in Workers : wpc[w] # "new" <=> w <= m
        /\ mThreads' \in Seq(Workers) /\ Len(mThreads') = mSize
        /\ \A k \in 1 .. mSize : mThreads'[k] = m + k
        /\ wpc' \in [Workers -> {"new", "pop", "wait", "run", "end"}]
        /\ \A w \in Workers :
              wpc'[w] = IF w \in m + 1 .. m + mSize THEN "pop" ELSE wpc[w]
        /\ Live' = Live \cup (m + 1 .. m + mSize)
        /\ Cardinality(Live') = Cardinality(Live) + mSize
  BY <1>0, StartEffect
<1>2. /\ Len(mQueue) \in Nat /\ DOMAIN mQueue = 1 .. Len(mQueue)
      /\ \A k \in 1 .. Len(mQueue) : mQueue[k] \in Nat
      /\ Cardinality(Live) \in Nat /\ Cardinality(Pills) \in Nat
      /\ mSize \in Nat /\ mSize >= 1 /\ Empty = 0
  BY <1>0, Counted, Sizes
<1>3. pushed \in Nat /\ due \in 0 .. pushed /\ ran \subseteq 1 .. pushed
  BY <1>0 DEF TypeOK
\* A place in the new queue is one of the old ones or that of a new task.
<1>4. ASSUME NEW k \in DOMAIN mQueue'
      PROVE  \/ k \in DOMAIN mQueue /\ mQueue'[k] = mQueue[k]
             \/ /\ k - Len(mQueue) \in 1 .. n
                /\ mQueue'[k] = pushed + (k - Len(mQueue))
  <2>1. CASE k \in 1 .. Len(mQueue)
    BY <1>2, <2>1
  <2>2. CASE k \notin 1 .. Len(mQueue)
    <3>1. k - Len(mQueue) \in 1 .. n /\ Len(mQueue) + (k - Len(mQueue)) = k
      BY <1>2, <2>2
    <3>2. QED BY <3>1
  <2>3. QED BY <2>1, <2>2
<1>5. /\ \A k \in DOMAIN mQueue : k \in DOMAIN mQueue'
      /\ \A k \in 1 .. n : Len(mQueue) + k \in DOMAIN mQueue'
  BY <1>2
<1>6. Pills' = Pills
  <2>1. \A k \in DOMAIN mQueue' : mQueue'[k] = 0 =>
          k \in DOMAIN mQueue /\ mQueue'[k] = mQueue[k]
    BY <1>3, <1>4
  <2>2. \A k \in DOMAIN mQueue : mQueue'[k] = mQueue[k]
    BY <1>2
  <2>3. QED BY <1>2, <1>5, <2>1, <2>2 DEF Pills
<1>7. TypeOK'
  <2>1. pushed' \in Nat /\ due' \in 0 .. pushed' /\ ran' \subseteq 1 .. pushed'
    BY <1>3
  <2>2. QED BY <1>0, <1>1, <2>1, Sizes DEF TypeOK
<1>8. PillsBalance'
  <2>1. Cardinality(Live) - Cardinality(Pills) = 0
    BY <1>0 DEF PillsBalance
  <2>2. Cardinality(Live') - Cardinality(Pills') = mSize
    BY <1>1, <1>2, <1>6, <2>1
  <2>3. QED BY <1>1, <2>2 DEF PillsBalance
<1>9. \A w \in Workers : wpc'[w] = "run" <=> wpc[w] = "run"
  BY <1>1, <1>2, Sizes
<1>10. RunOnce'
  <2>1. ASSUME NEW t \in 1 .. pushed', t \notin ran,
               \A w \in Workers : task[w] # t
        PROVE  \E k \in DOMAIN mQueue' : mQueue'[k] = t
    <3>1. CASE t \in 1 .. pushed
      <4>1. PICK k \in DOMAIN mQueue : mQueue[k] = t
        BY <1>0, <2>1, <3>1 DEF RunOnce
      <4>2. QED BY <1>2, <1>5, <4>1
    <3>2. CASE t \notin 1 .. pushed
      <4>1. t - pushed \in 1 .. n /\ pushed + (t - pushed) = t
        BY <1>3, <3>2
      <4>2. mQueue'[Len(mQueue) + (t - pushed)] = t
        BY <4>1
      <4>3. QED BY <1>5, <4>1, <4>2
    <3>3. QED BY <3>1, <3>2
  <2>2. QED BY <1>0, <1>9, <2>1 DEF RunOnce
<1>11. Started'
  <2>1. ASSUME NEW w \in Workers
        PROVE  wpc'[w] # "new" <=> w <= m + mSize
    <3>1. w \in Nat
      BY Sizes
    <3>2. CASE w \in m + 1 .. m + mSize
      BY <1>1, <1>2, <3>2
    <3>3. CASE w \notin m + 1 .. m + mSize
      <4>1. w <= m + mSize <=> w <= m
        BY <1>2, <3>1, <3>3
      <4>2. QED BY <1>1, <3>3, <4>1
    <3>4. QED BY <3>2, <3>3
  <2>2. m + mSize \in 0 .. mSize * (MaxStops + 1)
    BY <1>1, <1>2, Sizes
  <2>3. QED BY <2>1, <2>2 DEF Started
<1>12. Threads'
  <2>1. ~late => Live = {}
    <3>1. Len(mThreads) = 0
      OBVIOUS
    <3>2. QED BY <1>0, <3>1 DEF Threads
  <2>2. \A w \in m + 1 .. m + mSize :
          w - m \in 1 .. mSize /\ mThreads'[w - m] = w
    <3>1. \A w \in m + 1 .. m + mSize : w - m \in 1 .. mSize /\ m + (w - m) = w
      BY <1>2
    <3>2. QED BY <1>1, <3>1
  <2>3. QED BY <1>1, <2>1, <2>2 DEF Threads
<1>13. \A w \in Workers : task[w] \in Nat /\ task[w] <= pushed
  BY <1>0, Sizes DEF OnePlace, TypeOK
<1>14. OnePlace'
  <2>1. ASSUME NEW k \in DOMAIN mQueue'
        PROVE  mQueue'[k] <= pushed' /\ mQueue'[k] \notin ran
    <3>1. CASE k \in DOMAIN mQueue /\ mQueue'[k] = mQueue[k]
      <4>1. mQueue[k] <= pushed /\ mQueue[k] \notin ran /\ mQueue[k] \in Nat
        BY <1>0, <1>2, <3>1 DEF OnePlace
      <4>2. QED BY <1>3, <3>1, <4>1
    <3>2. CASE /\ k - Len(mQueue) \in 1 .. n
               /\ mQueue'[k] = pushed + (k - Len(mQueue))
      BY <1>3, <3>2
    <3>3. QED BY <1>4, <3>1, <3>2
  <2>2. ASSUME NEW k \in DOMAIN mQueue', NEW w \in Workers, mQueue'[k] # 0
        PROVE  task[w] # mQueue'[k]
    <3>1. CASE k \in DOMAIN mQueue /\ mQueue'[k] = mQueue[k]
      BY <1>0, <1>2, <2>2, <3>1 DEF OnePlace
    <3>2. CASE /\ k - Len(mQueue) \in 1 .. n
               /\ mQueue'[k] = pushed + (k - Len(mQueue))
      BY <1>3, <1>13, <3>2
    <3>3. QED BY <1>4, <3>1, <3>2
  <2>3. ASSUME NEW k \in DOMAIN mQueue', NEW l \in DOMAIN mQueue',
               mQueue'[k] = mQueue'[l], k # l
        PROVE  mQueue'[k] = 0
    <3>1. \A j \in DOMAIN mQueue : mQueue[j] \in Nat /\ mQueue[j] <= pushed
      BY <1>0, <1>2 DEF OnePlace
    <3>2. CASE k \in DOMAIN mQueue /\ l \in DOMAIN mQueue
      BY <1>0, <1>2, <2>3, <3>2 DEF OnePlace
    <3>3. CASE k \notin DOMAIN mQueue \/ l \notin DOMAIN mQueue
      <4>1. k \in Nat /\ l \in Nat
        BY <1>2
      <4>2. \A j \in DOMAIN mQueue' : j \notin DOMAIN mQueue =>
              mQueue'[j] = pushed + (j - Len(mQueue)) /\ j > Len(mQueue)
        BY <1>2, <1>4
      <4>3. \A j \in DOMAIN mQueue' : j \in DOMAIN mQueue =>
              mQueue'[j] <= pushed /\ mQueue'[j] \in Nat
        BY <1>2, <3>1
      <4>4. QED BY <1>2, <1>3, <2>3, <3>3, <4>1, <4>2, <4>3
    <3>4. QED BY <3>2, <3>3
  <2>4. \A w \in Workers : task[w] <= pushed'
    BY <1>3, <1>13
  <2>5. \A w \in Workers : task'[w] # Empty <=> wpc'[w] = "run"
    BY <1>0, <1>9 DEF OnePlace
  <2>6. QED BY <1>2, <2>1, <2>2, <2>3, <2>4, <2>5 DEF OnePlace
<1>15. PillBehind'
  BY DEF PillBehind
<1>16. QED BY <1>7, <1>8, <1>10, <1>11, <1>12, <1>14, <1>15 DEF ThreadInv

-----------------------------------------------------------------------------
(***************************************************************************)
(* The ThreadPool, whoever uses it                                         *)
(***************************************************************************)

\* What a step of PoolNext is for the ThreadPool.
LEMMA Kinds ==
  ASSUME PoolNext
  PROVE  \/ UNCHANGED vars
         \/ Start \/ (user = "IOServicePool" /\ PoolStart)
         \/ StopBegin \/ StopPill \/ StopJoin \/ StopTimeout \/ StopClear
         \/ PushTask
         \/ \E w \in Workers : Pop(w) \/ SpuriousWake(w) \/ Finish(w)
<1>1. \A j \in Jobs : Post(j) => UNCHANGED vars
  BY DEF Post
<1>2. \A w \in Workers : WorkerStep(w) => Pop(w) \/ Finish(w) \/ UNCHANGED vars
  <2>1. \A w \in Workers : HandlerDone(w) => UNCHANGED vars
    BY DEF HandlerDone
  <2>2. \A w \in Workers, j \in Jobs : RunOne(w, j) => UNCHANGED vars
    BY DEF RunOne
  <2>3. \A w \in Workers : RunReturns(w) => Finish(w)
    BY DEF RunReturns
  <2>4. QED BY <2>1, <2>2, <2>3, Zenon DEF WorkerStep
<1>3. PoolStopStep => StopPill \/ StopJoin \/ StopClear
  BY DEF PoolStopStep, StopStep, PoolStopped
<1>4. PoolStop => StopBegin
  BY DEF PoolStop
<1>5. QED BY <1>1, <1>2, <1>3, <1>4, Zenon DEF PoolNext

\* IOServicePool::Start as one of the ThreadPool that has tasks already.
LEMMA PoolStartKeeps ==
  ASSUME ThreadInv, Users, user = "IOServicePool", PoolStart
  PROVE  ThreadInv'
<1>0. TypeOK /\ Threads /\ mSize \in Nat
  BY Sizes DEF ThreadInv
<1>1. mThreads = <<>> /\ spc = "none"
  BY <1>0 DEF Users, PoolStart, Threads
<1> DEFINE s == [k \in 1 .. mSize |-> pushed + k]
<1>2. /\ mQueue' = mQueue \o s /\ pushed' = pushed + mSize /\ StartThreads
      /\ UNCHANGED <<spc, i, task, ran, due, late>>
  BY DEF PoolStart
<1>3. mQueue \in Seq(Nat) /\ pushed \in Nat
  BY <1>0, Counted DEF TypeOK
<1>4. /\ s \in Seq(Nat) /\ Len(s) = mSize
      /\ \A k \in 1 .. mSize : s[k] = pushed + k
  BY <1>0, <1>3
<1> HIDE DEF s
<1>5. /\ mQueue' \in Seq(Nat) /\ Len(mQueue') = Len(mQueue) + mSize
      /\ \A k \in 1 .. Len(mQueue) : mQueue'[k] = mQueue[k]
      /\ \A k \in 1 .. mSize : mQueue'[Len(mQueue) + k] = s[k]
  <2>1. /\ mQueue \o s \in Seq(Nat)
        /\ Len(mQueue \o s) = Len(mQueue) + Len(s)
        /\ \A k \in 1 .. Len(mQueue) + Len(s) : (mQueue \o s)[k] =
              IF k <= Len(mQueue) THEN mQueue[k] ELSE s[k - Len(mQueue)]
    BY <1>3, <1>4, ConcatProperties
  <2>2. Len(mQueue) \in Nat
    BY <1>3
  <2>3. \A k \in 1 .. Len(mQueue) : (mQueue \o s)[k] = mQueue[k]
    BY <1>0, <1>4, <2>1, <2>2
  <2>4. \A k \in 1 .. mSize :
          /\ Len(mQueue) + k \in 1 .. Len(mQueue) + mSize
          /\ ~(Len(mQueue) + k <= Len(mQueue))
          /\ (Len(mQueue) + k) - Len(mQueue) = k
    BY <1>0, <2>2
  <2>5. \A k \in 1 .. mSize : (mQueue \o s)[Len(mQueue) + k] = s[k]
    BY <1>4, <2>1, <2>4
  <2>6. QED BY <1>2, <1>4, <2>1, <2>3, <2>5
<1>6. DOMAIN mQueue' = 1 .. Len(mQueue) + mSize
  BY <1>5, LenProperties
<1>7. QED BY <1>0, <1>1, <1>2, <1>4, <1>5, <1>6, StartKeeps

\* ThreadPool::Start pushes no task.
LEMMA PlainStartKeeps ==
  ASSUME ThreadInv, Start
  PROVE  ThreadInv'
<1>1. /\ spc = "none" /\ mThreads = <<>> /\ StartThreads
      /\ UNCHANGED <<spc, i, mQueue, task, pushed, ran, due, late>>
  BY DEF Start, IsRunning, histVars
<1>2. /\ mQueue \in Seq(Nat) /\ Len(mQueue) \in Nat /\ pushed \in Nat
      /\ DOMAIN mQueue = 1 .. Len(mQueue)
  BY Counted DEF ThreadInv, TypeOK
<1>3. Len(mQueue) + 0 = Len(mQueue) /\ pushed + 0 = pushed /\ 0 \in Nat
      /\ \A k \in 1 .. 0 : FALSE
  BY <1>2
<1>4. QED BY <1>1, <1>2, <1>3, StartKeeps

\* Every step keeps the invariant of the ThreadPool.
LEMMA ThreadStep ==
  ASSUME ThreadInv, Users, [PoolNext]_allVars
  PROVE  ThreadInv'
<1>1. CASE UNCHANGED vars
  BY <1>1 DEF vars, poolVars, histVars, ThreadInv, TypeOK, PillsBalance,
     RunOnce, Started, Threads, OnePlace, PillBehind, Live, Pills
<1>2. CASE UNCHANGED allVars
  BY <1>1, <1>2 DEF allVars
<1>3. CASE PoolNext
  BY <1>1, <1>3, Kinds, PlainStartKeeps, PoolStartKeeps, StopBeginKeeps,
     StopPillKeeps, StopJoinKeeps, StopClearKeeps, PushTaskKeeps, PopKeeps,
     SpuriousWakeKeeps, FinishKeeps
<1>4. QED BY <1>2, <1>3

\* An empty pool.
LEMMA ThreadInitially ==
  ASSUME Init
  PROVE  ThreadInv
<1>1. mQueue = <<>> /\ mThreads = <<>> /\ spc = "none" /\ i = 0
      /\ pushed = 0 /\ ran = {} /\ due = 0
      /\ wpc = [w \in Workers |-> "new"] /\ task = [w \in Workers |-> Empty]
  BY DEF Init
<1>2. TypeOK
  BY <1>1, Sizes DEF TypeOK
<1>3. Live = {} /\ Pills = {} /\ Len(mThreads) = 0 /\ DOMAIN mQueue = {}
  <2>1. DOMAIN mQueue = {}
    BY <1>1
  <2>2. QED BY <1>1, <2>1 DEF Live, Pills
<1>4. PillsBalance
  <2>1. Cardinality({}) = 0
    BY FS_EmptySet
  <2>2. QED BY <1>1, <1>3, <2>1 DEF PillsBalance
<1>5. RunOnce /\ OnePlace /\ PillBehind
  BY <1>1, <1>3, Sizes DEF RunOnce, OnePlace, PillBehind
<1>6. Started
  BY <1>1, Sizes DEF Started
<1>7. Threads
  BY <1>1, <1>3 DEF Threads
<1>8. QED BY <1>2, <1>4, <1>5, <1>6, <1>7 DEF ThreadInv

\* When all the threads have ended there is no empty task left, so no task
\* pushed before Stop is in the queue: it has run.
LEMMA Drained == ThreadInv => StopDrains
<1> SUFFICES ASSUME ThreadInv, spc = "join", i > Len(mThreads), ~late,
                    NEW t \in 1 .. due, t \notin ran
             PROVE  FALSE
  BY DEF StopDrains
<1>0. TypeOK /\ Threads /\ PillsBalance /\ OnePlace /\ RunOnce /\ PillBehind
  BY DEF ThreadInv
<1>1. Live = {}
  BY <1>0, Running DEF Threads, Live
<1>2. Pills = {}
  <2>1. Cardinality(Live) = 0
    BY <1>1, FS_EmptySet
  <2>2. Cardinality(Pills) = 0
    BY <1>0, <2>1, Counted DEF PillsBalance
  <2>3. QED BY <1>0, <2>2, Counted, FS_EmptySet
<1>3. \A w \in Workers : task[w] # t
  <2>1. t # Empty
    BY DEF Empty
  <2>2. \A w \in Workers : wpc[w] # "run"
    BY <1>1 DEF Live
  <2>3. QED BY <1>0, <2>1, <2>2 DEF OnePlace
<1>4. t \in 1 .. pushed
  BY <1>0 DEF TypeOK
<1>5. PICK k \in DOMAIN mQueue : mQueue[k] = t
  BY <1>0, <1>3, <1>4 DEF RunOnce
<1>6. PICK l \in DOMAIN mQueue : mQueue[l] = Empty
  BY <1>0, <1>5 DEF PillBehind
<1>7. QED BY <1>2, <1>6 DEF Pills

\* A step keeps who uses the pool and whether it is at work.
LEMMA UsersStep ==
  ASSUME ThreadInv, Users, [PoolNext]_allVars
  PROVE  Users'
<1>0. TypeOK /\ Threads /\ Started /\ mSize \in Nat /\ mSize >= 1
  BY Sizes DEF ThreadInv
<1>1. CASE UNCHANGED <<user, mWork, mThreads, given>>
  BY <1>1 DEF Users
<1>2. CASE user' = user /\ user = "program" /\ UNCHANGED ioVars
  BY <1>2 DEF Users, ioVars, svcVars, runVars
<1>3. CASE user' = user /\ user = "IOServicePool" /\ PoolStart
  <2>1. mThreads' # <<>>
    <3>1. Len(mThreads') = mSize
      BY <1>0, <1>3, StartEffect DEF PoolStart
    <3>2. QED BY <1>0, <3>1
  <2>2. DOMAIN mWork' = 1 .. mSize /\ 1 \in DOMAIN mWork'
    BY <1>0, <1>3 DEF PoolStart
  <2>3. mWork' # <<>>
    <3>1. mWork' = <<>> => DOMAIN mWork' = {}
      OBVIOUS
    <3>2. QED BY <2>2, <3>1
  <2>4. QED BY <1>3, <2>1, <2>2, <2>3 DEF Users
<1>4. CASE user' = user /\ user = "IOServicePool" /\ PoolStop
  <2>1. mThreads' = mThreads /\ mThreads # <<>> /\ DOMAIN mWork' = DOMAIN mWork
    BY <1>4 DEF PoolStop, StopBegin, IsRunning
  <2>2. DOMAIN mWork = 1 .. mSize /\ 1 \in DOMAIN mWork'
    BY <1>0, <1>4, <2>1 DEF Users
  <2>3. mWork' # <<>>
    <3>1. mWork' = <<>> => DOMAIN mWork' = {}
      OBVIOUS
    <3>2. QED BY <2>2, <3>1
  <2>4. QED BY <1>4, <2>1, <2>2, <2>3 DEF Users
<1>5. CASE user' = user /\ user = "IOServicePool" /\ PoolStopped
  BY <1>5 DEF Users, PoolStopped, StopClear
<1>6. CASE user' = user /\ \E j \in Jobs : user = "IOServicePool" /\ Post(j)
  BY <1>6 DEF Users, Post, vars, poolVars
<1>7. CASE /\ user' = user /\ UNCHANGED ioVars
           /\ StopPill \/ StopJoin \/ StopTimeout
  BY <1>1, <1>7 DEF StopPill, StopJoin, StopTimeout, ioVars, svcVars, runVars
<1>8. CASE user' = user /\ \E w \in Workers : WorkerStep(w)
  BY <1>1, <1>8 DEF WorkerStep, Pop, Finish, HandlerDone, RunReturns, RunOne,
     ioVars, svcVars, runVars, vars, poolVars
<1>9. CASE /\ user' = user
           /\ \E w \in Workers : SpuriousWake(w) /\ UNCHANGED ioVars
  BY <1>1, <1>9 DEF SpuriousWake, ioVars, svcVars, runVars, poolVars
<1>10. CASE UNCHANGED allVars
  BY <1>1, <1>10 DEF allVars, vars, poolVars, ioVars, svcVars, runVars
<1>11. CASE PoolNext
  <2>1. user \in {"program", "IOServicePool"}
    BY DEF Users
  <2>2. PoolStopStep => \/ user = "program" /\ UNCHANGED ioVars
                        \/ user = "IOServicePool" /\ PoolStopped
                        \/ (StopPill \/ StopJoin) /\ UNCHANGED ioVars
    BY <2>1 DEF PoolStopStep
  <2>3. QED
    BY <1>2, <1>3, <1>4, <1>5, <1>6, <1>7, <1>8, <1>9, <1>11, <2>2, Zenon
       DEF PoolNext
<1>12. QED BY <1>10, <1>11

\* ThreadPool, for a pool of any size and any number of tasks, restarts and
\* joins that give up, whether a program pushes the tasks or an IOServicePool:
\* a task is run once, the empty tasks that Stop pushed are as many as the
\* workers that are to end, and when Stop has joined the threads all that was
\* pushed before it has run.
THEOREM PoolIsSafe == PoolSpec => []PoolInv
<1>1. PoolInit => ThreadInv /\ Users
  BY ThreadInitially DEF PoolInit, Init, Users
<1>2. ThreadInv /\ Users /\ [PoolNext]_allVars => (ThreadInv /\ Users)'
  BY ThreadStep, UsersStep
<1>3. ThreadInv => PoolInv
  BY Drained DEF ThreadInv, PoolInv
<1>4. QED BY <1>1, <1>2, <1>3, PTL DEF PoolSpec

-----------------------------------------------------------------------------
(***************************************************************************)
(* The IOServicePool                                                       *)
(***************************************************************************)

\* Services are numbered from zero, and a task runs one of them.
LEMMA ServiceNumbers ==
  /\ mNumIOServices \in Nat /\ mNumIOServices >= 1 /\ 0 \in Services
  /\ \A k \in Int : ServiceOf(k) \in Services
  /\ None \notin Jobs /\ None \notin Services
<1>1. mNumIOServices \in Nat /\ mNumIOServices >= 1
  BY ServicesAssumption
<1>2. \A k \in Int : (k - 1) % mNumIOServices \in 0 .. mNumIOServices - 1
  BY <1>1
<1>3. QED BY <1>1, <1>2, ServicesAssumption DEF Services, ServiceOf

\* The index of the work object of a task.
LEMMA WorkIndex ==
  ASSUME NEW t \in Int
  PROVE  ((t - 1) % mSize) + 1 \in 1 .. mSize
<1>1. (t - 1) % mSize \in 0 .. mSize - 1
  BY Sizes
<1>2. QED BY <1>1, Sizes

\* What a multiple of the divisor adds does not matter.
LEMMA Remainder ==
  ASSUME NEW m \in Nat, m >= 1, NEW q \in Int, NEW s \in 0 .. m - 1
  PROVE  (m * q + s) % m = s
OBVIOUS

\* The number of tasks after one more Start.
LEMMA OneMoreRound ==
  ASSUME NEW m \in Nat, NEW r \in Nat
  PROVE  m * r + m = m * (r + 1)
OBVIOUS

\* If there are no more services than threads, the last mSize tasks, those of
\* the last Start, run every service.
LEMMA EveryServiceHasATask ==
  ASSUME mNumIOServices <= mSize, NEW r \in Nat, pushed = mSize * r,
         pushed >= mSize, NEW s \in Services
  PROVE  \E t \in pushed - mSize + 1 .. pushed : TaskService(t) = s
<1> DEFINE t == pushed - mSize + s + 1
<1>1. /\ mSize \in Nat /\ mSize >= 1
      /\ mNumIOServices \in Nat /\ mNumIOServices >= 1
      /\ s \in 0 .. mNumIOServices - 1
  BY Sizes, ServiceNumbers DEF Services
<1>2. s \in 0 .. mSize - 1 /\ pushed \in Nat
  BY <1>1
<1>3. t \in pushed - mSize + 1 .. pushed
  BY <1>1, <1>2
<1>4. t - 1 = mSize * (r - 1) + s
  <2>1. /\ mSize * r \in Int /\ mSize * (r - 1) \in Int
        /\ mSize * (r - 1) = mSize * r - mSize
    BY <1>1
  <2>2. QED BY <1>1, <2>1
<1>5. (t - 1) % mSize = s
  <2> HIDE DEF t
  <2>1. r - 1 \in Int
    OBVIOUS
  <2>2. (mSize * (r - 1) + s) % mSize = s
    BY <1>1, <1>2, <2>1, Remainder
  <2>3. QED BY <1>4, <2>2
<1>6. s % mNumIOServices = s
  BY <1>1
<1>7. (s + 1) - 1 = s
  BY <1>1
<1> HIDE DEF t
<1>8. TaskService(t) = s
  BY <1>5, <1>6, <1>7 DEF TaskService, ServiceOf
<1>9. QED BY <1>3, <1>8

\* A program has nothing to do with the services.
LEMMA ProgramKeeps ==
  ASSUME ServicesIInv, Users, user = "program", UNCHANGED <<user, ioVars>>
  PROVE  ServicesIInv'
<1>1. UNCHANGED <<mWork, mIOServices, mNextIOService, stopped, posted, job,
                  given, handled>>
  BY DEF ioVars, svcVars, runVars
<1>2. given = {} /\ \A w \in Workers : job[w] = None
  BY DEF Users, ServicesIInv, Handlers
<1>3. ServiceTypes' /\ StopDrainsServices'
  BY <1>1, <1>2 DEF ServicesIInv, ServiceTypes, StopDrainsServices
<1>4. Rounds' /\ Handlers'
  BY <1>1, <1>2 DEF Rounds, Handlers
<1>5. QED BY <1>3, <1>4 DEF ServicesIInv

\* A step that leaves the services and the tasks alone, and the threads that
\* are in a handler.
LEMMA QuietKeeps ==
  ASSUME ServicesIInv, UNCHANGED <<user, ioVars, pushed, ran, due>>,
         \A w \in Workers : job[w] # None =>
            wpc'[w] = wpc[w] /\ task'[w] = task[w],
         spc' = "none" <=> spc = "none", late => late'
  PROVE  ServicesIInv'
<1>1. UNCHANGED <<mWork, mIOServices, mNextIOService, stopped, posted, job,
                  given, handled, user>>
  BY DEF ioVars, svcVars, runVars
<1>2. ServiceTypes' /\ StopDrainsServices'
  BY <1>1 DEF ServicesIInv, ServiceTypes, StopDrainsServices
<1>3. Rounds'
  BY <1>1 DEF ServicesIInv, Rounds
<1>4. Handlers'
  <2>1. \A w \in Workers : job[w] # None => At(w)' = At(w)
    BY DEF At, ServiceOf
  <2>2. Handlers
    BY DEF ServicesIInv
  <2>3. \A w \in Workers : job'[w] # None =>
          wpc'[w] = "run" /\ user' = "IOServicePool"
    BY <1>1, <2>2 DEF Handlers
  <2>4. QED BY <1>1, <2>1, <2>2, <2>3 DEF Handlers, TaskService, ServiceOf
<1>5. QED BY <1>2, <1>3, <1>4 DEF ServicesIInv

\* IOServicePool::Start: the new tasks have not run, nothing is posted.
LEMMA PoolStartServices ==
  ASSUME ThreadInv, Users, ServicesIInv, user = "IOServicePool", user' = user,
         PoolStart
  PROVE  ServicesIInv'
<1>0. /\ TypeOK /\ Threads /\ Started /\ ServiceTypes /\ Rounds /\ Handlers
      /\ mSize \in Nat /\ mSize >= 1
  BY Sizes DEF ThreadInv, ServicesIInv
<1>1. /\ mIOServices' = Services
      /\ mWork' = [k \in 1 .. mSize |-> ServiceOf(k)]
      /\ pushed' = pushed + mSize /\ stopped' = {} /\ given' = {}
      /\ UNCHANGED <<spc, task, ran, due, late, mNextIOService, posted, job,
                     handled>>
      /\ StartThreads /\ mWork = <<>>
  BY DEF PoolStart
<1>2. spc = "none" /\ pushed \in Nat /\ ran \subseteq 1 .. pushed
  BY <1>0, <1>1 DEF Users, Threads, TypeOK
<1>3. \A w \in Workers : wpc[w] = "run" => wpc'[w] = "run"
  <2>1. PICK m \in Nat :
          /\ \A w \in Workers : wpc[w] # "new" <=> w <= m
          /\ \A w \in Workers :
                wpc'[w] = IF w \in m + 1 .. m + mSize THEN "pop" ELSE wpc[w]
    BY <1>0, <1>1, StartEffect
  <2>2. QED BY <1>0, <2>1, Sizes
<1>4. ServiceTypes' /\ StopDrainsServices'
  BY <1>0, <1>1 DEF ServiceTypes, StopDrainsServices
<1>5. Rounds'
  <2>1. PICK r \in Nat : pushed = mSize * r
    BY <1>0 DEF Rounds
  <2>2. pushed' = mSize * (r + 1) /\ r + 1 \in Nat
    BY <1>0, <1>1, <2>1, OneMoreRound
  <2>3. pushed' >= mSize
    BY <1>0, <1>1, <1>2
  <2>4. \A k \in DOMAIN mWork' : mWork'[k] = ServiceOf(k)
    BY <1>1
  <2>5. QED BY <1>1, <1>2, <2>2, <2>3, <2>4 DEF Rounds, ServiceOf
<1>6. Handlers'
  <2>1. \A t \in pushed' - mSize + 1 .. pushed' : t \notin ran'
    BY <1>0, <1>1, <1>2
  <2>2. \A w \in Workers : job'[w] # None =>
          wpc'[w] = "run" /\ user' = "IOServicePool"
    BY <1>0, <1>1, <1>3 DEF Handlers
  <2>3. QED BY <1>1, <2>1, <2>2 DEF Handlers
<1>7. QED BY <1>4, <1>5, <1>6 DEF ServicesIInv

\* IOServicePool::Stop takes the work away; no service has stopped yet.
LEMMA PoolStopServices ==
  ASSUME ServicesIInv, Users, user = "IOServicePool", user' = user, PoolStop
  PROVE  ServicesIInv'
<1>0. ServiceTypes /\ Rounds /\ Handlers /\ StopDrainsServices
  BY DEF ServicesIInv
<1>1. /\ spc = "none" /\ spc' = "pill" /\ due' = pushed
      /\ mWork' = [k \in DOMAIN mWork |-> None] /\ mWork # <<>>
      /\ UNCHANGED <<wpc, task, pushed, ran, late, mIOServices, mNextIOService,
                     stopped, posted, job, given, handled>>
  BY DEF PoolStop, StopBegin, runVars, Users, IsRunning
<1>2. mWork' # <<>>
  <2>1. DOMAIN mWork' = 1 .. mSize /\ 1 \in DOMAIN mWork'
    BY <1>1, Sizes DEF Users
  <2>2. mWork' = <<>> => DOMAIN mWork' = {}
    OBVIOUS
  <2>3. QED BY <2>1, <2>2
<1>3. ServiceTypes' /\ StopDrainsServices'
  BY <1>0, <1>1, <1>2 DEF ServiceTypes, StopDrainsServices
<1>4. Rounds'
  BY <1>0, <1>1, <1>2 DEF Rounds
<1>5. Handlers'
  BY <1>0, <1>1 DEF Handlers, At, TaskService, ServiceOf
<1>6. QED BY <1>3, <1>4, <1>5 DEF ServicesIInv

\* ThreadPool::Stop has returned.  If no join gave up its tasks have all run,
\* so every service has stopped and nothing was left in it.
LEMMA PoolStoppedServices ==
  ASSUME mNumIOServices <= mSize, ThreadInv, Users, ServicesIInv,
         user = "IOServicePool", user' = user, PoolStopped
  PROVE  ServicesIInv'
<1>0. ServiceTypes /\ Rounds /\ Handlers /\ TypeOK /\ Threads
  BY DEF ServicesIInv, ThreadInv
<1>1. /\ spc = "join" /\ i > Len(mThreads) /\ mThreads # <<>> /\ spc' = "none"
      /\ mWork' = <<>> /\ mIOServices' = {} /\ posted' = [s \in Services |-> {}]
      /\ UNCHANGED <<wpc, task, pushed, ran, due, late, mNextIOService, stopped,
                     job, given, handled>>
  BY <1>0 DEF PoolStopped, StopClear, histVars, Threads
<1>2. mWork # <<>>
  BY <1>1 DEF Users
<1>3. ASSUME ~late
      PROVE  given \subseteq handled
  <2>1. /\ \A w \in Workers : job[w] = None
        /\ 1 .. due \subseteq ran
    <3>1. \A w \in Live : FALSE
      BY <1>0, <1>1, <1>3, Running DEF Threads, Live
    <3>2. \A w \in Workers : wpc[w] # "run"
      BY <3>1 DEF Live
    <3>3. QED BY <1>0, <1>1, <1>3, <3>2, Drained DEF Handlers, StopDrains
  <2>2. PICK r \in Nat : due = pushed /\ pushed = mSize * r /\ pushed >= mSize
    BY <1>0, <1>1, <1>2 DEF Rounds
  <2>3. \A t \in pushed - mSize + 1 .. pushed : t \in ran
    BY <1>0, <2>1, <2>2, Sizes DEF TypeOK
  <2>4. \A s \in Services : posted[s] = {}
    <3> SUFFICES ASSUME NEW s \in Services
                 PROVE  posted[s] = {}
      OBVIOUS
    <3>1. PICK t \in pushed - mSize + 1 .. pushed : TaskService(t) = s
      BY <2>2, EveryServiceHasATask
    <3>2. s \in stopped
      BY <1>0, <1>2, <1>3, <2>3, <3>1 DEF Handlers
    <3>3. QED BY <1>0, <1>2, <1>3, <3>2 DEF Handlers
  <2>5. QED BY <1>0, <1>3, <2>1, <2>4, ServiceNumbers DEF Handlers, ServiceTypes
<1>4. ServiceTypes' /\ StopDrainsServices'
  BY <1>0, <1>1, <1>3 DEF ServiceTypes, StopDrainsServices
<1>5. Rounds'
  <2>1. DOMAIN mWork' = {}
    BY <1>1
  <2>2. QED BY <1>0, <1>1, <2>1 DEF Rounds
<1>6. Handlers'
  <2>1. \A w \in Workers : job'[w] # None =>
          wpc'[w] = "run" /\ user' = "IOServicePool"
    BY <1>0, <1>1 DEF Handlers
  <2>2. ~late => \A j \in given' : j \in handled'
    BY <1>1, <1>3
  <2>3. QED BY <1>1, <2>1, <2>2 DEF Handlers
<1>7. QED BY <1>4, <1>5, <1>6 DEF ServicesIInv

\* A handler is posted while all services have work, so none has stopped.
LEMMA PostServices ==
  ASSUME ServicesIInv, user = "IOServicePool", user' = user, NEW j \in Jobs,
         Post(j)
  PROVE  ServicesIInv'
<1>0. ServiceTypes /\ Rounds /\ Handlers /\ StopDrainsServices
  BY DEF ServicesIInv
<1>1. /\ mWork # <<>> /\ spc = "none"
      /\ posted' = [posted EXCEPT ![mNextIOService] = @ \cup {j}]
      /\ given' = given \cup {j} /\ mNextIOService' = NextService
      /\ UNCHANGED <<spc, wpc, task, pushed, ran, due, late, mWork, mIOServices,
                     stopped, job, handled>>
  BY DEF Post, vars, poolVars, histVars
<1>2. mNextIOService \in Services /\ posted \in [Services -> SUBSET Jobs]
  BY <1>0 DEF ServiceTypes
<1>3. /\ posted' \in [Services -> SUBSET Jobs]
      /\ j \in posted'[mNextIOService]
      /\ \A s \in Services : posted[s] \subseteq posted'[s]
  BY <1>1, <1>2
<1>4. mNextIOService' \in Services
  <2>1. mNextIOService \in 0 .. mNumIOServices - 1 /\ mNumIOServices \in Nat
    BY <1>2, ServiceNumbers DEF Services
  <2>2. QED BY <1>1, <2>1 DEF NextService, Services
<1>5. ServiceTypes' /\ StopDrainsServices'
  BY <1>0, <1>1, <1>3, <1>4 DEF ServiceTypes, StopDrainsServices
<1>6. Rounds'
  BY <1>0, <1>1 DEF Rounds
<1>7. Handlers'
  <2>1. ~late => \A s \in stopped : FALSE
    BY <1>0, <1>1 DEF Handlers
  <2>2. ASSUME ~late, NEW k \in given'
        PROVE  \/ k \in handled' \/ \E s \in Services : k \in posted'[s]
               \/ \E w \in Workers : job'[w] = k
    <3>1. CASE k = j
      BY <1>2, <1>3, <3>1
    <3>2. CASE k \in given
      BY <1>0, <1>1, <1>3, <2>2, <3>2 DEF Handlers
    <3>3. QED BY <1>1, <3>1, <3>2
  <2>3. \A w \in Workers : job'[w] # None =>
          wpc'[w] = "run" /\ user' = "IOServicePool"
    BY <1>0, <1>1 DEF Handlers
  <2>4. ~late /\ mWork # <<>> => \A t \in pushed - mSize + 1 .. pushed :
          t \in ran => TaskService(t) \in stopped
    BY <1>0 DEF Handlers
  <2>5. QED BY <1>1, <2>1, <2>2, <2>3, <2>4 DEF Handlers, TaskService, ServiceOf
<1>8. QED BY <1>5, <1>6, <1>7 DEF ServicesIInv

\* run() takes a handler of its service, which has not stopped.
LEMMA RunOneServices ==
  ASSUME TypeOK, ServicesIInv, user = "IOServicePool", user' = user,
         NEW w \in Workers, NEW j \in Jobs, RunOne(w, j)
  PROVE  ServicesIInv'
<1>0. ServiceTypes /\ Rounds /\ Handlers /\ StopDrainsServices
  BY DEF ServicesIInv
<1>1. /\ wpc[w] = "run" /\ At(w) \notin stopped /\ j \in posted[At(w)]
      /\ posted' = [posted EXCEPT ![At(w)] = @ \ {j}]
      /\ job' = [job EXCEPT ![w] = j] /\ job[w] = None
      /\ UNCHANGED <<spc, wpc, task, pushed, ran, due, late, mWork, mIOServices,
                     mNextIOService, stopped, given, handled>>
  BY DEF RunOne, vars, poolVars, histVars, svcVars
<1>2. At(w) \in Services
  <2>1. task[w] \in Int
    <3>1. task[w] \in Nat
      BY Sizes, Zenon DEF TypeOK
    <3>2. QED BY <3>1
  <2>2. ((task[w] - 1) % mSize) + 1 \in Int
    BY <2>1, WorkIndex
  <2>3. QED BY <2>2, ServiceNumbers DEF At
<1>3. /\ posted' \in [Services -> SUBSET Jobs]
      /\ \A s \in Services : posted'[s] = IF s = At(w) THEN posted[s] \ {j}
                                                       ELSE posted[s]
      /\ job' \in [Workers -> Jobs \cup {None}]
      /\ \A v \in Workers : job'[v] = IF v = w THEN j ELSE job[v]
  BY <1>0, <1>1, <1>2 DEF ServiceTypes
<1>4. ServiceTypes' /\ StopDrainsServices'
  BY <1>0, <1>1, <1>3 DEF ServiceTypes, StopDrainsServices
<1>5. Rounds'
  BY <1>0, <1>1 DEF Rounds
<1>6. Handlers'
  <2>1. \A v \in Workers : job'[v] # None =>
          wpc'[v] = "run" /\ user' = "IOServicePool"
    BY <1>0, <1>1, <1>3 DEF Handlers
  <2>2. ASSUME ~late, NEW k \in given
        PROVE  \/ k \in handled \/ \E s \in Services : k \in posted'[s]
               \/ \E v \in Workers : job'[v] = k
    <3>1. CASE k = j
      BY <1>3, <3>1
    <3>2. CASE k # j
      <4>1. \/ k \in handled \/ \E s \in Services : k \in posted[s]
            \/ \E v \in Workers : job[v] = k
        BY <1>0, <2>2 DEF Handlers
      <4>2. k # None
        BY <1>0, ServiceNumbers DEF ServiceTypes
      <4>3. QED BY <1>1, <1>3, <3>2, <4>1, <4>2
    <3>3. QED BY <3>1, <3>2
  <2>3. ASSUME ~late, mWork # <<>>, NEW s \in stopped
        PROVE  /\ spc # "none" /\ posted'[s] = {}
               /\ \A v \in Workers : job'[v] # None => At(v) # s
    <3>1. /\ spc # "none" /\ posted[s] = {}
          /\ \A v \in Workers : job[v] # None => At(v) # s
      BY <1>0, <2>3 DEF Handlers
    <3>2. s # At(w)
      BY <1>1
    <3>3. posted'[s] = posted[s]
      BY <1>0, <1>1, <1>2, <3>2 DEF ServiceTypes
    <3>4. QED BY <1>3, <3>1, <3>2, <3>3
  <2>4. ~late /\ mWork # <<>> => \A t \in pushed - mSize + 1 .. pushed :
          t \in ran => TaskService(t) \in stopped
    BY <1>0 DEF Handlers
  <2>5. \A v \in Workers : At(v)' = At(v)
    BY <1>1 DEF At, ServiceOf
  <2>6. QED
    BY <1>1, <2>1, <2>2, <2>3, <2>4, <2>5 DEF Handlers, TaskService, ServiceOf
<1>7. QED BY <1>4, <1>5, <1>6 DEF ServicesIInv

\* A handler has run.
LEMMA HandlerDoneServices ==
  ASSUME ServicesIInv, user = "IOServicePool", user' = user, NEW w \in Workers,
         HandlerDone(w)
  PROVE  ServicesIInv'
<1>0. ServiceTypes /\ Rounds /\ Handlers /\ StopDrainsServices
  BY DEF ServicesIInv
<1>1. /\ job[w] # None /\ handled' = handled \cup {job[w]}
      /\ job' = [job EXCEPT ![w] = None]
      /\ UNCHANGED <<spc, wpc, task, pushed, ran, due, late, mWork, mIOServices,
                     mNextIOService, stopped, posted, given>>
  BY DEF HandlerDone, vars, poolVars, histVars, svcVars
<1>2. /\ job' \in [Workers -> Jobs \cup {None}] /\ job[w] \in Jobs
      /\ \A v \in Workers : job'[v] = IF v = w THEN None ELSE job[v]
  BY <1>0, <1>1 DEF ServiceTypes
<1>3. ServiceTypes' /\ StopDrainsServices'
  BY <1>0, <1>1, <1>2 DEF ServiceTypes, StopDrainsServices
<1>4. Rounds'
  BY <1>0, <1>1 DEF Rounds
<1>5. Handlers'
  <2>1. \A v \in Workers : job'[v] # None =>
          wpc'[v] = "run" /\ user' = "IOServicePool"
    BY <1>0, <1>1, <1>2 DEF Handlers
  <2>2. ~late => \A k \in given :
            \/ k \in handled' \/ \E s \in Services : k \in posted[s]
            \/ \E v \in Workers : job'[v] = k
    BY <1>0, <1>1, <1>2 DEF Handlers
  <2>3. ~late /\ mWork # <<>> => \A s \in stopped :
          /\ spc # "none" /\ posted[s] = {}
          /\ \A v \in Workers : job'[v] # None => At(v) # s
    BY <1>0, <1>2 DEF Handlers
  <2>4. ~late /\ mWork # <<>> => \A t \in pushed - mSize + 1 .. pushed :
          t \in ran => TaskService(t) \in stopped
    BY <1>0 DEF Handlers
  <2>5. \A v \in Workers : At(v)' = At(v)
    BY <1>1 DEF At, ServiceOf
  <2>6. QED
    BY <1>1, <2>1, <2>2, <2>3, <2>4, <2>5 DEF Handlers, TaskService, ServiceOf
<1>6. QED BY <1>3, <1>4, <1>5 DEF ServicesIInv

\* run() returns when its service has nothing to do: as long as Stop has not
\* begun the service has the work object of this very thread.
LEMMA RunReturnsServices ==
  ASSUME TypeOK, Users, ServicesIInv, user = "IOServicePool", user' = user,
         NEW w \in Workers, RunReturns(w)
  PROVE  ServicesIInv'
<1>0. ServiceTypes /\ Rounds /\ Handlers /\ StopDrainsServices
  BY DEF ServicesIInv
<1>1. /\ job[w] = None /\ (At(w) \in stopped \/ ~Busy(At(w)))
      /\ stopped' = stopped \cup {At(w)} /\ ran' = ran \cup {task[w]}
      /\ task' = [task EXCEPT ![w] = Empty] /\ wpc' = [wpc EXCEPT ![w] = "pop"]
      /\ UNCHANGED <<spc, pushed, due, late, mWork, mIOServices, mNextIOService,
                     posted, job, given, handled>>
  BY DEF RunReturns, Finish, poolVars, svcVars
<1>2. \A v \in Workers : v # w => wpc'[v] = wpc[v] /\ task'[v] = task[v]
  BY <1>1 DEF TypeOK
<1>3. \A v \in Workers : job[v] # None =>
        wpc'[v] = wpc[v] /\ task'[v] = task[v] /\ At(v)' = At(v)
  <2>1. \A v \in Workers :
          job[v] # None => wpc'[v] = wpc[v] /\ task'[v] = task[v]
    BY <1>1, <1>2
  <2>2. QED BY <2>1 DEF At, ServiceOf
<1>4. ServiceTypes' /\ StopDrainsServices'
  BY <1>0, <1>1 DEF ServiceTypes, StopDrainsServices
<1>5. Rounds'
  BY <1>0, <1>1 DEF Rounds
<1>6. ASSUME ~late, mWork # <<>>, NEW s \in stopped'
      PROVE  /\ spc # "none" /\ posted[s] = {}
             /\ \A v \in Workers : job[v] # None => At(v) # s
  <2>1. CASE s \in stopped
    BY <1>0, <1>6, <2>1 DEF Handlers
  <2>2. CASE s = At(w) /\ ~Busy(s)
    <3>1. /\ \A k \in DOMAIN mWork : mWork[k] # s
          /\ posted[s] = {}
          /\ \A v \in Workers : job[v] # None => At(v) # s
      BY <2>2 DEF Busy
    <3> DEFINE k == ((task[w] - 1) % mSize) + 1
    <3>2. k \in DOMAIN mWork
      <4>1. task[w] \in Int
        <5>1. task[w] \in Nat
          BY Sizes, Zenon DEF TypeOK
        <5>2. QED BY <5>1
      <4>2. QED BY <1>6, <4>1, WorkIndex DEF Users
    <3>3. At(w) = ServiceOf(k)
      BY DEF At
    <3> HIDE DEF k
    <3>4. spc # "none"
      BY <1>0, <2>2, <3>1, <3>2, <3>3 DEF Rounds
    <3>5. QED BY <3>1, <3>4
  <2>3. QED BY <1>1, <2>1, <2>2
<1>7. Handlers'
  <2>1. \A v \in Workers : job'[v] # None =>
          wpc'[v] = "run" /\ user' = "IOServicePool"
    BY <1>0, <1>1, <1>3 DEF Handlers
  <2>2. ~late => \A k \in given :
            \/ k \in handled \/ \E s \in Services : k \in posted[s]
            \/ \E v \in Workers : job[v] = k
    BY <1>0 DEF Handlers
  <2>3. ~late /\ mWork # <<>> => \A t \in pushed - mSize + 1 .. pushed :
          t \in ran' => TaskService(t) \in stopped'
    BY <1>0, <1>1 DEF Handlers, At, TaskService
  <2>4. QED
    BY <1>1, <1>3, <1>6, <2>1, <2>2, <2>3 DEF Handlers, TaskService, ServiceOf
<1>8. QED BY <1>4, <1>5, <1>7 DEF ServicesIInv

\* Every step keeps what is known of the services.
LEMMA ServicesStep ==
  ASSUME mNumIOServices <= mSize, ThreadInv, Users, ServicesIInv,
         [PoolNext]_allVars
  PROVE  ServicesIInv'
<1>0. TypeOK /\ Threads /\ OnePlace /\ Handlers
  BY DEF ThreadInv, ServicesIInv
<1>1. CASE user = "program" /\ UNCHANGED <<user, ioVars>>
  BY <1>1, ProgramKeeps
<1>2. CASE UNCHANGED allVars
  BY <1>2, QuietKeeps, Zenon DEF allVars, vars, poolVars, histVars
<1>3. CASE UNCHANGED <<user, ioVars>> /\ (StopPill \/ StopJoin \/ StopTimeout)
  <2>1. UNCHANGED <<pushed, ran, due, task>>
    BY <1>3 DEF StopPill, StopJoin, StopTimeout, histVars
  <2>2. (spc' = "none" <=> spc = "none") /\ (late => late')
    BY <1>3 DEF StopPill, StopJoin, StopTimeout, histVars
  <2>3. \A w \in Workers : wpc[w] = "run" => wpc'[w] = "run"
    BY <1>0, <1>3 DEF StopPill, StopJoin, StopTimeout, Push, WakeAll
  <2>4. \A w \in Workers :
          job[w] # None => wpc'[w] = wpc[w] /\ task'[w] = task[w]
    BY <1>0, <2>1, <2>3 DEF Handlers
  <2>5. QED BY <1>3, <2>1, <2>2, <2>4, QuietKeeps
<1>4. CASE /\ UNCHANGED <<user, ioVars>>
           /\ \E w \in Workers : Pop(w) \/ SpuriousWake(w)
  <2>1. PICK w \in Workers : Pop(w) \/ SpuriousWake(w)
    BY <1>4
  <2>2. UNCHANGED <<pushed, ran, due, spc, late>>
    BY <2>1 DEF Pop, SpuriousWake, poolVars, histVars
  <2>3. wpc[w] # "run"
    BY <2>1 DEF Pop, SpuriousWake
  <2>4. \A v \in Workers : v # w => wpc'[v] = wpc[v] /\ task'[v] = task[v]
    BY <1>0, <2>1 DEF Pop, SpuriousWake, TypeOK
  <2>5. \A v \in Workers :
          job[v] # None => wpc'[v] = wpc[v] /\ task'[v] = task[v]
    BY <1>0, <2>3, <2>4 DEF Handlers
  <2>6. QED BY <1>4, <2>2, <2>5, QuietKeeps
<1>5. CASE /\ user' = user /\ user = "IOServicePool"
           /\ PoolStart \/ PoolStop \/ (\E j \in Jobs : Post(j)) \/ PoolStopped
  BY <1>5, PoolStartServices, PoolStopServices, PostServices,
     PoolStoppedServices
<1>6. CASE /\ user' = user /\ user = "IOServicePool"
           /\ \E w \in Workers : \/ HandlerDone(w) \/ RunReturns(w)
                                 \/ \E j \in Jobs : RunOne(w, j)
  BY <1>0, <1>6, RunOneServices, HandlerDoneServices, RunReturnsServices
<1>7. CASE PoolNext
  <2>1. user \in {"program", "IOServicePool"}
    BY DEF Users
  <2>2. PoolStopStep => \/ user = "program" /\ UNCHANGED ioVars
                        \/ user = "IOServicePool" /\ PoolStopped
                        \/ (StopPill \/ StopJoin) /\ UNCHANGED ioVars
    BY <2>1 DEF PoolStopStep
  <2>3. \A w \in Workers : WorkerStep(w) =>
          \/ Pop(w) /\ UNCHANGED ioVars
          \/ user = "program" /\ UNCHANGED ioVars
          \/ /\ user = "IOServicePool"
             /\ HandlerDone(w) \/ RunReturns(w) \/ \E j \in Jobs : RunOne(w, j)
    BY DEF WorkerStep
  <2>4. QED
    BY <1>1, <1>3, <1>4, <1>5, <1>6, <1>7, <2>2, <2>3, Zenon DEF PoolNext
<1>8. QED BY <1>2, <1>7

\* No service, no handler, nothing posted.
LEMMA ServicesInitially ==
  ASSUME PoolInit
  PROVE  ServicesIInv
<1>1. /\ mWork = <<>> /\ mIOServices = {} /\ mNextIOService = 0 /\ stopped = {}
      /\ posted = [s \in Services |-> {}] /\ job = [w \in Workers |-> None]
      /\ given = {} /\ handled = {} /\ spc = "none" /\ pushed = 0
  BY DEF PoolInit, Init
<1>2. ServiceTypes /\ StopDrainsServices
  BY <1>1, ServiceNumbers DEF ServiceTypes, StopDrainsServices
<1>3. Rounds
  <2>1. DOMAIN mWork = {} /\ mSize * 0 = 0
    BY <1>1, Sizes
  <2>2. QED BY <1>1, <2>1 DEF Rounds
<1>4. Handlers
  BY <1>1 DEF Handlers
<1>5. QED BY <1>2, <1>3, <1>4 DEF ServicesIInv

\* IOServicePool, for any pool that has a thread for every service, as the
\* CHECK in its constructor says: when Stop returns and no join gave up, every
\* handler posted since Start has run, and no thread was inside a service that
\* Stop deletes.
THEOREM StopIsGraceful ==
  mNumIOServices <= mSize => (PoolSpec => []ServicesInv)
<1> SUFFICES ASSUME mNumIOServices <= mSize
             PROVE  PoolSpec => []ServicesInv
  OBVIOUS
<1>1. PoolInit => ThreadInv /\ Users /\ ServicesIInv
  BY ThreadInitially, ServicesInitially DEF PoolInit, Init, Users
<1>2. ThreadInv /\ Users /\ ServicesIInv /\ [PoolNext]_allVars =>
        (ThreadInv /\ Users /\ ServicesIInv)'
  BY ThreadStep, UsersStep, ServicesStep
<1>3. ThreadInv /\ Users /\ ServicesIInv => ServicesInv
  <2> SUFFICES ASSUME ThreadInv, Users, ServicesIInv
               PROVE  ServicesOutliveThreads
    BY DEF ServicesIInv, ServicesInv
  <2> SUFFICES ASSUME user = "IOServicePool", ~late, NEW w \in Workers,
                      wpc[w] = "run"
               PROVE  mIOServices = Services
    BY DEF ServicesOutliveThreads
  <2>1. TypeOK /\ Threads /\ Rounds /\ w \in Live
    BY DEF ThreadInv, ServicesIInv, Live
  <2>2. PICK k \in 1 .. Len(mThreads) : mThreads[k] = w
    BY <2>1 DEF Threads
  <2>3. mThreads # <<>>
    BY <2>2
  <2>4. QED BY <2>1, <2>3 DEF Users, Rounds
<1>4. QED BY <1>1, <1>2, <1>3, PTL DEF PoolSpec

=============================================================================
