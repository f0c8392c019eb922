---------------------------- MODULE ServerProofs ----------------------------
(***************************************************************************)
(* Proofs about Server, for any number of threads and connections.         *)
(***************************************************************************)
EXTENDS Server, FiniteSetTheorems, TLAPS

(***************************************************************************)
(* The inductive invariant                                                 *)
(***************************************************************************)
Threads == Closers \cup {Owner}

\* HandleAccept with stop_mutex_ shared, and what comes before.
Inside    == {"ha_span", "ha_table", "ha_listener", "ha_insert"}
Unspanned == {"ah_again", "ha_lock", "ha_span"}
Accepts   == Unspanned \cup Inside
\* ImplClosed
Closes    == {"ic_lock", "cc_lock", "ic_end"}
\* Stop with stop_mutex_ locked, and after.
StopLocked == {"s_table", "s_wait", "s_acceptors", "s_join"}
StopEnds   == {"s_timer", "s_check"}

Places ==
    {"idle", "gone", "ra_release", "s_lock"}
    \cup Accepts \cup Closes \cup StopLocked \cup StopEnds

\* TypeOK, and the types of the threads' state; the table is finite.
Types ==
    /\ TypeOK
    /\ pc \in [Threads -> Places]
    /\ arg \in [Threads -> Conns \cup {None}]
    /\ notified_ \in BOOLEAN /\ running \in BOOLEAN /\ accepting \in BOOLEAN
    /\ acceptPending \in BOOLEAN /\ failed \in BOOLEAN
    /\ listens \in Nat
    /\ IsFiniteSet(channel_table_)

\* stop_mutex_ is held as the positions of the threads say.
StopMutex ==
    /\ \A t \in Threads : t \in stopReaders <=> pc[t] \in Inside
    /\ pc[Owner] \in StopLocked <=> stopWriter = Owner
    /\ stopWriter = Owner => stopReaders = {}

\* A thread knows the connection it is at, and each socket is handled by one
\* thread until it is in the table; a connection of the table was spanned.
Handled ==
    /\ \A t \in Threads :
        /\ pc[t] \in Accepts => t \in IOThreads /\ arg[t] \in Conns
        /\ pc[t] \in Unspanned => conn[arg[t]] = "socket"
        /\ pc[t] \in Inside \ Unspanned => conn[arg[t]] \in {"open", "closing"}
        /\ pc[t] \in Accepts => arg[t] \notin channel_table_
        /\ pc[t] \in Closes => arg[t] \in Conns /\ conn[arg[t]] = "closing"
    /\ \A t, u \in Threads :
        pc[t] \in Accepts /\ pc[u] \in Accepts /\ arg[t] = arg[u] => t = u
    /\ \A c \in channel_table_ : conn[c] \in {"open", "closing"}

\* Stop has emptied the table before it leaves the pool, and nothing gets in
\* while the server does not run.
Emptied ==
    /\ pc[Owner] \in {"s_wait", "s_acceptors", "s_join"} => channel_table_ = {}
    /\ ~running => channel_table_ = {} /\ stopReaders = {}
    /\ pc[Owner] \in StopLocked => running
    /\ pc[Owner] \in StopEnds => ~running

\* In the first run there is one accept: pending, restarted by the thread that
\* handles it, or failed, and then its thread is the only one to release.
OneAccept ==
    /\ accepting <=> running /\ pc[Owner] # "s_join"
    /\ listens = 0 =>
        /\ ~running /\ ~acceptPending /\ released = 0
        /\ \A t \in Threads : pc[t] \notin {"ah_again", "ra_release"}
    /\ listens <= 1 =>
        /\ \A t \in Threads : pc[t] \in {"ah_again", "ra_release"} =>
            /\ ~acceptPending
            /\ \A u \in Threads : pc[u] \in {"ah_again", "ra_release"} => u = t
            /\ accepting /\ pc[t] = "ra_release" => failed
            /\ accepting => released = 0
        /\ accepting /\ acceptPending => released = 0
        /\ accepting => released <= IF failed THEN 1 ELSE 0

IInv ==
    /\ Types
    /\ CountIsTable /\ OpenIsKnown /\ ReleasedTwiceAfterError
    /\ StopMutex /\ Handled /\ Emptied /\ OneAccept

-----------------------------------------------------------------------------
(***************************************************************************)
(* Lemmas                                                                  *)
(***************************************************************************)

\* The owner is none of the threads that run handlers.
LEMMA ThreadsKnown ==
  /\ Owner \in Threads /\ IOThreads \subseteq Threads /\ Closers \subseteq Threads
  /\ IOThreads \subseteq Closers /\ Owner \notin IOThreads /\ Owner \notin Closers
  /\ None \notin Threads /\ None \notin Conns /\ Timer \in Closers
BY ServerAssumption DEF Threads, Closers

\* The state of threads and connections are functions.
LEMMA Funs ==
  ASSUME Types
  PROVE  /\ pc \in [Threads -> Places] /\ arg \in [Threads -> Conns \cup {None}]
         /\ conn \in [Conns -> {"new", "socket", "open", "closing", "deleted"}]
         /\ channel_table_ \subseteq Conns
BY DEF Types, TypeOK

-----------------------------------------------------------------------------
(***************************************************************************)
(* Every step keeps the parts of the invariant.                            *)
(***************************************************************************)

\* Who shares stop_mutex_, and who locked it.
LEMMA StopMutexStep ==
  ASSUME IInv, [Next]_vars
  PROVE  StopMutex'
<1>1. Types /\ CountIsTable /\ OpenIsKnown /\ ReleasedTwiceAfterError
      /\ StopMutex /\ Handled /\ Emptied /\ OneAccept
  BY DEF IInv
<1> USE <1>1, ThreadsKnown, Funs
    DEF StopMutex, Inside, StopLocked, Goto, Idle, lockVars
<1>2. CASE Listen
  BY <1>2 DEF Listen
<1>3. CASE Stop \/ WaitNotified \/ TimerStopped \/ Stopped
  BY <1>3 DEF Stop, WaitNotified, TimerStopped, Stopped
<1>4. CASE StopLock
  BY <1>4 DEF StopLock
<1>5. CASE DisconnectAll \/ ReleaseAcceptors
  BY <1>5 DEF DisconnectAll, ReleaseAcceptors
<1>6. CASE PoolStopped
  BY <1>6 DEF PoolStopped, Places
<1>7. ASSUME NEW t \in IOThreads, NEW c \in Conns, Accept(t, c)
      PROVE  StopMutex'
  BY <1>7 DEF Accept
<1>8. ASSUME NEW t \in IOThreads, AcceptAgain(t) \/ AcceptError(t) \/ ReleaseAcceptor(t)
      PROVE  StopMutex'
  BY <1>8 DEF AcceptAgain, AcceptError, ReleaseAcceptor
<1>9. ASSUME NEW t \in IOThreads, HandleAccept(t)
      PROVE  StopMutex'
  BY <1>9 DEF HandleAccept
<1>10. ASSUME NEW t \in IOThreads, Span(t) \/ LockTable(t) \/ RegisterListener(t)
      PROVE  StopMutex'
  BY <1>10 DEF Span, LockTable, RegisterListener
<1>11. ASSUME NEW t \in IOThreads, Insert(t)
      PROVE  StopMutex'
  BY <1>11 DEF Insert
<1>12. ASSUME NEW t \in IOThreads, Leave(t)
      PROVE  StopMutex'
  BY <1>12 DEF Leave
<1>13. ASSUME NEW t \in Closers, NEW c \in Conns, Closing(t, c)
      PROVE  StopMutex'
  BY <1>13 DEF Closing
<1>14. ASSUME NEW t \in Closers, ImplClosed(t) \/ ConnectionClosed(t) \/ ImplClosedEnd(t)
      PROVE  StopMutex'
  BY <1>14 DEF ImplClosed, ConnectionClosed, ImplClosedEnd
<1>15. CASE UNCHANGED vars
  BY <1>15 DEF vars, tableVars, lockVars, poolVars, accVars, connVars, histVars
<1>16. QED
  BY <1>2, <1>3, <1>4, <1>5, <1>6, <1>7, <1>8, <1>9, <1>10, <1>11, <1>12,
     <1>13, <1>14, <1>15 DEF Next, OwnerStep, IOStep, CloseStep

\* Each socket is handled by one thread.
LEMMA HandledStep ==
  ASSUME IInv, [Next]_vars
  PROVE  Handled'
<1>1. Types /\ CountIsTable /\ OpenIsKnown /\ ReleasedTwiceAfterError
      /\ StopMutex /\ Handled /\ Emptied /\ OneAccept
  BY DEF IInv
<1> USE <1>1, ThreadsKnown, Funs
    DEF Handled, Inside, Unspanned, Accepts, Closes, Goto, Idle, connVars,
        tableVars
<1>2. CASE Listen
  BY <1>2 DEF Listen
<1>3. CASE Stop \/ WaitNotified \/ TimerStopped \/ Stopped
  BY <1>3 DEF Stop, WaitNotified, TimerStopped, Stopped
<1>4. CASE StopLock \/ ReleaseAcceptors \/ PoolStopped
  BY <1>4 DEF StopLock, ReleaseAcceptors, PoolStopped
<1>5. CASE DisconnectAll
  BY <1>5 DEF DisconnectAll
<1>6. ASSUME NEW t \in IOThreads, NEW c \in Conns, Accept(t, c)
      PROVE  Handled'
  BY <1>6 DEF Accept
<1>7. ASSUME NEW t \in IOThreads, AcceptAgain(t) \/ AcceptError(t) \/ ReleaseAcceptor(t)
      PROVE  Handled'
  BY <1>7 DEF AcceptAgain, AcceptError, ReleaseAcceptor
<1>8. ASSUME NEW t \in IOThreads, HandleAccept(t)
      PROVE  Handled'
  BY <1>8 DEF HandleAccept
<1>9. ASSUME NEW t \in IOThreads, Span(t)
      PROVE  Handled'
  BY <1>9 DEF Span
<1>10. ASSUME NEW t \in IOThreads, LockTable(t) \/ RegisterListener(t)
      PROVE  Handled'
  BY <1>10 DEF LockTable, RegisterListener
<1>11. ASSUME NEW t \in IOThreads, Insert(t)
      PROVE  Handled'
  BY <1>11 DEF Insert
<1>12. ASSUME NEW t \in IOThreads, Leave(t)
      PROVE  Handled'
  BY <1>12 DEF Leave
<1>13. ASSUME NEW t \in Closers, NEW c \in Conns, Closing(t, c)
      PROVE  Handled'
  BY <1>13 DEF Closing
<1>14. ASSUME NEW t \in Closers, ImplClosed(t)
      PROVE  Handled'
  BY <1>14 DEF ImplClosed
<1>15. ASSUME NEW t \in Closers, ConnectionClosed(t)
      PROVE  Handled'
  BY <1>15 DEF ConnectionClosed
<1>16. ASSUME NEW t \in Closers, ImplClosedEnd(t)
      PROVE  Handled'
  BY <1>16 DEF ImplClosedEnd
<1>17. CASE UNCHANGED vars
  BY <1>17 DEF vars, tableVars, lockVars, poolVars, accVars, connVars, histVars
<1>18. QED
  BY <1>2, <1>3, <1>4, <1>5, <1>6, <1>7, <1>8, <1>9, <1>10, <1>11, <1>12,
     <1>13, <1>14, <1>15, <1>16, <1>17 DEF Next, OwnerStep, IOStep, CloseStep

\* A server that does not run has no connections.
LEMMA EmptiedStep ==
  ASSUME IInv, [Next]_vars
  PROVE  Emptied'
<1>1. Types /\ CountIsTable /\ OpenIsKnown /\ ReleasedTwiceAfterError
      /\ StopMutex /\ Handled /\ Emptied /\ OneAccept
  BY DEF IInv
<1> USE <1>1, ThreadsKnown, Funs
    DEF Emptied, StopLocked, StopEnds, Goto, Idle, tableVars, poolVars,
        lockVars
<1>2. CASE Listen
  BY <1>2 DEF Listen
<1>3. CASE Stop \/ WaitNotified \/ TimerStopped \/ Stopped
  BY <1>3 DEF Stop, WaitNotified, TimerStopped, Stopped
<1>4. CASE StopLock \/ ReleaseAcceptors
  BY <1>4 DEF StopLock, ReleaseAcceptors
<1>5. CASE PoolStopped
  BY <1>5 DEF PoolStopped, StopMutex
<1>6. CASE DisconnectAll
  BY <1>6 DEF DisconnectAll
<1>7. ASSUME NEW t \in IOThreads, NEW c \in Conns, Accept(t, c)
      PROVE  Emptied'
  BY <1>7 DEF Accept
<1>8. ASSUME NEW t \in IOThreads, AcceptAgain(t) \/ AcceptError(t) \/ ReleaseAcceptor(t)
      PROVE  Emptied'
  BY <1>8 DEF AcceptAgain, AcceptError, ReleaseAcceptor
<1>9. ASSUME NEW t \in IOThreads, HandleAccept(t)
      PROVE  Emptied'
  BY <1>9 DEF HandleAccept
<1>10. ASSUME NEW t \in IOThreads, Span(t) \/ LockTable(t) \/ RegisterListener(t)
      PROVE  Emptied'
  BY <1>10 DEF Span, LockTable, RegisterListener
<1>11. ASSUME NEW t \in IOThreads, Insert(t)
      PROVE  Emptied'
  BY <1>11 DEF Insert, StopMutex, Inside
<1>12. ASSUME NEW t \in IOThreads, Leave(t)
      PROVE  Emptied'
  BY <1>12 DEF Leave
<1>13. ASSUME NEW t \in Closers, NEW c \in Conns, Closing(t, c)
      PROVE  Emptied'
  BY <1>13 DEF Closing
<1>14. ASSUME NEW t \in Closers, ImplClosed(t) \/ ImplClosedEnd(t)
      PROVE  Emptied'
  BY <1>14 DEF ImplClosed, ImplClosedEnd
<1>15. ASSUME NEW t \in Closers, ConnectionClosed(t)
      PROVE  Emptied'
  BY <1>15 DEF ConnectionClosed
<1>16. CASE UNCHANGED vars
  BY <1>16 DEF vars, tableVars, lockVars, poolVars, accVars, connVars, histVars
<1>17. QED
  BY <1>2, <1>3, <1>4, <1>5, <1>6, <1>7, <1>8, <1>9, <1>10, <1>11, <1>12,
     <1>13, <1>14, <1>15, <1>16 DEF Next, OwnerStep, IOStep, CloseStep

\* An open connection is in the table, or about to be.
LEMMA OpenStep ==
  ASSUME IInv, [Next]_vars
  PROVE  OpenIsKnown'
<1>1. Types /\ CountIsTable /\ OpenIsKnown /\ ReleasedTwiceAfterError
      /\ StopMutex /\ Handled /\ Emptied /\ OneAccept
  BY DEF IInv
<1> USE <1>1, ThreadsKnown, Funs
    DEF OpenIsKnown, Goto, Idle, tableVars, connVars, lockVars
<1>2. CASE Listen
  BY <1>2 DEF Listen
<1>3. CASE Stop \/ WaitNotified \/ TimerStopped \/ Stopped
  BY <1>3 DEF Stop, WaitNotified, TimerStopped, Stopped
<1>4. CASE StopLock \/ ReleaseAcceptors \/ PoolStopped
  BY <1>4 DEF StopLock, ReleaseAcceptors, PoolStopped
<1>5. CASE DisconnectAll
  BY <1>5 DEF DisconnectAll, StopMutex, StopLocked
<1>6. ASSUME NEW t \in IOThreads, NEW c \in Conns, Accept(t, c)
      PROVE  OpenIsKnown'
  BY <1>6 DEF Accept, StopMutex, Inside
<1>7. ASSUME NEW t \in IOThreads, AcceptAgain(t)
      PROVE  OpenIsKnown'
  BY <1>7 DEF AcceptAgain
<1>8. ASSUME NEW t \in IOThreads, AcceptError(t)
      PROVE  OpenIsKnown'
  BY <1>8 DEF AcceptError
<1>9. ASSUME NEW t \in IOThreads, ReleaseAcceptor(t)
      PROVE  OpenIsKnown'
  BY <1>9 DEF ReleaseAcceptor, StopMutex, Inside
<1>10. ASSUME NEW t \in IOThreads, HandleAccept(t)
      PROVE  OpenIsKnown'
  <2>1. CASE running
    BY <1>10, <2>1 DEF HandleAccept
  <2>2. CASE ~running
    <3>1. t \notin stopReaders /\ arg[t] \in Conns
      BY <1>10 DEF HandleAccept, StopMutex, Inside, Handled, Accepts, Unspanned
    <3>2. /\ conn' = [conn EXCEPT ![arg[t]] = "deleted"]
          /\ arg' = [arg EXCEPT ![t] = None]
          /\ UNCHANGED <<channel_table_, timed, stopReaders>>
      BY <1>10, <2>2 DEF HandleAccept
    <3>3. QED BY <3>1, <3>2 DEF Types, TypeOK
  <2>3. QED BY <2>1, <2>2
<1>11. ASSUME NEW t \in IOThreads, Span(t)
      PROVE  OpenIsKnown'
  BY <1>11 DEF Span, StopMutex, Inside, Handled, Accepts, Unspanned
<1>12. ASSUME NEW t \in IOThreads, LockTable(t) \/ RegisterListener(t)
      PROVE  OpenIsKnown'
  BY <1>12 DEF LockTable, RegisterListener
<1>13. ASSUME NEW t \in IOThreads, Insert(t)
      PROVE  OpenIsKnown'
  BY <1>13 DEF Insert, StopMutex, Inside
<1>14. ASSUME NEW t \in IOThreads, Leave(t)
      PROVE  OpenIsKnown'
  BY <1>14 DEF Leave
<1>15. ASSUME NEW t \in Closers, NEW c \in Conns, Closing(t, c)
      PROVE  OpenIsKnown'
  BY <1>15 DEF Closing, StopMutex, Inside
<1>16. ASSUME NEW t \in Closers, ImplClosed(t)
      PROVE  OpenIsKnown'
  BY <1>16 DEF ImplClosed
<1>17. ASSUME NEW t \in Closers, ConnectionClosed(t)
      PROVE  OpenIsKnown'
  BY <1>17 DEF ConnectionClosed, Handled, Closes
<1>18. ASSUME NEW t \in Closers, ImplClosedEnd(t)
      PROVE  OpenIsKnown'
  BY <1>18 DEF ImplClosedEnd, StopMutex, Inside
<1>19. CASE UNCHANGED vars
  BY <1>19 DEF vars, tableVars, lockVars, poolVars, accVars, connVars, histVars
<1>20. QED
  BY <1>2, <1>3, <1>4, <1>5, <1>6, <1>7, <1>8, <1>9, <1>10, <1>11, <1>12,
     <1>13, <1>14, <1>15, <1>16, <1>17, <1>18, <1>19 DEF Next, OwnerStep,
     IOStep, CloseStep

\* The first run has one accept.
LEMMA AcceptStep ==
  ASSUME IInv, [Next]_vars
  PROVE  OneAccept'
<1>1. Types /\ CountIsTable /\ OpenIsKnown /\ ReleasedTwiceAfterError
      /\ StopMutex /\ Handled /\ Emptied /\ OneAccept
  BY DEF IInv
<1> USE <1>1, ThreadsKnown, Funs
    DEF OneAccept, Goto, Idle, Release, accVars, poolVars, histVars
<1>2. CASE Listen
  <2>1. /\ listens' = listens + 1 /\ listens \in Nat
        /\ running' /\ accepting' /\ released' = 0 /\ failed' = FALSE
    BY <1>2 DEF Listen, Types
  <2>2. /\ pc'[Owner] = "idle"
        /\ \A t \in Threads : pc'[t] \in {"ah_again", "ra_release"} => pc'[t] = pc[t]
    BY <1>2 DEF Listen
  <2>3. QED BY <2>1, <2>2
<1>3. CASE Stop \/ WaitNotified \/ TimerStopped \/ Stopped
  BY <1>3 DEF Stop, WaitNotified, TimerStopped, Stopped
<1>4. CASE StopLock
  BY <1>4 DEF StopLock
<1>5. CASE ReleaseAcceptors
  BY <1>5 DEF ReleaseAcceptors, Emptied, StopLocked
<1>6. CASE PoolStopped
  BY <1>6 DEF PoolStopped
<1>7. CASE DisconnectAll
  BY <1>7 DEF DisconnectAll, Emptied, StopLocked
<1>8. ASSUME NEW t \in IOThreads, NEW c \in Conns, Accept(t, c)
      PROVE  OneAccept'
  BY <1>8 DEF Accept, Types, TypeOK
<1>9. ASSUME NEW t \in IOThreads, AcceptAgain(t)
      PROVE  OneAccept'
  BY <1>9 DEF AcceptAgain, Types, TypeOK
<1>10. ASSUME NEW t \in IOThreads, AcceptError(t)
      PROVE  OneAccept'
  BY <1>10 DEF AcceptError, Types, TypeOK
<1>11. ASSUME NEW t \in IOThreads, ReleaseAcceptor(t)
      PROVE  OneAccept'
  BY <1>11 DEF ReleaseAcceptor, Types, TypeOK
<1>12. ASSUME NEW t \in IOThreads, HandleAccept(t)
      PROVE  OneAccept'
  BY <1>12 DEF HandleAccept
<1>13. ASSUME NEW t \in IOThreads, Span(t) \/ LockTable(t) \/ RegisterListener(t)
      PROVE  OneAccept'
  BY <1>13 DEF Span, LockTable, RegisterListener
<1>14. ASSUME NEW t \in IOThreads, Insert(t) \/ Leave(t)
      PROVE  OneAccept'
  BY <1>14 DEF Insert, Leave
<1>15. ASSUME NEW t \in Closers, NEW c \in Conns, Closing(t, c)
      PROVE  OneAccept'
  BY <1>15 DEF Closing
<1>16. ASSUME NEW t \in Closers, ImplClosed(t) \/ ConnectionClosed(t) \/ ImplClosedEnd(t)
      PROVE  OneAccept'
  BY <1>16 DEF ImplClosed, ConnectionClosed, ImplClosedEnd
<1>17. CASE UNCHANGED vars
  BY <1>17 DEF vars, tableVars, lockVars, poolVars, accVars, connVars, histVars
<1>18. QED
  BY <1>2, <1>3, <1>4, <1>5, <1>6, <1>7, <1>8, <1>9, <1>10, <1>11, <1>12,
     <1>13, <1>14, <1>15, <1>16, <1>17 DEF Next, OwnerStep, IOStep, CloseStep

\* The acceptor is released by Stop, and by the thread whose accept failed.
LEMMA ReleasedStep ==
  ASSUME IInv, [Next]_vars
  PROVE  ReleasedTwiceAfterError'
<1>1. Types /\ CountIsTable /\ OpenIsKnown /\ ReleasedTwiceAfterError
      /\ StopMutex /\ Handled /\ Emptied /\ OneAccept
  BY DEF IInv
<1> USE <1>1, ThreadsKnown, Funs
    DEF ReleasedTwiceAfterError, Release, accVars, histVars
<1>2. CASE Listen
  BY <1>2 DEF Listen
<1>3. CASE Stop \/ WaitNotified \/ TimerStopped \/ Stopped
  BY <1>3 DEF Stop, WaitNotified, TimerStopped, Stopped
<1>4. CASE StopLock \/ PoolStopped \/ DisconnectAll
  BY <1>4 DEF StopLock, PoolStopped, DisconnectAll
<1>5. CASE ReleaseAcceptors
  BY <1>5 DEF ReleaseAcceptors, OneAccept, Emptied, StopLocked, Types, TypeOK
<1>6. ASSUME NEW t \in IOThreads, NEW c \in Conns, Accept(t, c)
      PROVE  ReleasedTwiceAfterError'
  BY <1>6 DEF Accept
<1>7. ASSUME NEW t \in IOThreads, AcceptAgain(t)
      PROVE  ReleasedTwiceAfterError'
  BY <1>7 DEF AcceptAgain
<1>8. ASSUME NEW t \in IOThreads, AcceptError(t)
      PROVE  ReleasedTwiceAfterError'
  BY <1>8 DEF AcceptError, Types, TypeOK
<1>9. ASSUME NEW t \in IOThreads, ReleaseAcceptor(t)
      PROVE  ReleasedTwiceAfterError'
  BY <1>9 DEF ReleaseAcceptor, OneAccept, Types, TypeOK
<1>10. ASSUME NEW t \in IOThreads, HandleAccept(t) \/ Span(t) \/ LockTable(t)
      PROVE  ReleasedTwiceAfterError'
  BY <1>10 DEF HandleAccept, Span, LockTable
<1>11. ASSUME NEW t \in IOThreads, RegisterListener(t) \/ Insert(t) \/ Leave(t)
      PROVE  ReleasedTwiceAfterError'
  BY <1>11 DEF RegisterListener, Insert, Leave
<1>12. ASSUME NEW t \in Closers, NEW c \in Conns, Closing(t, c)
      PROVE  ReleasedTwiceAfterError'
  BY <1>12 DEF Closing
<1>13. ASSUME NEW t \in Closers, ImplClosed(t) \/ ConnectionClosed(t) \/ ImplClosedEnd(t)
      PROVE  ReleasedTwiceAfterError'
  BY <1>13 DEF ImplClosed, ConnectionClosed, ImplClosedEnd
<1>14. CASE UNCHANGED vars
  BY <1>14 DEF vars, tableVars, lockVars, poolVars, accVars, connVars, histVars
<1>15. QED
  BY <1>2, <1>3, <1>4, <1>5, <1>6, <1>7, <1>8, <1>9, <1>10, <1>11, <1>12,
     <1>13, <1>14 DEF Next, OwnerStep, IOStep, CloseStep

\* Accepting, ConnectionClosed and Stop agree on the count.
LEMMA CountStep ==
  ASSUME IInv, [Next]_vars
  PROVE  CountIsTable'
<1>1. Types /\ CountIsTable /\ OpenIsKnown /\ ReleasedTwiceAfterError
      /\ StopMutex /\ Handled /\ Emptied /\ OneAccept
  BY DEF IInv
<1> USE <1>1, ThreadsKnown, Funs
    DEF CountIsTable, tableVars
<1>2. CASE Listen
  BY <1>2 DEF Listen
<1>3. CASE Stop \/ WaitNotified \/ TimerStopped \/ Stopped
  BY <1>3 DEF Stop, WaitNotified, TimerStopped, Stopped
<1>4. CASE StopLock \/ PoolStopped \/ ReleaseAcceptors
  BY <1>4 DEF StopLock, PoolStopped, ReleaseAcceptors
<1>5. CASE DisconnectAll
  <2>1. Cardinality(channel_table_) \in Nat
    BY FS_CardinalityType DEF Types
  <2>2. Cardinality({}) = 0
    BY FS_EmptySet
  <2>3. channel_table_' = {} /\ Dec(Cardinality(channel_table_) + 1)
    BY <1>5 DEF DisconnectAll
  <2>4. count_' = 0
    BY <2>1, <2>3 DEF Dec, Types, TypeOK
  <2>5. notified_' = TRUE
    BY <2>3, <2>4 DEF Dec, Types
  <2>6. QED BY <2>2, <2>3, <2>4, <2>5
<1>6. ASSUME NEW t \in IOThreads, NEW c \in Conns, Accept(t, c)
      PROVE  CountIsTable'
  BY <1>6 DEF Accept
<1>7. ASSUME NEW t \in IOThreads, AcceptAgain(t) \/ AcceptError(t) \/ ReleaseAcceptor(t)
      PROVE  CountIsTable'
  BY <1>7 DEF AcceptAgain, AcceptError, ReleaseAcceptor
<1>8. ASSUME NEW t \in IOThreads, HandleAccept(t) \/ Span(t) \/ LockTable(t)
      PROVE  CountIsTable'
  BY <1>8 DEF HandleAccept, Span, LockTable
<1>9. ASSUME NEW t \in IOThreads, RegisterListener(t) \/ Leave(t)
      PROVE  CountIsTable'
  BY <1>9 DEF RegisterListener, Leave
<1>10. ASSUME NEW t \in IOThreads, Insert(t)
      PROVE  CountIsTable'
  <2>1. IsFiniteSet(channel_table_) /\ arg[t] \notin channel_table_
    BY <1>10 DEF Insert, Types, Handled, Accepts, Inside
  <2>2. Cardinality(channel_table_ \cup {arg[t]}) =
           Cardinality(channel_table_) + 1
    BY <2>1, FS_AddElement
  <2>3. Cardinality(channel_table_) \in Nat
    BY <2>1, FS_CardinalityType
  <2>4. QED BY <1>10, <2>2, <2>3 DEF Insert, Inc
<1>11. ASSUME NEW t \in Closers, NEW c \in Conns, Closing(t, c)
      PROVE  CountIsTable'
  BY <1>11 DEF Closing
<1>12. ASSUME NEW t \in Closers, ImplClosed(t) \/ ImplClosedEnd(t)
      PROVE  CountIsTable'
  BY <1>12 DEF ImplClosed, ImplClosedEnd
<1>13. ASSUME NEW t \in Closers, ConnectionClosed(t)
      PROVE  CountIsTable'
  <2>1. CASE arg[t] \notin channel_table_
    BY <1>13, <2>1 DEF ConnectionClosed
  <2>2. CASE arg[t] \in channel_table_
    <3>1. IsFiniteSet(channel_table_)
      BY DEF Types
    <3>2. Cardinality(channel_table_ \ {arg[t]}) =
             Cardinality(channel_table_) - 1
      BY <2>2, <3>1, FS_RemoveElement
    <3>3. /\ Cardinality(channel_table_) \in Nat
          /\ Cardinality(channel_table_ \ {arg[t]}) \in Nat
      BY <3>1, FS_CardinalityType, FS_RemoveElement
    <3>4. channel_table_' = channel_table_ \ {arg[t]} /\ Dec(1)
      BY <1>13, <2>2 DEF ConnectionClosed
    <3>5. count_' = count_ - 1 /\ (notified_' <=> notified_)
      <4>1. Cardinality(channel_table_) >= 1
        BY <3>2, <3>3
      <4>2. count_ \in Nat /\ count_ >= 1
        BY <3>3, <4>1 DEF Types, TypeOK
      <4>3. count_' = count_ - 1
        BY <3>4, <4>2 DEF Dec
      <4>4. ~notified_ => count_' # 0
        BY <3>3, <4>1, <4>3
      <4>5. QED BY <3>4, <4>3, <4>4 DEF Dec
    <3>6. QED BY <3>2, <3>3, <3>4, <3>5 DEF Types, TypeOK
  <2>3. QED BY <2>1, <2>2
<1>14. CASE UNCHANGED vars
  BY <1>14 DEF vars, tableVars, lockVars, poolVars, accVars, connVars, histVars
<1>15. QED
  BY <1>2, <1>3, <1>4, <1>5, <1>6, <1>7, <1>8, <1>9, <1>10, <1>11, <1>12,
     <1>13, <1>14 DEF Next, OwnerStep, IOStep, CloseStep

\* Everything keeps its type.
LEMMA TypesStep ==
  ASSUME IInv, [Next]_vars
  PROVE  Types'
<1>1. Types /\ CountIsTable /\ OpenIsKnown /\ ReleasedTwiceAfterError
      /\ StopMutex /\ Handled /\ Emptied /\ OneAccept
  BY DEF IInv
<1> USE <1>1, ThreadsKnown, Funs, ServerAssumption
    DEF Types, TypeOK, Goto, Idle, Release, Inc, Dec, Places, Accepts, Inside,
        Unspanned, Closes, StopLocked, StopEnds, lockVars, tableVars, poolVars,
        accVars, connVars, histVars
<1>2. CASE Listen
  <2>1. pc' \in [Threads -> Places]
    BY <1>2 DEF Listen
  <2>2. /\ running' = TRUE /\ accepting' = TRUE /\ failed' = FALSE
        /\ acceptPending' = TRUE /\ released' = 0 /\ listens' = listens + 1
    BY <1>2 DEF Listen
  <2>3. UNCHANGED <<tableVars, lockVars, connVars, arg>>
    BY <1>2 DEF Listen
  <2> HIDE DEF Places
  <2>4. TypeOK'
    BY <2>2, <2>3
  <2>5. listens' \in Nat
    BY <2>2
  <2> HIDE DEF TypeOK
  <2>6. QED BY <2>1, <2>2, <2>3, <2>4, <2>5
<1>3. CASE Stop \/ WaitNotified \/ TimerStopped \/ Stopped
  BY <1>3 DEF Stop, WaitNotified, TimerStopped, Stopped
<1>4. CASE StopLock
  BY <1>4 DEF StopLock
<1>5. CASE PoolStopped
  BY <1>5 DEF PoolStopped
<1>6. CASE ReleaseAcceptors
  <2>1. pc' \in [Threads -> Places] /\ released' \in Nat
    BY <1>6 DEF ReleaseAcceptors
  <2>2. QED BY <1>6, <2>1 DEF ReleaseAcceptors
<1>7. CASE DisconnectAll
  BY <1>7, FS_EmptySet, FS_CardinalityType DEF DisconnectAll
<1>8. ASSUME NEW t \in IOThreads, NEW c \in Conns, Accept(t, c)
      PROVE  Types'
  BY <1>8 DEF Accept
<1>9. ASSUME NEW t \in IOThreads, AcceptAgain(t)
      PROVE  Types'
  BY <1>9 DEF AcceptAgain
<1>10. ASSUME NEW t \in IOThreads, AcceptError(t)
      PROVE  Types'
  BY <1>10 DEF AcceptError
<1>11. ASSUME NEW t \in IOThreads, ReleaseAcceptor(t)
      PROVE  Types'
  BY <1>11 DEF ReleaseAcceptor
<1>12. ASSUME NEW t \in IOThreads, HandleAccept(t)
      PROVE  Types'
  BY <1>12 DEF HandleAccept, Handled
<1>13. ASSUME NEW t \in IOThreads, Span(t)
      PROVE  Types'
  BY <1>13 DEF Span
<1>14. ASSUME NEW t \in IOThreads, LockTable(t)
      PROVE  Types'
  BY <1>14 DEF LockTable
<1>15. ASSUME NEW t \in IOThreads, RegisterListener(t)
      PROVE  Types'
  BY <1>15 DEF RegisterListener
<1>16. ASSUME NEW t \in IOThreads, Insert(t)
      PROVE  Types'
  BY <1>16, FS_AddElement DEF Insert, Handled
<1>17. ASSUME NEW t \in IOThreads, Leave(t)
      PROVE  Types'
  BY <1>17 DEF Leave
<1>18. ASSUME NEW t \in Closers, NEW c \in Conns, Closing(t, c)
      PROVE  Types'
  BY <1>18 DEF Closing
<1>19. ASSUME NEW t \in Closers, ImplClosed(t)
      PROVE  Types'
  BY <1>19 DEF ImplClosed, Handled
<1>20. ASSUME NEW t \in Closers, ConnectionClosed(t)
      PROVE  Types'
  <2>1. pc' \in [Threads -> Places]
    BY <1>20 DEF ConnectionClosed
  <2>2. count_' \in Nat
    BY <1>20 DEF ConnectionClosed
  <2>3. notified_' \in BOOLEAN
    BY <1>20, Zenon DEF ConnectionClosed
  <2>4. channel_table_' \subseteq Conns /\ IsFiniteSet(channel_table_')
    BY <1>20, FS_RemoveElement DEF ConnectionClosed
  <2>5. QED BY <1>20, <2>1, <2>2, <2>3, <2>4 DEF ConnectionClosed
<1>21. ASSUME NEW t \in Closers, ImplClosedEnd(t)
      PROVE  Types'
  BY <1>21 DEF ImplClosedEnd, Handled
<1>22. CASE UNCHANGED vars
  BY <1>22 DEF vars, tableVars, lockVars, poolVars, accVars, connVars, histVars
<1>23. QED
  BY <1>2, <1>3, <1>4, <1>5, <1>6, <1>7, <1>8, <1>9, <1>10, <1>11, <1>12,
     <1>13, <1>14, <1>15, <1>16, <1>17, <1>18, <1>19, <1>20, <1>21, <1>22 DEF
     Next, OwnerStep, IOStep, CloseStep

-----------------------------------------------------------------------------
(***************************************************************************)
(* The theorems                                                            *)
(***************************************************************************)

\* The invariant holds of a server that nobody started.
LEMMA Initially ==
  ASSUME Init
  PROVE  IInv
<1> USE ThreadsKnown
<1>1. IsFiniteSet(channel_table_) /\ Cardinality(channel_table_) = 0
  BY FS_EmptySet DEF Init
<1>2. pc \in [Threads -> Places] /\ arg \in [Threads -> Conns \cup {None}]
  BY DEF Init, Threads, Places
<1>3. TypeOK
  BY DEF Init, TypeOK
<1>4. Types
  BY <1>1, <1>2, <1>3 DEF Init, Types
<1>5. CountIsTable /\ OpenIsKnown /\ ReleasedTwiceAfterError
  BY <1>1 DEF Init, CountIsTable, OpenIsKnown, ReleasedTwiceAfterError
<1>6. \A t \in Threads : pc[t] \in {"idle", "gone"}
  BY DEF Init, Threads
<1>7. StopMutex /\ Handled
  BY <1>6, ServerAssumption DEF Init, StopMutex, Handled, Inside, Unspanned, Accepts,
     Closes, StopLocked
<1>8. Emptied /\ OneAccept
  BY <1>6 DEF Init, Emptied, OneAccept, StopLocked, StopEnds
<1>9. QED BY <1>4, <1>5, <1>7, <1>8 DEF IInv

\* Whoever accepts, closes and stops, on however many threads: the count is
\* that of the table, every open connection is in the table or about to be,
\* Stop leaves none open, and the first acceptor is released twice at most,
\* and then only after an error.
THEOREM ServerIsSafe == Spec => []ServerInv
<1>1. Init => IInv
  BY Initially
<1>2. IInv /\ [Next]_vars => IInv'
  BY TypesStep, CountStep, OpenStep, ReleasedStep, StopMutexStep, HandledStep,
     EmptiedStep, AcceptStep DEF IInv
<1>3. IInv => ServerInv
  <2> SUFFICES ASSUME IInv PROVE StopClosesAll
    BY DEF IInv, ServerInv, Types
  <2>1. pc[Owner] = "s_check" => channel_table_ = {}
    BY DEF IInv, Emptied, StopEnds
  <2>2. ASSUME ~running
        PROVE  \A c \in Conns : conn[c] # "open"
    BY <2>2 DEF IInv, Emptied, OpenIsKnown
  <2>3. QED BY <2>1, <2>2 DEF StopClosesAll
<1>4. QED BY <1>1, <1>2, <1>3, PTL DEF Spec
=============================================================================
