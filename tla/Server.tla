------------------------------- MODULE Server -------------------------------
(***************************************************************************)
(* The server of src/server/network/Server.{hpp,cpp}: it accepts sockets,  *)
(* keeps the connections made of them in a table, forgets a connection     *)
(* when it is told that it closed, and closes all of them in Stop.         *)
(*                                                                         *)
(* Accepting, closing and stopping happen on different threads, under four *)
(* mutexes: stop_mutex_ (shared by those who accept), the mutex of the     *)
(* table, that of the acceptors and the one of a connection's listeners.   *)
(* The connection is the one of module RawConnection, reduced to "open"    *)
(* and "closing"; its asynchronous Disconnect ends in ImplClosed, the      *)
(* synchronous one, which Stop calls, does not.  The IOServicePool is      *)
(* reduced to whether its threads still run handlers.  One address is      *)
(* listened on.                                                            *)
(***************************************************************************)
EXTENDS Integers, FiniteSets

CONSTANTS
    IOThreads,      \* the threads of the IOServicePool
    Timer,          \* the thread of the TimerMaster
    Owner,          \* the thread that calls Listen and Stop
    None,
    Conns,          \* the connections that peers open
    AcceptErrors,   \* may accept fail while the acceptor is open
    MaxListens      \* bound: calls of Listen

Closers == IOThreads \cup {Timer}

ASSUME ServerAssumption ==
    /\ Timer \notin IOThreads /\ Owner \notin Closers /\ None \notin Conns
    /\ None \notin Closers \cup {Owner}
    /\ AcceptErrors \in BOOLEAN /\ MaxListens \in Nat

VARIABLES
    \* Server: channel_table_, count_ and notified_ of its Notifier, the
    \* timers it registered, whether acceptor_table_ has the acceptor
    channel_table_, count_, notified_, timed, accepting,
    \* the mutexes: who shares stop_mutex_, who has it, who has the others
    stopReaders, stopWriter, tableMutex, listenerMutex,
    \* IOServicePool: mWork is not empty, the work objects are there, the
    \* io_services are there
    running, work, services,
    \* the acceptor: times it was released in this run, a pending accept
    released, acceptPending,
    \* connections: state, a listener is registered
    conn, listener,
    \* threads: where each one is, the connection it is at
    pc, arg,
    \* history: connections closed before the server was their listener,
    \* the acceptor was used after its release, an accept failed in this run,
    \* calls of Listen
    missed, misused, failed, listens

tableVars == <<channel_table_, count_, notified_, timed>>
lockVars  == <<stopReaders, stopWriter, tableMutex, listenerMutex>>
poolVars  == <<running, work, services>>
accVars   == <<accepting, released, acceptPending, misused, failed>>
connVars  == <<conn, listener>>
histVars  == <<missed, listens>>
vars == <<tableVars, lockVars, poolVars, accVars, connVars, pc, arg, histVars>>

Goto(t, l) == pc' = [pc EXCEPT ![t] = l]

\* The end of a handler.
Idle(t) == Goto(t, "idle") /\ arg' = [arg EXCEPT ![t] = None]

\* Notifier::Dec( 1 ) n times, and Inc( 1 )
Dec(n) ==
    /\ count_' = IF count_ >= n THEN count_ - n ELSE 0
    /\ notified_' = (notified_ \/ count_' = 0)
Inc == count_' = count_ + 1 /\ UNCHANGED notified_

\* AcceptorResource::Release closes and deletes the acceptor and its socket.
Release == released' = released + 1

-----------------------------------------------------------------------------
(* Listen                                                                  *)

Listen ==
    /\ pc[Owner] = "idle" /\ ~running
    /\ listens < MaxListens /\ listens' = listens + 1
    /\ running' = TRUE /\ work' = TRUE /\ services' = TRUE
    /\ accepting' = TRUE /\ released' = 0 /\ acceptPending' = TRUE
    /\ failed' = FALSE
    /\ pc' = [t \in DOMAIN pc |->
                IF t \in IOThreads /\ pc[t] = "gone" THEN "idle" ELSE pc[t]]
    /\ UNCHANGED <<tableVars, lockVars, connVars, arg, missed, misused>>

-----------------------------------------------------------------------------
(* AcceptorHandler and HandleAccept, on a thread of the pool               *)

\* A socket was accepted: the handler is called without an error.
Accept(t, c) ==
    /\ pc[t] = "idle" /\ acceptPending /\ released = 0 /\ conn[c] = "new"
    /\ acceptPending' = FALSE
    /\ conn' = [conn EXCEPT ![c] = "socket"]
    /\ arg' = [arg EXCEPT ![t] = c]
    /\ Goto(t, "ah_again")
    /\ UNCHANGED <<tableVars, lockVars, poolVars, accepting, released, misused,
                   failed, listener, histVars>>

\* acceptor_->async_accept, into a new socket.
AcceptAgain(t) ==
    /\ pc[t] = "ah_again"
    /\ misused' = (misused \/ released > 0)
    /\ acceptPending' = TRUE
    /\ Goto(t, "ha_lock")
    /\ UNCHANGED <<tableVars, lockVars, poolVars, accepting, released, failed,
                   connVars, arg, histVars>>

\* The handler is called with an error: the acceptor was closed, or the
\* system could not accept.
AcceptError(t) ==
    /\ pc[t] = "idle" /\ acceptPending
    /\ released > 0 \/ AcceptErrors
    /\ acceptPending' = FALSE
    /\ failed' = (failed \/ released = 0)
    /\ Goto(t, "ra_release")
    /\ UNCHANGED <<tableVars, lockVars, poolVars, accepting, released, misused,
                   connVars, arg, histVars>>

\* The acceptor is released, and stays in acceptor_table_.
ReleaseAcceptor(t) ==
    /\ pc[t] = "ra_release"
    /\ IF accepting THEN Release ELSE UNCHANGED released
    /\ Idle(t)
    /\ UNCHANGED <<tableVars, lockVars, poolVars, accepting, acceptPending,
                   misused, failed, connVars, histVars>>

\* Mutant: IsRunning is not asked.
HandleAcceptUnchecked(t) ==
    /\ pc[t] = "ha_lock" /\ stopWriter = None
    /\ Goto(t, "ha_span")
    /\ stopReaders' = stopReaders \cup {t}
    /\ UNCHANGED <<conn, arg, stopWriter, tableMutex, listenerMutex, tableVars,
                   poolVars, accVars, listener, histVars>>

\* HandleAccept takes stop_mutex_; a server that stopped deletes the socket.
HandleAccept(t) ==
    /\ pc[t] = "ha_lock" /\ stopWriter = None
    /\ IF running
       THEN /\ Goto(t, "ha_span")
            /\ stopReaders' = stopReaders \cup {t}
            /\ UNCHANGED <<conn, arg>>
       ELSE /\ conn' = [conn EXCEPT ![arg[t]] = "deleted"]
            /\ Idle(t)
            /\ UNCHANGED stopReaders
    /\ UNCHANGED <<stopWriter, tableMutex, listenerMutex, tableVars, poolVars,
                   accVars, listener, histVars>>

\* connection_template->Span( socket ): from here on the connection may
\* receive, send and close.
Span(t) ==
    /\ pc[t] = "ha_span"
    /\ conn' = [conn EXCEPT ![arg[t]] = "open"]
    /\ Goto(t, "ha_table")
    /\ UNCHANGED <<tableVars, lockVars, poolVars, accVars, listener,
                   arg, histVars>>

LockTable(t) ==
    /\ pc[t] = "ha_table" /\ tableMutex = None
    /\ tableMutex' = t
    /\ Goto(t, "ha_listener")
    /\ UNCHANGED <<stopReaders, stopWriter, listenerMutex, tableVars, poolVars,
                   accVars, connVars, arg, histVars>>

\* RegisterAsyncCloseListener, which never fails.
RegisterListener(t) ==
    /\ pc[t] = "ha_listener" /\ listenerMutex[arg[t]] = None
    /\ listener' = [listener EXCEPT ![arg[t]] = TRUE]
    /\ Goto(t, "ha_insert")
    /\ UNCHANGED <<tableVars, lockVars, poolVars, accVars, conn, arg,
                   histVars>>

\* Mutant: stop_mutex_ stays locked.
InsertLocked(t) ==
    /\ pc[t] = "ha_insert"
    /\ channel_table_' = channel_table_ \cup {arg[t]}
    /\ timed' = timed \cup {arg[t]}
    /\ Inc
    /\ tableMutex' = None
    /\ Idle(t)
    /\ UNCHANGED <<stopReaders, stopWriter, listenerMutex, poolVars, accVars,
                   connVars, histVars>>

\* The rest of HandleAccept, with the unlocks.
Insert(t) ==
    /\ pc[t] = "ha_insert"
    /\ channel_table_' = channel_table_ \cup {arg[t]}
    /\ timed' = timed \cup {arg[t]}
    /\ Inc
    /\ tableMutex' = None
    /\ stopReaders' = stopReaders \ {t}
    /\ Idle(t)
    /\ UNCHANGED <<stopWriter, listenerMutex, poolVars, accVars, connVars,
                   histVars>>

-----------------------------------------------------------------------------
(* A connection closes by itself: RawConnection::Disconnect( status, true) *)
(* on a thread of the pool after an error, or on the timer thread.         *)

\* SetClosing
Closing(t, c) ==
    /\ pc[t] = "idle" /\ conn[c] = "open"
    /\ t = Timer => c \in timed
    /\ conn' = [conn EXCEPT ![c] = "closing"]
    /\ arg' = [arg EXCEPT ![t] = c]
    /\ Goto(t, "ic_lock")
    /\ UNCHANGED <<tableVars, lockVars, poolVars, accVars, listener,
                   histVars>>

\* ImplClosed takes the mutex of the listeners and calls them.
ImplClosed(t) ==
    /\ pc[t] = "ic_lock" /\ listenerMutex[arg[t]] = None
    /\ listenerMutex' = [listenerMutex EXCEPT ![arg[t]] = t]
    /\ IF listener[arg[t]]
       THEN Goto(t, "cc_lock") /\ UNCHANGED missed
       ELSE Goto(t, "ic_end") /\ missed' = missed \cup {arg[t]}
    /\ UNCHANGED <<tableVars, stopReaders, stopWriter, tableMutex, poolVars,
                   accVars, connVars, arg, listens>>

\* Mutant: the table keeps the connection.
ConnectionClosedKeeps(t) ==
    /\ pc[t] = "cc_lock" /\ tableMutex = None
    /\ IF arg[t] \in channel_table_
       THEN Dec(1)
       ELSE UNCHANGED <<count_, notified_>>
    /\ Goto(t, "ic_end")
    /\ UNCHANGED <<channel_table_, timed, lockVars, poolVars, accVars,
                   connVars, arg, histVars>>

\* Server::ConnectionClosed
ConnectionClosed(t) ==
    /\ pc[t] = "cc_lock" /\ tableMutex = None
    /\ IF arg[t] \in channel_table_
       THEN channel_table_' = channel_table_ \ {arg[t]} /\ Dec(1)
       ELSE UNCHANGED <<channel_table_, count_, notified_>>
    /\ Goto(t, "ic_end")
    /\ UNCHANGED <<timed, lockVars, poolVars, accVars, connVars, arg, histVars>>

\* mListeners.clear(), and the end of ImplClosed.
ImplClosedEnd(t) ==
    /\ pc[t] = "ic_end"
    /\ listener' = [listener EXCEPT ![arg[t]] = FALSE]
    /\ listenerMutex' = [listenerMutex EXCEPT ![arg[t]] = None]
    /\ Idle(t)
    /\ UNCHANGED <<tableVars, stopReaders, stopWriter, tableMutex, poolVars,
                   accVars, conn, histVars>>

-----------------------------------------------------------------------------
(* Stop                                                                    *)

Stop ==
    /\ pc[Owner] = "idle"
    /\ Goto(Owner, "s_lock")
    /\ UNCHANGED <<tableVars, lockVars, poolVars, accVars, connVars, arg,
                   histVars>>

\* stop_mutex_.lock(); a server that does not run is left alone.
StopLock ==
    /\ pc[Owner] = "s_lock" /\ stopReaders = {}
    /\ IF running
       THEN stopWriter' = Owner /\ Goto(Owner, "s_table")
       ELSE UNCHANGED stopWriter /\ Goto(Owner, "idle")
    /\ UNCHANGED <<stopReaders, tableMutex, listenerMutex, tableVars, poolVars,
                   accVars, connVars, arg, histVars>>

\* Every connection of the table is disconnected, without ImplClosed, and
\* taken off the count; the last Dec is for the server itself.  Nothing here
\* waits for another thread for ever: the mutex of the table keeps the
\* others out meanwhile.
DisconnectAll ==
    /\ pc[Owner] = "s_table" /\ tableMutex = None
    /\ conn' = [c \in Conns |->
                  IF c \in channel_table_ THEN "closing" ELSE conn[c]]
    /\ Dec(Cardinality(channel_table_) + 1)
    /\ channel_table_' = {}
    /\ Goto(Owner, "s_wait")
    /\ UNCHANGED <<timed, lockVars, poolVars, accVars, listener, arg,
                   missed, listens>>

\* notifier_->Wait(), which returns whether it was notified or not: what
\* it returns is not looked at.
WaitNotified ==
    /\ pc[Owner] = "s_wait"
    /\ Goto(Owner, "s_acceptors")
    /\ UNCHANGED <<tableVars, lockVars, poolVars, accVars, connVars, arg,
                   histVars>>

ReleaseAcceptors ==
    /\ pc[Owner] = "s_acceptors"
    /\ Release
    /\ accepting' = FALSE
    /\ work' = FALSE                    \* io_service_pool_.Stop begins
    /\ Goto(Owner, "s_join")
    /\ UNCHANGED <<tableVars, lockVars, running, services, acceptPending,
                   misused, failed, connVars, arg, histVars>>

\* A thread with nothing left to do returns from run().
Leave(t) ==
    /\ pc[t] = "idle" /\ ~work /\ ~acceptPending
    /\ Goto(t, "gone")
    /\ UNCHANGED <<tableVars, lockVars, poolVars, accVars, connVars, arg,
                   histVars>>

\* The pool has joined its threads, or gave up on those that wait for
\* stop_mutex_; it destroys the io_services.
PoolStopped ==
    /\ pc[Owner] = "s_join"
    /\ \A t \in IOThreads : pc[t] \in {"gone", "ha_lock"}
    /\ running' = FALSE /\ services' = FALSE
    /\ stopWriter' = None
    /\ Goto(Owner, "s_timer")
    /\ UNCHANGED <<stopReaders, tableMutex, listenerMutex, tableVars, work,
                   accVars, connVars, arg, histVars>>

\* timer_master_.Stop() joins the timer thread.
TimerStopped ==
    /\ pc[Owner] = "s_timer" /\ pc[Timer] = "idle"
    /\ Goto(Owner, "s_check")
    /\ UNCHANGED <<tableVars, lockVars, poolVars, accVars, connVars, arg,
                   histVars>>

Stopped ==
    /\ pc[Owner] = "s_check"
    /\ Goto(Owner, "idle")
    /\ UNCHANGED <<tableVars, lockVars, poolVars, accVars, connVars, arg,
                   histVars>>

-----------------------------------------------------------------------------
Init ==
    /\ channel_table_ = {} /\ timed = {}
    /\ count_ = 1 /\ notified_ = FALSE
    /\ stopReaders = {} /\ stopWriter = None /\ tableMutex = None
    /\ listenerMutex = [c \in Conns |-> None]
    /\ running = FALSE /\ work = FALSE /\ services = FALSE
    /\ accepting = FALSE /\ released = 0 /\ acceptPending = FALSE
    /\ misused = FALSE /\ failed = FALSE
    /\ conn = [c \in Conns |-> "new"]
    /\ listener = [c \in Conns |-> FALSE]
    /\ pc = [t \in Closers \cup {Owner} |->
               IF t \in IOThreads THEN "gone" ELSE "idle"]
    /\ arg = [t \in Closers \cup {Owner} |-> None]
    /\ missed = {} /\ listens = 0

OwnerStep ==
    \/ StopLock \/ DisconnectAll \/ WaitNotified \/ ReleaseAcceptors
    \/ PoolStopped \/ TimerStopped \/ Stopped

IOStep(t) ==
    \/ AcceptAgain(t) \/ ReleaseAcceptor(t)
    \/ HandleAccept(t) \/ Span(t) \/ LockTable(t) \/ RegisterListener(t)
    \/ Insert(t) \/ Leave(t)

CloseStep(t) == ImplClosed(t) \/ ConnectionClosed(t) \/ ImplClosedEnd(t)

Next ==
    \/ Listen \/ Stop \/ OwnerStep
    \/ \E t \in IOThreads :
        IOStep(t) \/ AcceptError(t) \/ \E c \in Conns : Accept(t, c)
    \/ \E t \in Closers : CloseStep(t) \/ \E c \in Conns : Closing(t, c)

Spec == Init /\ [][Next]_vars

\* Threads do not stop inside a handler, an aborted accept is reported, and
\* the owner goes through with a Stop it began.
FairSpec ==
    /\ Spec
    /\ \A t \in IOThreads : WF_vars(IOStep(t)) /\ WF_vars(CloseStep(t))
    /\ WF_vars(CloseStep(Timer))
    /\ WF_vars(\E t \in IOThreads : released > 0 /\ AcceptError(t))
    /\ WF_vars(OwnerStep)

-----------------------------------------------------------------------------
(* Properties                                                              *)

\* The variables have their types.
TypeOK ==
    /\ channel_table_ \subseteq Conns /\ timed \subseteq Conns
    /\ count_ \in Nat
    /\ stopReaders \subseteq IOThreads /\ stopWriter \in {None, Owner}
    /\ tableMutex \in IOThreads \cup {None}
    /\ listenerMutex \in [Conns -> Closers \cup {None}]
    /\ conn \in [Conns -> {"new", "socket", "open", "closing", "deleted"}]
    /\ released \in Nat

\* The count of the Notifier is the connections of the table, and one for
\* the server until the first Stop: accepting, ConnectionClosed and Stop agree
\* on every connection, whoever comes first.
CountIsTable ==
    count_ = Cardinality(channel_table_) + (IF notified_ THEN 0 ELSE 1)

\* CHECK( channel_table_.empty() ) at the end of Stop; and no connection that
\* was ever accepted is still open then, or gets open later.
StopClosesAll ==
    /\ pc[Owner] = "s_check" => channel_table_ = {}
    /\ ~running => \A c \in Conns : conn[c] # "open"

\* A connection of the table has a heartbeat, and an open one that is not in
\* the table is on its way there.
OpenIsKnown ==
    /\ channel_table_ \subseteq timed
    /\ \A c \in Conns : conn[c] = "open" /\ c \notin channel_table_ =>
          \E t \in stopReaders : arg[t] = c

\* An acceptor is released once unless an accept failed while it was open:
\* ReleaseAcceptor leaves it in acceptor_table_ then, and Stop releases it a
\* second time.  (When a Stop gave up on a thread of the pool and the server
\* listens again, that thread may release the acceptor of the new run.)
ReleasedTwiceAfterError ==
    listens <= 1 => released <= IF failed THEN 2 ELSE 1

\* Of the tables, whoever accepts, closes and stops: the count is right, every
\* open connection is in the table or about to be, Stop leaves none open, and
\* no acceptor is released twice but after an error.
ServerInv ==
    /\ TypeOK
    /\ CountIsTable /\ OpenIsKnown
    /\ StopClosesAll
    /\ ReleasedTwiceAfterError

\* A connection that closes leaves the table, unless it closed before the
\* server was its listener.
ClosedLeaves ==
    \A c \in Conns :
        (c \in channel_table_ /\ conn[c] = "closing" /\ c \notin missed)
            ~> (c \notin channel_table_)

\* A Stop returns: no two of the four mutexes, and no join, wait for each
\* other for ever.
StopReturns == (pc[Owner] # "idle") ~> (pc[Owner] = "idle")

\* IOServicePool.cpp, Stop: "graceful exit".  When the io_services are
\* destroyed no thread is in a handler of theirs, even if the acceptor was
\* never used after its release.
GracefulExit == ~services /\ ~misused => \A t \in IOThreads : pc[t] = "gone"
=============================================================================
