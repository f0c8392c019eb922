-------------------------- MODULE ClientConnection --------------------------
(***************************************************************************)
(* A client's connection, src/core/network/ClientConnection.{hpp,cpp}: it  *)
(* brings its own IOServicePool, with one service and one thread, and its  *)
(* own TimerMaster, and takes them along when it goes.                     *)
(*                                                                         *)
(* It goes when nobody holds a shared_ptr to it.  The user holds one, the  *)
(* RawConnection one until it is closed, the closing thread one while it   *)
(* closes, and the timer thread one while it serves the timer.  Whichever  *)
(* of the three threads drops the last runs the destructor, and with it    *)
(* TimerMaster::Stop and IOServicePool::Stop, which join the other two.    *)
(*                                                                         *)
(* The locks of a close, and why a handler may use the RawConnection, are  *)
(* the business of module RawConnection: here a close is four steps.       *)
(***************************************************************************)
EXTENDS Integers, FiniteSets

Threads == {"user", "io", "timer"}

VARIABLES
    holders,        \* who holds a shared_ptr: the threads, and "impl"
    closer,         \* the threads that hold one more, to close
    status,         \* the flags "READING", "WRITTING", "CLOSING"
    impl,           \* whether impl_ is set
    socket,         \* "none", "open"
    pool, services, \* IOServicePool: running, and whether it has services
    timers, slot,   \* TimerMaster: running, and whether it knows the timer
    running,        \* the threads of the two that run
    pc,             \* what a thread does
    result,         \* of the last Connect: "none", "true", "false", "threw"
    aborted,        \* a CHECK or an assert failed: the process is gone
    again,          \* history: Connect went on after one that had connected
    late            \* history: a join of the pool gave up

poolVars == <<pool, services, timers, slot, running>>
connVars == <<status, impl, socket>>
refVars  == <<holders, closer>>
endVars  == <<aborted, again, late>>
vars == <<refVars, connVars, poolVars, pc, result, endVars>>

Goto(t, l) == pc' = [pc EXCEPT ![t] = l]

At(t, l) == ~aborted /\ pc[t] = l

IsClosing == "CLOSING" \in status

IsConnected == status # {} /\ ~IsClosing

\* The last shared_ptr runs the destructor where it is dropped.
Release(t, next) ==
    Goto(t, IF holders' = {} /\ closer' = {} THEN "dtor" ELSE next)

-----------------------------------------------------------------------------
(* Connect                                                                 *)

Return(r) == result' = r /\ Goto("user", "idle")

Connect ==
    /\ At("user", "idle") /\ "user" \in holders
    /\ IF IsConnected
       THEN Return("true") /\ UNCHANGED again
       ELSE /\ Goto("user", "start")
            /\ again' = (again \/ impl \/ IsClosing)
            /\ UNCHANGED result
    /\ UNCHANGED <<refVars, connVars, poolVars, aborted, late>>

\* Both Starts do nothing when an attempt before this one has done it.
ConnectStart ==
    /\ At("user", "start")
    /\ pool' = TRUE /\ services' = TRUE /\ timers' = TRUE
    /\ running' = {"io", "timer"}
    /\ Goto("user", "connect")
    /\ UNCHANGED <<refVars, connVars, slot, result, endVars>>

\* The resolver throws, no endpoint answers, or one does.
ConnectEndpoints ==
    /\ At("user", "connect")
    /\ \/ Return("threw")
       \/ Return("false")
       \/ Goto("user", "attach") /\ UNCHANGED result
    /\ UNCHANGED <<refVars, connVars, poolVars, endVars>>

\* Mutant: the RawConnection does not hold the connection.
AttachWeak ==
    /\ At("user", "attach")
    /\ aborted' = impl
    /\ IF impl
       THEN UNCHANGED <<impl, holders, pc>>
       ELSE impl' = TRUE /\ Goto("user", "init") /\ UNCHANGED holders
    /\ UNCHANGED <<closer, status, socket, poolVars, result, again, late>>

\* CHECK( impl_ == NULL ), then the new RawConnection holds the connection.
Attach ==
    /\ At("user", "attach")
    /\ aborted' = impl
    /\ IF impl
       THEN UNCHANGED <<impl, holders, pc>>
       ELSE /\ impl' = TRUE
            /\ holders' = holders \cup {"impl"}
            /\ Goto("user", "init")
    /\ UNCHANGED <<closer, status, socket, poolVars, result, again, late>>

\* InitSocket asserts that the status is not closing, which nothing ever
\* clears; the build is a Debug one, with assertions.
InitSocket ==
    /\ At("user", "init")
    /\ aborted' = IsClosing
    /\ IF IsClosing
       THEN UNCHANGED <<socket, status, pc>>
       ELSE /\ socket' = "open"
            /\ status' = status \cup {"READING"}
            /\ Goto("user", "register")
    /\ UNCHANGED <<refVars, impl, poolVars, result, again, late>>

ConnectRegister ==
    /\ At("user", "register")
    /\ slot' = TRUE
    /\ Return("true")
    /\ UNCHANGED <<refVars, connVars, pool, services, timers, running, endVars>>

-----------------------------------------------------------------------------
(* The connection in use.  A handler runs on the pool's thread, unless the  *)
(* connection is closing; one that clears a flag before it closes leaves   *)
(* the connection unconnected, and not closing yet, for a moment.          *)

\* PushData and ScheduleWrite
CallMethod ==
    /\ At("user", "idle") /\ "user" \in holders
    /\ ~IsClosing /\ impl
    /\ status' = status \cup {"WRITTING"}
    /\ UNCHANGED <<refVars, impl, socket, poolVars, pc, result, endVars>>

Handles == At("io", "idle") /\ "io" \in running /\ socket = "open" /\ ~IsClosing

\* An error, or a message that makes a service reply.
HandleRead ==
    /\ Handles /\ "READING" \in status
    /\ \/ status' = status \ {"READING"} /\ Goto("io", "close")
       \/ status' = status \cup {"WRITTING"} /\ UNCHANGED pc
    /\ UNCHANGED <<refVars, impl, socket, poolVars, result, endVars>>

\* An error, or nothing is left to write.
HandleWrite ==
    /\ Handles /\ "WRITTING" \in status
    /\ status' = status \ {"WRITTING"}
    /\ Goto("io", "close") \/ UNCHANGED pc
    /\ UNCHANGED <<refVars, impl, socket, poolVars, result, endVars>>

\* An error, which clears no flag.
OOBRecv ==
    /\ Handles
    /\ Goto("io", "close")
    /\ UNCHANGED <<refVars, connVars, poolVars, result, endVars>>

-----------------------------------------------------------------------------
(* Closing                                                                 *)

\* A user that calls Disconnect, and one that lets the connection go.
Disconnect ==
    /\ At("user", "idle") /\ "user" \in holders
    /\ ~IsClosing /\ impl
    /\ Goto("user", "close")
    /\ UNCHANGED <<refVars, connVars, poolVars, result, endVars>>

Drop ==
    /\ At("user", "idle") /\ "user" \in holders
    /\ holders' = holders \ {"user"} /\ UNCHANGED closer
    /\ Release("user", "gone")
    /\ UNCHANGED <<connVars, poolVars, result, endVars>>

Closed(t) == IF t = "timer" THEN "period" ELSE "idle"

\* Only one of the threads that come to close does it.
SetClosing(t) ==
    /\ At(t, "close")
    /\ status' = status \cup {"CLOSING"}
    /\ Goto(t, IF IsClosing THEN Closed(t) ELSE "socket")
    /\ UNCHANGED <<refVars, impl, socket, poolVars, result, endVars>>

CloseSocket(t) ==
    /\ At(t, "socket")
    /\ socket' = "none"
    /\ Goto(t, "take")
    /\ UNCHANGED <<refVars, status, impl, poolVars, result, endVars>>

\* The pointer of the RawConnection moves to the closing thread.  A close
\* that the user did not ask for ends in ImplClosed, which deletes the
\* RawConnection.
Take(t) ==
    /\ At(t, "take")
    /\ holders' = holders \ {"impl"}
    /\ closer' = closer \cup {t}
    /\ impl' = (impl /\ t = "user")
    /\ Goto(t, "release")
    /\ UNCHANGED <<status, socket, poolVars, result, endVars>>

CloseReturns(t) ==
    /\ At(t, "release")
    /\ closer' = closer \ {t} /\ UNCHANGED holders
    /\ Release(t, Closed(t))
    /\ UNCHANGED <<connVars, poolVars, result, endVars>>

-----------------------------------------------------------------------------
(* The timer thread                                                        *)

\* The weak_ptr of the timer is locked, unless the connection is gone.
TimerFire ==
    /\ At("timer", "idle") /\ "timer" \in running /\ slot
    /\ slot' = FALSE
    /\ IF holders \cup closer = {}
       THEN UNCHANGED <<holders, pc>>
       ELSE holders' = holders \cup {"timer"} /\ Goto("timer", "expired")
    /\ UNCHANGED <<closer, connVars, pool, services, timers, running, result, endVars>>

\* A heartbeat that cannot be sent, or was not answered, closes.
Expired ==
    /\ At("timer", "expired")
    /\ \/ Goto("timer", "period")
       \/ ~IsClosing /\ impl /\ Goto("timer", "close")
    /\ UNCHANGED <<refVars, connVars, poolVars, result, endVars>>

\* The timer is added again while connected, and its pointer dropped.
Period ==
    /\ At("timer", "period")
    /\ slot' = IsConnected
    /\ holders' = holders \ {"timer"} /\ UNCHANGED closer
    /\ Release("timer", "idle")
    /\ UNCHANGED <<connVars, pool, services, timers, running, result, endVars>>

TimerExit ==
    /\ At("timer", "idle") /\ "timer" \in running /\ ~timers
    /\ running' = running \ {"timer"}
    /\ UNCHANGED <<refVars, connVars, pool, services, timers, slot, pc, result, endVars>>

\* run() returns when the work is gone and no operation is pending.
ServiceExit ==
    /\ At("io", "idle") /\ "io" \in running /\ ~pool /\ socket = "none"
    /\ running' = running \ {"io"}
    /\ UNCHANGED <<refVars, connVars, pool, services, timers, slot, pc, result, endVars>>

-----------------------------------------------------------------------------
(* ~ClientConnection                                                       *)

\* CHECK( !IsConnected() ), then ~TimerMaster stops a timer that runs.
Dtor(t) ==
    /\ At(t, "dtor")
    /\ aborted' = IsConnected
    /\ timers' = FALSE
    /\ Goto(t, IF timers THEN "jointimer" ELSE "dtorpool")
    /\ UNCHANGED <<refVars, connVars, pool, services, slot, running, result, again, late>>

\* Mutant: ~TimerMaster does not wait for its thread.
JoinTimerNot(t) ==
    /\ At(t, "jointimer")
    /\ slot' = FALSE
    /\ Goto(t, "dtorpool")
    /\ UNCHANGED <<refVars, connVars, pool, services, timers, running, result, endVars>>

\* The timer thread would wait for itself, for ever.
JoinTimer(t) ==
    /\ At(t, "jointimer") /\ "timer" \notin running
    /\ slot' = FALSE
    /\ Goto(t, "dtorpool")
    /\ UNCHANGED <<refVars, connVars, pool, services, timers, running, result, endVars>>

\* Mutant: ~IOServicePool keeps the work.
DtorPoolKeepsWork(t) ==
    /\ At(t, "dtorpool")
    /\ Goto(t, IF pool THEN "joinpool" ELSE "dtorimpl")
    /\ UNCHANGED <<refVars, connVars, poolVars, result, endVars>>

DtorPool(t) ==
    /\ At(t, "dtorpool")
    /\ pool' = FALSE
    /\ Goto(t, IF pool THEN "joinpool" ELSE "dtorimpl")
    /\ UNCHANGED <<refVars, connVars, services, timers, slot, running, result, endVars>>

\* The pool waits for its thread, and the services are deleted.  On the
\* pool's own thread timed_join gives up after 60 s.
JoinPool(t) ==
    /\ At(t, "joinpool") /\ (t = "io" \/ "io" \notin running)
    /\ services' = FALSE
    /\ Goto(t, "dtorimpl")
    /\ UNCHANGED <<refVars, connVars, pool, timers, slot, running, result, endVars>>

\* A thread that is in a handler for that long is given up as well.
JoinPoolLate(t) ==
    /\ At(t, "joinpool") /\ t # "io" /\ "io" \in running
    /\ late' = TRUE
    /\ services' = FALSE
    /\ Goto(t, "dtorimpl")
    /\ UNCHANGED <<refVars, connVars, pool, timers, slot, running, result, aborted, again>>

\* ~Connection deletes the RawConnection, with the socket if it has one.
DtorImpl(t) ==
    /\ At(t, "dtorimpl")
    /\ impl' = FALSE /\ socket' = "none"
    /\ Goto(t, "gone")
    /\ UNCHANGED <<refVars, status, poolVars, result, endVars>>

-----------------------------------------------------------------------------

Init ==
    /\ holders = {"user"} /\ closer = {}
    /\ status = {} /\ impl = FALSE /\ socket = "none"
    /\ pool = FALSE /\ services = FALSE /\ timers = FALSE /\ slot = FALSE
    /\ running = {}
    /\ pc = [t \in Threads |-> "idle"]
    /\ result = "none" /\ aborted = FALSE /\ again = FALSE /\ late = FALSE

UserStep ==
    \/ ConnectStart \/ ConnectEndpoints \/ Attach \/ InitSocket \/ ConnectRegister

Step(t) ==
    \/ SetClosing(t) \/ CloseSocket(t) \/ Take(t) \/ CloseReturns(t)
    \/ Dtor(t) \/ JoinTimer(t) \/ DtorPool(t) \/ JoinPool(t) \/ DtorImpl(t)

Next ==
    \/ Connect \/ CallMethod \/ Disconnect \/ Drop \/ UserStep
    \/ HandleRead \/ HandleWrite \/ OOBRecv
    \/ TimerFire \/ Expired \/ Period
    \/ TimerExit \/ ServiceExit
    \/ \E t \in Threads : Step(t) \/ JoinPoolLate(t)

Spec == Init /\ [][Next]_vars

\* Each thread goes on with what it has begun.  Nobody needs to connect, to
\* disconnect or to drop, no error needs to happen, and no join to give up.
FairSpec ==
    /\ Spec
    /\ WF_vars(UserStep)
    /\ \A t \in Threads : WF_vars(Step(t))
    /\ WF_vars(Expired \/ Period) /\ WF_vars(TimerExit) /\ WF_vars(ServiceExit)

-----------------------------------------------------------------------------
(* Properties                                                              *)

\* The types.  The parts that only a connected connection has are together:
\* an open socket belongs to an impl_, or to one that is being closed.
TypeOK ==
    /\ holders \subseteq {"user", "timer", "impl"} /\ closer \subseteq Threads
    /\ status \subseteq {"READING", "WRITTING", "CLOSING"}
    /\ impl \in BOOLEAN /\ socket \in {"none", "open"}
    /\ pool \in BOOLEAN /\ services \in BOOLEAN
    /\ timers \in BOOLEAN /\ slot \in BOOLEAN
    /\ running \subseteq {"io", "timer"}
    /\ pc \in [Threads ->
        {"idle", "start", "connect", "attach", "init", "register", "close",
         "socket", "take", "release", "expired", "period", "dtor",
         "jointimer", "dtorpool", "joinpool", "dtorimpl", "gone"}]
    /\ result \in {"none", "true", "false", "threw"}
    /\ aborted \in BOOLEAN /\ again \in BOOLEAN /\ late \in BOOLEAN
    /\ socket = "open" => impl \/ pc["io"] = "socket" \/ pc["timer"] = "socket"

\* The CHECKs of ClientConnection.cpp:24 and :54 and the assert of
\* RawConnection.cpp:85: however a user, the pool's thread and the timer
\* thread interleave, a connection is never destroyed while it is connected,
\* as its RawConnection holds it until the close.  The process aborts in one
\* case alone: a Connect goes on although one before it had connected.  It
\* finds the RawConnection left over, by a close of the user or by a handler
\* that has cleared its flag and not closed yet (RawConnection.cpp:201, :208),
\* or the status closing; it never gets a second connection.
ChecksHold ==
    /\ aborted => again
    /\ \A t \in Threads : pc[t] = "dtor" => ~IsConnected
    /\ pc["user"] = "register" => ~again

\* The socket is closed before the io_service it belongs to is deleted:
\* RawConnection::Disconnect lets go of the connection after the socket
\* (RawConnection.cpp:126-132), and only then may ~ClientConnection delete
\* the pool.
SocketBeforeService == socket = "open" => services

\* The user, the pool's thread and the timer thread share a connection that is
\* destroyed unconnected and after its socket.
ConnectionInv == TypeOK /\ ChecksHold /\ SocketBeforeService

\* Whoever runs the destructor has joined every other thread when it comes
\* to the members of Connection that they use (ClientConnection.hpp: the pool
\* and the timer are members of the derived class).  The pool's thread, which
\* runs it when it drops the last pointer after an error, is left itself in
\* the run() of an io_service that is deleted; so is one that a join gave up.
\* The timer thread, whose join has no limit, never is left.
DtorLeavesNoThread ==
    \A t \in Threads : pc[t] = "dtorimpl" =>
        running \subseteq {t} \cup (IF late THEN {"io"} ELSE {})

\* The destructor returns to a user that runs it: TimerMaster::Stop and
\* IOServicePool::Stop get their threads out.
DtorReturns == pc["user"] = "dtor" ~> pc["user"] = "gone" \/ aborted
=============================================================================
