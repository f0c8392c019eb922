--------------------------- MODULE RawConnection ---------------------------
(***************************************************************************)
(* The life of one network connection: RawConnection and the Connection    *)
(* that owns it (src/core/network/RawConnection.{hpp,cpp}, Connection.hpp, *)
(* the Attach, CallMethod and CallServiceMethodDone of                     *)
(* ProtobufConnection.cpp).                                                *)
(*                                                                         *)
(* A connection is shared by the threads that run the io_service (they     *)
(* execute the completion handlers of the socket), by the threads of the   *)
(* program that call methods on it or disconnect it, and by the timer      *)
(* thread, which sends heartbeats.  A status word with a shared mutex is   *)
(* all that keeps them from using the RawConnection after another thread   *)
(* closed and deleted it.  One action is one step of one thread between    *)
(* two points where another thread may get in.  A shared lock is taken     *)
(* together with the test of CLOSING that follows it (CLOSING changes only *)
(* under the exclusive lock) and given back together with the last change  *)
(* made under it.                                                          *)
(***************************************************************************)
EXTENDS Integers, Sequences, FiniteSets

CONSTANTS
    IOThreads,              \* threads that run the io_service
    Callers,                \* threads of the program
    TimerThread,            \* the thread of the TimerMaster
    None,                   \* no thread
    kHeartbeatUnsyncWindow, \* heartbeats the two ends may be apart
    NetFailures,            \* how the network may fail: "silent", "broken"
    MaxMsgs,                \* bound: messages pushed
    MaxReads,               \* bound: reads that succeed
    MaxRecv                 \* bound: heartbeats received

Threads == IOThreads \cup Callers \cup {TimerThread}

ASSUME ThreadsAssumption ==
    /\ None \notin Threads
    /\ TimerThread \notin IOThreads \cup Callers
    /\ IOThreads \cap Callers = {}
    /\ {"owner", "raw"} \cap Threads = {}

ASSUME BoundsAssumption ==
    /\ kHeartbeatUnsyncWindow \in Nat
    /\ NetFailures \subseteq {"silent", "broken"}
    /\ MaxMsgs \in Nat
    /\ MaxReads \in Nat
    /\ MaxRecv \in Nat

VARIABLES
    \* RawConnectionStatus: the flags of status_, and its shared mutex
    status, readers, upgrader, writer,
    \* Connection and RawConnection: impl_ and mSocket, who holds a
    \* shared_ptr to the Connection, the heartbeat counters, whether the
    \* TimerMaster has the connection
    impl, socket, refs, send_package_, recv_package_, timer,
    \* the two output buffers, sequences of units
    incoming_index_, duplex_,
    \* the threads: where each one is, and the arguments of what it runs
    pc, handler, ec, moved,
    \* the operating system: operations in progress on the socket, the
    \* buffers given to async_write_some, the state of the network
    pending, wbuf, net,
    \* history: messages pushed, reads done, units that left the socket
    npush, nreads, wire

lockVars   == <<readers, upgrader, writer>>
objVars    == <<impl, socket, refs>>
beatVars   == <<send_package_, recv_package_, timer>>
bufVars    == <<incoming_index_, duplex_, wbuf, npush>>
argVars    == <<handler, ec, moved>>
envVars    == <<net, nreads, wire>>
vars == <<status, lockVars, objVars, beatVars, bufVars, pc, argVars,
          pending, envVars>>

Flags    == {"READING", "WRITTING", "CLOSING"}
Handlers == {"HandleRead", "OOBRecv", "HandleWrite"}
Labels   == Handlers \cup
    {"idle", "at_lock", "at_init", "at_read", "at_register",
     "h_lock", "sd_push", "sd_sched", "read_on",
     "cm_lock", "cm_push", "cm_sched", "ud_check", "ud_lock", "ud_impl",
     "ex_lock", "Heartbeat", "return",
     "dc_check", "dc_upgrade", "dc_excl", "dc_set",
     "dc_close", "dc_take", "dc_closed"}

IsClosing == "CLOSING" \in status
IsWriting == "WRITTING" \in status
IsReading == "READING" \in status
IsIdle    == status = {}

\* Connection::IsConnected and Connection::Period
IsConnected == ~IsIdle /\ ~IsClosing

(***************************************************************************)
(* The output buffers.  Message k is two units, its header 2k-1 and its    *)
(* content 2k; units leave a buffer from its head (SharedConstBuffers is   *)
(* checked on its own).                                                    *)
(***************************************************************************)
incoming  == duplex_[incoming_index_]
outcoming == duplex_[1 - incoming_index_]

\* The two strings EncodeMessage makes of a message.
EncodeMessage(k) == <<2 * k - 1, 2 * k>>

Push ==
    /\ npush' = npush + 1
    /\ duplex_' = [duplex_ EXCEPT ![incoming_index_] =
                        @ \o EncodeMessage(npush + 1)]
    /\ UNCHANGED <<incoming_index_, wbuf>>

(***************************************************************************)
(* boost::shared_mutex, as RawConnection uses it.  An upgrade waits for    *)
(* the readers to leave and does not keep new ones out.                    *)
(***************************************************************************)
LockShared(t) ==
    /\ writer = None
    /\ readers' = [readers EXCEPT ![t] = @ + 1]
    /\ UNCHANGED <<upgrader, writer>>

\* lock_shared and unlock_shared with nothing that changes state between.
TryLockShared == writer = None /\ UNCHANGED lockVars

UnlockShared(t) ==
    /\ readers' = [readers EXCEPT ![t] = @ - 1]
    /\ UNCHANGED <<upgrader, writer>>

LockUpgrade(t) ==
    /\ writer = None /\ upgrader = None
    /\ upgrader' = t
    /\ UNCHANGED <<readers, writer>>

\* Mutant: the exclusive lock does not wait for the readers.
UnlockUpgradeAndLockAtOnce(t) ==
    /\ upgrader' = None
    /\ writer' = t
    /\ UNCHANGED readers

UnlockUpgradeAndLock(t) ==
    /\ \A u \in Threads : readers[u] = 0
    /\ upgrader' = None
    /\ writer' = t
    /\ UNCHANGED readers

Unlock ==
    /\ writer' = None
    /\ UNCHANGED <<readers, upgrader>>

\* The bound on messages counts those a thread is about to push.
Room ==
    npush + Cardinality({u \in Threads : pc[u] \in
        {"cm_lock", "cm_push", "sd_push"}})
    < MaxMsgs

Goto(t, label) == pc' = [pc EXCEPT ![t] = label]

\* Where a thread goes when the operation it runs is over: a handler ends,
\* the others give back the shared_ptr they use.
Done(t) == IF t \in IOThreads THEN "idle" ELSE "return"

\* A step that moves its thread and touches nothing but the mutex.
OnlyLocks ==
    UNCHANGED <<status, objVars, beatVars, bufVars, argVars, pending, envVars>>

\* A handler has used the arguments it was called with.
DropArgs(t) ==
    /\ handler' = [handler EXCEPT ![t] = "HandleRead"]
    /\ ec' = [ec EXCEPT ![t] = FALSE]
    /\ moved' = [moved EXCEPT ![t] = 0]

-----------------------------------------------------------------------------
(* ProtobufConnection::Attach and RawConnection::InitSocket                *)

AttachImpl(t) ==
    /\ pc[t] = "idle" /\ impl = "none"
    /\ impl' = "alive"
    /\ refs' = refs \cup {"raw", t}
    /\ Goto(t, "at_lock")
    /\ UNCHANGED <<status, lockVars, socket, beatVars, bufVars, argVars,
                   pending, envVars>>

InitLock(t) ==
    /\ pc[t] = "at_lock"
    /\ LockShared(t)
    /\ Goto(t, "at_init")
    /\ OnlyLocks

\* From here on the handlers may run on the other threads.
InitSocket(t) ==
    /\ pc[t] = "at_init"
    /\ socket' = "open"
    /\ send_package_' = 0 /\ recv_package_' = 0
    /\ pending' = pending \cup {"OOBRecv"}
    /\ Goto(t, "at_read")
    /\ UNCHANGED <<status, lockVars, impl, refs, timer, bufVars, argVars,
                   envVars>>

InitRead(t) ==
    /\ pc[t] = "at_read"
    /\ status' = status \cup {"READING"}
    /\ pending' = pending \cup {"HandleRead"}
    /\ UnlockShared(t)
    /\ Goto(t, "at_register")
    /\ UNCHANGED <<objVars, beatVars, bufVars, argVars, envVars>>

\* The TimerMaster::Register that follows every Attach.
RegisterTimer(t) ==
    /\ pc[t] = "at_register"
    /\ timer' = TRUE
    /\ Goto(t, "return")
    /\ UNCHANGED <<status, lockVars, objVars, send_package_, recv_package_,
                   bufVars, argVars, pending, envVars>>

-----------------------------------------------------------------------------
(* The io_service: an operation completes and a free thread gets its       *)
(* handler.  A broken or closed socket fails every operation; a silent     *)
(* peer sends nothing, and what is written to it stays in the kernel.      *)

Completes(o, e) ==
    IF e
    THEN net = "broken" \/ socket = "closed"
    ELSE /\ socket = "open"
         /\ o = "HandleRead" => net = "up" /\ nreads < MaxReads
         /\ o = "OOBRecv" => net = "up" /\ recv_package_ < MaxRecv
         /\ o = "HandleWrite" => net # "broken"

\* The bytes a write moves: at least one unit of what it was given.
Transfers(o, e) ==
    IF o = "HandleWrite" /\ ~e THEN 1 .. Len(wbuf) ELSE {0}

Dispatch(t, o, e, n) ==
    /\ pc[t] = "idle"
    /\ o \in pending
    /\ Completes(o, e)
    /\ n \in Transfers(o, e)
    /\ pending' = pending \ {o}
    /\ handler' = [handler EXCEPT ![t] = o]
    /\ ec' = [ec EXCEPT ![t] = e]
    /\ moved' = [moved EXCEPT ![t] = n]
    /\ wire' = wire \o SubSeq(wbuf, 1, n)
    /\ nreads' = IF o = "HandleRead" /\ ~e THEN nreads + 1 ELSE nreads
    /\ Goto(t, "h_lock")
    /\ UNCHANGED <<status, lockVars, objVars, beatVars, bufVars, net>>

\* Mutant: the handler does not look at CLOSING.
HandlerLockUnchecked(t) ==
    /\ pc[t] = "h_lock"
    /\ LockShared(t) /\ Goto(t, handler[t])
    /\ OnlyLocks

\* Mutant: a handler called with an error just returns.
HandlerLockDropsErrors(t) ==
    /\ pc[t] = "h_lock"
    /\ IF IsClosing \/ ec[t]
       THEN TryLockShared /\ Goto(t, "idle") /\ DropArgs(t)
       ELSE LockShared(t) /\ Goto(t, handler[t]) /\ UNCHANGED argVars
    /\ UNCHANGED <<status, objVars, beatVars, bufVars, pending, envVars>>

\* ReadHandler and WriteHandler: the handler runs, with the mutex shared,
\* unless the connection is closing.
HandlerLock(t) ==
    /\ pc[t] = "h_lock"
    /\ IF IsClosing
       THEN TryLockShared /\ Goto(t, "idle") /\ DropArgs(t)
       ELSE LockShared(t) /\ Goto(t, handler[t]) /\ UNCHANGED argVars
    /\ UNCHANGED <<status, objVars, beatVars, bufVars, pending, envVars>>

\* ClearReading, then Disconnect
ReadFails(t) ==
    /\ status' = status \ {"READING"}
    /\ Goto(t, "dc_check")
    /\ UNCHANGED <<lockVars, pending>>

\* What Decode comes to next in the input.
Decode(t) ==
    \/ \* something it cannot handle
       ReadFails(t)
    \/ \* no more than responses, handed to their callers, and a piece of a
       \* message: HandleRead reads again
       /\ pending' = pending \cup {"HandleRead"}
       /\ UnlockShared(t)
       /\ Goto(t, "idle")
       /\ UNCHANGED status
    \/ \* a request: the service is run, which replies
       /\ Room
       /\ Goto(t, "sd_push")
       /\ UNCHANGED <<status, lockVars, pending>>

HandleRead(t) ==
    /\ pc[t] = "HandleRead"
    /\ IF ec[t] THEN ReadFails(t) ELSE Decode(t)
    /\ DropArgs(t)
    /\ UNCHANGED <<objVars, beatVars, bufVars, envVars>>

\* The rest of HandleRead when Decode ran a service: there may be more in
\* the input.
ReadOn(t) ==
    /\ pc[t] = "read_on"
    /\ Decode(t)
    /\ UNCHANGED <<objVars, beatVars, bufVars, argVars, envVars>>

OOBRecv(t) ==
    /\ pc[t] = "OOBRecv"
    /\ IF ec[t]
       THEN /\ Goto(t, "dc_check")
            /\ UNCHANGED <<recv_package_, pending, lockVars>>
       ELSE /\ recv_package_' = recv_package_ + 1
            /\ pending' = pending \cup {"OOBRecv"}
            /\ UnlockShared(t)
            /\ Goto(t, "idle")
    /\ DropArgs(t)
    /\ UNCHANGED <<status, objVars, send_package_, timer, bufVars, envVars>>

-----------------------------------------------------------------------------
(* Writing.  The sections under incoming_mutex_ are single steps.          *)

\* async_write_some( *buffers )
StartWrite(buffers) ==
    /\ wbuf' = buffers
    /\ pending' = pending \cup {"HandleWrite"}

\* Mutant: a write in progress is not looked for.
ScheduleWriteAlways ==
    /\ incoming_index_' = 1 - incoming_index_
    /\ IF incoming = <<>>
       THEN UNCHANGED <<status, wbuf, pending>>
       ELSE /\ status' = status \cup {"WRITTING"}
            /\ StartWrite(incoming)
    /\ UNCHANGED <<duplex_, npush>>

\* Mutant: SetWriting is forgotten.
ScheduleWriteUnmarked ==
    /\ IF IsWriting \/ incoming = <<>>
       THEN UNCHANGED <<incoming_index_, wbuf, pending>>
       ELSE /\ incoming_index_' = 1 - incoming_index_
            /\ StartWrite(incoming)
    /\ UNCHANGED <<status, duplex_, npush>>

\* RawConnection::ScheduleWrite.  SwitchIO makes incoming the buffer to
\* send.
ScheduleWrite ==
    /\ IF IsWriting
       THEN UNCHANGED <<status, incoming_index_, wbuf, pending>>
       ELSE /\ incoming_index_' = 1 - incoming_index_
            /\ IF incoming = <<>>
               THEN UNCHANGED <<status, wbuf, pending>>
               ELSE /\ status' = status \cup {"WRITTING"}
                    /\ StartWrite(incoming)
    /\ UNCHANGED <<duplex_, npush>>

\* Mutant: the other buffer is not looked at when this one is empty.
WriteMoreOneBuffer(n) ==
    LET rest == SubSeq(outcoming, n + 1, Len(outcoming))
    IN  /\ duplex_' = [duplex_ EXCEPT ![1 - incoming_index_] = rest]
        /\ npush' = npush
        /\ IF rest # <<>>
           THEN StartWrite(rest) /\ UNCHANGED <<status, incoming_index_>>
           ELSE /\ status' = status \ {"WRITTING"}
                /\ wbuf' = <<>>
                /\ UNCHANGED <<incoming_index_, pending>>

\* RawConnection::HandleWrite after a write of n units.
WriteMore(n) ==
    LET rest == SubSeq(outcoming, n + 1, Len(outcoming))
    IN  /\ duplex_' = [duplex_ EXCEPT ![1 - incoming_index_] = rest]
        /\ npush' = npush
        /\ IF rest # <<>>
           THEN StartWrite(rest) /\ UNCHANGED <<status, incoming_index_>>
           ELSE /\ incoming_index_' = 1 - incoming_index_
                /\ IF incoming # <<>>
                   THEN StartWrite(incoming) /\ UNCHANGED status
                   ELSE /\ status' = status \ {"WRITTING"}
                        /\ wbuf' = <<>>
                        /\ UNCHANGED pending

HandleWrite(t) ==
    /\ pc[t] = "HandleWrite"
    /\ IF ec[t]
       THEN /\ status' = status \ {"WRITTING"}
            /\ Goto(t, "dc_check")
            /\ UNCHANGED <<bufVars, pending, lockVars>>
       ELSE /\ WriteMore(moved[t])
            /\ UnlockShared(t)
            /\ Goto(t, "idle")
    /\ DropArgs(t)
    /\ UNCHANGED <<objVars, beatVars, envVars>>

\* CallServiceMethodDone, run by a service inside HandleRead:
\* Connection::PushData, then Connection::ScheduleWrite, each under a shared
\* lock of its own inside the one the read handler holds.
ServicePush(t) ==
    /\ pc[t] = "sd_push"
    /\ TryLockShared
    /\ IF IsClosing \/ impl # "alive" THEN UNCHANGED bufVars ELSE Push
    /\ Goto(t, "sd_sched")
    /\ UNCHANGED <<status, objVars, beatVars, argVars, pending, envVars>>

ServiceSchedule(t) ==
    /\ pc[t] = "sd_sched"
    /\ TryLockShared
    /\ IF IsClosing \/ impl # "alive"
       THEN UNCHANGED <<status, bufVars, pending>>
       ELSE ScheduleWrite
    /\ Goto(t, "read_on")
    /\ UNCHANGED <<objVars, beatVars, argVars, envVars>>

-----------------------------------------------------------------------------
(* The threads of the program: ProtobufConnection::CallMethod and          *)
(* Connection::Disconnect.                                                 *)

\* Connect and Span hand the connection out after Attach.
Attached ==
    /\ impl # "none"
    /\ \A t \in Callers :
          pc[t] \notin {"at_lock", "at_init", "at_read", "at_register"}

\* A thread that uses the connection copies the owner's shared_ptr.
Call(t, label) ==
    /\ pc[t] = "idle" /\ Attached
    /\ "owner" \in refs
    /\ refs' = refs \cup {t}
    /\ Goto(t, label)
    /\ UNCHANGED <<status, lockVars, impl, socket, beatVars, bufVars,
                   argVars, pending, envVars>>

CallMethod(t) == Room /\ Call(t, "cm_lock")

\* Mutant: the call looks at impl_ only.
CallLockImplOnly(t) ==
    /\ pc[t] = "cm_lock"
    /\ IF impl # "alive"
       THEN TryLockShared /\ Goto(t, "return")
       ELSE LockShared(t) /\ Goto(t, "cm_push")
    /\ OnlyLocks

CallLock(t) ==
    /\ pc[t] = "cm_lock"
    /\ IF IsClosing \/ impl # "alive"
       THEN TryLockShared /\ Goto(t, "return")
       ELSE LockShared(t) /\ Goto(t, "cm_push")
    /\ OnlyLocks

CallPush(t) ==
    /\ pc[t] = "cm_push"
    /\ Push
    /\ Goto(t, "cm_sched")
    /\ UNCHANGED <<status, lockVars, objVars, beatVars, argVars, pending,
                   envVars>>

CallSchedule(t) ==
    /\ pc[t] = "cm_sched"
    /\ ScheduleWrite
    /\ UnlockShared(t)
    /\ Goto(t, "return")
    /\ UNCHANGED <<objVars, beatVars, argVars, envVars>>

Disconnect(t) == Call(t, "ud_check")

\* The first look at the status takes no lock.
DisconnectCheck(t) ==
    /\ pc[t] = "ud_check"
    /\ Goto(t, IF IsClosing THEN "return" ELSE "ud_lock")
    /\ UNCHANGED <<status, lockVars, objVars, beatVars, bufVars, argVars,
                   pending, envVars>>

DisconnectLock(t) ==
    /\ pc[t] = "ud_lock"
    /\ LockShared(t)
    /\ Goto(t, "ud_impl")
    /\ OnlyLocks

\* impl_ is tested whether or not the connection is closing by now.
DisconnectImpl(t) ==
    /\ pc[t] = "ud_impl"
    /\ IF impl = "alive"
       THEN Goto(t, "dc_check") /\ UNCHANGED lockVars
       ELSE UnlockShared(t) /\ Goto(t, "return")
    /\ OnlyLocks

\* The end of an operation: its shared_ptr goes, and with the last one the
\* Connection and its impl_.  The TimerMaster asks Period first.
Return(t) ==
    /\ pc[t] = "return"
    /\ refs' = refs \ {t}
    /\ impl' = IF refs = {t} THEN "deleted" ELSE impl
    /\ timer' = IF t = TimerThread THEN IsConnected ELSE timer
    /\ Goto(t, "idle")
    /\ UNCHANGED <<status, lockVars, socket, send_package_, recv_package_,
                   bufVars, argVars, pending, envVars>>

-----------------------------------------------------------------------------
(* RawConnection::Disconnect( status, async ), entered with the mutex held *)
(* shared: the handlers and the heartbeat pass true for async,             *)
(* Connection::Disconnect false.                                           *)

Async(t) == t \notin Callers

\* Mutant: the shared lock is kept while upgrading.
DcCheckKeepsLock(t) ==
    /\ pc[t] = "dc_check"
    /\ IF IsClosing
       THEN UnlockShared(t) /\ Goto(t, Done(t))
       ELSE UNCHANGED lockVars /\ Goto(t, "dc_upgrade")
    /\ OnlyLocks

\* Mutant: the shared lock is given back twice.
DcCheckUnlocksTwice(t) ==
    /\ pc[t] = "dc_check"
    /\ readers' = [readers EXCEPT ![t] = @ - 2]
    /\ UNCHANGED <<upgrader, writer>>
    /\ Goto(t, IF IsClosing THEN Done(t) ELSE "dc_upgrade")
    /\ OnlyLocks

DcCheck(t) ==
    /\ pc[t] = "dc_check"
    /\ UnlockShared(t)
    /\ Goto(t, IF IsClosing THEN Done(t) ELSE "dc_upgrade")
    /\ OnlyLocks

DcUpgrade(t) ==
    /\ pc[t] = "dc_upgrade"
    /\ LockUpgrade(t)
    /\ Goto(t, "dc_excl")
    /\ OnlyLocks

DcExclusive(t) ==
    /\ pc[t] = "dc_excl"
    /\ UnlockUpgradeAndLock(t)
    /\ Goto(t, "dc_set")
    /\ OnlyLocks

\* Mutant: no second look.
DcSetClosingUnchecked(t) ==
    /\ pc[t] = "dc_set"
    /\ status' = status \cup {"CLOSING"}
    /\ Unlock
    /\ Goto(t, "dc_close")
    /\ UNCHANGED <<objVars, beatVars, bufVars, argVars, pending, envVars>>

\* The second look at the status, now alone: one thread goes on.
DcSetClosing(t) ==
    /\ pc[t] = "dc_set"
    /\ status' = status \cup {"CLOSING"}
    /\ Unlock
    /\ Goto(t, IF IsClosing THEN Done(t) ELSE "dc_close")
    /\ UNCHANGED <<objVars, beatVars, bufVars, argVars, pending, envVars>>

DcCloseSocket(t) ==
    /\ pc[t] = "dc_close"
    /\ socket' = "closed"
    /\ Goto(t, "dc_take")
    /\ UNCHANGED <<status, lockVars, impl, refs, beatVars, bufVars, argVars,
                   pending, envVars>>

\* Mutant: connection_ is not reset.
DcTakeKeepsCycle(t) ==
    /\ pc[t] = "dc_take"
    /\ refs' = refs \cup {t}
    /\ Goto(t, IF Async(t) THEN "dc_closed" ELSE "return")
    /\ UNCHANGED <<status, lockVars, impl, socket, beatVars, bufVars,
                   argVars, pending, envVars>>

\* conn = connection_; connection_.reset( )
DcTake(t) ==
    /\ pc[t] = "dc_take"
    /\ refs' = (refs \cup {t}) \ {"raw"}
    /\ Goto(t, IF Async(t) THEN "dc_closed" ELSE "return")
    /\ UNCHANGED <<status, lockVars, impl, socket, beatVars, bufVars,
                   argVars, pending, envVars>>

\* Connection::ImplClosed: impl_.reset( )
DcImplClosed(t) ==
    /\ pc[t] = "dc_closed"
    /\ impl' = "deleted"
    /\ Goto(t, "return")
    /\ UNCHANGED <<status, lockVars, socket, refs, beatVars, bufVars,
                   argVars, pending, envVars>>

-----------------------------------------------------------------------------
(* The TimerMaster and Connection::Expired                                 *)

\* The timer holds a weak_ptr: Expired runs only while the Connection lives.
TimerFire ==
    /\ timer /\ pc[TimerThread] = "idle"
    /\ IF refs = {}
       THEN timer' = FALSE /\ UNCHANGED <<refs, pc>>
       ELSE /\ refs' = refs \cup {TimerThread}
            /\ Goto(TimerThread, "ex_lock")
            /\ timer' = timer
    /\ UNCHANGED <<status, lockVars, impl, socket, send_package_,
                   recv_package_, bufVars, argVars, pending, envVars>>

ExpiredLock(t) ==
    /\ pc[t] = "ex_lock"
    /\ IF IsClosing \/ impl # "alive"
       THEN TryLockShared /\ Goto(t, "return")
       ELSE LockShared(t) /\ Goto(t, "Heartbeat")
    /\ OnlyLocks

InSync(sent, received) ==
    /\ sent - received <= kHeartbeatUnsyncWindow
    /\ received - sent <= kHeartbeatUnsyncWindow

\* Mutant: the heartbeats sent are not counted.
HeartbeatUncounted(t) ==
    /\ pc[t] = "Heartbeat"
    /\ IF net # "broken" /\ InSync(send_package_, recv_package_)
       THEN UnlockShared(t) /\ Goto(t, "return")
       ELSE Goto(t, "dc_check") /\ UNCHANGED lockVars
    /\ OnlyLocks

\* The send fails on a broken network only.
Heartbeat(t) ==
    /\ pc[t] = "Heartbeat"
    /\ send_package_' = IF net = "broken" THEN send_package_
                                          ELSE send_package_ + 1
    /\ IF net # "broken" /\ InSync(send_package_', recv_package_)
       THEN UnlockShared(t) /\ Goto(t, "return")
       ELSE Goto(t, "dc_check") /\ UNCHANGED lockVars
    /\ UNCHANGED <<status, objVars, recv_package_, timer, bufVars, argVars,
                   pending, envVars>>

-----------------------------------------------------------------------------
(* The environment                                                         *)

NetFails ==
    /\ net # "broken"
    /\ net' \in NetFailures \ {net}
    /\ UNCHANGED <<status, lockVars, objVars, beatVars, bufVars, pc, argVars,
                   pending, nreads, wire>>

\* The program or the server's channel table lets the connection go.
OwnerRelease ==
    /\ Attached
    /\ "owner" \in refs
    /\ refs' = refs \ {"owner"}
    /\ impl' = IF refs = {"owner"} THEN "deleted" ELSE impl
    /\ UNCHANGED <<status, lockVars, socket, beatVars, bufVars, pc, argVars,
                   pending, envVars>>

-----------------------------------------------------------------------------
Init ==
    /\ status = {}
    /\ readers = [t \in Threads |-> 0]
    /\ upgrader = None /\ writer = None
    /\ impl = "none" /\ socket = "none" /\ refs = {"owner"}
    /\ send_package_ = 0 /\ recv_package_ = 0 /\ timer = FALSE
    /\ incoming_index_ = 0
    /\ duplex_ = [i \in {0, 1} |-> <<>>]
    /\ wbuf = <<>> /\ npush = 0
    /\ pc = [t \in Threads |-> "idle"]
    /\ handler = [t \in Threads |-> "HandleRead"]
    /\ ec = [t \in Threads |-> FALSE]
    /\ moved = [t \in Threads |-> 0]
    /\ pending = {}
    /\ net = "up" /\ nreads = 0 /\ wire = <<>>

DisconnectStep(t) ==
    \/ DcCheck(t) \/ DcUpgrade(t) \/ DcExclusive(t) \/ DcSetClosing(t)
    \/ DcCloseSocket(t) \/ DcTake(t) \/ DcImplClosed(t) \/ Return(t)

HandlerStep(t) ==
    \/ HandlerLock(t) \/ HandleRead(t) \/ ReadOn(t) \/ OOBRecv(t)
    \/ HandleWrite(t) \/ ServicePush(t) \/ ServiceSchedule(t)

CallerStep(t) ==
    \/ InitLock(t) \/ InitSocket(t) \/ InitRead(t) \/ RegisterTimer(t)
    \/ CallLock(t) \/ CallPush(t) \/ CallSchedule(t)
    \/ DisconnectCheck(t) \/ DisconnectLock(t) \/ DisconnectImpl(t)

TimerStep(t) == ExpiredLock(t) \/ Heartbeat(t)

\* What a thread does once it has started an operation.
Step(t) == HandlerStep(t) \/ CallerStep(t) \/ TimerStep(t) \/ DisconnectStep(t)

\* The io_service runs the handler of operation o.
Complete(o, e) == \E t \in IOThreads, n \in Transfers(o, e) : Dispatch(t, o, e, n)

\* What starts an operation.
Start ==
    \/ \E t \in Callers : AttachImpl(t) \/ CallMethod(t) \/ Disconnect(t)
    \/ \E o \in Handlers, e \in BOOLEAN : Complete(o, e)
    \/ TimerFire

Next == Start \/ (\E t \in Threads : Step(t)) \/ NetFails \/ OwnerRelease

Spec == Init /\ [][Next]_vars
-----------------------------------------------------------------------------
(* Fairness.  A thread that has started an operation keeps running; the    *)
(* io_service runs the handlers of failed operations and of writes.        *)
(* Nobody has to call, send or disconnect, and no timer has to fire unless *)
(* a property says that it does.                                           *)

Fairness ==
    /\ \A t \in Threads : WF_vars(Step(t))
    /\ WF_vars(\/ \E o \in Handlers : Complete(o, TRUE)
               \/ Complete("HandleWrite", FALSE))

FairSpec == Spec /\ Fairness

\* The timer fires as long as it is registered.
TimerRuns == WF_vars(TimerFire)

-----------------------------------------------------------------------------
(* Properties                                                              *)

TypeOK ==
    /\ status \in SUBSET Flags
    /\ readers \in [Threads -> Nat]
    /\ upgrader \in Threads \cup {None}
    /\ writer \in Threads \cup {None}
    /\ impl \in {"none", "alive", "deleted"}
    /\ socket \in {"none", "open", "closed"}
    /\ refs \in SUBSET ({"owner", "raw"} \cup Threads)
    /\ send_package_ \in Nat
    /\ recv_package_ \in Nat
    /\ timer \in BOOLEAN
    /\ incoming_index_ \in {0, 1}
    /\ duplex_ \in [{0, 1} -> Seq(Nat)]
    /\ wbuf \in Seq(Nat)
    /\ npush \in Nat
    /\ pc \in [Threads -> Labels]
    /\ handler \in [Threads -> Handlers]
    /\ ec \in [Threads -> BOOLEAN]
    /\ moved \in [Threads -> Nat]
    /\ pending \in SUBSET Handlers
    /\ net \in {"up", "silent", "broken"}
    /\ nreads \in Nat
    /\ wire \in Seq(Nat)

\* Inside the code a handler, a call or a heartbeat runs under the shared
\* lock.
Body == Handlers \cup
    {"sd_push", "sd_sched", "read_on", "cm_push", "cm_sched", "Heartbeat"}

\* The part of Disconnect that only the thread that set CLOSING runs.
Closing == {"dc_close", "dc_take", "dc_closed"}

\* A thread that is about to use the RawConnection (its members, through a
\* pointer that nothing keeps valid but the status protocol) finds it alive,
\* with the back pointer connection_ it hands to the services still set.
NoUseAfterFree ==
    \A t \in Threads :
        /\ pc[t] \in Body \cup Closing => impl = "alive"
        /\ pc[t] \in Body => "raw" \in refs

\* mSocket is dereferenced only while it is an open socket: Disconnect
\* resets it without any lock.
SocketUsable ==
    \A t \in Threads :
        pc[t] \in {"at_read", "read_on", "OOBRecv", "HandleWrite",
                   "sd_sched", "cm_sched", "Heartbeat"} => socket = "open"

\* The assertions of InitSocket, HandleRead, HandleWrite and ~Connection.
AssertionsHold ==
    /\ \A t \in Threads :
        /\ pc[t] = "at_init" => ~IsClosing
        /\ pc[t] = "HandleRead" => IsReading
        /\ pc[t] = "HandleWrite" => IsWriting
    /\ refs = {} => ~IsConnected

\* However many threads see the connection fail, one of them closes it, and
\* the socket is closed once.
OneCloser ==
    /\ \A t, u \in Threads : pc[t] \in Closing /\ pc[u] \in Closing => t = u
    /\ \A t \in Threads :
        pc[t] = "dc_close" => socket = "open" /\ "raw" \in refs

\* CallServiceMethodDone deletes the message when PushData fails and again
\* when ScheduleWrite fails: neither may find the connection closing.
ReplyNeverRejected ==
    \A t \in Threads :
        pc[t] \in {"sd_push", "sd_sched"} => ~IsClosing /\ impl = "alive"

\* Threads that run HandleWrite for a write that completed.
WriteHandled ==
    {t \in IOThreads : handler[t] = "HandleWrite"}

\* WRITTING means one write in progress: started and not handled yet.  The
\* buffers the kernel was given are those outcoming() still holds.
OneWriteInFlight ==
    ~IsClosing =>
        /\ IsWriting <=> ("HandleWrite" \in pending \/ WriteHandled # {})
        /\ "HandleWrite" \in pending =>
              WriteHandled = {} /\ wbuf = outcoming /\ wbuf # <<>>
        /\ Cardinality(WriteHandled) <= 1

\* While the connection works, whatever was pushed is in a write in progress,
\* or behind one, or will be scheduled by the thread that pushed it.
NoStrandedData ==
    ~IsWriting /\ ~IsClosing /\ net # "broken" =>
        /\ outcoming = <<>>
        /\ incoming # <<>> =>
              \E t \in Threads :
                  pc[t] \in {"cm_sched", "sd_sched"}

\* The stream of messages the connection implements: what was pushed is what
\* leaves, in order, without loss, duplicate or interleaving, and nothing is
\* accepted once the connection is closing.
Stream == INSTANCE MessageStream WITH
    accepted <- [i \in 1 .. 2 * npush |-> i],
    sent     <- wire,
    closed   <- IsClosing

StreamSpec == Stream!Spec

\* Nobody waits for ever on the status mutex: each operation returns.
EveryOperationReturns ==
    \A t \in Threads : pc[t] # "idle" ~> pc[t] = "idle"

\* A broken network is noticed by the handlers alone: the heartbeats may
\* never be sent.
BreakIsNoticed == Attached /\ net = "broken" ~> IsClosing

\* A peer that has fallen silent is noticed by the heartbeats.
SilenceIsNoticed == TimerRuns => (Attached /\ net = "silent" ~> IsClosing)

\* What was pushed leaves, or the connection closes.
EverythingLeaves == npush > 0 ~> IsClosing \/ Len(wire) = 2 * npush

\* The cycle of shared_ptr between Connection and RawConnection does not
\* outlive a close: once the owner has let go, everything is freed.
NoLeak == IsClosing /\ "owner" \notin refs ~> refs = {} /\ impl = "deleted"
=============================================================================
