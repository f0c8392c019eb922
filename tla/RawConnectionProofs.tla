------------------------ MODULE RawConnectionProofs ------------------------
(***************************************************************************)
(* Proofs about RawConnection, for any number of threads and messages:     *)
(* first the status, the locks and who closes, then, from these, the       *)
(* operations on the socket, the output buffers and the stream of          *)
(* messages.                                                               *)
(***************************************************************************)
EXTENDS RawConnection, FiniteSetTheorems, SequenceTheorems, TLAPS

(***************************************************************************)
(* The inductive invariant                                                 *)
(***************************************************************************)

\* Where a thread holds the status mutex shared.
Holding == Body \cup {"at_init", "at_read", "ud_impl", "dc_check"}

\* Where the connection is not handed out yet and no operation started.
Attaching == {"at_lock", "at_init"}

\* The mutex is held as the positions of the threads say, and the exclusive
\* lock excludes the shared ones.
Locks ==
    /\ \A t \in Threads : readers[t] = IF pc[t] \in Holding THEN 1 ELSE 0
    /\ \A t \in Threads : pc[t] = "dc_excl" <=> upgrader = t
    /\ \A t \in Threads : pc[t] = "dc_set" <=> writer = t
    /\ writer # None => upgrader = None /\ \A t \in Threads : readers[t] = 0

\* Until InitSocket starts the first operation nobody else is at work.
Fresh ==
    /\ impl = "none" =>
        /\ \A t \in Threads : pc[t] = "idle"
        /\ pending = {} /\ status = {} /\ timer = FALSE
    /\ \A t \in Threads : pc[t] \in Attaching =>
        /\ t \in Callers /\ impl = "alive"
        /\ pending = {} /\ status = {} /\ timer = FALSE
        /\ \A u \in Threads : u # t => pc[u] = "idle"

\* Nothing is freed, and the cycle of shared_ptr stands, until CLOSING.
Alive ==
    /\ impl = "deleted" => IsClosing
    /\ impl # "none" /\ "raw" \notin refs => IsClosing

\* The socket is open from InitSocket to CLOSING.
Opened ==
    impl # "none" /\ ~IsClosing /\ (\A t \in Threads : pc[t] \notin Attaching)
        => socket = "open"

\* The code under the shared lock runs on a connection that is not closing.
Bodies == \A t \in Threads : pc[t] \in Body \cup {"at_read"} => ~IsClosing

\* One thread closes, and what it still needs is there.
Closers ==
    /\ \A t \in Threads : pc[t] \in Closing => IsClosing /\ impl = "alive"
    /\ \A t \in Threads : pc[t] \in {"dc_close", "dc_take"} => "raw" \in refs
    /\ \A t \in Threads : pc[t] = "dc_close" => socket = "open"
    /\ \A t \in Threads : pc[t] = "dc_closed" => t \in refs
    /\ \A t, u \in Threads : pc[t] \in Closing /\ pc[u] \in Closing => t = u

Safe == Locks /\ Fresh /\ Alive /\ Opened /\ Bodies /\ Closers

IInv == TypeOK /\ Safe

-----------------------------------------------------------------------------
(***************************************************************************)
(* The output buffers keep their type.                                     *)
(***************************************************************************)

\* What Push, ScheduleWrite and WriteMore leave alone or keep typed.
BufferType ==
    /\ incoming_index_ \in {0, 1}
    /\ duplex_ \in [{0, 1} -> Seq(Nat)]
    /\ wbuf \in Seq(Nat)
    /\ npush \in Nat
    /\ status \in SUBSET Flags
    /\ pending \in SUBSET Handlers

\* The buffer indices name buffers.
LEMMA IndexType ==
  ASSUME TypeOK
  PROVE  /\ 1 - incoming_index_ \in {0, 1}
         /\ incoming \in Seq(Nat)
         /\ outcoming \in Seq(Nat)
BY DEF TypeOK, incoming, outcoming

\* RawConnection::PushData appends the two strings of a message.
LEMMA PushType ==
  ASSUME TypeOK, Push, UNCHANGED <<status, pending>>
  PROVE  BufferType'
<1>1. EncodeMessage(npush + 1) \in Seq(Nat)
  <2>1. 2 * (npush + 1) - 1 \in Nat /\ 2 * (npush + 1) \in Nat
    BY DEF TypeOK
  <2>2. QED BY <2>1 DEF EncodeMessage
<1>2. incoming \o EncodeMessage(npush + 1) \in Seq(Nat)
  BY <1>1, IndexType
<1>3. QED BY <1>2 DEF TypeOK, Push, BufferType, incoming

\* RawConnection::ScheduleWrite hands one of the buffers to the socket.
LEMMA ScheduleType ==
  ASSUME TypeOK, ScheduleWrite
  PROVE  BufferType'
<1> USE IndexType DEF TypeOK, BufferType, Flags, Handlers
<1>1. CASE IsWriting
  BY <1>1 DEF ScheduleWrite
<1>2. CASE ~IsWriting /\ incoming = <<>>
  BY <1>2 DEF ScheduleWrite
<1>3. CASE ~IsWriting /\ incoming # <<>>
  BY <1>3 DEF ScheduleWrite, StartWrite
<1>4. QED BY <1>1, <1>2, <1>3

\* RawConnection::HandleWrite drops what was written and goes on.
LEMMA WriteType ==
  ASSUME TypeOK, NEW n \in Nat, WriteMore(n)
  PROVE  BufferType'
<1> DEFINE rest == SubSeq(outcoming, n + 1, Len(outcoming))
<1>1. rest \in Seq(Nat)
  BY IndexType
<1>2. duplex_' = [duplex_ EXCEPT ![1 - incoming_index_] = rest] /\ npush' = npush
  BY DEF WriteMore
<1>3. duplex_' \in [{0, 1} -> Seq(Nat)] /\ npush' \in Nat
  BY <1>1, <1>2, IndexType DEF TypeOK
<1>4. CASE rest # <<>>
  <2>1. StartWrite(rest) /\ UNCHANGED <<status, incoming_index_>>
    BY <1>4 DEF WriteMore
  <2>2. QED BY <2>1, <1>1, <1>3 DEF TypeOK, BufferType, StartWrite, Handlers
<1>5. CASE rest = <<>> /\ incoming # <<>>
  <2>1. /\ incoming_index_' = 1 - incoming_index_
        /\ StartWrite(incoming) /\ UNCHANGED status
    BY <1>5 DEF WriteMore
  <2>2. QED BY <2>1, <1>3, IndexType DEF TypeOK, BufferType, StartWrite, Handlers
<1>6. CASE rest = <<>> /\ incoming = <<>>
  <2>1. /\ incoming_index_' = 1 - incoming_index_
        /\ status' = status \ {"WRITTING"} /\ wbuf' = <<>> /\ UNCHANGED pending
    BY <1>6 DEF WriteMore
  <2>2. QED BY <2>1, <1>3, IndexType DEF TypeOK, BufferType
<1>7. QED BY <1>4, <1>5, <1>6

\* Writing touches no flag but WRITTING.
LEMMA WriteKeepsClosing ==
  ASSUME TypeOK, NEW n \in Nat, WriteMore(n)
  PROVE  IsClosing' <=> IsClosing
<1>1. status' = status \/ status' = status \ {"WRITTING"}
  BY DEF WriteMore
<1>2. QED BY <1>1 DEF IsClosing

-----------------------------------------------------------------------------
(***************************************************************************)
(* Every step keeps the types.  A thread that gives the shared lock back   *)
(* holds it, so the number of readers stays natural.                       *)
(***************************************************************************)
LEMMA TypeStep ==
  ASSUME IInv, [Next]_vars PROVE TypeOK'
<1> USE DEF IInv, Safe, Locks, Holding, Body, TypeOK, Labels, Handlers, Flags,
            lockVars, objVars, beatVars, bufVars, argVars, envVars, OnlyLocks,
            Goto, Done, DropArgs, LockShared, TryLockShared, UnlockShared
<1>0. Callers \subseteq Threads /\ IOThreads \subseteq Threads /\ TimerThread \in Threads
  BY DEF Threads
<1>1. ASSUME NEW t \in Threads, t \in Callers, AttachImpl(t) PROVE TypeOK'
  BY <1>1 DEF AttachImpl
<1>2. ASSUME NEW t \in Threads, t \in Callers, CallMethod(t) PROVE TypeOK'
  BY <1>2 DEF CallMethod, Call
<1>3. ASSUME NEW t \in Threads, t \in Callers, Disconnect(t) PROVE TypeOK'
  BY <1>3 DEF Disconnect, Call
<1>4. ASSUME NEW t \in Threads, HandlerLock(t) PROVE TypeOK'
  <2>1. CASE IsClosing /\ TryLockShared /\ Goto(t, "idle") /\ DropArgs(t)
    BY <1>4, <2>1 DEF HandlerLock
  <2>2. CASE /\ ~IsClosing /\ LockShared(t)
              /\ Goto(t, handler[t]) /\ UNCHANGED argVars
    BY <1>4, <2>2 DEF HandlerLock
  <2>3. QED BY <1>4, <2>1, <2>2 DEF HandlerLock
<1>5. ASSUME NEW t \in Threads, HandleRead(t) PROVE TypeOK'
  <2>1. CASE /\ status' = status \ {"READING"} /\ Goto(t, "dc_check")
              /\ UNCHANGED <<lockVars, pending>>
    BY <1>5, <2>1 DEF HandleRead
  <2>2. CASE /\ pending' = pending \cup {"HandleRead"} /\ UnlockShared(t)
              /\ Goto(t, "idle") /\ UNCHANGED status
    BY <1>5, <2>2 DEF HandleRead
  <2>3. CASE Goto(t, "sd_push") /\ UNCHANGED <<status, lockVars, pending>>
    BY <1>5, <2>3 DEF HandleRead
  <2>4. QED BY <1>5, <2>1, <2>2, <2>3 DEF HandleRead, Decode, ReadFails
<1>6. ASSUME NEW t \in Threads, ReadOn(t) PROVE TypeOK'
  <2>1. CASE /\ status' = status \ {"READING"} /\ Goto(t, "dc_check")
              /\ UNCHANGED <<lockVars, pending>>
    BY <1>6, <2>1 DEF ReadOn
  <2>2. CASE /\ pending' = pending \cup {"HandleRead"} /\ UnlockShared(t)
              /\ Goto(t, "idle") /\ UNCHANGED status
    BY <1>6, <2>2 DEF ReadOn
  <2>3. CASE Goto(t, "sd_push") /\ UNCHANGED <<status, lockVars, pending>>
    BY <1>6, <2>3 DEF ReadOn
  <2>4. QED BY <1>6, <2>1, <2>2, <2>3 DEF ReadOn, Decode, ReadFails
<1>7. ASSUME NEW t \in Threads, OOBRecv(t) PROVE TypeOK'
  <2>1. CASE Goto(t, "dc_check") /\ UNCHANGED <<recv_package_, pending, lockVars>>
    BY <1>7, <2>1 DEF OOBRecv
  <2>2. CASE /\ recv_package_' = recv_package_ + 1
              /\ pending' = pending \cup {"OOBRecv"}
              /\ UnlockShared(t) /\ Goto(t, "idle")
    BY <1>7, <2>2 DEF OOBRecv
  <2>3. QED BY <1>7, <2>1, <2>2 DEF OOBRecv
<1>8. ASSUME NEW t \in Threads, HandleWrite(t) PROVE TypeOK'
  <2>1. CASE /\ status' = status \ {"WRITTING"} /\ Goto(t, "dc_check")
              /\ UNCHANGED <<bufVars, pending, lockVars>>
    BY <1>8, <2>1 DEF HandleWrite
  <2>2. CASE WriteMore(moved[t]) /\ UnlockShared(t) /\ Goto(t, "idle")
    BY <1>8, <2>2, WriteType DEF HandleWrite, BufferType
  <2>3. QED BY <1>8, <2>1, <2>2 DEF HandleWrite
<1>9. ASSUME NEW t \in Threads, ServicePush(t) PROVE TypeOK'
  <2>1. CASE Push
    BY <1>9, <2>1, PushType DEF ServicePush, BufferType
  <2>2. CASE UNCHANGED bufVars
    BY <1>9, <2>2 DEF ServicePush
  <2>3. QED BY <1>9, <2>1, <2>2 DEF ServicePush
<1>10. ASSUME NEW t \in Threads, ServiceSchedule(t) PROVE TypeOK'
  <2>1. CASE ScheduleWrite
    BY <1>10, <2>1, ScheduleType DEF ServiceSchedule, BufferType
  <2>2. CASE UNCHANGED <<status, bufVars, pending>>
    BY <1>10, <2>2 DEF ServiceSchedule
  <2>3. QED BY <1>10, <2>1, <2>2 DEF ServiceSchedule
<1>11. ASSUME NEW t \in Threads, InitLock(t) PROVE TypeOK'
  BY <1>11 DEF InitLock
<1>12. ASSUME NEW t \in Threads, InitSocket(t) PROVE TypeOK'
  BY <1>12 DEF InitSocket
<1>13. ASSUME NEW t \in Threads, InitRead(t) PROVE TypeOK'
  BY <1>13 DEF InitRead
<1>14. ASSUME NEW t \in Threads, RegisterTimer(t) PROVE TypeOK'
  BY <1>14 DEF RegisterTimer
<1>15. ASSUME NEW t \in Threads, CallLock(t) PROVE TypeOK'
  <2>1. CASE TryLockShared /\ Goto(t, "return")
    BY <1>15, <2>1 DEF CallLock
  <2>2. CASE /\ ~IsClosing /\ impl = "alive"
              /\ LockShared(t) /\ Goto(t, "cm_push")
    BY <1>15, <2>2 DEF CallLock
  <2>3. QED BY <1>15, <2>1, <2>2 DEF CallLock
<1>16. ASSUME NEW t \in Threads, CallPush(t) PROVE TypeOK'
  BY <1>16, PushType DEF CallPush, BufferType
<1>17. ASSUME NEW t \in Threads, CallSchedule(t) PROVE TypeOK'
  BY <1>17, ScheduleType DEF CallSchedule, BufferType
<1>18. ASSUME NEW t \in Threads, DisconnectCheck(t) PROVE TypeOK'
  BY <1>18 DEF DisconnectCheck
<1>19. ASSUME NEW t \in Threads, DisconnectLock(t) PROVE TypeOK'
  BY <1>19 DEF DisconnectLock
<1>20. ASSUME NEW t \in Threads, DisconnectImpl(t) PROVE TypeOK'
  <2>1. CASE Goto(t, "dc_check") /\ UNCHANGED lockVars
    BY <1>20, <2>1 DEF DisconnectImpl
  <2>2. CASE UnlockShared(t) /\ Goto(t, "return")
    BY <1>20, <2>2 DEF DisconnectImpl
  <2>3. QED BY <1>20, <2>1, <2>2 DEF DisconnectImpl
<1>21. ASSUME NEW t \in Threads, ExpiredLock(t) PROVE TypeOK'
  <2>1. CASE TryLockShared /\ Goto(t, "return")
    BY <1>21, <2>1 DEF ExpiredLock
  <2>2. CASE /\ ~IsClosing /\ impl = "alive"
              /\ LockShared(t) /\ Goto(t, "Heartbeat")
    BY <1>21, <2>2 DEF ExpiredLock
  <2>3. QED BY <1>21, <2>1, <2>2 DEF ExpiredLock
<1>22. ASSUME NEW t \in Threads, Heartbeat(t) PROVE TypeOK'
  <2>1. CASE UnlockShared(t) /\ Goto(t, "return")
    BY <1>22, <2>1 DEF Heartbeat
  <2>2. CASE Goto(t, "dc_check") /\ UNCHANGED lockVars
    BY <1>22, <2>2 DEF Heartbeat
  <2>3. QED BY <1>22, <2>1, <2>2 DEF Heartbeat
<1>23. ASSUME NEW t \in Threads, DcCheck(t) PROVE TypeOK'
  BY <1>23 DEF DcCheck
<1>24. ASSUME NEW t \in Threads, DcUpgrade(t) PROVE TypeOK'
  BY <1>24 DEF DcUpgrade, LockUpgrade
<1>25. ASSUME NEW t \in Threads, DcExclusive(t) PROVE TypeOK'
  BY <1>25 DEF DcExclusive, UnlockUpgradeAndLock
<1>26. ASSUME NEW t \in Threads, DcSetClosing(t) PROVE TypeOK'
  BY <1>26 DEF DcSetClosing, Unlock, IsClosing
<1>27. ASSUME NEW t \in Threads, DcCloseSocket(t) PROVE TypeOK'
  BY <1>27 DEF DcCloseSocket
<1>28. ASSUME NEW t \in Threads, DcTake(t) PROVE TypeOK'
  BY <1>28 DEF DcTake
<1>29. ASSUME NEW t \in Threads, DcImplClosed(t) PROVE TypeOK'
  BY <1>29 DEF DcImplClosed
<1>30. ASSUME NEW t \in Threads, Return(t) PROVE TypeOK'
  BY <1>30 DEF Return, IsConnected, IsIdle, IsClosing
<1>31. ASSUME NEW t \in IOThreads, NEW o \in Handlers, NEW e \in BOOLEAN,
             NEW n \in Transfers(o, e), Dispatch(t, o, e, n)
      PROVE  TypeOK'
  <2>1. n \in Nat /\ SubSeq(wbuf, 1, n) \in Seq(Nat)
    BY <1>31 DEF Transfers
  <2>2. wire \o SubSeq(wbuf, 1, n) \in Seq(Nat)
    BY <2>1
  <2>3. QED BY <1>0, <1>31, <2>1, <2>2 DEF Dispatch
<1>32. ASSUME TimerFire PROVE TypeOK'
  <2>1. CASE timer' = FALSE /\ UNCHANGED <<refs, pc>>
    BY <1>0, <1>32, <2>1 DEF TimerFire
  <2>2. CASE /\ refs' = refs \cup {TimerThread}
              /\ Goto(TimerThread, "ex_lock") /\ timer' = timer
    BY <1>0, <1>32, <2>2 DEF TimerFire
  <2>3. QED BY <1>32, <2>1, <2>2 DEF TimerFire
<1>33. ASSUME NetFails PROVE TypeOK'
  BY <1>33, BoundsAssumption DEF NetFails
<1>34. ASSUME OwnerRelease PROVE TypeOK'
  BY <1>34 DEF OwnerRelease
<1>35. ASSUME UNCHANGED vars PROVE TypeOK'
  BY <1>35 DEF vars
<1> HIDE DEF IInv, Safe, TypeOK
<1>36. QED BY <1>0, <1>1, <1>2, <1>3, <1>4, <1>5, <1>6, <1>7, <1>8, <1>9,
        <1>10, <1>11, <1>12, <1>13, <1>14, <1>15, <1>16, <1>17, <1>18, <1>19,
        <1>20, <1>21, <1>22, <1>23, <1>24, <1>25, <1>26, <1>27, <1>28, <1>29,
        <1>30, <1>31, <1>32, <1>33, <1>34, <1>35
     DEF Next, Start, Complete, Step, HandlerStep, CallerStep, TimerStep,
         DisconnectStep

-----------------------------------------------------------------------------
(***************************************************************************)
(* Every step keeps the rest of the invariant.                             *)
(***************************************************************************)
LEMMA SafeStep ==
  ASSUME IInv, [Next]_vars PROVE Safe'
<1> USE ThreadsAssumption
    DEF IInv, Safe, Locks, Fresh, Alive, Opened, Bodies, Closers, Closing,
        Attaching, Holding, Body, TypeOK, Labels, Handlers, Flags,
        IsClosing, lockVars, objVars, beatVars, bufVars, argVars, envVars,
        OnlyLocks, Goto, Done, DropArgs, LockShared, TryLockShared,
        UnlockShared
<1>0. Callers \subseteq Threads /\ IOThreads \subseteq Threads /\ TimerThread \in Threads
  BY DEF Threads
<1>1. ASSUME NEW t \in Threads, t \in Callers, AttachImpl(t) PROVE Safe'
  BY <1>1 DEF AttachImpl
<1>2. ASSUME NEW t \in Threads, t \in Callers, CallMethod(t) PROVE Safe'
  BY <1>2 DEF CallMethod, Call, Attached
<1>3. ASSUME NEW t \in Threads, t \in Callers, Disconnect(t) PROVE Safe'
  BY <1>3 DEF Disconnect, Call, Attached
<1>4. ASSUME NEW t \in Threads, HandlerLock(t) PROVE Safe'
  <2>1. CASE IsClosing /\ TryLockShared /\ Goto(t, "idle") /\ DropArgs(t)
    <3>1. Locks'
      BY <1>4, <2>1, SMTT(30) DEF HandlerLock
    <3>2. Fresh' /\ Alive' /\ Opened' /\ Bodies'
      BY <1>4, <2>1, SMTT(30) DEF HandlerLock
    <3>3. Closers'
      BY <1>4, <2>1, SMTT(30) DEF HandlerLock
    <3>4. QED BY <3>1, <3>2, <3>3
  <2>2. CASE /\ ~IsClosing /\ LockShared(t)
              /\ Goto(t, handler[t]) /\ UNCHANGED argVars
    BY <1>4, <2>2, SMTT(30) DEF HandlerLock
  <2>3. QED BY <1>4, <2>1, <2>2 DEF HandlerLock
<1>5. ASSUME NEW t \in Threads, HandleRead(t) PROVE Safe'
  <2>1. CASE /\ status' = status \ {"READING"} /\ Goto(t, "dc_check")
              /\ UNCHANGED <<lockVars, pending>>
    BY <1>5, <2>1, SMTT(30) DEF HandleRead
  <2>2. CASE /\ pending' = pending \cup {"HandleRead"} /\ UnlockShared(t)
              /\ Goto(t, "idle") /\ UNCHANGED status
    BY <1>5, <2>2, SMTT(30) DEF HandleRead
  <2>3. CASE Goto(t, "sd_push") /\ UNCHANGED <<status, lockVars, pending>>
    BY <1>5, <2>3, SMTT(30) DEF HandleRead
  <2>4. QED BY <1>5, <2>1, <2>2, <2>3 DEF HandleRead, Decode, ReadFails
<1>6. ASSUME NEW t \in Threads, ReadOn(t) PROVE Safe'
  <2>1. CASE /\ status' = status \ {"READING"} /\ Goto(t, "dc_check")
              /\ UNCHANGED <<lockVars, pending>>
    BY <1>6, <2>1, SMTT(30) DEF ReadOn
  <2>2. CASE /\ pending' = pending \cup {"HandleRead"} /\ UnlockShared(t)
              /\ Goto(t, "idle") /\ UNCHANGED status
    BY <1>6, <2>2, SMTT(30) DEF ReadOn
  <2>3. CASE Goto(t, "sd_push") /\ UNCHANGED <<status, lockVars, pending>>
    BY <1>6, <2>3, SMTT(30) DEF ReadOn
  <2>4. QED BY <1>6, <2>1, <2>2, <2>3 DEF ReadOn, Decode, ReadFails
<1>7. ASSUME NEW t \in Threads, OOBRecv(t) PROVE Safe'
  <2>1. CASE Goto(t, "dc_check") /\ UNCHANGED <<recv_package_, pending, lockVars>>
    BY <1>7, <2>1, SMTT(30) DEF OOBRecv
  <2>2. CASE /\ recv_package_' = recv_package_ + 1
              /\ pending' = pending \cup {"OOBRecv"}
              /\ UnlockShared(t) /\ Goto(t, "idle")
    BY <1>7, <2>2, SMTT(30) DEF OOBRecv
  <2>3. QED BY <1>7, <2>1, <2>2 DEF OOBRecv
<1>8. ASSUME NEW t \in Threads, HandleWrite(t) PROVE Safe'
  <2>1. CASE /\ status' = status \ {"WRITTING"} /\ Goto(t, "dc_check")
              /\ UNCHANGED <<bufVars, pending, lockVars>>
    BY <1>8, <2>1, SMTT(30) DEF HandleWrite
  <2>2. CASE WriteMore(moved[t]) /\ UnlockShared(t) /\ Goto(t, "idle")
    BY <1>8, <2>2, WriteKeepsClosing, SMTT(30) DEF HandleWrite
  <2>3. QED BY <1>8, <2>1, <2>2 DEF HandleWrite
<1>9. ASSUME NEW t \in Threads, ServicePush(t) PROVE Safe'
  BY <1>9 DEF ServicePush, Push
<1>10. ASSUME NEW t \in Threads, ServiceSchedule(t) PROVE Safe'
  BY <1>10 DEF ServiceSchedule, ScheduleWrite, StartWrite
<1>11. ASSUME NEW t \in Threads, InitLock(t) PROVE Safe'
  BY <1>11 DEF InitLock
<1>12. ASSUME NEW t \in Threads, InitSocket(t) PROVE Safe'
  BY <1>12 DEF InitSocket
<1>13. ASSUME NEW t \in Threads, InitRead(t) PROVE Safe'
  BY <1>13 DEF InitRead
<1>14. ASSUME NEW t \in Threads, RegisterTimer(t) PROVE Safe'
  BY <1>14 DEF RegisterTimer
<1>15. ASSUME NEW t \in Threads, CallLock(t) PROVE Safe'
  <2>1. CASE TryLockShared /\ Goto(t, "return")
    BY <1>15, <2>1, SMTT(30) DEF CallLock
  <2>2. CASE /\ ~IsClosing /\ impl = "alive"
              /\ LockShared(t) /\ Goto(t, "cm_push")
    BY <1>15, <2>2, SMTT(30) DEF CallLock
  <2>3. QED BY <1>15, <2>1, <2>2 DEF CallLock
<1>16. ASSUME NEW t \in Threads, CallPush(t) PROVE Safe'
  BY <1>16 DEF CallPush, Push
<1>17. ASSUME NEW t \in Threads, CallSchedule(t) PROVE Safe'
  BY <1>17 DEF CallSchedule, ScheduleWrite, StartWrite
<1>18. ASSUME NEW t \in Threads, DisconnectCheck(t) PROVE Safe'
  <2>. /\ pc[t] = "ud_check"
       /\ UNCHANGED <<status, lockVars, objVars, beatVars, bufVars, argVars,
                      pending, envVars>>
    BY <1>18 DEF DisconnectCheck
  <2>1. CASE Goto(t, "return")
    BY <2>1, SMTT(30)
  <2>2. CASE Goto(t, "ud_lock")
    BY <2>2, SMTT(30)
  <2>3. QED BY <1>18, <2>1, <2>2 DEF DisconnectCheck
<1>19. ASSUME NEW t \in Threads, DisconnectLock(t) PROVE Safe'
  BY <1>19 DEF DisconnectLock
<1>20. ASSUME NEW t \in Threads, DisconnectImpl(t) PROVE Safe'
  <2>1. CASE Goto(t, "dc_check") /\ UNCHANGED lockVars
    BY <1>20, <2>1, SMTT(30) DEF DisconnectImpl
  <2>2. CASE UnlockShared(t) /\ Goto(t, "return")
    BY <1>20, <2>2, SMTT(30) DEF DisconnectImpl
  <2>3. QED BY <1>20, <2>1, <2>2 DEF DisconnectImpl
<1>21. ASSUME NEW t \in Threads, ExpiredLock(t) PROVE Safe'
  <2>1. CASE TryLockShared /\ Goto(t, "return")
    BY <1>21, <2>1, SMTT(30) DEF ExpiredLock
  <2>2. CASE /\ ~IsClosing /\ impl = "alive"
              /\ LockShared(t) /\ Goto(t, "Heartbeat")
    BY <1>21, <2>2, SMTT(30) DEF ExpiredLock
  <2>3. QED BY <1>21, <2>1, <2>2 DEF ExpiredLock
<1>22. ASSUME NEW t \in Threads, Heartbeat(t) PROVE Safe'
  <2>1. CASE UnlockShared(t) /\ Goto(t, "return")
    BY <1>22, <2>1, SMTT(30) DEF Heartbeat
  <2>2. CASE Goto(t, "dc_check") /\ UNCHANGED lockVars
    BY <1>22, <2>2, SMTT(30) DEF Heartbeat
  <2>3. QED BY <1>22, <2>1, <2>2 DEF Heartbeat
<1>23. ASSUME NEW t \in Threads, DcCheck(t) PROVE Safe'
  BY <1>23 DEF DcCheck
<1>24. ASSUME NEW t \in Threads, DcUpgrade(t) PROVE Safe'
  BY <1>24 DEF DcUpgrade, LockUpgrade
<1>25. ASSUME NEW t \in Threads, DcExclusive(t) PROVE Safe'
  BY <1>25 DEF DcExclusive, UnlockUpgradeAndLock
<1>26. ASSUME NEW t \in Threads, DcSetClosing(t) PROVE Safe'
  BY <1>26 DEF DcSetClosing, Unlock
<1>27. ASSUME NEW t \in Threads, DcCloseSocket(t) PROVE Safe'
  BY <1>27 DEF DcCloseSocket
<1>28. ASSUME NEW t \in Threads, DcTake(t) PROVE Safe'
  <2>1. Locks'
    BY <1>28, SMTT(30) DEF DcTake, Async
  <2>2. Fresh'
    BY <1>28, SMTT(30) DEF DcTake, Async
  <2>3. Alive'
    BY <1>28, SMTT(30) DEF DcTake, Async
  <2>4. Opened'
    BY <1>28, SMTT(30) DEF DcTake, Async
  <2>5. Bodies'
    BY <1>28, SMTT(30) DEF DcTake, Async
  <2>6. Closers'
    BY <1>28, SMTT(30) DEF DcTake, Async
  <2>7. QED BY <2>1, <2>2, <2>3, <2>4, <2>5, <2>6
<1>29. ASSUME NEW t \in Threads, DcImplClosed(t) PROVE Safe'
  BY <1>29 DEF DcImplClosed
<1>30. ASSUME NEW t \in Threads, Return(t) PROVE Safe'
  <2>1. CASE refs = {t}
    BY <1>30, <2>1, SMTT(30) DEF Return
  <2>2. CASE refs # {t}
    BY <1>30, <2>2, SMTT(30) DEF Return
  <2>3. QED BY <1>30, <2>1, <2>2 DEF Return
<1>31. ASSUME NEW t \in IOThreads, NEW o \in Handlers, NEW e \in BOOLEAN,
             NEW n \in Transfers(o, e), Dispatch(t, o, e, n)
      PROVE  Safe'
  BY <1>0, <1>31 DEF Dispatch, Transfers
<1>32. ASSUME TimerFire PROVE Safe'
  <2>1. CASE timer' = FALSE /\ UNCHANGED <<refs, pc>>
    BY <1>0, <1>32, <2>1 DEF TimerFire
  <2>2. CASE /\ refs' = refs \cup {TimerThread}
              /\ Goto(TimerThread, "ex_lock") /\ timer' = timer
    BY <1>0, <1>32, <2>2 DEF TimerFire
  <2>3. QED BY <1>32, <2>1, <2>2 DEF TimerFire
<1>33. ASSUME NetFails PROVE Safe'
  BY <1>33, BoundsAssumption DEF NetFails
<1>34. ASSUME OwnerRelease PROVE Safe'
  BY <1>34 DEF OwnerRelease, Attached
<1>35. ASSUME UNCHANGED vars PROVE Safe'
  BY <1>35 DEF vars
<1> HIDE DEF IInv, Safe, TypeOK
<1>36. QED BY <1>0, <1>1, <1>2, <1>3, <1>4, <1>5, <1>6, <1>7, <1>8, <1>9,
        <1>10, <1>11, <1>12, <1>13, <1>14, <1>15, <1>16, <1>17, <1>18, <1>19,
        <1>20, <1>21, <1>22, <1>23, <1>24, <1>25, <1>26, <1>27, <1>28, <1>29,
        <1>30, <1>31, <1>32, <1>33, <1>34, <1>35
     DEF Next, Start, Complete, Step, HandlerStep, CallerStep, TimerStep,
         DisconnectStep

-----------------------------------------------------------------------------
(***************************************************************************)
(* The theorems                                                            *)
(***************************************************************************)

\* A connection that nobody attached yet satisfies the invariant.
LEMMA InitInv == Init => IInv
<1> SUFFICES ASSUME Init PROVE IInv
  OBVIOUS
<1>1. TypeOK
  BY DEF Init, TypeOK, Labels, Handlers, Flags
<1>2. Safe
  BY ThreadsAssumption
     DEF Init, Safe, Locks, Fresh, Alive, Opened, Bodies, Closers, Closing,
         Attaching, Holding, Body, Handlers, IsClosing
<1>3. QED BY <1>1, <1>2 DEF IInv

\* The invariant is inductive: it holds in every state any number of threads
\* can reach.
THEOREM Invariance == Spec => []IInv
<1>1. IInv /\ [Next]_vars => IInv'
  BY TypeStep, SafeStep DEF IInv
<1>2. QED BY InitInv, <1>1, PTL DEF Spec

\* Every variable keeps its type; in particular no thread ever gives back a
\* shared lock it does not hold.
THEOREM TypeCorrect == Spec => []TypeOK
<1>1. IInv => TypeOK
  BY DEF IInv
<1>2. QED BY Invariance, <1>1, PTL

\* No handler, call, heartbeat or closing thread uses a RawConnection that
\* another one has deleted.
THEOREM Lifetime == Spec => []NoUseAfterFree
<1>1. IInv => NoUseAfterFree
  BY DEF IInv, TypeOK, Safe, Fresh, Alive, Bodies, Closers, NoUseAfterFree,
         Body, Closing, Handlers
<1>2. QED BY Invariance, <1>1, PTL

\* mSocket, which Disconnect resets without a lock, is never used after.
THEOREM SocketLifetime == Spec => []SocketUsable
<1>1. IInv => SocketUsable
  BY DEF IInv, TypeOK, Safe, Fresh, Opened, Bodies, SocketUsable, Body,
         Handlers, Attaching
<1>2. QED BY Invariance, <1>1, PTL

\* However many threads see the connection fail, one of them closes it.
THEOREM SingleClose == Spec => []OneCloser
<1>1. IInv => OneCloser
  BY DEF IInv, Safe, Closers, OneCloser
<1>2. QED BY Invariance, <1>1, PTL

\* The reply of a service run inside a read handler always finds the
\* connection open, so the message it pushed is deleted once.
THEOREM ReplyAccepted == Spec => []ReplyNeverRejected
<1>1. IInv => ReplyNeverRejected
  BY DEF IInv, TypeOK, Safe, Fresh, Alive, Bodies, ReplyNeverRejected, Body,
         Handlers
<1>2. QED BY Invariance, <1>1, PTL

(***************************************************************************)
(* The operations on the socket, the output buffers, and the stream of     *)
(* messages that they carry                                                *)
(***************************************************************************)

\* A handler has its arguments from the completion of its operation until it
\* drops them, and it is called with an error only when there is one.
Args ==
    \A t \in Threads :
        /\ pc[t] \in Handlers \cup {"h_lock"} => t \in IOThreads
        /\ pc[t] \in Handlers => handler[t] = pc[t]
        /\ pc[t] \notin Handlers \cup {"h_lock"} =>
              handler[t] = "HandleRead" /\ ~ec[t] /\ moved[t] = 0
        /\ ec[t] => net = "broken" \/ IsClosing

\* The threads that have the read that completed, up to the next one.
ReadHandled ==
    {t \in Threads :
        \/ pc[t] \in {"HandleRead", "sd_push", "sd_sched", "read_on"}
        \/ pc[t] = "h_lock" /\ handler[t] = "HandleRead"}

\* One read is in progress or handled, from InitSocket on, and with READING
\* the last one goes.
OneRead ==
    ~IsClosing =>
        /\ \A t \in ReadHandled : IsReading /\ "HandleRead" \notin pending
        /\ "HandleRead" \in pending => IsReading
        /\ \A t, u \in ReadHandled : t = u
        /\ \A t \in Threads : pc[t] = "at_read" =>
              /\ "HandleRead" \notin pending /\ ReadHandled = {}
              /\ \A u \in Threads : pc[u] = "at_read" => u = t

\* OneWriteInFlight, without its cardinality.
OneWrite ==
    ~IsClosing =>
        /\ IsWriting <=> ("HandleWrite" \in pending \/ WriteHandled # {})
        /\ "HandleWrite" \in pending =>
              WriteHandled = {} /\ wbuf = outcoming /\ wbuf # <<>>
        /\ \A t, u \in WriteHandled : t = u

\* The two buffers hold the units after the first b, in order.
Buffered(b) ==
    /\ b + Len(outcoming) + Len(incoming) = 2 * npush
    /\ \A i \in 1 .. Len(outcoming) : outcoming[i] = b + i
    /\ \A i \in 1 .. Len(incoming) : incoming[i] = b + Len(outcoming) + i

\* The units leave in order.  The ones that left are dropped from their buffer
\* when the write is handled.
InOrder ==
    ~IsClosing /\ net # "broken" =>
        /\ WriteHandled = {} => Buffered(Len(wire))
        /\ \A t \in WriteHandled :
              /\ moved[t] <= Len(wire) /\ moved[t] <= Len(outcoming)
              /\ Buffered(Len(wire) - moved[t])

\* What the kernel was given are the units after those that left.
Given ==
    "HandleWrite" \in pending /\ net # "broken" =>
        /\ Len(wire) + Len(wbuf) <= 2 * npush
        /\ \A i \in 1 .. Len(wbuf) : wbuf[i] = Len(wire) + i

\* What left are the first units.  A connection that is closing may still
\* send what the kernel has.
Left ==
    /\ Len(wire) <= 2 * npush
    /\ \A i \in 1 .. Len(wire) : wire[i] = i
    /\ Given

Flow == Args /\ OneRead /\ OneWrite /\ NoStrandedData /\ InOrder /\ Left

-----------------------------------------------------------------------------
(***************************************************************************)
(* What the operations do to the two buffers                               *)
(***************************************************************************)

\* The buffers are sequences of units.
LEMMA Buffers ==
  ASSUME TypeOK
  PROVE  /\ incoming \in Seq(Nat) /\ outcoming \in Seq(Nat)
         /\ Len(incoming) \in Nat /\ Len(outcoming) \in Nat
         /\ Len(wire) \in Nat /\ Len(wbuf) \in Nat
<1>1. incoming \in Seq(Nat) /\ outcoming \in Seq(Nat)
  BY IndexType
<1>2. QED BY <1>1 DEF TypeOK

\* A step that leaves bufVars alone leaves both buffers alone.
LEMMA SameBuffers ==
  ASSUME UNCHANGED bufVars
  PROVE  UNCHANGED <<incoming, outcoming, wbuf, npush>>
BY DEF bufVars, incoming, outcoming

\* RawConnection::PushData adds the message behind what is in incoming.
LEMMA PushEffect ==
  ASSUME TypeOK, Push
  PROVE  /\ incoming' = incoming \o EncodeMessage(npush + 1)
         /\ UNCHANGED <<outcoming, wbuf>>
         /\ npush' = npush + 1
<1>1. /\ 1 - incoming_index_ \in {0, 1} /\ incoming_index_ \in {0, 1}
      /\ 1 - incoming_index_ # incoming_index_
      /\ duplex_ \in [{0, 1} -> Seq(Nat)]
  BY DEF TypeOK
<1>2. /\ incoming_index_' = incoming_index_
      /\ duplex_' = [duplex_ EXCEPT ![incoming_index_] =
                          incoming \o EncodeMessage(npush + 1)]
  BY DEF Push, incoming
<1>3. incoming' = incoming \o EncodeMessage(npush + 1) /\ outcoming' = outcoming
  BY <1>1, <1>2 DEF incoming, outcoming
<1>4. QED BY <1>3 DEF Push

\* RawConnection::ScheduleWrite exchanges the buffers unless a write is in
\* progress, and writes what was pushed.
LEMMA ScheduleEffect ==
  ASSUME TypeOK, ScheduleWrite
  PROVE  /\ npush' = npush
         /\ IF IsWriting
            THEN UNCHANGED <<status, pending, wbuf, incoming, outcoming>>
            ELSE /\ incoming' = outcoming /\ outcoming' = incoming
                 /\ IF incoming = <<>>
                    THEN UNCHANGED <<status, pending, wbuf>>
                    ELSE /\ status' = status \cup {"WRITTING"}
                         /\ pending' = pending \cup {"HandleWrite"}
                         /\ wbuf' = incoming
<1>1. CASE IsWriting
  BY <1>1 DEF ScheduleWrite, incoming, outcoming
<1>2. CASE ~IsWriting
  <2>1. incoming_index_' = 1 - incoming_index_ /\ duplex_' = duplex_
    BY <1>2 DEF ScheduleWrite
  <2>2. 1 - (1 - incoming_index_) = incoming_index_
    BY DEF TypeOK
  <2>3. incoming' = outcoming /\ outcoming' = incoming
    BY <2>1, <2>2 DEF incoming, outcoming
  <2>4. QED BY <1>2, <2>3 DEF ScheduleWrite, StartWrite
<1>3. QED BY <1>1, <1>2

\* RawConnection::HandleWrite drops the n units that left, and goes on with
\* the rest, or with the other buffer.
LEMMA WriteEffect ==
  ASSUME TypeOK, NEW n \in Nat, WriteMore(n)
  PROVE  LET rest == SubSeq(outcoming, n + 1, Len(outcoming))
         IN  /\ npush' = npush
             /\ IF rest # <<>>
                THEN /\ outcoming' = rest /\ incoming' = incoming
                     /\ wbuf' = rest /\ status' = status
                     /\ pending' = pending \cup {"HandleWrite"}
                ELSE /\ outcoming' = incoming /\ incoming' = <<>>
                     /\ wbuf' = incoming
                     /\ IF incoming # <<>>
                        THEN /\ status' = status
                             /\ pending' = pending \cup {"HandleWrite"}
                        ELSE /\ status' = status \ {"WRITTING"}
                             /\ pending' = pending
<1> DEFINE rest == SubSeq(outcoming, n + 1, Len(outcoming))
<1>1. /\ duplex_' = [duplex_ EXCEPT ![1 - incoming_index_] = rest]
      /\ npush' = npush
  BY DEF WriteMore
<1>2. /\ 1 - incoming_index_ \in {0, 1} /\ incoming_index_ \in {0, 1}
      /\ 1 - incoming_index_ # incoming_index_
      /\ 1 - (1 - incoming_index_) = incoming_index_
      /\ duplex_ \in [{0, 1} -> Seq(Nat)]
  BY DEF TypeOK
<1>3. duplex_'[1 - incoming_index_] = rest /\ duplex_'[incoming_index_] = incoming
  BY <1>1, <1>2 DEF incoming
<1>4. CASE rest # <<>>
  <2>1. StartWrite(rest) /\ UNCHANGED <<status, incoming_index_>>
    BY <1>4 DEF WriteMore
  <2>2. outcoming' = rest /\ incoming' = incoming
    BY <1>3, <2>1 DEF incoming, outcoming
  <2>3. QED BY <1>1, <1>4, <2>1, <2>2 DEF StartWrite
<1>5. CASE rest = <<>>
  <2>1. /\ incoming_index_' = 1 - incoming_index_
        /\ IF incoming # <<>>
           THEN StartWrite(incoming) /\ UNCHANGED status
           ELSE /\ status' = status \ {"WRITTING"} /\ wbuf' = <<>>
                /\ UNCHANGED pending
    BY <1>5 DEF WriteMore
  <2>2. outcoming' = incoming /\ incoming' = <<>>
    BY <1>2, <1>3, <1>5, <2>1 DEF incoming, outcoming
  <2>3. QED BY <1>1, <1>5, <2>1, <2>2 DEF StartWrite
<1>6. QED BY <1>4, <1>5

-----------------------------------------------------------------------------
(***************************************************************************)
(* The kinds of steps                                                      *)
(***************************************************************************)

\* Where a thread has nothing to do with the operations on the socket and has
\* pushed nothing.
Aside ==
    Labels \ (Handlers \cup {"h_lock", "sd_push", "sd_sched", "read_on",
                             "at_read", "cm_sched"})

\* A step that touches neither the flags, the buffers nor the socket.
Quiet ==
    /\ UNCHANGED <<status, bufVars, argVars, pending, net, wire>>
    /\ \A t \in Threads :
          pc'[t] = pc[t] \/ (pc[t] \in Aside /\ pc'[t] \in Aside)

\* The other steps of a thread.
Busy(t) ==
    \/ HandlerLock(t) \/ HandleRead(t) \/ ReadOn(t) \/ OOBRecv(t)
    \/ HandleWrite(t) \/ ServicePush(t) \/ ServiceSchedule(t) \/ CallPush(t)
    \/ CallSchedule(t) \/ InitSocket(t) \/ InitRead(t) \/ DcSetClosing(t)

\* A thread that moves aside, with the socket left alone, is quiet.
LEMMA AsideIsQuiet ==
  ASSUME TypeOK, NEW t \in Threads, NEW l \in Aside, pc[t] \in Aside,
         pc' = [pc EXCEPT ![t] = l],
         UNCHANGED <<status, bufVars, argVars, pending, net, wire>>
  PROVE  Quiet
BY DEF TypeOK, Quiet

\* Every step is quiet, or one of those.
LEMMA Kinds ==
  ASSUME IInv, [Next]_vars
  PROVE  \/ Quiet
         \/ NetFails
         \/ \E t \in Threads : Busy(t)
         \/ \E t \in IOThreads, o \in Handlers, e \in BOOLEAN :
               \E n \in Transfers(o, e) : Dispatch(t, o, e, n)
<1>1. TypeOK /\ Callers \subseteq Threads /\ TimerThread \in Threads
  BY DEF IInv, Threads
<1> USE <1>1, AsideIsQuiet DEF Aside, Labels, Handlers, OnlyLocks, Goto, envVars
<1>2. ASSUME NEW t \in Callers, AttachImpl(t) \/ CallMethod(t) \/ Disconnect(t)
      PROVE  Quiet
  BY <1>2 DEF AttachImpl, CallMethod, Disconnect, Call
<1>3. ASSUME NEW t \in Threads, InitLock(t) \/ RegisterTimer(t) \/ CallLock(t)
      PROVE  Quiet
  BY <1>3 DEF InitLock, RegisterTimer, CallLock
<1>4. ASSUME NEW t \in Threads,
             DisconnectCheck(t) \/ DisconnectLock(t) \/ DisconnectImpl(t)
      PROVE  Quiet
  BY <1>4 DEF DisconnectCheck, DisconnectLock, DisconnectImpl
<1>5. ASSUME NEW t \in Threads, TimerStep(t)
      PROVE  Quiet
  BY <1>5 DEF TimerStep, ExpiredLock, Heartbeat
<1>6. ASSUME NEW t \in Threads, DcCheck(t) \/ DcUpgrade(t) \/ DcExclusive(t)
      PROVE  Quiet
  BY <1>6 DEF DcCheck, DcUpgrade, DcExclusive, Done
<1>7. ASSUME NEW t \in Threads, DcCloseSocket(t) \/ DcTake(t) \/ DcImplClosed(t)
      PROVE  Quiet
  BY <1>7 DEF DcCloseSocket, DcTake, DcImplClosed
<1>8. ASSUME NEW t \in Threads, Return(t)
      PROVE  Quiet
  BY <1>8 DEF Return
<1>9. ASSUME TimerFire
      PROVE  Quiet
  <2>1. CASE refs = {}
    BY <1>9, <2>1 DEF TimerFire, Quiet
  <2>2. CASE refs # {}
    BY <1>9, <2>2 DEF TimerFire
  <2>3. QED BY <2>1, <2>2
<1>10. ASSUME OwnerRelease \/ UNCHANGED vars
       PROVE  Quiet
  BY <1>10 DEF OwnerRelease, vars, Quiet
<1> HIDE DEF Aside, Labels, Handlers
<1>11. QED
  BY <1>2, <1>3, <1>4, <1>5, <1>6, <1>7, <1>8, <1>9, <1>10
     DEF Next, Start, Complete, Step, HandlerStep, CallerStep, DisconnectStep,
         Busy

\* The threads' places and arguments are functions.
LEMMA Funs ==
  ASSUME TypeOK
  PROVE  /\ pc \in [Threads -> Labels] /\ handler \in [Threads -> Handlers]
         /\ ec \in [Threads -> BOOLEAN] /\ moved \in [Threads -> Nat]
BY DEF TypeOK

\* A thread under the shared lock finds a connection that is not closing, so
\* its push is accepted.
LEMMA PushStep ==
  ASSUME IInv, NEW t \in Threads, ServicePush(t) \/ CallPush(t)
  PROVE  /\ Push /\ ~IsClosing
         /\ UNCHANGED <<status, argVars, pending, net, wire>>
         /\ \E l \in {"sd_sched", "cm_sched"} : pc' = [pc EXCEPT ![t] = l]
<1>1. ~IsClosing /\ impl = "alive"
  BY DEF IInv, TypeOK, Safe, Fresh, Alive, Bodies, Body, ServicePush, CallPush
<1>2. QED BY <1>1 DEF ServicePush, CallPush, Goto, envVars

\* And what it pushed is scheduled.
LEMMA ScheduleStep ==
  ASSUME IInv, NEW t \in Threads, ServiceSchedule(t) \/ CallSchedule(t)
  PROVE  /\ ScheduleWrite /\ ~IsClosing
         /\ UNCHANGED <<argVars, net, wire>>
         /\ pc[t] \in {"sd_sched", "cm_sched"}
<1>1. ~IsClosing /\ impl = "alive"
  BY DEF IInv, TypeOK, Safe, Fresh, Alive, Bodies, Body, ServiceSchedule,
     CallSchedule
<1>2. QED BY <1>1 DEF ServiceSchedule, CallSchedule, envVars

\* A closing connection stays one.
LEMMA ClosingStays ==
  ASSUME IInv, [Next]_vars, IsClosing
  PROVE  IsClosing'
<1>1. TypeOK
  BY DEF IInv
<1>2. ASSUME NEW t \in Threads, Busy(t)
      PROVE  IsClosing'
  <2>1. CASE HandleWrite(t) \/ HandleRead(t)
    BY <2>1 DEF HandleWrite, HandleRead, Decode, ReadFails, IInv, Safe,
        Bodies, Body, Handlers
  <2>2. CASE ServiceSchedule(t) \/ CallSchedule(t)
    BY <2>2, ScheduleStep
  <2>3. CASE HandlerLock(t) \/ ReadOn(t) \/ OOBRecv(t) \/ ServicePush(t)
    BY <2>3 DEF HandlerLock, ReadOn, Decode, ReadFails, OOBRecv, ServicePush,
        IsClosing
  <2>4. CASE CallPush(t) \/ InitSocket(t) \/ InitRead(t) \/ DcSetClosing(t)
    BY <2>4 DEF CallPush, InitSocket, InitRead, DcSetClosing, IsClosing
  <2>5. QED BY <1>2, <2>1, <2>2, <2>3, <2>4 DEF Busy
<1>3. QED
  BY <1>2, Kinds DEF Quiet, NetFails, Dispatch, IsClosing

-----------------------------------------------------------------------------
(***************************************************************************)
(* Every step keeps the parts of the invariant.                            *)
(***************************************************************************)

\* Arguments are given by the completion and dropped with the handler.
LEMMA ArgsStep ==
  ASSUME IInv, Flow, [Next]_vars
  PROVE  Args'
<1>1. TypeOK /\ Args /\ (IsClosing => IsClosing')
  BY ClosingStays DEF IInv, Flow
<1> USE Funs DEF Args, Handlers, Goto, argVars, envVars
<1>2. ASSUME NEW t \in Threads, Busy(t)
      PROVE  Args'
  <2>1. CASE HandlerLock(t)
    BY <1>1, <2>1 DEF HandlerLock, DropArgs
  <2>2. CASE HandleRead(t) \/ OOBRecv(t) \/ HandleWrite(t)
    BY <1>1, <2>2 DEF HandleRead, Decode, ReadFails, OOBRecv, HandleWrite,
        DropArgs
  <2>3. CASE ReadOn(t) \/ ServicePush(t) \/ ServiceSchedule(t)
    BY <1>1, <2>3 DEF ReadOn, Decode, ReadFails, ServicePush, ServiceSchedule
  <2>4. CASE CallPush(t) \/ CallSchedule(t)
    BY <1>1, <2>4 DEF CallPush, CallSchedule
  <2>5. CASE InitSocket(t) \/ InitRead(t) \/ DcSetClosing(t)
    BY <1>1, <2>5 DEF InitSocket, InitRead, DcSetClosing, Done
  <2>6. QED BY <1>2, <2>1, <2>2, <2>3, <2>4, <2>5 DEF Busy
<1>3. ASSUME NEW t \in IOThreads, NEW o \in Handlers, NEW e \in BOOLEAN,
             NEW n \in Transfers(o, e), Dispatch(t, o, e, n)
      PROVE  Args'
  <2>1. e => net = "broken" \/ IsClosing
    \* An operation fails on a broken network, or once the socket is closed.
    BY <1>3 DEF Dispatch, Completes, IInv, Safe, Fresh, Opened, Attaching
  <2>2. t \in Threads
    BY DEF Threads
  <2>3. QED BY <1>1, <1>3, <2>1, <2>2 DEF Dispatch
<1>4. CASE Quiet
  BY <1>1, <1>4 DEF Quiet, Aside
<1>5. CASE NetFails
  BY <1>1, <1>5 DEF NetFails
<1>6. QED BY <1>2, <1>3, <1>4, <1>5, Kinds

\* One read is in progress or handled.
LEMMA OneReadStep ==
  ASSUME IInv, Flow, [Next]_vars
  PROVE  OneRead'
<1>1. TypeOK /\ Args /\ OneRead /\ Fresh /\ Bodies
  BY DEF IInv, Safe, Flow
<1> USE <1>1, Funs DEF OneRead, ReadHandled, IsReading, IsClosing, Handlers,
                       Args, Bodies, Body, Goto, argVars
<1>2. ASSUME NEW t \in Threads, Busy(t)
      PROVE  OneRead'
  <2>1. CASE HandlerLock(t)
    BY <2>1 DEF HandlerLock, DropArgs
  <2>2. CASE HandleRead(t)
    BY <2>2 DEF HandleRead, Decode, ReadFails, DropArgs
  <2>3. CASE ReadOn(t)
    BY <2>3 DEF ReadOn, Decode, ReadFails
  <2>4. CASE OOBRecv(t)
    BY <2>4 DEF OOBRecv, DropArgs
  <2>5. CASE HandleWrite(t)
    <3>1. /\ IsReading' <=> IsReading
          /\ "HandleRead" \in pending' <=> "HandleRead" \in pending
      BY <2>5, WriteEffect DEF HandleWrite
    <3>2. QED BY <2>5, <3>1 DEF HandleWrite, DropArgs
  <2>6. CASE ServicePush(t) \/ CallPush(t)
    BY <2>6 DEF ServicePush, CallPush
  <2>7. CASE ServiceSchedule(t) \/ CallSchedule(t)
    <3>1. /\ IsReading' <=> IsReading
          /\ "HandleRead" \in pending' <=> "HandleRead" \in pending
      BY <2>7, ScheduleStep, ScheduleEffect
    <3>2. QED BY <2>7, <3>1, ScheduleStep DEF ServiceSchedule, CallSchedule
  <2>8. CASE InitSocket(t)
    BY <2>8 DEF InitSocket, Fresh, Attaching
  <2>9. CASE InitRead(t)
    BY <2>9 DEF InitRead
  <2>10. CASE DcSetClosing(t)
    BY <2>10 DEF DcSetClosing
  <2>11. QED
    BY <1>2, <2>1, <2>2, <2>3, <2>4, <2>5, <2>6, <2>7, <2>8, <2>9, <2>10
       DEF Busy
<1>3. ASSUME NEW t \in IOThreads, NEW o \in Handlers, NEW e \in BOOLEAN,
             NEW n \in Transfers(o, e), Dispatch(t, o, e, n)
      PROVE  OneRead'
  <2>1. t \in Threads
    BY DEF Threads
  <2>2. QED BY <1>3, <2>1 DEF Dispatch
<1>4. CASE Quiet
  BY <1>4 DEF Quiet, Aside
<1>5. CASE NetFails
  BY <1>5 DEF NetFails
<1>6. QED BY <1>2, <1>3, <1>4, <1>5, Kinds

\* One write is in progress or handled, and the kernel has the buffer that is
\* outcoming.
LEMMA OneWriteStep ==
  ASSUME IInv, Flow, [Next]_vars
  PROVE  OneWrite'
<1>1. TypeOK /\ Args /\ OneWrite /\ Bodies
  BY DEF IInv, Safe, Flow
<1> USE <1>1, Funs DEF OneWrite, WriteHandled, IsWriting, IsClosing, Handlers,
                       Args, argVars
<1>2. ASSUME NEW t \in Threads, Busy(t)
      PROVE  OneWrite'
  <2>1. CASE HandlerLock(t)
    BY <2>1, SameBuffers DEF HandlerLock, DropArgs
  <2>2. CASE HandleRead(t) \/ OOBRecv(t)
    <3>1. WriteHandled' = WriteHandled
      BY <2>2 DEF HandleRead, Decode, ReadFails, OOBRecv, DropArgs, Threads
    <3>2. /\ IsWriting' <=> IsWriting
          /\ "HandleWrite" \in pending' <=> "HandleWrite" \in pending
      BY <2>2 DEF HandleRead, Decode, ReadFails, OOBRecv
    <3>3. UNCHANGED <<incoming, outcoming, wbuf>> /\ (IsClosing => IsClosing')
      BY <2>2, SameBuffers DEF HandleRead, Decode, ReadFails, OOBRecv
    <3>4. QED BY <3>1, <3>2, <3>3
  <2>3. CASE ReadOn(t) \/ InitSocket(t) \/ InitRead(t)
    BY <2>3, SameBuffers DEF ReadOn, Decode, ReadFails, InitSocket, InitRead
  <2>4. CASE HandleWrite(t)
    <3>1. /\ ~IsClosing /\ WriteHandled = {t} /\ "HandleWrite" \notin pending
          /\ WriteHandled' = {}
      BY <2>4 DEF HandleWrite, DropArgs, Bodies, Body
    <3>2. CASE ec[t]
      BY <2>4, <3>1, <3>2 DEF HandleWrite
    <3>3. CASE ~ec[t]
      <4>1. moved[t] \in Nat /\ WriteMore(moved[t])
        BY <2>4, <3>3 DEF HandleWrite
      <4>2. IsWriting
        BY <3>1
      <4>3. QED BY <3>1, <4>1, <4>2, WriteEffect
    <3>4. QED BY <3>2, <3>3
  <2>5. CASE ServicePush(t) \/ CallPush(t)
    BY <2>5, PushStep, PushEffect
  <2>6. CASE ServiceSchedule(t) \/ CallSchedule(t)
    BY <2>6, ScheduleStep, ScheduleEffect
  <2>7. CASE DcSetClosing(t)
    BY <2>7 DEF DcSetClosing
  <2>8. QED BY <1>2, <2>1, <2>2, <2>3, <2>4, <2>5, <2>6, <2>7 DEF Busy
<1>3. ASSUME NEW t \in IOThreads, NEW o \in Handlers, NEW e \in BOOLEAN,
             NEW n \in Transfers(o, e), Dispatch(t, o, e, n)
      PROVE  OneWrite'
  <2>1. t \in Threads /\ handler[t] = "HandleRead"
    BY <1>3 DEF Threads, Dispatch
  <2>2. /\ UNCHANGED <<status, incoming, outcoming, wbuf>>
        /\ o \in pending /\ pending' = pending \ {o}
    BY <1>3, SameBuffers DEF Dispatch
  <2>3. CASE o = "HandleWrite"
    <3>1. ~IsClosing => WriteHandled' = {t}
      BY <1>3, <2>1, <2>2, <2>3 DEF Dispatch
    <3>2. QED BY <2>2, <2>3, <3>1
  <2>4. CASE o # "HandleWrite"
    <3>1. WriteHandled' = WriteHandled
      BY <1>3, <2>1, <2>4 DEF Dispatch
    <3>2. QED BY <2>2, <2>4, <3>1
  <2>5. QED BY <2>3, <2>4
<1>4. CASE Quiet
  BY <1>4, SameBuffers DEF Quiet
<1>5. CASE NetFails
  BY <1>5, SameBuffers DEF NetFails
<1>6. QED BY <1>2, <1>3, <1>4, <1>5, Kinds

\* What is pushed is written, or behind a write, or about to be scheduled.
LEMMA StrandedStep ==
  ASSUME IInv, Flow, [Next]_vars
  PROVE  NoStrandedData'
<1>1. TypeOK /\ Args /\ OneWrite /\ NoStrandedData /\ Bodies
  BY DEF IInv, Safe, Flow
<1> USE <1>1, Funs DEF NoStrandedData, IsWriting, IsClosing, Goto, envVars
<1>2. ASSUME NEW t \in Threads, Busy(t)
      PROVE  NoStrandedData'
  <2>1. CASE HandlerLock(t)
    BY <2>1, SameBuffers DEF HandlerLock, Args, Handlers
  <2>2. CASE HandleRead(t) \/ OOBRecv(t)
    BY <2>2, SameBuffers DEF HandleRead, Decode, ReadFails, OOBRecv
  <2>3. CASE ReadOn(t) \/ InitSocket(t) \/ InitRead(t)
    BY <2>3, SameBuffers DEF ReadOn, Decode, ReadFails, InitSocket, InitRead
  <2>4. CASE HandleWrite(t)
    <3>1. CASE ec[t]
      BY <2>4, <3>1 DEF HandleWrite, Args
    <3>2. CASE ~ec[t]
      <4>1. moved[t] \in Nat /\ WriteMore(moved[t]) /\ ~IsClosing
        BY <2>4, <3>2 DEF HandleWrite, Bodies, Body, Handlers
      <4>2. IsWriting
        BY <2>4, <4>1 DEF HandleWrite, OneWrite, WriteHandled, Args, Handlers
      <4>3. QED BY <4>1, <4>2, WriteEffect
    <3>3. QED BY <3>1, <3>2
  <2>5. CASE ServicePush(t) \/ CallPush(t)
    BY <2>5, PushStep, PushEffect
  <2>6. CASE ServiceSchedule(t) \/ CallSchedule(t)
    BY <2>6, ScheduleStep, ScheduleEffect
  <2>7. CASE DcSetClosing(t)
    BY <2>7 DEF DcSetClosing
  <2>8. QED BY <1>2, <2>1, <2>2, <2>3, <2>4, <2>5, <2>6, <2>7 DEF Busy
<1>3. ASSUME NEW t \in IOThreads, NEW o \in Handlers, NEW e \in BOOLEAN,
             NEW n \in Transfers(o, e), Dispatch(t, o, e, n)
      PROVE  NoStrandedData'
  BY <1>3, SameBuffers DEF Dispatch, Threads
<1>4. CASE Quiet
  BY <1>4, SameBuffers DEF Quiet, Aside
<1>5. CASE NetFails
  BY <1>5, SameBuffers DEF NetFails
<1>6. QED BY <1>2, <1>3, <1>4, <1>5, Kinds

-----------------------------------------------------------------------------
(***************************************************************************)
(* The units in the buffers                                                *)
(***************************************************************************)

\* Two units behind a sequence.
LEMMA AppendTwo ==
  ASSUME NEW s \in Seq(Nat), NEW a \in Nat, NEW c \in Nat
  PROVE  /\ s \o <<a, c>> \in Seq(Nat)
         /\ Len(s \o <<a, c>>) = Len(s) + 2
         /\ \A i \in 1 .. Len(s) : (s \o <<a, c>>)[i] = s[i]
         /\ (s \o <<a, c>>)[Len(s) + 1] = a
         /\ (s \o <<a, c>>)[Len(s) + 2] = c
<1> DEFINE m == <<a, c>>
<1>1. m \in Seq(Nat) /\ Len(m) = 2 /\ m[1] = a /\ m[2] = c
  OBVIOUS
<1> HIDE DEF m
<1>2. /\ s \o m \in Seq(Nat) /\ Len(s \o m) = Len(s) + 2
      /\ \A i \in 1 .. Len(s) + 2 : (s \o m)[i] =
                     IF i <= Len(s) THEN s[i] ELSE m[i - Len(s)]
  <2>1. /\ s \o m \in Seq(Nat) /\ Len(s \o m) = Len(s) + Len(m)
        /\ \A i \in 1 .. Len(s) + Len(m) : (s \o m)[i] =
                       IF i <= Len(s) THEN s[i] ELSE m[i - Len(s)]
    BY <1>1, ConcatProperties
  <2>2. QED BY <1>1, <2>1
<1>3. Len(s) \in Nat
  BY LenProperties
<1>4. /\ s \o m \in Seq(Nat)
      /\ Len(s \o m) = Len(s) + 2
      /\ \A i \in 1 .. Len(s) : (s \o m)[i] = s[i]
      /\ (s \o m)[Len(s) + 1] = a
      /\ (s \o m)[Len(s) + 2] = c
  BY <1>1, <1>2, <1>3
<1>5. QED BY <1>4 DEF m

\* What is left of a sequence without its first n units.
LEMMA WithoutFirst ==
  ASSUME NEW s \in Seq(Nat), NEW n \in Nat, n <= Len(s)
  PROVE  LET r == SubSeq(s, n + 1, Len(s))
         IN  /\ r \in Seq(Nat) /\ Len(r) = Len(s) - n
             /\ \A i \in 1 .. Len(r) : r[i] = s[n + i]
             /\ r = <<>> => Len(s) = n
<1> DEFINE r == SubSeq(s, n + 1, Len(s))
<1>1. Len(s) \in Nat /\ \A i \in n + 1 .. Len(s) : s[i] \in Nat
  OBVIOUS
<1>2. /\ r \in Seq(Nat)
      /\ Len(r) = IF n + 1 <= Len(s) THEN Len(s) - (n + 1) + 1 ELSE 0
      /\ \A i \in 1 .. Len(s) - (n + 1) + 1 : r[i] = s[(n + 1) + i - 1]
  BY <1>1, SubSeqProperties
<1> HIDE DEF r
<1>3. Len(r) = Len(s) - n /\ \A i \in 1 .. Len(r) : r[i] = s[n + i]
  BY <1>1, <1>2
<1>4. r = <<>> => Len(r) = 0
  OBVIOUS
<1>5. QED BY <1>1, <1>2, <1>3, <1>4 DEF r

\* The first n units of one sequence behind another.
LEMMA AppendFirst ==
  ASSUME NEW w \in Seq(Nat), NEW s \in Seq(Nat), NEW n \in Nat, n <= Len(s)
  PROVE  LET r == w \o SubSeq(s, 1, n)
         IN  /\ r \in Seq(Nat) /\ Len(r) = Len(w) + n
             /\ \A i \in 1 .. Len(w) : r[i] = w[i]
             /\ \A i \in Len(w) + 1 .. Len(w) + n : r[i] = s[i - Len(w)]
             /\ n = 0 => r = w
<1> DEFINE f == SubSeq(s, 1, n)
<1>1. Len(w) \in Nat /\ Len(s) \in Nat /\ \A i \in 1 .. n : s[i] \in Nat
  OBVIOUS
<1>2. /\ f \in Seq(Nat)
      /\ Len(f) = IF 1 <= n THEN n - 1 + 1 ELSE 0
      /\ \A i \in 1 .. n - 1 + 1 : f[i] = s[1 + i - 1]
  BY <1>1, SubSeqProperties
<1>3. n = 0 => f = <<>>
  BY SubSeqEmpty
<1> HIDE DEF f
<1>4. Len(f) = n /\ \A i \in 1 .. n : f[i] = s[i]
  BY <1>1, <1>2
<1>5. /\ w \o f \in Seq(Nat) /\ Len(w \o f) = Len(w) + n
      /\ \A i \in 1 .. Len(w) + n :
            (w \o f)[i] = IF i <= Len(w) THEN w[i] ELSE f[i - Len(w)]
  BY <1>2, <1>4, ConcatProperties
<1>6. n = 0 => w \o f = w
  BY <1>3, ConcatEmptySeq
<1>7. /\ \A i \in 1 .. Len(w) : (w \o f)[i] = w[i]
      /\ \A i \in Len(w) + 1 .. Len(w) + n : (w \o f)[i] = s[i - Len(w)]
  BY <1>1, <1>4, <1>5
<1>8. QED BY <1>5, <1>6, <1>7 DEF f

\* A message more is two units more.
LEMMA TwoMore ==
  ASSUME NEW b \in Int, NEW l \in Nat, NEW k \in Nat, b + l = 2 * k
  PROVE  /\ b + (l + 1) = 2 * k + 1 /\ b + (l + 2) = 2 * k + 2
         /\ b + (l + 2) = 2 * (k + 1)
OBVIOUS

\* A message that is pushed follows what is buffered.
LEMMA PushBuffered ==
  ASSUME TypeOK, Push, NEW b \in Int, Buffered(b)
  PROVE  Buffered(b)'
<1>1. /\ npush \in Nat /\ npush' = npush + 1 /\ outcoming' = outcoming
      /\ Len(incoming) \in Nat /\ Len(outcoming) \in Nat
  BY Buffers, PushEffect DEF TypeOK
<1>2. /\ incoming \in Seq(Nat)
      /\ 2 * npush + 1 \in Nat /\ 2 * npush + 2 \in Nat
      /\ incoming' = incoming \o <<2 * npush + 1, 2 * npush + 2>>
  <2>1. npush \in Nat
    BY DEF TypeOK
  <2>2. 2 * (npush + 1) - 1 = 2 * npush + 1 /\ 2 * (npush + 1) = 2 * npush + 2
    BY <2>1
  <2>3. incoming' = incoming \o <<2 * (npush + 1) - 1, 2 * (npush + 1)>>
    BY PushEffect DEF EncodeMessage
  <2>4. incoming \in Seq(Nat)
    BY Buffers
  <2>5. 2 * npush + 1 \in Nat /\ 2 * npush + 2 \in Nat
    BY <2>1
  <2>6. incoming' = incoming \o <<2 * npush + 1, 2 * npush + 2>>
    BY <2>2, <2>3, Zenon
  <2>7. QED BY <2>4, <2>5, <2>6
<1>3. /\ Len(incoming') = Len(incoming) + 2
      /\ \A i \in 1 .. Len(incoming) : incoming'[i] = incoming[i]
      /\ incoming'[Len(incoming) + 1] = 2 * npush + 1
      /\ incoming'[Len(incoming) + 2] = 2 * npush + 2
  BY <1>2, AppendTwo
<1>4. /\ b + Len(outcoming) + Len(incoming) = 2 * npush
      /\ \A i \in 1 .. Len(outcoming) : outcoming[i] = b + i
      /\ \A i \in 1 .. Len(incoming) : incoming[i] = b + Len(outcoming) + i
  BY DEF Buffered
<1>5. /\ b + Len(outcoming) + (Len(incoming) + 1) = 2 * npush + 1
      /\ b + Len(outcoming) + (Len(incoming) + 2) = 2 * npush + 2
      /\ b + Len(outcoming) + (Len(incoming) + 2) = 2 * (npush + 1)
  <2>1. b + Len(outcoming) \in Int
    BY <1>1
  <2>2. QED BY <1>1, <1>4, <2>1, TwoMore
<1>6. ASSUME NEW i \in 1 .. Len(incoming) + 2
      PROVE  incoming'[i] = b + Len(outcoming) + i
  <2>1. CASE i \in 1 .. Len(incoming)
    BY <1>3, <1>4, <2>1
  <2>2. CASE i = Len(incoming) + 1
    BY <1>3, <1>5, <2>2
  <2>3. CASE i = Len(incoming) + 2
    BY <1>3, <1>5, <2>3
  <2>4. QED BY <1>1, <2>1, <2>2, <2>3
<1>7. b + Len(outcoming') + Len(incoming') = 2 * npush'
  BY <1>1, <1>3, <1>5
<1>8. QED BY <1>1, <1>3, <1>4, <1>6, <1>7 DEF Buffered

\* The buffers may be exchanged when the outcoming one is empty.
LEMMA SwapBuffered ==
  ASSUME TypeOK, NEW b \in Int, Buffered(b), outcoming = <<>>, npush' = npush,
         incoming' = outcoming, outcoming' = incoming
  PROVE  Buffered(b)'
BY Buffers DEF Buffered, TypeOK

\* Of the buffered units the first n are dropped.
LEMMA WriteBuffered ==
  ASSUME TypeOK, NEW b \in Int, NEW n \in Nat, n <= Len(outcoming),
         Buffered(b), WriteMore(n)
  PROVE  Buffered(b + n)'
<1> DEFINE rest == SubSeq(outcoming, n + 1, Len(outcoming))
<1>1. npush \in Nat /\ Len(incoming) \in Nat /\ Len(outcoming) \in Nat
  BY Buffers DEF TypeOK
<1>2. /\ Len(rest) = Len(outcoming) - n
      /\ \A i \in 1 .. Len(rest) : rest[i] = outcoming[n + i]
      /\ rest = <<>> => Len(outcoming) = n
  BY Buffers, WithoutFirst
<1>3. /\ b + Len(outcoming) + Len(incoming) = 2 * npush
      /\ \A i \in 1 .. Len(outcoming) : outcoming[i] = b + i
      /\ \A i \in 1 .. Len(incoming) : incoming[i] = b + Len(outcoming) + i
  BY DEF Buffered
<1>4. npush' = npush
  BY WriteEffect
<1>5. CASE rest # <<>>
  <2>1. outcoming' = rest /\ incoming' = incoming
    BY <1>5, WriteEffect
  <2> HIDE DEF rest
  <2>2. ASSUME NEW i \in 1 .. Len(rest)
        PROVE  rest[i] = b + n + i
    <3>1. n + i \in 1 .. Len(outcoming)
      BY <1>1, <1>2
    <3>2. QED BY <1>2, <1>3, <3>1
  <2>3. /\ b + n + Len(rest) + Len(incoming) = 2 * npush
        /\ \A i \in 1 .. Len(incoming) : incoming[i] = b + n + Len(rest) + i
    <3>1. b + n + Len(rest) = b + Len(outcoming)
      BY <1>1, <1>2
    <3>2. QED BY <1>3, <3>1
  <2>4. QED BY <1>4, <2>1, <2>2, <2>3 DEF Buffered
<1>6. CASE rest = <<>>
  <2>1. outcoming' = incoming /\ incoming' = <<>>
    BY <1>6, WriteEffect
  <2>2. Len(outcoming) = n /\ Len(<<>>) = 0
    BY <1>2, <1>6
  <2> HIDE DEF rest
  <2>3. /\ b + n + Len(incoming) + 0 = 2 * npush
        /\ \A i \in 1 .. Len(incoming) : incoming[i] = b + n + i
    BY <1>1, <1>3, <2>2
  <2>4. QED BY <1>1, <1>4, <2>1, <2>2, <2>3 DEF Buffered
<1>7. QED BY <1>5, <1>6

\* The units stay in order.
LEMMA InOrderStep ==
  ASSUME IInv, Flow, [Next]_vars
  PROVE  InOrder'
<1>1. /\ TypeOK /\ Args /\ OneWrite /\ NoStrandedData /\ InOrder /\ Bodies
      /\ IsClosing => IsClosing'
  BY ClosingStays DEF IInv, Safe, Flow
<1>2. ASSUME UNCHANGED <<incoming, outcoming, npush, wire>>,
             WriteHandled' = WriteHandled,
             \A u \in WriteHandled : moved'[u] = moved[u],
             net' = "broken" \/ net' = net
      PROVE  InOrder'
  BY <1>1, <1>2 DEF InOrder, Buffered
<1>3. ASSUME NEW t \in Threads, Busy(t)
      PROVE  InOrder'
  <2>1. CASE HandlerLock(t)
    <3>1. CASE IsClosing
      BY <1>1, <3>1 DEF InOrder
    <3>2. CASE ~IsClosing
      BY <1>2, <2>1, <3>2, SameBuffers
         DEF HandlerLock, argVars, envVars, WriteHandled
    <3>3. QED BY <3>1, <3>2
  <2>2. CASE HandleRead(t) \/ OOBRecv(t)
    <3>1. /\ WriteHandled' = WriteHandled
          /\ \A u \in WriteHandled : moved'[u] = moved[u]
      BY <1>1, <2>2, Funs DEF HandleRead, Decode, ReadFails, OOBRecv,
          DropArgs, WriteHandled, Args,
         Handlers, Threads
    <3>2. UNCHANGED <<incoming, outcoming, npush, wire, net>>
      BY <2>2, SameBuffers DEF HandleRead, Decode, ReadFails, OOBRecv,
          envVars, bufVars
    <3>3. QED BY <1>2, <3>1, <3>2
  <2>3. CASE ReadOn(t) \/ InitSocket(t) \/ InitRead(t)
    BY <1>2, <2>3, SameBuffers DEF ReadOn, Decode, ReadFails, InitSocket,
        InitRead, argVars,
       envVars, WriteHandled
  <2>4. CASE HandleWrite(t)
    <3>1. CASE ec[t]
      BY <1>1, <2>4, <3>1 DEF HandleWrite, Args, InOrder, envVars
    <3>2. CASE ~ec[t]
      <4>1. /\ ~IsClosing /\ t \in WriteHandled /\ WriteHandled' = {}
            /\ moved[t] \in Nat /\ WriteMore(moved[t])
            /\ wire' = wire /\ net' = net
        BY <1>1, <2>4, <3>2, Funs DEF HandleWrite, DropArgs, Bodies, Body,
           WriteHandled, Handlers, Args, OneWrite, envVars
      <4>2. ASSUME net # "broken"
            PROVE  Buffered(Len(wire))'
        <5>1. /\ moved[t] <= Len(outcoming) /\ Buffered(Len(wire) - moved[t])
          BY <1>1, <4>1, <4>2 DEF InOrder
        <5>2. /\ Len(wire) \in Nat /\ Len(wire) - moved[t] \in Int
              /\ (Len(wire) - moved[t]) + moved[t] = Len(wire)
          BY <1>1, <4>1, Buffers
        <5>3. QED BY <1>1, <4>1, <5>1, <5>2, WriteBuffered
      <4>3. QED BY <4>1, <4>2 DEF InOrder
    <3>3. QED BY <3>1, <3>2
  <2>5. CASE ServicePush(t) \/ CallPush(t)
    <3>1. /\ Push /\ ~IsClosing /\ net' = net /\ wire' = wire
          /\ WriteHandled' = WriteHandled /\ moved' = moved
          /\ outcoming' = outcoming
      BY <1>1, <2>5, PushStep, PushEffect DEF argVars, WriteHandled
    <3>2. ASSUME NEW b \in Int, Buffered(b)
          PROVE  Buffered(b)'
      BY <1>1, <3>1, <3>2, PushBuffered
    <3>3. Len(wire) \in Nat /\ \A u \in WriteHandled : moved[u] \in Nat
      BY <1>1, Buffers, Funs DEF WriteHandled, Threads
    <3>4. QED BY <1>1, <3>1, <3>2, <3>3 DEF InOrder
  <2>6. CASE ServiceSchedule(t) \/ CallSchedule(t)
    <3>1. /\ ScheduleWrite /\ ~IsClosing /\ net' = net /\ wire' = wire
          /\ WriteHandled' = WriteHandled /\ moved' = moved
      BY <2>6, ScheduleStep DEF argVars, WriteHandled
    <3>2. CASE IsWriting
      BY <1>1, <1>2, <3>1, <3>2, ScheduleEffect
    <3>3. CASE ~IsWriting
      <4>1. WriteHandled = {}
        BY <1>1, <3>1, <3>3 DEF OneWrite
      <4>2. ASSUME net # "broken"
            PROVE  Buffered(Len(wire))'
        <5>1. /\ outcoming = <<>> /\ Buffered(Len(wire)) /\ Len(wire) \in Int
          BY <1>1, <3>1, <3>3, <4>1, <4>2, Buffers DEF InOrder, NoStrandedData
        <5>2. QED BY <1>1, <3>1, <3>3, <5>1, ScheduleEffect, SwapBuffered
      <4>3. QED BY <3>1, <4>1, <4>2 DEF InOrder
    <3>4. QED BY <3>2, <3>3
  <2>7. CASE DcSetClosing(t)
    BY <2>7 DEF DcSetClosing, InOrder, IsClosing
  <2>8. QED BY <1>3, <2>1, <2>2, <2>3, <2>4, <2>5, <2>6, <2>7 DEF Busy
<1>4. ASSUME NEW t \in IOThreads, NEW o \in Handlers, NEW e \in BOOLEAN,
             NEW n \in Transfers(o, e), Dispatch(t, o, e, n)
      PROVE  InOrder'
  <2>1. /\ t \in Threads /\ handler[t] = "HandleRead"
        /\ UNCHANGED <<incoming, outcoming, npush, wbuf, net, status>>
        /\ wire' = wire \o SubSeq(wbuf, 1, n)
    BY <1>1, <1>4, SameBuffers DEF Threads, Dispatch, Args, Handlers
  <2>2. CASE o # "HandleWrite"
    <3>1. n = 0 /\ wire' = wire
      BY <1>1, <1>4, <2>1, <2>2 DEF Transfers, TypeOK
    <3>2. /\ WriteHandled' = WriteHandled
          /\ \A u \in WriteHandled : moved'[u] = moved[u]
      BY <1>1, <1>4, <2>1, <2>2, Funs DEF Dispatch, WriteHandled, Threads
    <3>3. QED BY <1>2, <2>1, <3>1, <3>2
  <2>3. CASE o = "HandleWrite" /\ e
    <3>1. ec'[t]
      BY <1>1, <1>4, <2>1, <2>3, Funs DEF Dispatch
    <3>2. QED BY <2>1, <3>1, ArgsStep DEF Args, InOrder
  <2>4. CASE o = "HandleWrite" /\ ~e
    <3> SUFFICES ASSUME ~IsClosing', net' # "broken"
                 PROVE  /\ WriteHandled' = {t} /\ moved'[t] = n
                        /\ n <= Len(wire') /\ n <= Len(outcoming')
                        /\ Buffered(Len(wire) - n)'
      BY DEF InOrder
    <3>1. WriteHandled = {} /\ wbuf = outcoming /\ ~IsClosing
      BY <1>1, <1>4, <2>1, <2>4 DEF Dispatch, OneWrite, IsClosing
    <3>2. n \in Nat /\ n <= Len(outcoming) /\ Len(wire') = Len(wire) + n
      BY <1>1, <1>4, <2>1, <2>4, <3>1, Buffers DEF Transfers, TypeOK
    <3>3. WriteHandled' = {t} /\ moved'[t] = n
      BY <1>1, <1>4, <2>1, <2>4, <3>1, Funs DEF Dispatch, WriteHandled
    <3>4. Buffered(Len(wire)) /\ Len(wire) \in Nat
      BY <1>1, <2>1, <3>1, Buffers DEF InOrder
    <3>5. Len(wire') - n = Len(wire) /\ n <= Len(wire')
      BY <3>2, <3>4
    <3>6. QED BY <2>1, <3>2, <3>3, <3>4, <3>5 DEF Buffered
  <2>5. QED BY <2>2, <2>3, <2>4
<1>5. CASE Quiet
  BY <1>2, <1>5, SameBuffers DEF Quiet, argVars, WriteHandled
<1>6. CASE NetFails
  <2>1. net # "broken" /\ UNCHANGED <<incoming, outcoming, npush, wire, moved>>
        /\ WriteHandled' = WriteHandled
    BY <1>6, SameBuffers DEF NetFails, argVars, WriteHandled
  <2>2. QED BY <1>1, <2>1 DEF InOrder, Buffered
<1>7. QED BY <1>3, <1>4, <1>5, <1>6, Kinds

\* What the kernel was given are the units after those that left.
LEMMA GivenIsNext ==
  TypeOK /\ OneWrite /\ InOrder /\ ~IsClosing => Given
<1> SUFFICES ASSUME TypeOK, OneWrite, InOrder, ~IsClosing,
                    "HandleWrite" \in pending, net # "broken"
             PROVE  /\ Len(wire) + Len(wbuf) <= 2 * npush
                    /\ \A i \in 1 .. Len(wbuf) : wbuf[i] = Len(wire) + i
  BY DEF Given
<1>1. WriteHandled = {} /\ wbuf = outcoming
  BY DEF OneWrite
<1>2. Buffered(Len(wire))
  BY <1>1 DEF InOrder
<1>3. /\ Len(wire) \in Nat /\ Len(incoming) \in Nat /\ Len(outcoming) \in Nat
      /\ npush \in Nat
  BY Buffers DEF TypeOK
<1>4. QED BY <1>1, <1>2, <1>3 DEF Buffered

\* Of a write in progress only the first units leave.
LEMMA DispatchLeft ==
  ASSUME IInv, Left, NEW t, NEW o \in Handlers, NEW e \in BOOLEAN,
         NEW n \in Transfers(o, e), Dispatch(t, o, e, n)
  PROVE  /\ n \in Nat /\ wire' \in Seq(Nat)
         /\ Len(wire') = Len(wire) + n /\ Len(wire') <= 2 * npush
         /\ \A i \in 1 .. Len(wire') : wire'[i] = i
         /\ n = 0 => wire' = wire
<1>1. /\ wire' = wire \o SubSeq(wbuf, 1, n)
      /\ wire \in Seq(Nat) /\ wbuf \in Seq(Nat) /\ npush \in Nat
      /\ Len(wire) \in Nat /\ Len(wbuf) \in Nat
  BY Buffers DEF Dispatch, IInv, TypeOK
<1>2. n \in Nat /\ n <= Len(wbuf)
  BY <1>1 DEF Transfers
<1>3. /\ wire' \in Seq(Nat) /\ Len(wire') = Len(wire) + n
      /\ \A i \in 1 .. Len(wire) : wire'[i] = wire[i]
      /\ \A i \in Len(wire) + 1 .. Len(wire) + n : wire'[i] = wbuf[i - Len(wire)]
      /\ n = 0 => wire' = wire
  BY <1>1, <1>2, AppendFirst
<1>4. CASE n = 0
  BY <1>1, <1>3, <1>4 DEF Left
<1>5. CASE n # 0
  <2>1. o = "HandleWrite" /\ ~e
    BY <1>5 DEF Transfers
  <2>2. "HandleWrite" \in pending /\ net # "broken"
    BY <2>1 DEF Dispatch, Completes
  <2>3. /\ Len(wire) + Len(wbuf) <= 2 * npush
        /\ \A i \in 1 .. Len(wbuf) : wbuf[i] = Len(wire) + i
        /\ \A i \in 1 .. Len(wire) : wire[i] = i
    BY <2>2 DEF Left, Given
  <2>4. ASSUME NEW i \in 1 .. Len(wire) + n
        PROVE  wire'[i] = i
    <3>1. CASE i <= Len(wire)
      BY <1>1, <1>3, <2>3, <3>1
    <3>2. CASE i > Len(wire)
      <4>1. /\ i \in Len(wire) + 1 .. Len(wire) + n
            /\ i - Len(wire) \in 1 .. Len(wbuf)
            /\ Len(wire) + (i - Len(wire)) = i
        BY <1>1, <1>2, <3>2
      <4>2. QED BY <1>3, <2>3, <4>1
    <3>3. QED BY <1>1, <1>2, <3>1, <3>2
  <2>5. Len(wire) + n <= 2 * npush
    BY <1>1, <1>2, <2>3
  <2>6. QED BY <1>2, <1>3, <1>5, <2>4, <2>5
<1>6. QED BY <1>4, <1>5

\* A step of a thread moves nothing out of the socket.
LEMMA BusyKeepsWire ==
  ASSUME IInv, NEW t \in Threads, Busy(t)
  PROVE  /\ UNCHANGED <<net, wire>> /\ npush' \in {npush, npush + 1}
         /\ \/ ~IsClosing'
            \/ UNCHANGED <<pending, wbuf, npush>>
<1>1. TypeOK /\ Bodies /\ Fresh
  BY DEF IInv, Safe
<1>2. CASE HandlerLock(t) \/ DcSetClosing(t)
  BY <1>2, SameBuffers DEF HandlerLock, DcSetClosing, envVars
<1>3. CASE HandleRead(t) \/ ReadOn(t) \/ OOBRecv(t)
  BY <1>1, <1>3, SameBuffers DEF HandleRead, Decode, ReadFails, ReadOn,
      OOBRecv, envVars, Bodies,
     Body, Handlers, IsClosing
<1>4. CASE HandleWrite(t)
  <2>1. ~IsClosing /\ UNCHANGED <<net, wire>>
    BY <1>1, <1>4 DEF HandleWrite, envVars, Bodies, Body, Handlers
  <2>2. CASE ec[t]
    BY <1>4, <2>1, <2>2, SameBuffers DEF HandleWrite, IsClosing
  <2>3. CASE ~ec[t]
    <3>1. moved[t] \in Nat /\ WriteMore(moved[t])
      BY <1>1, <1>4, <2>3, Funs DEF HandleWrite
    <3>2. QED BY <1>1, <2>1, <3>1, WriteEffect, WriteKeepsClosing
  <2>4. QED BY <2>2, <2>3
<1>5. CASE ServicePush(t) \/ CallPush(t)
  BY <1>1, <1>5, PushStep, PushEffect DEF IsClosing
<1>6. CASE ServiceSchedule(t) \/ CallSchedule(t)
  BY <1>1, <1>6, ScheduleStep, ScheduleEffect DEF IsClosing
<1>7. CASE InitSocket(t) \/ InitRead(t)
  BY <1>1, <1>7, SameBuffers DEF InitSocket, InitRead, envVars, Bodies, Fresh,
     Attaching, IsClosing
<1>8. QED BY <1>2, <1>3, <1>4, <1>5, <1>6, <1>7 DEF Busy

\* What left are the first units.
LEMMA LeftStep ==
  ASSUME IInv, Flow, [Next]_vars, TypeOK', OneWrite', InOrder'
  PROVE  Left'
<1>1. TypeOK /\ Left /\ npush \in Nat /\ Len(wire) \in Nat
  BY Buffers DEF IInv, Flow, TypeOK
<1>2. ASSUME NEW t \in Threads, Busy(t)
      PROVE  Left'
  <2>1. /\ UNCHANGED <<net, wire>> /\ npush' \in {npush, npush + 1}
        /\ ~IsClosing' \/ UNCHANGED <<pending, wbuf, npush>>
    BY <1>2, BusyKeepsWire DEF IInv
  <2>2. Len(wire') <= 2 * npush' /\ \A i \in 1 .. Len(wire') : wire'[i] = i
    BY <1>1, <2>1 DEF Left
  <2>3. CASE ~IsClosing'
    <3>1. (TypeOK /\ OneWrite /\ InOrder /\ ~IsClosing => Given)'
      BY GivenIsNext, PTL
    <3>2. QED BY <2>2, <2>3, <3>1 DEF Left
  <2>4. CASE UNCHANGED <<pending, wbuf, npush>>
    BY <1>1, <2>1, <2>4 DEF Left, Given
  <2>5. QED BY <2>1, <2>3, <2>4
<1>3. ASSUME NEW t \in IOThreads, NEW o \in Handlers, NEW e \in BOOLEAN,
             NEW n \in Transfers(o, e), Dispatch(t, o, e, n)
      PROVE  Left'
  <2>1. UNCHANGED <<wbuf, npush, net>> /\ pending' = pending \ {o}
    BY <1>3, SameBuffers DEF Dispatch
  <2>2. /\ Len(wire') <= 2 * npush /\ \A i \in 1 .. Len(wire') : wire'[i] = i
        /\ n = 0 => wire' = wire
    BY <1>1, <1>3, DispatchLeft
  <2>3. CASE o = "HandleWrite"
    BY <2>1, <2>2, <2>3 DEF Left, Given
  <2>4. CASE o # "HandleWrite"
    <3>1. wire' = wire
      BY <2>2, <2>4 DEF Transfers
    <3>2. QED BY <1>1, <2>1, <3>1 DEF Left, Given
  <2>5. QED BY <2>3, <2>4
<1>4. CASE Quiet
  BY <1>1, <1>4, SameBuffers DEF Quiet, Left, Given
<1>5. CASE NetFails
  BY <1>1, <1>5, SameBuffers DEF NetFails, Left, Given
<1>6. QED BY <1>2, <1>3, <1>4, <1>5, Kinds

\* The invariant holds of a connection nothing was attached to.
LEMMA FlowInit ==
  ASSUME Init
  PROVE  Flow
<1>1. incoming = <<>> /\ outcoming = <<>>
  BY DEF Init, incoming, outcoming
<1>2. Args /\ OneRead
  BY DEF Init, Args, OneRead, ReadHandled, Handlers
<1>3. WriteHandled = {}
  BY DEF Init, WriteHandled, Threads
<1>4. OneWrite /\ NoStrandedData
  BY <1>1, <1>3 DEF Init, OneWrite, NoStrandedData, IsWriting
<1>5. InOrder
  BY <1>1, <1>3 DEF Init, InOrder, Buffered
<1>6. Left
  BY DEF Init, Left, Given
<1>7. QED BY <1>2, <1>4, <1>5, <1>6 DEF Flow

\* The flow of data stays as it is described above.
THEOREM FlowInvariance == Spec => [](IInv /\ Flow)
<1>1. Init => IInv /\ Flow
  BY InitInv, FlowInit
<1>2. IInv /\ Flow /\ [Next]_vars => (IInv /\ Flow)'
  <2> SUFFICES ASSUME IInv, Flow, [Next]_vars
               PROVE  IInv' /\ Flow'
    OBVIOUS
  <2>1. IInv'
    BY TypeStep, SafeStep DEF IInv
  <2>2. Args' /\ OneRead' /\ OneWrite' /\ NoStrandedData' /\ InOrder'
    BY ArgsStep, OneReadStep, OneWriteStep, StrandedStep, InOrderStep
  <2>3. Left'
    BY <2>1, <2>2, LeftStep DEF IInv
  <2>4. QED BY <2>1, <2>2, <2>3 DEF Flow
<1>3. QED BY <1>1, <1>2, PTL DEF Spec

-----------------------------------------------------------------------------
(***************************************************************************)
(* The theorems                                                            *)
(***************************************************************************)

\* The assertions of InitSocket, HandleRead, HandleWrite and ~Connection
\* never fail.
THEOREM Assertions == Spec => []AssertionsHold
<1>1. IInv /\ Flow => AssertionsHold
  <2> SUFFICES ASSUME IInv, Flow PROVE AssertionsHold
    OBVIOUS
  <2>1. ASSUME NEW t \in Threads, pc[t] = "at_init"
        PROVE  ~IsClosing
    BY <2>1 DEF IInv, Safe, Fresh, Attaching, IsClosing
  <2>2. ASSUME NEW t \in Threads, pc[t] = "HandleRead"
        PROVE  IsReading
    BY <2>2 DEF IInv, Safe, Bodies, Body, Handlers, Flow, OneRead, ReadHandled
  <2>3. ASSUME NEW t \in Threads, pc[t] = "HandleWrite"
        PROVE  IsWriting
    <3>1. ~IsClosing /\ t \in WriteHandled
      BY <2>3 DEF IInv, Safe, Bodies, Body, Handlers, Flow, Args, WriteHandled
    <3>2. QED BY <3>1 DEF Flow, OneWrite
  <2>4. ASSUME refs = {}
        PROVE  ~IsConnected
    BY <2>4 DEF IInv, Safe, Fresh, Alive, IsConnected, IsIdle
  <2>5. QED BY <2>1, <2>2, <2>3, <2>4 DEF AssertionsHold
<1>2. QED BY <1>1, FlowInvariance, PTL

\* WRITTING stands for one write, of the buffer that is outcoming, until its
\* handler is done: two writes never interleave on the socket.
THEOREM SingleWrite == Spec => []OneWriteInFlight
<1>1. IInv /\ Flow => OneWriteInFlight
  <2> SUFFICES ASSUME OneWrite, ~IsClosing
               PROVE  Cardinality(WriteHandled) <= 1
    BY DEF Flow, OneWrite, OneWriteInFlight
  <2>1. CASE WriteHandled = {}
    BY <2>1, FS_EmptySet
  <2>2. CASE WriteHandled # {}
    <3>1. PICK t : t \in WriteHandled
      BY <2>2
    <3>2. WriteHandled = {t}
      BY <3>1 DEF OneWrite
    <3>3. Cardinality({t}) = 1
      BY FS_Singleton
    <3>4. QED BY <3>2, <3>3
  <2>3. QED BY <2>1, <2>2
<1>2. QED BY <1>1, FlowInvariance, PTL

\* What was pushed never waits for somebody else to push: it is in a write,
\* behind one, or its pusher is about to schedule it.
THEOREM NothingStranded == Spec => []NoStrandedData
<1>1. IInv /\ Flow => NoStrandedData
  BY DEF Flow
<1>2. QED BY <1>1, FlowInvariance, PTL

\* The units accepted so far, as the refinement maps them.
LEMMA AcceptedSeq ==
  ASSUME NEW k \in Nat
  PROVE  /\ [i \in 1 .. k |-> i] \in Seq(Nat)
         /\ Len([i \in 1 .. k |-> i]) = k
         /\ \A j \in 1 .. k : [i \in 1 .. k |-> i][j] = j
OBVIOUS

\* A message that is pushed is accepted whole.
LEMMA AcceptedGrows ==
  ASSUME NEW k \in Nat
  PROVE  [i \in 1 .. k + 2 |-> i] = [i \in 1 .. k |-> i] \o <<k + 1, k + 2>>
<1> DEFINE s == [i \in 1 .. k |-> i]
           r == [i \in 1 .. k + 2 |-> i]
           u == s \o <<k + 1, k + 2>>
<1>1. k + 1 \in Nat /\ k + 2 \in Nat
  OBVIOUS
<1>2. s \in Seq(Nat) /\ Len(s) = k /\ \A j \in 1 .. k : s[j] = j
  BY AcceptedSeq
<1>3. r \in Seq(Nat) /\ Len(r) = k + 2 /\ \A j \in 1 .. k + 2 : r[j] = j
  BY <1>1, AcceptedSeq
<1> HIDE DEF s, r
<1>4. /\ u \in Seq(Nat) /\ Len(u) = k + 2
      /\ \A j \in 1 .. k : u[j] = j
      /\ u[k + 1] = k + 1 /\ u[k + 2] = k + 2
  BY <1>1, <1>2, AppendTwo
<1> HIDE DEF u
<1>5. \A j \in 1 .. k + 2 : u[j] = j
  BY <1>4
<1>6. r = u
  BY <1>3, <1>4, <1>5, SeqEqual
<1>7. QED BY <1>6 DEF r, u, s

\* A sequence of the first n units is a prefix of what was accepted.
LEMMA FirstUnits ==
  ASSUME NEW k \in Nat, NEW w \in Seq(Nat), Len(w) <= k,
         \A i \in 1 .. Len(w) : w[i] = i
  PROVE  w = SubSeq([i \in 1 .. k |-> i], 1, Len(w))
<1> DEFINE s == [i \in 1 .. k |-> i]
           u == SubSeq(s, 1, Len(w))
<1>1. s \in Seq(Nat) /\ Len(s) = k /\ \A j \in 1 .. k : s[j] = j
  BY AcceptedSeq
<1>2. Len(w) \in Nat
  OBVIOUS
<1> HIDE DEF s
<1>3. \A i \in 1 .. Len(w) : s[i] = i /\ s[i] \in Nat
  BY <1>1, <1>2
<1>4. /\ u \in Seq(Nat)
      /\ Len(u) = IF 1 <= Len(w) THEN Len(w) - 1 + 1 ELSE 0
      /\ \A i \in 1 .. Len(w) - 1 + 1 : u[i] = s[1 + i - 1]
  BY <1>2, <1>3, SubSeqProperties
<1> HIDE DEF u
<1>5. Len(u) = Len(w) /\ \A i \in 1 .. Len(w) : u[i] = s[i]
  BY <1>2, <1>4
<1>6. \A i \in 1 .. Len(w) : u[i] = w[i]
  BY <1>3, <1>5
<1>7. w = u
  BY <1>4, <1>5, <1>6, SeqEqual
<1>8. QED BY <1>7 DEF u, s

\* Every step accepts a message, sends units, closes, or changes nothing the
\* stream shows.
LEMMA StreamStep ==
  ASSUME IInv, Flow, [Next]_vars
  PROVE  [Stream!Next]_(Stream!vars)
<1>1. TypeOK /\ Left /\ npush \in Nat /\ wire \in Seq(Nat) /\ Len(wire) \in Nat
  BY DEF IInv, Flow, TypeOK
<1>2. ASSUME npush' = npush, wire' = wire, IsClosing' = IsClosing
      PROVE  UNCHANGED Stream!vars
  BY <1>2 DEF Stream!vars
<1>3. ASSUME NEW t \in Threads, Busy(t)
      PROVE  [Stream!Next]_(Stream!vars)
  <2>1. CASE ServicePush(t) \/ CallPush(t)
    <3>1. npush' = npush + 1 /\ wire' = wire /\ ~IsClosing /\ status' = status
      BY <1>1, <2>1, PushStep, PushEffect
    <3>2. IsClosing' = IsClosing
      BY <3>1 DEF IsClosing
    <3>3. 2 * npush' = 2 * npush + 2 /\ 2 * npush \in Nat
      BY <1>1, <3>1
    <3>4. [i \in 1 .. 2 * npush' |-> i] =
             [i \in 1 .. 2 * npush |-> i] \o <<2 * npush + 1, 2 * npush + 2>>
      BY <3>3, AcceptedGrows
    <3>5. Len([i \in 1 .. 2 * npush |-> i]) = 2 * npush
      BY <3>3, AcceptedSeq
    <3>6. Stream!Accept
      BY <3>1, <3>2, <3>4, <3>5 DEF Stream!Accept, Stream!Message
    <3>7. QED BY <3>6 DEF Stream!Next
  <2>2. CASE DcSetClosing(t)
    <3>1. npush' = npush /\ wire' = wire /\ IsClosing'
      BY <2>2 DEF DcSetClosing, bufVars, envVars, IsClosing
    <3>2. CASE IsClosing
      BY <1>2, <3>1, <3>2
    <3>3. CASE ~IsClosing
      <4>1. Stream!Close
        BY <3>1, <3>3 DEF Stream!Close
      <4>2. QED BY <4>1 DEF Stream!Next
    <3>4. QED BY <3>2, <3>3
  <2>3. CASE HandleWrite(t)
    <3>1. npush' = npush /\ wire' = wire
      BY <1>1, <2>3, WriteEffect, Funs DEF HandleWrite, bufVars, envVars
    <3>2. IsClosing' = IsClosing
      BY <1>1, <2>3, WriteKeepsClosing, Funs DEF HandleWrite, IsClosing
    <3>3. QED BY <1>2, <3>1, <3>2
  <2>4. CASE ServiceSchedule(t) \/ CallSchedule(t)
    <3>1. npush' = npush /\ wire' = wire
      BY <1>1, <2>4, ScheduleStep, ScheduleEffect
    <3>2. IsClosing' = IsClosing
      BY <1>1, <2>4, ScheduleStep, ScheduleEffect DEF IsClosing
    <3>3. QED BY <1>2, <3>1, <3>2
  <2>5. CASE HandlerLock(t) \/ HandleRead(t) \/ ReadOn(t) \/ OOBRecv(t)
    <3>1. npush' = npush /\ wire' = wire
      BY <2>5 DEF HandlerLock, HandleRead, Decode, ReadFails, ReadOn, OOBRecv,
          bufVars, envVars
    <3>2. IsClosing' = IsClosing
      BY <2>5 DEF HandlerLock, HandleRead, Decode, ReadFails, ReadOn, OOBRecv,
          IsClosing
    <3>3. QED BY <1>2, <3>1, <3>2
  <2>6. CASE InitSocket(t) \/ InitRead(t)
    <3>1. npush' = npush /\ wire' = wire
      BY <2>6 DEF InitSocket, InitRead, bufVars, envVars
    <3>2. IsClosing' = IsClosing
      BY <2>6 DEF InitSocket, InitRead, IsClosing
    <3>3. QED BY <1>2, <3>1, <3>2
  <2>7. QED BY <1>3, <2>1, <2>2, <2>3, <2>4, <2>5, <2>6 DEF Busy
<1>4. ASSUME NEW t \in IOThreads, NEW o \in Handlers, NEW e \in BOOLEAN,
             NEW n \in Transfers(o, e), Dispatch(t, o, e, n)
      PROVE  [Stream!Next]_(Stream!vars)
  <2>1. npush' = npush /\ status' = status
    BY <1>4 DEF Dispatch, bufVars
  <2>2. IsClosing' = IsClosing
    BY <2>1 DEF IsClosing
  <2>3. /\ n \in Nat /\ wire' \in Seq(Nat)
        /\ Len(wire') = Len(wire) + n /\ Len(wire') <= 2 * npush
        /\ \A i \in 1 .. Len(wire') : wire'[i] = i
        /\ n = 0 => wire' = wire
    BY <1>1, <1>4, DispatchLeft
  <2>4. CASE n = 0
    BY <1>2, <2>1, <2>2, <2>3, <2>4
  <2>5. CASE n # 0
    <3>1. 2 * npush \in Nat /\ Len(wire') \in Len(wire) + 1 .. 2 * npush
      BY <1>1, <2>3, <2>5
    <3>2. wire' = SubSeq([i \in 1 .. 2 * npush |-> i], 1, Len(wire'))
      BY <2>3, <3>1, FirstUnits
    <3>3. Len([i \in 1 .. 2 * npush |-> i]) = 2 * npush
      BY <3>1, AcceptedSeq
    <3>4. Stream!Transmit
      BY <2>1, <2>2, <3>1, <3>2, <3>3 DEF Stream!Transmit
    <3>5. QED BY <3>4 DEF Stream!Next
  <2>6. QED BY <2>4, <2>5
<1>5. CASE Quiet
  BY <1>2, <1>5 DEF Quiet, bufVars, IsClosing
<1>6. CASE NetFails
  BY <1>2, <1>6 DEF NetFails, bufVars, IsClosing
<1>7. QED BY <1>3, <1>4, <1>5, <1>6, Kinds

\* What the connection sends is what was pushed, in order, each message once
\* and whole, whatever the threads do: it implements a stream of messages.
THEOREM ConnectionIsStream == Spec => StreamSpec
<1>1. Init => Stream!Init
  <2> SUFFICES ASSUME Init PROVE Stream!Init
    OBVIOUS
  <2>1. wire = <<>> /\ IsClosing = FALSE /\ 2 * npush = 0
    BY DEF Init, IsClosing
  <2>2. [i \in 1 .. 0 |-> i] = <<>>
    OBVIOUS
  <2>3. QED BY <2>1, <2>2 DEF Stream!Init
<1>2. IInv /\ Flow /\ [Next]_vars => [Stream!Next]_(Stream!vars)
  BY StreamStep
<1>3. QED BY <1>1, <1>2, FlowInvariance, PTL DEF Spec, StreamSpec, Stream!Spec
=============================================================================
