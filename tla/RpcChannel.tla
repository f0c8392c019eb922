----------------------------- MODULE RpcChannel -----------------------------
(***************************************************************************)
(* Remote calls over a connection: CallMethod and the table of response    *)
(* handlers of src/core/network/RawProtobufConnection.cpp at the end that  *)
(* calls, HandleService and CallServiceMethodDone of                       *)
(* ProtobufConnection.cpp at the end that serves.                          *)
(*                                                                         *)
(* A call is known to both ends by its response identify: a hash of the    *)
(* type of the response, moved on while it is in use.  The connection is   *)
(* the one of module RawConnection: what is pushed arrives in order or not *)
(* at all, CallMethod and the handlers hold the mutex of the status        *)
(* shared, and CLOSING is set when nobody does.  The asynchronous          *)
(* Disconnect deletes the RawProtobufConnection, the synchronous one       *)
(* leaves that to the end of the Connection.                               *)
(***************************************************************************)
EXTENDS Integers, Sequences, FiniteSets

CONSTANTS
    Calls,          \* the calls made
    None,
    Identifies,     \* how many identifies there are: 2^64
    hash8,          \* the hash of the response type of each call
    Methods,        \* the calls of methods the other end has registered
    Waiters,        \* the calls whose caller waits on its RpcController
    MaxSeq          \* bound: the seq of CallMethod

Ids == 0 .. Identifies - 1

ASSUME RpcAssumption ==
    /\ None \notin Calls /\ Waiters \subseteq Calls
    /\ None \notin [to : Calls, call : Calls, ok : BOOLEAN]
    /\ Identifies \in Nat \ {0} /\ MaxSeq \in Nat
    /\ hash8 \in [Calls -> Ids]

VARIABLES
    mResponseHandlerTable,  \* the call of each identify, or None
    seq,                    \* static int seq of CallMethod
    status,                 \* "open", "closing", "deleted"
    async,                  \* the Disconnect was an asynchronous one
    cpc, cid,               \* a call: where its CallMethod is, its identify
    requests, responses,    \* what is under way to the other end, and back
    serving, meta,          \* the other end: the calls that are with a
                            \* service, and what its decoder holds, or None
    handling,               \* the response being handled, or None
    aborting,               \* the handlers ReleaseResponseTable has taken
    result, runs,           \* SetFailed or the answer; done->Run() calls
    notified_,              \* of the Notifier of each RpcController
    waiter,                 \* its Wait: "none", "asleep", "returned"
    ignored                 \* history: calls whose request did not parse

tabVars  == <<mResponseHandlerTable, seq>>
wireVars == <<requests, responses, serving, meta>>
endVars  == <<result, runs, notified_, waiter>>
vars == <<tabVars, status, async, cpc, cid, wireVars, handling, aborting,
          endVars, ignored>>

\* A closure runs once: OnceClosure deletes itself.
Run(c) == runs' = [runs EXCEPT ![c] = @ + 1]

\* Notifier::Dec: the count of 1 becomes 0, and whoever sleeps is woken.
Notify(c) ==
    /\ notified_' = [notified_ EXCEPT ![c] = TRUE]
    /\ waiter' = [waiter EXCEPT ![c] = IF @ = "asleep" THEN "returned" ELSE @]

\* A call ends: SetFailed and Notify of its RpcController, then done->Run().
End(c, r) ==
    /\ result' = [result EXCEPT ![c] = r]
    /\ Notify(c)
    /\ Run(c)

\* Nobody holds the mutex of the status.
Unlocked == handling = None /\ \A c \in Calls : cpc[c] # "push"

-----------------------------------------------------------------------------
(* CallMethod                                                              *)

\* The identify after n turns of the loop.
Moved(h, n) == (h + n * seq + (n * (n + 1)) \div 2) % Identifies

\* Mutant: an identify that is in use is taken.
TurnsNone(h, n) == n = 0

\* The loop ends after n turns: then the identify is not in use, before it was.
Turns(h, n) ==
    /\ mResponseHandlerTable[Moved(h, n)] = None
    /\ \A m \in 0 .. n - 1 : mResponseHandlerTable[Moved(h, m)] # None

\* ProtobufConnection::CallMethod when the connection is closing or gone.
CallClosed(c) ==
    /\ cpc[c] = "idle" /\ status # "open"
    /\ cpc' = [cpc EXCEPT ![c] = "returned"]
    /\ End(c, "failed")
    /\ UNCHANGED <<tabVars, status, async, cid, wireVars, handling, aborting,
                   ignored>>

\* The section under mResponseHandlerTableMutex; the status is locked from
\* here to the end of the call.
CallMethod(c) ==
    /\ cpc[c] = "idle" /\ status = "open"
    /\ \E n \in 0 .. MaxSeq - seq :
        LET id == Moved(hash8[c], n)
        IN  /\ Turns(hash8[c], n)
            /\ seq' = seq + n
            /\ cid' = [cid EXCEPT ![c] = id]
            /\ mResponseHandlerTable' =
                  [mResponseHandlerTable EXCEPT ![id] = c]
    /\ cpc' = [cpc EXCEPT ![c] = "push"]
    /\ UNCHANGED <<status, async, wireVars, handling, aborting, endVars,
                   ignored>>

\* PushData and ScheduleWrite, which cannot fail while the status is locked.
CallPush(c) ==
    /\ cpc[c] = "push"
    /\ requests' = Append(requests, [call |-> c, response_identify |-> cid[c]])
    /\ cpc' = [cpc EXCEPT ![c] = "returned"]
    /\ UNCHANGED <<tabVars, status, async, cid, responses, serving, meta,
                   handling, aborting, endVars, ignored>>

\* The request could not be serialized, found out with the table locked.
CallFailed(c) ==
    /\ cpc[c] = "push"
    /\ mResponseHandlerTable' =
          [mResponseHandlerTable EXCEPT ![cid[c]] = None]
    /\ cpc' = [cpc EXCEPT ![c] = "returned"]
    /\ End(c, "failed")
    /\ UNCHANGED <<seq, status, async, cid, wireVars, handling, aborting,
                   ignored>>

-----------------------------------------------------------------------------
(* The caller waits: Notifier::Wait                                        *)

\* Mutant: it sleeps without a look at notified_.
WaitSleeps(c) ==
    /\ cpc[c] = "returned" /\ waiter[c] = "none"
    /\ waiter' = [waiter EXCEPT ![c] = "asleep"]
    /\ UNCHANGED <<tabVars, status, async, cpc, cid, wireVars, handling,
                   aborting, result, runs, notified_, ignored>>

Wait(c) ==
    /\ cpc[c] = "returned" /\ waiter[c] = "none"
    /\ waiter' = [waiter EXCEPT
                    ![c] = IF notified_[c] THEN "returned" ELSE "asleep"]
    /\ UNCHANGED <<tabVars, status, async, cpc, cid, wireVars, handling,
                   aborting, result, runs, notified_, ignored>>

\* timed_wait returns false when it times out, which one of LONG_MAX
\* milliseconds may do at once, and true when it is woken by nobody: Wait
\* returns what it says without another look at notified_.
WaitReturns(c) ==
    /\ waiter[c] = "asleep"
    /\ waiter' = [waiter EXCEPT ![c] = "returned"]
    /\ UNCHANGED <<tabVars, status, async, cpc, cid, wireVars, handling,
                   aborting, result, runs, notified_, ignored>>

-----------------------------------------------------------------------------
(* The other end: Handle, HandleService, CallServiceMethodDone             *)

\* Mutant: a message is decoded while a service is still to answer.
HandleServiceLater ==
    /\ requests # <<>> /\ Head(requests).call \in Methods
    /\ requests' = Tail(requests)
    /\ serving' = serving \cup {Head(requests).call}
    /\ meta' = Head(requests)
    /\ UNCHANGED <<tabVars, status, async, cpc, cid, responses, handling,
                   aborting, endVars, ignored>>

\* The request parses and the service is called.  The connection decodes the
\* next message when the service has returned; the services of the server
\* answer before they do.
HandleService ==
    /\ requests # <<>> /\ Head(requests).call \in Methods
    /\ serving = {}
    /\ requests' = Tail(requests)
    /\ serving' = {Head(requests).call}
    /\ meta' = Head(requests)
    /\ UNCHANGED <<tabVars, status, async, cpc, cid, responses, handling,
                   aborting, endVars, ignored>>

\* The response carries the response_identify of the message the decoder
\* holds.  What is in it may fail to parse.
CallServiceMethodDone(c, ok) ==
    /\ c \in serving
    /\ responses' = Append(responses,
          [call |-> c, identify |-> meta.response_identify, ok |-> ok])
    /\ serving' = serving \ {c}
    /\ meta' = IF serving' = {} THEN None ELSE meta
    /\ UNCHANGED <<tabVars, status, async, cpc, cid, requests, handling,
                   aborting, endVars, ignored>>

\* The request does not parse: nothing is sent back.
ServeInvalid ==
    /\ requests # <<>> /\ Head(requests).call \in Methods
    /\ serving = {}
    /\ requests' = Tail(requests)
    /\ ignored' = ignored \cup {Head(requests).call}
    /\ UNCHANGED <<tabVars, status, async, cpc, cid, responses, serving, meta,
                   handling, aborting, endVars>>

-----------------------------------------------------------------------------
(* Responses: Handle and CallMethodCallback                                *)

\* The handler is taken out of the table, with its mutex.
Handle ==
    LET r == Head(responses)
        c == mResponseHandlerTable[r.identify]
    IN  /\ responses # <<>> /\ status = "open" /\ handling = None
        /\ c # None
        /\ responses' = Tail(responses)
        /\ mResponseHandlerTable' =
              [mResponseHandlerTable EXCEPT ![r.identify] = None]
        /\ handling' = [to |-> c, call |-> r.call, ok |-> r.ok]
        /\ UNCHANGED <<seq, status, async, cpc, cid, requests, serving, meta,
                       aborting, endVars, ignored>>

\* The handler runs, without the mutex.  "wrong" is the answer to another
\* call.
CallMethodCallback ==
    /\ handling # None
    /\ End(handling.to, IF ~handling.ok THEN "failed"
                        ELSE IF handling.to = handling.call THEN "answered"
                        ELSE "wrong")
    /\ handling' = None
    /\ UNCHANGED <<tabVars, status, async, cpc, cid, wireVars, aborting,
                   ignored>>

-----------------------------------------------------------------------------
(* The connection closes                                                   *)

\* Disconnect: an error or, asynchronously as well, a heartbeat that is
\* missing; Handle of a request nobody serves or of a response nobody waits
\* for, at either end; or the program.  What is under way is lost, and what
\* a service has still to answer.
Disconnect(a) ==
    /\ status = "open" /\ Unlocked
    /\ status' = "closing" /\ async' = a
    /\ requests' = <<>> /\ responses' = <<>>
    /\ serving' = {} /\ meta' = None
    /\ UNCHANGED <<tabVars, cpc, cid, handling, aborting, endVars, ignored>>

\* impl_.reset() in ImplClosed, or in the destructor of the Connection after
\* a synchronous Disconnect: ReleaseResponseTable takes the handlers.
Delete ==
    /\ status = "closing"
    /\ status' = "deleted"
    /\ aborting' = {mResponseHandlerTable[id] : id \in Ids} \ {None}
    /\ mResponseHandlerTable' = [id \in Ids |-> None]
    /\ UNCHANGED <<seq, async, cpc, cid, wireVars, handling, endVars, ignored>>

\* ReleaseResponseTable calls them one after the other, with a NULL decoder.
Abort(c) ==
    /\ c \in aborting
    /\ aborting' = aborting \ {c}
    /\ End(c, "failed")
    /\ UNCHANGED <<tabVars, status, async, cpc, cid, wireVars, handling,
                   ignored>>

Init ==
    /\ mResponseHandlerTable = [id \in Ids |-> None]
    /\ seq = 1
    /\ status = "open" /\ async = FALSE
    /\ cpc = [c \in Calls |-> "idle"]
    /\ cid = [c \in Calls |-> 0]
    /\ requests = <<>> /\ responses = <<>>
    /\ serving = {} /\ meta = None
    /\ handling = None /\ aborting = {}
    /\ result = [c \in Calls |-> "none"]
    /\ runs = [c \in Calls |-> 0]
    /\ notified_ = [c \in Calls |-> FALSE]
    /\ waiter = [c \in Calls |-> "none"]
    /\ ignored = {}

Next ==
    \/ \E c \in Calls :
        \/ CallClosed(c) \/ CallMethod(c) \/ CallPush(c) \/ CallFailed(c)
        \/ Abort(c)
        \/ \E ok \in BOOLEAN : CallServiceMethodDone(c, ok)
    \/ \E c \in Waiters : Wait(c) \/ WaitReturns(c)
    \/ HandleService \/ ServeInvalid \/ Handle \/ CallMethodCallback
    \/ \E a \in BOOLEAN : Disconnect(a)
    \/ Delete

Spec == Init /\ [][Next]_vars

\* Both ends go on, services answer, the end that serves disconnects when it
\* gets a request of a method it does not have, and an asynchronous Disconnect
\* runs to its end.
FairSpec ==
    /\ Spec
    /\ \A c \in Calls : WF_vars(CallPush(c)) /\ WF_vars(Abort(c))
    /\ WF_vars(HandleService \/ ServeInvalid)
    /\ WF_vars(\E c \in Calls, ok \in BOOLEAN : CallServiceMethodDone(c, ok))
    /\ WF_vars(requests # <<>> /\ Head(requests).call \notin Methods
                 /\ Disconnect(TRUE))
    /\ WF_vars(Handle) /\ WF_vars(CallMethodCallback)
    /\ WF_vars(async /\ Delete)

-----------------------------------------------------------------------------
(* Properties                                                              *)

\* The variables have their types.
TypeOK ==
    /\ mResponseHandlerTable \in [Ids -> Calls \cup {None}]
    /\ seq \in Nat
    /\ status \in {"open", "closing", "deleted"} /\ async \in BOOLEAN
    /\ cpc \in [Calls -> {"idle", "push", "returned"}]
    /\ cid \in [Calls -> Ids]
    /\ aborting \subseteq Calls /\ ignored \subseteq Calls
    /\ result \in [Calls -> {"none", "answered", "failed", "wrong"}]
    /\ runs \in [Calls -> Nat]
    /\ serving \subseteq Calls
    /\ notified_ \in [Calls -> BOOLEAN]
    /\ waiter \in [Calls -> {"none", "asleep", "returned"}]

\* A request or a response under way has its call in the table under the
\* identify it carries, and a call with a service under the one its answer
\* will carry, so that no response is unknown when it arrives (the connection
\* would be closed), and none reaches another call, although an identify is
\* used again when the call before it has ended.
UnderWayIsKnown ==
    /\ \A k \in DOMAIN requests :
          mResponseHandlerTable[requests[k].response_identify]
              = requests[k].call
    /\ \A c \in serving :
          mResponseHandlerTable[meta.response_identify] = c
    /\ \A k \in DOMAIN responses :
          mResponseHandlerTable[responses[k].identify] = responses[k].call

\* The done of a call, a closure that deletes itself, is run once at most,
\* and every call that has not ended is where its end can reach it: in the
\* table, being handled or being aborted.
EndsOnce ==
    \A c \in Calls :
        /\ runs[c] <= 1
        /\ cpc[c] # "idle" /\ runs[c] = 0 =>
              \/ mResponseHandlerTable[cid[c]] = c
              \/ handling # None /\ handling.to = c
              \/ c \in aborting

\* What the table of response handlers is for, in parts: however calls,
\* answers, failures and the close interleave, an answer finds its own call,
\* and a call ends once at most.
ChannelInv == TypeOK /\ UnderWayIsKnown /\ EndsOnce

\* What those who call know of each call.
Outcome ==
    [c \in Calls |-> IF result[c] # "none" THEN result[c]
                     ELSE IF cpc[c] = "idle" THEN "idle" ELSE "pending"]

\* The channel is a RemoteCalls.
Promise == INSTANCE RemoteCalls WITH outcome <- Outcome

PromiseSpec == Promise!Spec

\* Every call ends and its caller, should it wait, is woken: with an answer, or
\* with the connection, unless its request did not parse or the program closed
\* the connection and keeps it.
EveryCallEnds ==
    \A c \in Calls :
        (cpc[c] = "returned") ~>
            \/ runs[c] = 1 /\ waiter[c] # "asleep"
            \/ c \in ignored
            \/ status = "closing" /\ ~async
=============================================================================
