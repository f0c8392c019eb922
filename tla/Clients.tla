------------------------------ MODULE Clients ------------------------------
(***************************************************************************)
(* The clients registered with the server: RpcServiceClients               *)
(* (src/server/network/RpcServiceClients.hpp) on the Clients of the Game,  *)
(* a ConcurrentContainer of src/core/ConcurrentContainer.{hpp,cpp}.  The   *)
(* services run on the threads of the IOServicePool, several at a time.    *)
(*                                                                         *)
(* Add holds the mutex of the container, Get does not: an Add that finds   *)
(* the vector full moves the items to new storage and frees the old one    *)
(* while a Get may be on its way through it.  What such a Get reads is     *)
(* undefined: the client that was there, none, or something else.          *)
(***************************************************************************)
EXTENDS Integers, Sequences, FiniteSets, SequencesExt

CONSTANTS
    Threads,        \* the threads that run services
    Logins,
    None,           \* no thread, no client
    Garbage,        \* what is read from freed storage
    MaxClients      \* bound: clients registered

ASSUME ClientsAssumption ==
    /\ None \notin Threads /\ {None, Garbage} \cap Logins = {}
    /\ None # Garbage
    /\ MaxClients \in Nat

VARIABLES
    mItems,         \* the logins of the clients, by index
    storage,        \* how often the items were moved
    capacity,       \* of the vector
    mItemsMutex,
    crashed,        \* the process is gone
    pc,             \* a thread: "idle", "add", "found", "push", "get", "at"
    login, id,      \* the arguments of the request it serves
    seen,           \* the storage its Get found, 0: none
    code, ret,      \* history: the last response of a thread, and what it got
    issued          \* history: the clientids given for each login

itemVars == <<mItems, storage, capacity, mItemsMutex>>
argVars  == <<login, id, seen>>
respVars == <<code, ret, issued>>
vars == <<itemVars, crashed, pc, argVars, respVars>>

Goto(t, l) == pc' = [pc EXCEPT ![t] = l]

Respond(t, c) == code' = [code EXCEPT ![t] = c] /\ Goto(t, "idle")

-----------------------------------------------------------------------------
(* Register, and ConcurrentContainer::Add                                  *)

Register(t, name) ==
    /\ ~crashed /\ pc[t] = "idle"
    /\ login' = [login EXCEPT ![t] = name]
    /\ Goto(t, "add")
    /\ UNCHANGED <<itemVars, crashed, id, seen, respVars>>

\* Some client has this login.
IsUniqueLoginPredicate(name) == Contains(mItems, name)

\* Mutant: Add takes no mutex.
AddLockNot(t) ==
    /\ ~crashed /\ pc[t] = "add"
    /\ Goto(t, IF IsUniqueLoginPredicate(login[t]) THEN "found" ELSE "push")
    /\ UNCHANGED <<itemVars, crashed, argVars, respVars>>

\* Add takes the mutex and looks for the client itself, then for one of the
\* same login.
AddLock(t) ==
    /\ ~crashed /\ pc[t] = "add" /\ mItemsMutex = None
    /\ mItemsMutex' = t
    /\ Goto(t, IF IsUniqueLoginPredicate(login[t]) THEN "found" ELSE "push")
    /\ UNCHANGED <<mItems, storage, capacity, crashed, argVars, respVars>>

\* Add returns 0: the client is refused.
AddFound(t) ==
    /\ ~crashed /\ pc[t] = "found"
    /\ mItemsMutex' = None
    /\ Respond(t, 1)
    /\ UNCHANGED <<mItems, storage, capacity, crashed, argVars, ret, issued>>

\* Mutant: the id is the index of the client, from 0.
AddPushZeroBased(t) ==
    /\ ~crashed /\ pc[t] = "push"
    /\ Len(mItems) < MaxClients
    /\ mItems' = Append(mItems, login[t])
    /\ IF Len(mItems) = capacity
       THEN /\ storage' = storage + 1
            /\ capacity' = IF capacity = 0 THEN 1 ELSE 2 * capacity
       ELSE UNCHANGED <<storage, capacity>>
    /\ issued' = [issued EXCEPT ![login[t]] = @ \cup {Len(mItems)}]
    /\ mItemsMutex' = None
    /\ Respond(t, 0)
    /\ UNCHANGED <<crashed, argVars, ret>>

\* push_back: a vector that is full is moved to one twice as large.  The id
\* is the new size.
AddPush(t) ==
    /\ ~crashed /\ pc[t] = "push"
    /\ Len(mItems) < MaxClients
    /\ mItems' = Append(mItems, login[t])
    /\ IF Len(mItems) = capacity
       THEN /\ storage' = storage + 1
            /\ capacity' = IF capacity = 0 THEN 1 ELSE 2 * capacity
       ELSE UNCHANGED <<storage, capacity>>
    /\ issued' = [issued EXCEPT ![login[t]] = @ \cup {Len(mItems) + 1}]
    /\ mItemsMutex' = None
    /\ Respond(t, 0)
    /\ UNCHANGED <<crashed, argVars, ret>>

-----------------------------------------------------------------------------
(* RegisterViewport, and ConcurrentContainer::Get                          *)

RegisterViewport(t, clientid) ==
    /\ ~crashed /\ pc[t] = "idle"
    /\ id' = [id EXCEPT ![t] = clientid]
    /\ seen' = [seen EXCEPT ![t] = 0]
    /\ Goto(t, "get")
    /\ UNCHANGED <<itemVars, crashed, login, respVars>>

\* Mutant: the last client is taken for one too many.
ValidShort(index) == index # 0 /\ index < Len(mItems)

Valid(index) == index # 0 /\ index <= Len(mItems)

\* The index is compared with the size and the address of the items taken,
\* without the mutex.
GetCheck(t) ==
    /\ ~crashed /\ pc[t] = "get"
    /\ IF Valid(id[t])
       THEN /\ seen' = [seen EXCEPT ![t] = storage]
            /\ Goto(t, "at")
            /\ UNCHANGED <<code, ret>>
       ELSE /\ ret' = [ret EXCEPT ![t] = None]
            /\ Respond(t, 1)
            /\ UNCHANGED seen
    /\ UNCHANGED <<itemVars, crashed, login, id, issued>>

\* What at( index - 1 ) may read.
Reads(t) ==
    {mItems[id[t]]} \cup IF seen[t] = storage THEN {} ELSE {None, Garbage}

\* The item is read, from the storage that the thread found.  RegisterViewport
\* then writes the position of a new ViewPort, whose pos has no coordinates
\* yet: x() is undefined, and y() throws on a thread that nobody catches for.
\* For a client there is no way past it.
GetAt(t) ==
    /\ ~crashed /\ pc[t] = "at"
    /\ \E item \in Reads(t) :
        /\ ret' = [ret EXCEPT ![t] = item]
        /\ IF item = None
           THEN Respond(t, 1) /\ UNCHANGED crashed
           ELSE crashed' = TRUE /\ Goto(t, "idle") /\ UNCHANGED code
    /\ UNCHANGED <<itemVars, argVars, issued>>

Init ==
    /\ mItems = <<>> /\ storage = 0 /\ capacity = 0 /\ mItemsMutex = None
    /\ crashed = FALSE
    /\ pc = [t \in Threads |-> "idle"]
    /\ login = [t \in Threads |-> None]
    /\ id = [t \in Threads |-> 0] /\ seen = [t \in Threads |-> 0]
    /\ code = [t \in Threads |-> 0] /\ ret = [t \in Threads |-> None]
    /\ issued = [l \in Logins |-> {}]

Next ==
    \E t \in Threads :
        \/ \E name \in Logins : Register(t, name)
        \/ AddLock(t) \/ AddFound(t) \/ AddPush(t)
        \/ \E clientid \in 0 .. MaxClients : RegisterViewport(t, clientid)
        \/ GetCheck(t) \/ GetAt(t)

Spec == Init /\ [][Next]_vars

-----------------------------------------------------------------------------
(* Properties                                                              *)

\* The types.  An id that was given is a valid clientid: 0 says "no client".
TypeOK ==
    /\ mItems \in Seq(Logins) /\ Len(mItems) <= MaxClients
    /\ storage \in Nat /\ capacity \in Nat /\ Len(mItems) <= capacity
    /\ mItemsMutex \in Threads \cup {None}
    /\ crashed \in BOOLEAN
    /\ pc \in [Threads -> {"idle", "add", "found", "push", "get", "at"}]
    /\ login \in [Threads -> Logins \cup {None}]
    /\ id \in [Threads -> 0 .. MaxClients]
    /\ seen \in [Threads -> Nat]
    /\ code \in [Threads -> {0, 1}]
    /\ ret \in [Threads -> Logins \cup {None, Garbage}]
    /\ issued \in [Logins -> SUBSET (1 .. MaxClients)]

\* Two requests that bring the same login at the same time do not both get
\* in: no login is in the container twice, and each was given one id at most
\* (RpcServiceClients.hpp:36-38, ConcurrentContainer.cpp:12-24).
LoginsUnique ==
    /\ IsInjective(mItems)
    /\ \A l \in Logins : Cardinality(issued[l]) <= 1

\* A clientid names for ever the client it was given to: whatever is added
\* later, the item at id - 1 is the client that Register answered with this
\* id (ConcurrentContainer.cpp:21 and :38 must agree on where ids start).
IdNamesItsClient ==
    \A l \in Logins : \A i \in issued[l] : i \in DOMAIN mItems /\ mItems[i] = l

\* Ids are given from 1, and keep their meaning.
ClientsInv == TypeOK /\ IdNamesItsClient

\* A clientid that Register has answered is never refused by the check of
\* Get, however many clients register at the same time: Get compares it with
\* the size without the mutex (ConcurrentContainer.cpp:32-36), and the id is
\* known to nobody before the vector has grown.
IssuedIsAccepted ==
    [][\A t \in Threads :
          pc[t] = "get" /\ pc'[t] = "idle" =>
              \A l \in Logins : id[t] \notin issued[l]]_vars
=============================================================================
