--------------------------- MODULE ClientsProofs ---------------------------
(***************************************************************************)
(* Proofs about Clients, for any number of threads, logins and clients.    *)
(***************************************************************************)
EXTENDS Clients, FiniteSetTheorems, TLAPS

(***************************************************************************)
(* The inductive invariant                                                 *)
(***************************************************************************)

\* Who is in Add after the lock holds the mutex.
Mutex == \A t \in Threads : pc[t] \in {"found", "push"} => mItemsMutex = t

\* What Add was called with, and found while it holds the mutex.
Adding ==
    \A t \in Threads :
        /\ pc[t] \in {"add", "found", "push"} => login[t] \in Logins
        /\ pc[t] = "push" => ~IsUniqueLoginPredicate(login[t])

\* The index that Get has checked stays one of the container.
Getting == \A t \in Threads : pc[t] = "at" => Valid(id[t])

IInv == ClientsInv /\ IsInjective(mItems) /\ Mutex /\ Adding /\ Getting

-----------------------------------------------------------------------------

\* At first nobody is registered.
LEMMA Initially == Init => IInv
<1> SUFFICES ASSUME Init
             PROVE  IInv
  OBVIOUS
<1>1. TypeOK
  <2>1. mItems \in Seq(Logins) /\ Len(mItems) = 0 /\ 0 \in 0 .. MaxClients
    BY ClientsAssumption DEF Init
  <2>2. issued \in [Logins -> SUBSET (1 .. MaxClients)]
    BY DEF Init
  <2>3. pc \in [Threads -> {"idle", "add", "found", "push", "get", "at"}]
    BY DEF Init
  <2>4. login \in [Threads -> Logins \cup {None}] /\ seen \in [Threads -> Nat]
    BY DEF Init
  <2>5. /\ id \in [Threads -> 0 .. MaxClients] /\ code \in [Threads -> {0, 1}]
        /\ ret \in [Threads -> Logins \cup {None, Garbage}]
    BY <2>1 DEF Init
  <2>6. Len(mItems) <= MaxClients /\ Len(mItems) <= capacity
    BY <2>1, ClientsAssumption DEF Init
  <2>7. QED BY <2>1, <2>2, <2>3, <2>4, <2>5, <2>6 DEF Init, TypeOK
<1>2. IdNamesItsClient /\ IsInjective(mItems)
  BY DEF Init, IdNamesItsClient, IsInjective
<1>3. Mutex /\ Adding /\ Getting
  BY DEF Init, Mutex, Adding, Getting
<1>4. QED BY <1>1, <1>2, <1>3 DEF IInv, ClientsInv

\* A request brings its login.
LEMMA RegisterKeeps ==
  ASSUME IInv, NEW t \in Threads, NEW name \in Logins, Register(t, name)
  PROVE  IInv'
<1> USE DEF IInv, ClientsInv, Register, Goto, itemVars, respVars
<1>1. TypeOK'
  BY DEF TypeOK
<1>2. IdNamesItsClient' /\ IsInjective(mItems)'
  BY DEF IdNamesItsClient, IsInjective
<1>3. Mutex'
  BY DEF TypeOK, Mutex
<1>4. Adding'
  BY DEF TypeOK, Adding, IsUniqueLoginPredicate, Contains
<1>5. Getting'
  BY DEF TypeOK, Getting, Valid
<1>6. QED BY <1>1, <1>2, <1>3, <1>4, <1>5

\* Add finds out about the login with the mutex taken.
LEMMA AddLockKeeps ==
  ASSUME IInv, NEW t \in Threads, AddLock(t)
  PROVE  IInv'
<1> USE DEF IInv, ClientsInv, AddLock, Goto, argVars, respVars
<1>1. TypeOK'
  BY DEF TypeOK
<1>2. IdNamesItsClient' /\ IsInjective(mItems)'
  BY DEF IdNamesItsClient, IsInjective
<1>3. Mutex'
  BY ClientsAssumption DEF TypeOK, Mutex
<1>4. Adding'
  BY DEF TypeOK, Adding, IsUniqueLoginPredicate, Contains
<1>5. Getting'
  BY DEF TypeOK, Getting, Valid
<1>6. QED BY <1>1, <1>2, <1>3, <1>4, <1>5

\* A client that is refused leaves the container alone.
LEMMA AddFoundKeeps ==
  ASSUME IInv, NEW t \in Threads, AddFound(t)
  PROVE  IInv'
<1> USE DEF IInv, ClientsInv, AddFound, Respond, Goto, argVars
<1>1. TypeOK'
  BY DEF TypeOK
<1>2. IdNamesItsClient' /\ IsInjective(mItems)'
  BY DEF IdNamesItsClient, IsInjective
<1>3. Mutex'
  BY ClientsAssumption DEF TypeOK, Mutex
<1>4. Adding'
  BY DEF TypeOK, Adding, IsUniqueLoginPredicate, Contains
<1>5. Getting'
  BY DEF TypeOK, Getting, Valid
<1>6. QED BY <1>1, <1>2, <1>3, <1>4, <1>5

\* A client that is added is the last item, and keeps the others where they
\* are: nobody else is between the look for its login and push_back.
LEMMA AddPushKeeps ==
  ASSUME IInv, NEW t \in Threads, AddPush(t)
  PROVE  IInv'
<1> USE DEF IInv, ClientsInv, AddPush, Respond, Goto, argVars
<1> DEFINE n == Len(mItems) + 1
<1>1. /\ login[t] \in Logins /\ mItems \in Seq(Logins) /\ n \in 1 .. MaxClients
      /\ mItems' = Append(mItems, login[t])
      /\ issued' = [issued EXCEPT ![login[t]] = @ \cup {n}]
  BY ClientsAssumption DEF TypeOK, Adding
<1>2. /\ mItems' \in Seq(Logins) /\ Len(mItems') = n
      /\ DOMAIN mItems = 1 .. n - 1 /\ DOMAIN mItems' = 1 .. n
      /\ mItems'[n] = login[t]
      /\ \A i \in DOMAIN mItems : i \in DOMAIN mItems' /\ mItems'[i] = mItems[i]
  BY <1>1
<1>3. \A i \in DOMAIN mItems : mItems[i] # login[t]
  BY DEF Adding, IsUniqueLoginPredicate, Contains, TypeOK
<1>4. TypeOK'
  <2>1. storage' \in Nat /\ capacity' \in Nat /\ n <= capacity'
    BY DEF TypeOK
  <2>2. issued' \in [Logins -> SUBSET (1 .. MaxClients)]
    BY <1>1 DEF TypeOK
  <2>3. n <= MaxClients /\ mItemsMutex' = None
    BY <1>1
  <2>4. /\ pc' \in [Threads -> {"idle", "add", "found", "push", "get", "at"}]
        /\ code' \in [Threads -> {0, 1}]
    BY DEF TypeOK
  <2>5. QED BY <1>2, <2>1, <2>2, <2>3, <2>4 DEF TypeOK
<1>5. IdNamesItsClient'
  <2>1. ASSUME NEW l \in Logins, NEW i \in issued'[l]
        PROVE  i \in DOMAIN mItems' /\ mItems'[i] = l
    <3>1. issued'[l] = IF l = login[t] THEN issued[l] \cup {n} ELSE issued[l]
      BY <1>1 DEF TypeOK
    <3>2. i \in issued[l] \/ (l = login[t] /\ i = n)
      BY <2>1, <3>1
    <3>3. QED BY <1>1, <1>2, <3>2 DEF IdNamesItsClient
  <2>2. QED BY <2>1 DEF IdNamesItsClient
<1>6. IsInjective(mItems)'
  <2>1. ASSUME NEW i \in 1 .. n, NEW j \in 1 .. n, mItems'[i] = mItems'[j]
        PROVE  i = j
    <3>1. (i = n \/ i \in DOMAIN mItems) /\ (j = n \/ j \in DOMAIN mItems)
      BY <1>1, <1>2
    <3>2. QED BY <1>2, <1>3, <2>1, <3>1 DEF IsInjective
  <2>2. QED BY <1>2, <2>1 DEF IsInjective
<1>7. Mutex'
  BY ClientsAssumption DEF TypeOK, Mutex
<1>8. Adding'
  <2>1. \A u \in Threads : u # t => pc[u] # "push"
    BY DEF Mutex
  <2>2. QED BY <2>1 DEF TypeOK, Adding
<1>9. Getting'
  <2>1. ASSUME NEW u \in Threads, pc'[u] = "at"
        PROVE  Valid(id[u])'
    <3>1. Valid(id[u]) /\ id'[u] = id[u]
      BY <2>1 DEF TypeOK, Getting
    <3>2. Len(mItems) \in Nat /\ Len(mItems') = Len(mItems) + 1
      BY <1>1, <1>2
    <3>3. id[u] \in 0 .. MaxClients
      BY DEF TypeOK
    <3>4. QED BY <3>1, <3>2, <3>3, ClientsAssumption DEF Valid
  <2>2. QED BY <2>1 DEF Getting
<1>10. QED BY <1>4, <1>5, <1>6, <1>7, <1>8, <1>9

\* A request names a client.
LEMMA RegisterViewportKeeps ==
  ASSUME IInv, NEW t \in Threads, NEW clientid \in 0 .. MaxClients,
         RegisterViewport(t, clientid)
  PROVE  IInv'
<1> USE DEF IInv, ClientsInv, RegisterViewport, Goto, itemVars, respVars
<1>1. TypeOK'
  BY DEF TypeOK
<1>2. IdNamesItsClient' /\ IsInjective(mItems)'
  BY DEF IdNamesItsClient, IsInjective
<1>3. Mutex'
  BY DEF TypeOK, Mutex
<1>4. Adding'
  BY DEF TypeOK, Adding, IsUniqueLoginPredicate, Contains
<1>5. Getting'
  BY DEF TypeOK, Getting, Valid
<1>6. QED BY <1>1, <1>2, <1>3, <1>4, <1>5

\* Get goes on with an index that it has found valid.
LEMMA GetCheckKeeps ==
  ASSUME IInv, NEW t \in Threads, GetCheck(t)
  PROVE  IInv'
<1> USE DEF IInv, ClientsInv, GetCheck, Respond, Goto, itemVars
<1>1. TypeOK'
  BY DEF TypeOK
<1>2. IdNamesItsClient' /\ IsInjective(mItems)'
  BY DEF IdNamesItsClient, IsInjective
<1>3. Mutex'
  BY DEF TypeOK, Mutex
<1>4. Adding'
  BY DEF TypeOK, Adding, IsUniqueLoginPredicate, Contains
<1>5. Getting'
  BY DEF TypeOK, Getting, Valid
<1>6. QED BY <1>1, <1>2, <1>3, <1>4, <1>5

\* What Get reads is a client, none or something else.
LEMMA GetAtKeeps ==
  ASSUME IInv, NEW t \in Threads, GetAt(t)
  PROVE  IInv'
<1> USE DEF IInv, ClientsInv, GetAt, Respond, Goto, itemVars, argVars
<1>1. Reads(t) \subseteq Logins \cup {None, Garbage}
  BY DEF TypeOK, Getting, Valid, Reads
<1>2. TypeOK'
  BY <1>1 DEF TypeOK
<1>3. IdNamesItsClient' /\ IsInjective(mItems)'
  BY DEF IdNamesItsClient, IsInjective
<1>4. Mutex'
  BY DEF TypeOK, Mutex
<1>5. Adding'
  BY DEF TypeOK, Adding, IsUniqueLoginPredicate, Contains
<1>6. Getting'
  BY DEF TypeOK, Getting, Valid
<1>7. QED BY <1>2, <1>3, <1>4, <1>5, <1>6

\* Every step keeps the invariant.
LEMMA Preserved == IInv /\ [Next]_vars => IInv'
<1> SUFFICES ASSUME IInv, [Next]_vars
             PROVE  IInv'
  OBVIOUS
<1>1. CASE UNCHANGED vars
  BY <1>1 DEF vars, itemVars, argVars, respVars, IInv, ClientsInv, TypeOK,
     IdNamesItsClient, IsInjective, Mutex, Adding, Getting, Valid,
     IsUniqueLoginPredicate, Contains
<1>2. CASE Next
  BY <1>2, RegisterKeeps, AddLockKeeps, AddFoundKeeps, AddPushKeeps,
     RegisterViewportKeeps, GetCheckKeeps, GetAtKeeps DEF Next
<1>3. QED BY <1>1, <1>2

\* The invariant holds of every behaviour.
LEMMA Invariance == Spec => []IInv
BY Initially, Preserved, PTL DEF Spec

-----------------------------------------------------------------------------

\* A clientid names for ever the client that Register answered it to, however
\* many requests are served at the same time.
THEOREM ClientsAreSafe == Spec => []ClientsInv
<1>1. IInv => ClientsInv
  BY DEF IInv
<1>2. QED BY <1>1, Invariance, PTL

\* Two requests that bring the same login do not both get in, and no login is
\* given two ids: ConcurrentContainer::Add looks and adds under one mutex.
THEOREM LoginsAreUnique == Spec => []LoginsUnique
<1>1. ASSUME IInv, NEW l \in Logins
      PROVE  Cardinality(issued[l]) <= 1
  <2>1. \A i, j \in issued[l] : i = j
    BY <1>1 DEF IInv, ClientsInv, IdNamesItsClient, IsInjective
  <2>2. CASE issued[l] = {}
    BY <2>2, FS_EmptySet
  <2>3. CASE issued[l] # {}
    <3>1. PICK i : i \in issued[l]
      BY <2>3
    <3>2. issued[l] = {i}
      BY <2>1, <3>1
    <3>3. Cardinality({i}) = 1
      BY FS_Singleton
    <3>4. QED BY <3>2, <3>3
  <2>4. QED BY <2>2, <2>3
<1>2. IInv => LoginsUnique
  BY <1>1 DEF IInv, LoginsUnique
<1>3. QED BY <1>2, Invariance, PTL

\* Get never refuses a clientid that Register has answered, although it
\* compares it with the size without the mutex.
THEOREM IssuedIdsAreAccepted == Spec => IssuedIsAccepted
<1> DEFINE Accepts == \A t \in Threads : pc[t] = "get" /\ pc'[t] = "idle" =>
                          \A l \in Logins : id[t] \notin issued[l]
<1>1. ASSUME IInv, [Next]_vars, NEW t \in Threads, NEW l \in Logins,
             pc[t] = "get", pc'[t] = "idle", id[t] \in issued[l]
      PROVE  FALSE
  <2>1. Valid(id[t])
    BY <1>1 DEF IInv, ClientsInv, TypeOK, IdNamesItsClient, Valid
  <2>2. ~GetCheck(t)
    BY <1>1, <2>1 DEF GetCheck, Goto, IInv, ClientsInv, TypeOK
  <2>3. pc' # pc
    BY <1>1
  <2>4. PICK u \in Threads :
          \/ \E name \in Logins : Register(u, name)
          \/ AddLock(u) \/ AddFound(u) \/ AddPush(u)
          \/ \E clientid \in 0 .. MaxClients : RegisterViewport(u, clientid)
          \/ GetCheck(u) \/ GetAt(u)
    BY <1>1, <2>3 DEF Next, vars
  <2>5. u # t
    BY <1>1, <2>2, <2>4
       DEF Register, AddLock, AddFound, AddPush, RegisterViewport, GetAt
  <2>6. \E l2 : pc' = [pc EXCEPT ![u] = l2]
    BY <2>4 DEF Register, AddLock, AddFound, AddPush, RegisterViewport,
       GetCheck, GetAt, Respond, Goto
  <2>7. pc'[t] = pc[t]
    BY <2>5, <2>6 DEF IInv, ClientsInv, TypeOK
  <2>8. QED BY <1>1, <2>7
<1>2. IInv /\ [Next]_vars => [Accepts]_vars
  BY <1>1
<1>3. QED BY <1>2, Invariance, PTL DEF Spec, IssuedIsAccepted
=============================================================================
