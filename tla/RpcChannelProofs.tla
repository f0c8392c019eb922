-------------------------- MODULE RpcChannelProofs --------------------------
(***************************************************************************)
(* Proofs about RpcChannel, for any number of calls and identifies and any *)
(* hash: an answer finds its own call, a call ends once, and the channel   *)
(* is a RemoteCalls.                                                       *)
(***************************************************************************)
EXTENDS RpcChannel, TLAPS

(***************************************************************************)
(* The inductive invariant                                                 *)
(***************************************************************************)

Request  == [call : Calls, response_identify : Ids]
Response == [call : Calls, identify : Ids, ok : BOOLEAN]

\* What is under way, with a service and being handled.
Messages ==
    /\ requests \in Seq(Request)
    /\ responses \in Seq(Response)
    /\ \A c \in serving : meta \in Request /\ meta.call = c
    /\ handling # None =>
          /\ handling \in [to : Calls, call : Calls, ok : BOOLEAN]
          /\ handling.to = handling.call

\* A call is under way once: as a request, with a service, or as a response,
\* and not before its CallMethod has pushed it.
OnePlace ==
    /\ \A j, k \in DOMAIN requests :
          requests[j].call = requests[k].call => j = k
    /\ \A j, k \in DOMAIN responses :
          responses[j].call = responses[k].call => j = k
    /\ \A j \in DOMAIN requests, k \in DOMAIN responses :
          requests[j].call # responses[k].call
    /\ \A j \in DOMAIN requests :
          requests[j].call \notin serving /\ cpc[requests[j].call] # "push"
    /\ \A k \in DOMAIN responses :
          responses[k].call \notin serving /\ cpc[responses[k].call] # "push"
    /\ \A c \in serving : cpc[c] # "push"

\* The table has a call under its own identify, and only while it has not
\* ended and nobody has taken its handler.
Table ==
    \A id \in Ids : \A c \in Calls : mResponseHandlerTable[id] = c =>
        /\ cid[c] = id /\ cpc[c] # "idle" /\ runs[c] = 0
        /\ c \notin aborting
        /\ handling # None => handling.to # c

\* A call that is being pushed is in the table, and a handler that was taken
\* is that of a call that has not ended.
Taken ==
    /\ \A c \in Calls : cpc[c] = "push" => mResponseHandlerTable[cid[c]] = c
    /\ handling # None =>
          /\ runs[handling.to] = 0 /\ cpc[handling.to] = "returned"
          /\ handling.to \notin aborting
    /\ \A c \in aborting : runs[c] = 0 /\ cpc[c] = "returned"

\* The result is set when done is run, and it is never the answer to another
\* call.
Results ==
    \A c \in Calls :
        /\ runs[c] = 0 <=> result[c] = "none"
        /\ result[c] # "wrong"
        /\ cpc[c] = "idle" => runs[c] = 0

\* Nothing is under way on a connection that is closing, nobody holds its
\* status, and a deleted one has no table.
Closed ==
    /\ status # "open" =>
          /\ requests = <<>> /\ responses = <<>> /\ serving = {} /\ Unlocked
    /\ status = "deleted" => \A id \in Ids : mResponseHandlerTable[id] = None
    /\ status # "deleted" => aborting = {}

IInv ==
    /\ ChannelInv /\ Messages /\ OnePlace /\ Table
    /\ Taken /\ Results /\ Closed

-----------------------------------------------------------------------------
(***************************************************************************)
(* Lemmas                                                                  *)
(***************************************************************************)

\* However often it was moved on, an identify has its width.
LEMMA MovedType ==
  ASSUME NEW h \in Ids, NEW n \in Nat, TypeOK
  PROVE  Moved(h, n) \in Ids
<1>1. h \in Int /\ seq \in Int
  BY DEF Ids, TypeOK
<1>2. n * seq \in Int /\ n * (n + 1) \in Int
  BY <1>1
<1> DEFINE k == h + n * seq + (n * (n + 1)) \div 2
<1>3. k \in Int
  BY <1>1
<1> HIDE DEF k
<1>4. k % Identifies \in 0 .. Identifies - 1
  BY <1>3, RpcAssumption
<1>5. QED BY <1>4 DEF k, Moved, Ids

\* What is left of the messages under way when the first one is taken.
LEMMA HeadTail ==
  ASSUME NEW S, NEW s \in Seq(S), s # <<>>
  PROVE  /\ 1 \in DOMAIN s /\ Head(s) = s[1] /\ Head(s) \in S
         /\ Tail(s) \in Seq(S)
         /\ \A k \in DOMAIN Tail(s) :
               /\ k \in Nat /\ k # 0
               /\ k + 1 \in DOMAIN s /\ Tail(s)[k] = s[k + 1]
OBVIOUS

\* A call on a closed connection ends at once: it was in no table.
LEMMA CallClosedKeeps ==
  ASSUME IInv, NEW c \in Calls, CallClosed(c)
  PROVE  IInv'
<1> USE DEF IInv, ChannelInv, CallClosed, End, Notify, Run
<1>1. TypeOK'
  BY DEF TypeOK, tabVars, wireVars
<1>2. EndsOnce'
  BY DEF EndsOnce, TypeOK, Results, tabVars
<1>3. OnePlace'
  BY DEF OnePlace, wireVars
<1>4. Table'
  BY DEF Table, tabVars
<1>5. Taken'
  BY DEF Taken, tabVars
<1>6. Results'
  BY DEF Results, TypeOK
<1>7. Closed'
  BY DEF Closed, Unlocked, tabVars, wireVars
<1>8. UnderWayIsKnown' /\ Messages'
  BY DEF UnderWayIsKnown, Messages, tabVars, wireVars
<1>9. QED BY <1>1, <1>2, <1>3, <1>4, <1>5, <1>6, <1>7, <1>8

\* The request joins those under way; its call was not among them.
LEMMA CallPushKeeps ==
  ASSUME IInv, NEW c \in Calls, CallPush(c)
  PROVE  IInv'
<1> USE DEF IInv, ChannelInv, CallPush
<1>1. TypeOK'
  BY DEF TypeOK, tabVars, endVars
<1>2. UnderWayIsKnown'
  BY DEF UnderWayIsKnown, Taken, tabVars
<1>3. EndsOnce'
  BY DEF EndsOnce, tabVars, endVars
<1>4. Messages'
  BY DEF Messages, TypeOK, Request
<1>5. OnePlace'
  <2>1. /\ requests' = Append(requests,
                              [call |-> c, response_identify |-> cid[c]])
        /\ requests \in Seq(Request) /\ responses' = responses
        /\ serving' = serving /\ cpc[c] = "push"
        /\ \A d \in Calls : cpc'[d] = IF d = c THEN "returned" ELSE cpc[d]
        /\ responses \in Seq(Response) /\ serving \subseteq Calls
    BY DEF Messages, TypeOK
  <2>2. [call |-> c, response_identify |-> cid[c]] \in Request
    BY DEF TypeOK, Request
  <2>3. /\ Len(requests) \in Nat /\ DOMAIN requests = 1 .. Len(requests)
        /\ DOMAIN requests' = 1 .. Len(requests) + 1
        /\ \A k \in DOMAIN requests : requests'[k] = requests[k]
        /\ requests'[Len(requests) + 1].call = c
    BY <2>1, <2>2
  <2>4. /\ \A k \in DOMAIN requests : requests[k].call \in Calls \ {c}
        /\ \A k \in DOMAIN responses : responses[k].call \in Calls \ {c}
        /\ c \notin serving
    <3>1. requests \in Seq(Request) /\ responses \in Seq(Response) /\ OnePlace
      BY <2>1
    <3> HIDE DEF IInv, CallPush
    <3>2. /\ \A k \in DOMAIN requests : requests[k] \in Request
          /\ \A k \in DOMAIN responses : responses[k] \in Response
      BY <3>1
    <3>3. /\ \A k \in DOMAIN requests : requests[k].call \in Calls
          /\ \A k \in DOMAIN responses : responses[k].call \in Calls
      BY <3>2 DEF Request, Response
    <3>4. QED BY <2>1, <3>1, <3>2, <3>3 DEF OnePlace
  <2>5. \A k \in DOMAIN requests' :
          \/ k \in DOMAIN requests /\ requests'[k] = requests[k]
          \/ k = Len(requests) + 1 /\ requests'[k].call = c
    BY <2>3
  <2> HIDE DEF IInv, CallPush
  <2>6. OnePlace
    BY DEF IInv
  <2>7. QED BY <2>1, <2>4, <2>5, <2>6 DEF OnePlace
<1>6. Table'
  BY DEF Table, tabVars, endVars
<1>7. Taken'
  BY DEF Taken, tabVars, endVars
<1>8. Results'
  BY DEF Results, endVars
<1>9. Closed'
  BY DEF Closed, Unlocked
<1>10. QED BY <1>1, <1>2, <1>3, <1>4, <1>5, <1>6, <1>7, <1>8, <1>9

\* A call that fails leaves the table before its request is under way.
LEMMA CallFailedKeeps ==
  ASSUME IInv, NEW c \in Calls, CallFailed(c)
  PROVE  IInv'
<1> USE DEF IInv, ChannelInv, CallFailed, End, Notify, Run
<1>1. TypeOK'
  BY DEF TypeOK, wireVars
<1>2. UnderWayIsKnown'
  BY DEF UnderWayIsKnown, OnePlace, Taken, wireVars
<1>3. EndsOnce'
  BY DEF EndsOnce, TypeOK, Table, Taken
<1>4. OnePlace'
  BY DEF OnePlace, wireVars
<1>5. Table'
  BY RpcAssumption DEF Table, TypeOK
<1>6. Taken'
  BY DEF Taken, TypeOK
<1>7. Results'
  BY DEF Results, TypeOK
<1>8. Closed'
  BY DEF Closed, Unlocked
<1>9. Messages'
  BY DEF Messages, wireVars
<1>10. QED BY <1>1, <1>2, <1>3, <1>4, <1>5, <1>6, <1>7, <1>8, <1>9

\* A handler that ReleaseResponseTable took runs once.
LEMMA AbortKeeps ==
  ASSUME IInv, NEW c \in Calls, Abort(c)
  PROVE  IInv'
<1> USE DEF IInv, ChannelInv, Abort, End, Notify, Run
<1>1. TypeOK'
  BY DEF TypeOK, tabVars, wireVars
<1>2. EndsOnce'
  BY DEF EndsOnce, TypeOK, Taken, tabVars
<1>3. Table'
  BY DEF Table, tabVars
<1>4. Taken'
  BY DEF Taken, tabVars
<1>5. Results'
  BY DEF Results, TypeOK, Taken
<1>6. Closed'
  BY DEF Closed, Unlocked, tabVars, wireVars
<1>7. UnderWayIsKnown' /\ Messages' /\ OnePlace'
  BY DEF UnderWayIsKnown, Messages, OnePlace, tabVars, wireVars
<1>8. QED BY <1>1, <1>2, <1>3, <1>4, <1>5, <1>6, <1>7

\* The answer carries the identify of the call that the service had.
LEMMA CallServiceMethodDoneKeeps ==
  ASSUME IInv, NEW c \in Calls, NEW ok \in BOOLEAN, CallServiceMethodDone(c, ok)
  PROVE  IInv'
<1> USE DEF IInv, ChannelInv, CallServiceMethodDone
<1>1. TypeOK'
  BY DEF TypeOK, tabVars, endVars
<1>2. UnderWayIsKnown'
  BY DEF UnderWayIsKnown, tabVars
<1>3. Messages'
  BY DEF Messages, Request, Response
<1>4. OnePlace'
  BY DEF OnePlace
<1>5. Closed'
  BY DEF Closed
<1>6. EndsOnce' /\ Table' /\ Taken' /\ Results'
  BY DEF EndsOnce, Table, Taken, Results, tabVars, endVars
<1>7. QED BY <1>1, <1>2, <1>3, <1>4, <1>5, <1>6

\* A caller that waits changes nothing else.
LEMMA WaitKeeps ==
  ASSUME IInv, NEW c \in Calls, Wait(c)
  PROVE  IInv'
<1> USE DEF IInv, ChannelInv, Wait
<1>1. TypeOK'
  BY DEF TypeOK, tabVars, wireVars
<1>2. /\ UnderWayIsKnown' /\ EndsOnce' /\ Messages' /\ OnePlace'
      /\ Table' /\ Taken' /\ Results' /\ Closed'
  BY DEF UnderWayIsKnown, EndsOnce, Messages, OnePlace, Table, Taken, Results,
     Closed, Unlocked, tabVars, wireVars
<1>3. QED BY <1>1, <1>2

\* A wait that returns changes nothing else.
LEMMA WaitReturnsKeeps ==
  ASSUME IInv, NEW c \in Calls, WaitReturns(c)
  PROVE  IInv'
<1> USE DEF IInv, ChannelInv, WaitReturns
<1>1. TypeOK'
  BY DEF TypeOK, tabVars, wireVars
<1>2. /\ UnderWayIsKnown' /\ EndsOnce' /\ Messages' /\ OnePlace'
      /\ Table' /\ Taken' /\ Results' /\ Closed'
  BY DEF UnderWayIsKnown, EndsOnce, Messages, OnePlace, Table, Taken, Results,
     Closed, Unlocked, tabVars, wireVars
<1>3. QED BY <1>1, <1>2

\* The handler runs once, after it was taken out of the table.
LEMMA CallMethodCallbackKeeps ==
  ASSUME IInv, CallMethodCallback
  PROVE  IInv'
<1> USE DEF IInv, ChannelInv, CallMethodCallback, End, Notify, Run
<1>1. TypeOK'
  BY DEF TypeOK, Messages, tabVars, wireVars
<1>2. EndsOnce'
  BY DEF EndsOnce, TypeOK, Taken, tabVars
<1>3. Messages'
  BY DEF Messages, wireVars
<1>4. Table'
  BY DEF Table, tabVars
<1>5. Taken'
  BY DEF Taken, tabVars
<1>6. Results'
  BY DEF Results, TypeOK, Messages, Taken
<1>7. Closed'
  BY DEF Closed, Unlocked
<1>8. UnderWayIsKnown' /\ OnePlace'
  BY DEF UnderWayIsKnown, OnePlace, tabVars, wireVars
<1>9. QED BY <1>1, <1>2, <1>3, <1>4, <1>5, <1>6, <1>7, <1>8

\* Nothing is under way after a Disconnect.
LEMMA DisconnectKeeps ==
  ASSUME IInv, NEW a \in BOOLEAN, Disconnect(a)
  PROVE  IInv'
<1> USE DEF IInv, ChannelInv, Disconnect
<1>1. TypeOK'
  BY DEF TypeOK, tabVars, endVars
<1>2. UnderWayIsKnown'
  BY DEF UnderWayIsKnown
<1>3. Messages'
  BY DEF Messages
<1>4. OnePlace'
  BY DEF OnePlace
<1>5. Closed'
  BY DEF Closed, Unlocked
<1>6. EndsOnce' /\ Table' /\ Taken' /\ Results'
  BY DEF EndsOnce, Table, Taken, Results, tabVars, endVars
<1>7. QED BY <1>1, <1>2, <1>3, <1>4, <1>5, <1>6

\* ReleaseResponseTable takes every call that has not ended.
LEMMA DeleteKeeps ==
  ASSUME IInv, Delete
  PROVE  IInv'
<1> USE DEF IInv, ChannelInv, Delete
<1>1. TypeOK'
  BY DEF TypeOK, wireVars, endVars
<1>2. UnderWayIsKnown'
  BY DEF UnderWayIsKnown, Closed, wireVars
<1>3. EndsOnce'
  BY DEF EndsOnce, TypeOK, Closed, endVars
<1>4. Table'
  BY RpcAssumption DEF Table
<1>5. Taken'
  BY DEF Taken, TypeOK, Table, Closed, Unlocked, endVars
<1>6. Closed'
  BY DEF Closed, Unlocked, wireVars
<1>7. Messages' /\ OnePlace' /\ Results'
  BY DEF Messages, OnePlace, Results, wireVars, endVars
<1>8. QED BY <1>1, <1>2, <1>3, <1>4, <1>5, <1>6, <1>7

\* CallMethod takes an identify that is not in use.
LEMMA CallMethodKeeps ==
  ASSUME IInv, NEW c \in Calls, CallMethod(c)
  PROVE  IInv'
<1>1. PICK n \in 0 .. MaxSeq - seq :
        /\ Turns(hash8[c], n)
        /\ seq' = seq + n
        /\ cid' = [cid EXCEPT ![c] = Moved(hash8[c], n)]
        /\ mResponseHandlerTable' =
              [mResponseHandlerTable EXCEPT ![Moved(hash8[c], n)] = c]
  BY DEF CallMethod
<1> DEFINE id == Moved(hash8[c], n)
<1>2. id \in Ids /\ mResponseHandlerTable[id] = None
  BY <1>1, MovedType, RpcAssumption DEF IInv, ChannelInv, Turns
<1>3. /\ cid' = [cid EXCEPT ![c] = id]
      /\ mResponseHandlerTable' = [mResponseHandlerTable EXCEPT ![id] = c]
  BY <1>1
<1> HIDE DEF id
<1> USE DEF IInv, ChannelInv, CallMethod
\* Nothing under way carries this identify, or is of this call.
<1>4. /\ \A j \in DOMAIN requests :
            /\ requests[j] \in Request
            /\ requests[j].response_identify # id /\ requests[j].call # c
      /\ \A j \in DOMAIN responses :
            /\ responses[j] \in Response
            /\ responses[j].identify # id /\ responses[j].call # c
      /\ \A d \in serving : meta.response_identify # id /\ d # c
  <2>1. \A i \in Ids : mResponseHandlerTable[i] # c
    BY DEF Table
  <2>2. \A j \in DOMAIN requests : requests[j] \in Request
    BY DEF Messages
  <2>3. \A j \in DOMAIN responses : responses[j] \in Response
    BY DEF Messages
  <2>4. QED BY <1>2, <2>1, <2>2, <2>3, RpcAssumption DEF UnderWayIsKnown,
               Messages, Request, Response
<1>5. TypeOK'
  BY <1>2, <1>3 DEF TypeOK, wireVars, endVars
<1>6. UnderWayIsKnown'
  BY <1>3, <1>4 DEF UnderWayIsKnown, wireVars
<1>7. EndsOnce'
  BY <1>2, <1>3, RpcAssumption DEF TypeOK, EndsOnce, endVars
<1>8. OnePlace'
  BY <1>4 DEF OnePlace, wireVars
<1>9. Table'
  BY DEF TypeOK, Table, Taken, Results, endVars
<1>10. Taken'
  BY <1>2, <1>3, RpcAssumption DEF TypeOK, Taken, endVars
<1>11. Results'
  BY DEF Results, endVars
<1>12. Closed'
  BY DEF Closed
<1>13. Messages'
  BY DEF Messages, wireVars
<1>14. QED BY <1>5, <1>6, <1>7, <1>8, <1>9, <1>10, <1>11, <1>12, <1>13

\* The service gets the call at the head, and nobody else has it.
LEMMA HandleServiceKeeps ==
  ASSUME IInv, HandleService
  PROVE  IInv'
<1> DEFINE r == Head(requests)
<1>1. /\ 1 \in DOMAIN requests /\ r = requests[1] /\ r \in Request
      /\ requests' = Tail(requests) /\ requests' \in Seq(Request)
      /\ \A k \in DOMAIN requests' :
            /\ k \in Nat /\ k # 0
            /\ k + 1 \in DOMAIN requests /\ requests'[k] = requests[k + 1]
  BY DEF IInv, Messages, HandleService
<1>2. /\ mResponseHandlerTable[r.response_identify] = r.call
      /\ r.call \in Calls /\ r.response_identify \in Ids
  BY <1>1 DEF IInv, ChannelInv, UnderWayIsKnown, Request
<1>3. serving' = {r.call} /\ meta' = r /\ serving = {}
  BY DEF HandleService
<1> HIDE DEF r
<1> USE DEF IInv, ChannelInv, HandleService
<1>4. TypeOK'
  BY <1>2, <1>3 DEF TypeOK, tabVars, endVars
<1>5. UnderWayIsKnown'
  BY <1>1 DEF UnderWayIsKnown, tabVars
<1>6. Messages'
  BY DEF Messages
<1>7. OnePlace'
  BY <1>1 DEF OnePlace
<1>8. Closed'
  BY DEF Closed
<1>9. EndsOnce' /\ Table' /\ Taken' /\ Results'
  BY DEF EndsOnce, Table, Taken, Results, tabVars, endVars
<1>10. QED BY <1>4, <1>5, <1>6, <1>7, <1>8, <1>9

\* A request that does not parse is gone; its call stays in the table.
LEMMA ServeInvalidKeeps ==
  ASSUME IInv, ServeInvalid
  PROVE  IInv'
<1> DEFINE r == Head(requests)
<1>1. /\ 1 \in DOMAIN requests /\ r = requests[1] /\ r \in Request
      /\ requests' = Tail(requests) /\ requests' \in Seq(Request)
      /\ \A k \in DOMAIN requests' :
            /\ k \in Nat /\ k # 0
            /\ k + 1 \in DOMAIN requests /\ requests'[k] = requests[k + 1]
  BY DEF IInv, Messages, ServeInvalid
<1>2. /\ mResponseHandlerTable[r.response_identify] = r.call
      /\ r.call \in Calls /\ r.response_identify \in Ids
  BY <1>1 DEF IInv, ChannelInv, UnderWayIsKnown, Request
<1>3. ignored' = ignored \cup {r.call} /\ serving = {}
  BY DEF ServeInvalid
<1> HIDE DEF r
<1> USE DEF IInv, ChannelInv, ServeInvalid
<1>4. TypeOK'
  BY <1>2, <1>3 DEF TypeOK, tabVars, endVars
<1>5. UnderWayIsKnown'
  BY RpcAssumption DEF UnderWayIsKnown, tabVars
<1>6. Messages'
  BY DEF Messages
<1>7. OnePlace'
  BY <1>1 DEF OnePlace
<1>8. Closed'
  BY DEF Closed
<1>9. EndsOnce' /\ Table' /\ Taken' /\ Results'
  BY DEF EndsOnce, Table, Taken, Results, tabVars, endVars
<1>10. QED BY <1>4, <1>5, <1>6, <1>7, <1>8, <1>9

\* The response at the head finds its own call.
LEMMA HandleKeeps ==
  ASSUME IInv, Handle
  PROVE  IInv'
<1> DEFINE r == Head(responses)
<1>1. /\ 1 \in DOMAIN responses /\ r = responses[1] /\ r \in Response
      /\ responses' = Tail(responses) /\ responses' \in Seq(Response)
      /\ \A k \in DOMAIN responses' :
            /\ k \in Nat /\ k # 0
            /\ k + 1 \in DOMAIN responses /\ responses'[k] = responses[k + 1]
  BY DEF IInv, Messages, Handle
<1>2. /\ mResponseHandlerTable[r.identify] = r.call
      /\ r.call \in Calls /\ r.identify \in Ids /\ r.ok \in BOOLEAN
  BY <1>1 DEF IInv, ChannelInv, UnderWayIsKnown, Response
<1>3. /\ handling = None
      /\ handling' = [to |-> r.call, call |-> r.call, ok |-> r.ok]
      /\ mResponseHandlerTable' =
            [mResponseHandlerTable EXCEPT ![r.identify] = None]
  BY <1>2 DEF Handle
<1> HIDE DEF r
<1> USE DEF IInv, ChannelInv, Handle
<1>4. TypeOK'
  BY DEF TypeOK, endVars
<1>5. UnderWayIsKnown'
  BY <1>1 DEF UnderWayIsKnown, OnePlace
<1>6. EndsOnce'
  BY <1>2, <1>3, RpcAssumption DEF EndsOnce, endVars
<1>7. Messages'
  BY <1>2, <1>3 DEF Messages
<1>8. OnePlace'
  BY <1>1 DEF OnePlace
<1>9. Table'
  BY <1>2, <1>3, RpcAssumption DEF TypeOK, Table, endVars
<1>10. Taken'
  BY <1>1, <1>2 DEF TypeOK, OnePlace, Table, Taken, endVars
<1>11. Closed'
  BY DEF Closed
<1>12. Results'
  BY DEF Results, endVars
<1>13. QED BY <1>4, <1>5, <1>6, <1>7, <1>8, <1>9, <1>10, <1>11, <1>12

-----------------------------------------------------------------------------
(***************************************************************************)
(* The invariant                                                           *)
(***************************************************************************)

\* At first no call is made and nothing is under way.
LEMMA Initially == Init => IInv
<1> SUFFICES ASSUME Init
             PROVE  IInv
  OBVIOUS
<1>1. TypeOK
  <2>1. 0 \in Ids
    BY RpcAssumption DEF Ids
  <2>2. QED BY <2>1 DEF Init, TypeOK
<1>2. UnderWayIsKnown /\ EndsOnce
  BY DEF Init, UnderWayIsKnown, EndsOnce
<1>3. Messages /\ OnePlace
  BY DEF Init, Messages, OnePlace
<1>4. Table /\ Taken
  BY RpcAssumption DEF Init, Table, Taken
<1>5. Results /\ Closed
  BY DEF Init, Results, Closed
<1>6. QED BY <1>1, <1>2, <1>3, <1>4, <1>5 DEF IInv, ChannelInv

\* Every step keeps the invariant.
LEMMA Preserved == IInv /\ [Next]_vars => IInv'
<1> SUFFICES ASSUME IInv, [Next]_vars
             PROVE  IInv'
  OBVIOUS
<1>1. CASE UNCHANGED vars
  <2>1. UNCHANGED <<tabVars, status, async, cpc, cid, wireVars, handling,
                    aborting, endVars, ignored>>
    BY <1>1 DEF vars
  <2>2. ChannelInv' /\ Messages'
    BY <2>1 DEF IInv, ChannelInv, TypeOK, UnderWayIsKnown, EndsOnce, Messages,
                tabVars, wireVars, endVars
  <2>3. OnePlace' /\ Table' /\ Taken'
    BY <2>1 DEF IInv, OnePlace, Table, Taken, tabVars, wireVars, endVars
  <2>4. Results' /\ Closed'
    BY <2>1 DEF IInv, Results, Closed, Unlocked, tabVars, wireVars, endVars
  <2>5. QED BY <2>2, <2>3, <2>4 DEF IInv
<1>2. CASE Next
  <2>1. ASSUME NEW c \in Calls, NEW ok \in BOOLEAN,
               \/ CallClosed(c) \/ CallMethod(c) \/ CallPush(c)
               \/ CallFailed(c) \/ Abort(c) \/ CallServiceMethodDone(c, ok)
        PROVE  IInv'
    BY <2>1, CallClosedKeeps, CallMethodKeeps, CallPushKeeps, CallFailedKeeps,
       AbortKeeps, CallServiceMethodDoneKeeps
  <2>2. ASSUME NEW c \in Waiters, Wait(c) \/ WaitReturns(c)
        PROVE  IInv'
    BY <2>2, WaitKeeps, WaitReturnsKeeps, RpcAssumption
  <2>3. CASE HandleService \/ ServeInvalid \/ Handle \/ CallMethodCallback
    BY <2>3, HandleServiceKeeps, ServeInvalidKeeps, HandleKeeps,
       CallMethodCallbackKeeps
  <2>4. CASE Delete \/ \E a \in BOOLEAN : Disconnect(a)
    BY <2>4, DisconnectKeeps, DeleteKeeps
  <2>5. QED BY <1>2, <2>1, <2>2, <2>3, <2>4 DEF Next
<1>3. QED BY <1>1, <1>2

\* An answer finds its own call, no response is unknown when it arrives, and
\* a call ends once at most: the table of response handlers of
\* RawProtobufConnection, however calls, answers, failures and the close
\* interleave.
THEOREM ChannelIsSafe == Spec => []ChannelInv
<1>1. IInv => ChannelInv
  BY DEF IInv
<1>2. QED BY <1>1, Initially, Preserved, PTL DEF Spec

-----------------------------------------------------------------------------
(***************************************************************************)
(* The refinement                                                          *)
(***************************************************************************)

\* When the result of a call is set, its outcome alone changes.
LEMMA EndOutcome ==
  ASSUME IInv, NEW c \in Calls, runs[c] = 0, NEW r \in {"answered", "failed"},
         result' = [result EXCEPT ![c] = r],
         \A d \in Calls : d # c => cpc'[d] = cpc[d]
  PROVE  /\ Outcome[c] \in {"idle", "pending"}
         /\ cpc[c] # "idle" => Outcome[c] = "pending"
         /\ Outcome' = [Outcome EXCEPT ![c] = r]
<1>1. /\ result[c] = "none"
      /\ result \in [Calls -> {"none", "answered", "failed", "wrong"}]
  BY DEF IInv, ChannelInv, TypeOK, Results
<1>2. \A d \in Calls : Outcome'[d] = IF d = c THEN r ELSE Outcome[d]
  BY <1>1 DEF Outcome
<1>3. QED BY <1>1 DEF Outcome

\* A call that ends fails, or gets its answer once it is made.
LEMMA FailStep ==
  ASSUME IInv, NEW c \in Calls, runs[c] = 0, End(c, "failed"),
         \A d \in Calls : d # c => cpc'[d] = cpc[d]
  PROVE  Promise!Next
<1>1. /\ Outcome[c] \in {"idle", "pending"}
      /\ Outcome' = [Outcome EXCEPT ![c] = "failed"]
  BY EndOutcome DEF End
<1>2. QED BY <1>1 DEF Promise!Next, Promise!Fail

\* Every step of the channel is one of RemoteCalls, or changes no outcome.
LEMMA StepRefines == IInv /\ [Next]_vars => [Promise!Next]_Outcome
<1> SUFFICES ASSUME IInv, [Next]_vars
             PROVE  [Promise!Next]_Outcome
  OBVIOUS
<1>1. ASSUME UNCHANGED <<result, cpc>>
      PROVE  UNCHANGED Outcome
  BY <1>1 DEF Outcome
<1>2. CASE UNCHANGED vars
  BY <1>1, <1>2 DEF vars, endVars
<1>3. ASSUME NEW c \in Calls, CallClosed(c)
      PROVE  Promise!Next
  BY <1>3, FailStep DEF CallClosed, IInv, Results
<1>4. ASSUME NEW c \in Calls, CallMethod(c)
      PROVE  Promise!Next
  <2>1. Outcome[c] = "idle" /\ Outcome' = [Outcome EXCEPT ![c] = "pending"]
    BY <1>4 DEF CallMethod, Outcome, IInv, ChannelInv, TypeOK, Results, endVars
  <2>2. QED BY <2>1 DEF Promise!Next, Promise!Make
<1>5. ASSUME NEW c \in Calls, CallPush(c)
      PROVE  UNCHANGED Outcome
  BY <1>5 DEF CallPush, Outcome, endVars
<1>6. ASSUME NEW c \in Calls, CallFailed(c)
      PROVE  Promise!Next
  <2>1. runs[c] = 0
    BY <1>6 DEF CallFailed, IInv, ChannelInv, TypeOK, Taken, Table
  <2>2. QED BY <1>6, <2>1, FailStep DEF CallFailed
<1>7. ASSUME NEW c \in Calls, Abort(c)
      PROVE  Promise!Next
  BY <1>7, FailStep DEF Abort, IInv, Taken
<1>8. ASSUME CallMethodCallback
      PROVE  Promise!Next
  <2> DEFINE c == handling.to
  <2>1. /\ c \in Calls /\ c = handling.call /\ runs[c] = 0
        /\ cpc[c] = "returned" /\ handling.ok \in BOOLEAN
    BY <1>8 DEF CallMethodCallback, IInv, Messages, Taken
  <2>2. CASE ~handling.ok
    BY <1>8, <2>1, <2>2, FailStep DEF CallMethodCallback
  <2>3. CASE handling.ok
    <3>1. /\ Outcome[c] = "pending"
          /\ Outcome' = [Outcome EXCEPT ![c] = "answered"]
      BY <1>8, <2>1, <2>3, EndOutcome DEF CallMethodCallback, End
    <3>2. QED BY <2>1, <3>1 DEF Promise!Next, Promise!Answer
  <2>4. QED BY <2>2, <2>3
<1>9. ASSUME NEW c \in Waiters, Wait(c) \/ WaitReturns(c)
      PROVE  UNCHANGED Outcome
  BY <1>1, <1>9 DEF Wait, WaitReturns
<1>10. ASSUME \/ \E c \in Calls, ok \in BOOLEAN : CallServiceMethodDone(c, ok)
              \/ HandleService \/ ServeInvalid \/ Handle \/ Delete
              \/ \E a \in BOOLEAN : Disconnect(a)
       PROVE  UNCHANGED Outcome
  BY <1>1, <1>10 DEF CallServiceMethodDone, HandleService, ServeInvalid,
     Handle, Delete, Disconnect, endVars
<1>11. QED
  BY <1>2, <1>3, <1>4, <1>5, <1>6, <1>7, <1>8, <1>9, <1>10 DEF Next

\* The channel implements RemoteCalls: a call that is made ends at most once,
\* with the answer to this very call or with a failure, for every number of
\* calls, every hash and every order of messages, failures and closes.
THEOREM ChannelIsRemoteCalls == Spec => PromiseSpec
<1>1. Init => Promise!Init
  BY DEF Init, Promise!Init, Outcome
<1>2. Spec => []IInv
  BY Initially, Preserved, PTL DEF Spec
<1>3. QED BY <1>1, <1>2, StepRefines, PTL DEF Spec, PromiseSpec, Promise!Spec
=============================================================================
