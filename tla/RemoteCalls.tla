---------------------------- MODULE RemoteCalls ----------------------------
(***************************************************************************)
(* What a channel promises to those who call methods through it: a call    *)
(* that is made ends at most once, with the answer to this very call or    *)
(* with a failure.                                                         *)
(***************************************************************************)
CONSTANTS Calls

VARIABLES outcome

Init == outcome = [c \in Calls |-> "idle"]

Make(c) ==
    /\ outcome[c] = "idle"
    /\ outcome' = [outcome EXCEPT ![c] = "pending"]

Answer(c) ==
    /\ outcome[c] = "pending"
    /\ outcome' = [outcome EXCEPT ![c] = "answered"]

\* A failed call ends as well, and it may fail before anything is sent.
Fail(c) ==
    /\ outcome[c] \in {"idle", "pending"}
    /\ outcome' = [outcome EXCEPT ![c] = "failed"]

\* Several calls may fail at once, with the connection.
FailAll ==
    \E S \in SUBSET {c \in Calls : outcome[c] = "pending"} :
        outcome' = [c \in Calls |-> IF c \in S THEN "failed" ELSE outcome[c]]

Next == FailAll \/ \E c \in Calls : Make(c) \/ Answer(c) \/ Fail(c)

Spec == Init /\ [][Next]_outcome
=============================================================================
