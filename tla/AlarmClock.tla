----------------------------- MODULE AlarmClock -----------------------------
(***************************************************************************)
(* What a timer service promises: an alarm rings at the tick it was set    *)
(* for, neither before nor after, and a periodic one is set again a whole  *)
(* period after the tick it was due, however late its owner was served.    *)
(***************************************************************************)
EXTENDS Naturals

CONSTANTS Timers

VARIABLES
    now,        \* the next tick
    armed,      \* the alarms set: [timer, jiffies]
    ringing,    \* the alarms that rang and are not dealt with
    timeout,    \* the period of each timer
    alive,      \* the timers that still exist
    over        \* the clock is given up

vars == <<now, armed, ringing, timeout, alive, over>>

Init ==
    /\ now = 1 /\ armed = {} /\ ringing = {} /\ over = FALSE
    /\ alive = Timers
    /\ timeout \in [Timers -> Nat \ {0}]

\* A timer is set for a tick that is still to come.
Arm(t) ==
    /\ ~over
    /\ \E d \in now .. now + timeout[t] :
          armed' = armed \cup {[timer |-> t, jiffies |-> d]}
    /\ UNCHANGED <<now, ringing, timeout, alive, over>>

\* At a tick all the alarms set for it ring, and only those; the alarm of a
\* timer that is gone is dropped.
Tick ==
    LET due == {a \in armed : a.jiffies = now}
    IN  /\ ~over /\ ringing = {}
        /\ ringing' = {a \in due : a.timer \in alive}
        /\ armed' = armed \ due
        /\ now' = now + 1
        /\ UNCHANGED <<timeout, alive, over>>

Rearm(a) ==
    /\ a \in ringing
    /\ ringing' = ringing \ {a}
    /\ armed' = armed \cup
          {[timer |-> a.timer, jiffies |-> a.jiffies + timeout[a.timer]]}
    /\ UNCHANGED <<now, timeout, alive, over>>

Drop(a) ==
    /\ a \in ringing
    /\ ringing' = ringing \ {a}
    /\ UNCHANGED <<now, armed, timeout, alive, over>>

Die(t) ==
    /\ alive' = alive \ {t}
    /\ UNCHANGED <<now, armed, ringing, timeout, over>>

\* The clock is given up, and its alarms never ring.
GiveUp ==
    /\ ringing = {} /\ armed' = {}
    /\ over' = TRUE
    /\ UNCHANGED <<now, ringing, timeout, alive>>

\* The clock starts again, and the alarms that were set are forgotten.
Restart ==
    /\ ~over /\ ringing = {}
    /\ now' = 1 /\ armed' = {}
    /\ UNCHANGED <<ringing, timeout, alive, over>>

Next ==
    \/ Tick \/ Restart \/ GiveUp
    \/ \E t \in Timers : Arm(t) \/ Die(t)
    \/ \E a \in ringing : Rearm(a) \/ Drop(a)

Spec == Init /\ [][Next]_vars
=============================================================================
