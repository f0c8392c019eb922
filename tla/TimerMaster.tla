---------------------------- MODULE TimerMaster ----------------------------
(***************************************************************************)
(* The hierarchical timer wheel of src/core/TimerMaster.{hpp,cpp}: four    *)
(* vectors of kTVSize lists, the first one a tick wide per list, each of   *)
(* the others kTVSize times as wide as the one before it.  A thread        *)
(* advances the wheel once a second; other threads register timers.        *)
(*                                                                         *)
(* The sections under mutex_ are single steps, except Register, whose two  *)
(* reads of timer_jiffies_ may straddle the ++timer_jiffies_ that Update   *)
(* does without the mutex.  Start and Stop come one after the other, as    *)
(* from the one thread that owns a Server; Stop returns when it has joined *)
(* the thread.                                                             *)
(***************************************************************************)
EXTENDS Integers, FiniteSets

CONSTANTS
    Timers,         \* the timers registered
    Timeouts,       \* what Timeout() may be
    kTVSize,        \* the size of a vector: shifts and masks by kTVBits
                    \* divide by it
    None,           \* no thread holds the mutex
    MaxJiffies,     \* bound: ticks
    MaxStarts,      \* bound: calls of Start that start the thread
    MaxBefore       \* bound: ticks of a run before another Start

Levels == 4         \* arraysize( vecs_ )

\* The ticks a list of level i spans; upper is that of level i + 1.
Width(i) ==
    CASE i = 0 -> 1
      [] i = 1 -> kTVSize
      [] i = 2 -> kTVSize * kTVSize
      [] i = 3 -> kTVSize * (kTVSize * kTVSize)
      [] i = 4 -> kTVSize * (kTVSize * (kTVSize * kTVSize))

ASSUME WheelAssumption ==
    /\ kTVSize \in Nat \ {0, 1}
    /\ Timeouts \subseteq 1 .. Width(Levels) - 1
    /\ None \notin Timers
    /\ MaxJiffies \in Nat /\ MaxStarts \in Nat /\ MaxBefore \in Nat

VARIABLES
    timer_jiffies_, \* the tick the wheel is at
    vecs_,          \* the lists of slots, by level and index
    mbStop,
    mutex_,         \* the timer being registered, or None
    jiffies,        \* the argument of Update
    upc,            \* where the thread is: "off", "loop", "update", "inc",
                    \* "serve", or "gone" with its master
    timers,         \* the slots Update took from the wheel
    rpc, rjiffies,  \* Register: where it is, the deadline it computed
    timeout, alive, \* Timeout() of each timer; those not destroyed
    starts,         \* bound counter
    left,           \* history: the timers a Start found in the wheel of the
                    \* run before
    age, early      \* history: ticks since a timer was registered or served,
                    \* up to its timeout; those that rang before it

wheelVars == <<timer_jiffies_, vecs_, timers>>
regVars   == <<mutex_, rpc, rjiffies>>
histVars  == <<left, age, early>>
vars == <<wheelVars, mbStop, jiffies, upc, regVars, timeout, alive, starts,
          histVars>>

Positions == (0 .. Levels - 1) \X (0 .. kTVSize - 1)

Slot(t, j) == [timer |-> t, jiffies |-> j]

(***************************************************************************)
(* InternalAddTimer                                                        *)
(***************************************************************************)

\* idx < upper at level i; a negative idx is larger than every upper, since
\* upper is unsigned.
FitsAt(i, j) ==
    LET idx == j - timer_jiffies_ IN 0 <= idx /\ idx < Width(i + 1)

\* CHECK( v != NULL )
Fits(j) == FitsAt(Levels - 1, j)

\* The list a slot that expires at j goes to.
Place(j) ==
    LET i == CHOOSE i \in 0 .. Levels - 1 :
                FitsAt(i, j) /\ \A k \in 0 .. i - 1 : ~FitsAt(k, j)
    IN  <<i, (j \div Width(i)) % kTVSize>>

AddAll(vecs, slots) ==
    [p \in DOMAIN vecs |->
        vecs[p] \cup {s \in slots : Fits(s.jiffies) /\ Place(s.jiffies) = p}]

(***************************************************************************)
(* CascadeTimers, and the chain of cascades at the head of Update          *)
(***************************************************************************)
INDEX(n) == (timer_jiffies_ \div Width(n)) % kTVSize

\* The list of level n goes back into the wheel.
CascadeTimers(vecs, n) ==
    LET p == <<n, INDEX(n)>>
    IN  AddAll([vecs EXCEPT ![p] = {}], vecs[p])

\* Mutant: only the second vector is cascaded.
CascadeOne == IF INDEX(0) = 0 THEN CascadeTimers(vecs_, 1) ELSE vecs_

\* A level is cascaded when the one below has come round.
Cascade ==
    LET v1 == IF INDEX(0) = 0 THEN CascadeTimers(vecs_, 1) ELSE vecs_
        v2 == IF INDEX(0) = 0 /\ INDEX(1) = 0
              THEN CascadeTimers(v1, 2) ELSE v1
    IN  IF INDEX(0) = 0 /\ INDEX(1) = 0 /\ INDEX(2) = 0
        THEN CascadeTimers(v2, 3) ELSE v2

(***************************************************************************)
(* The thread: Start, Stop, InternalRun, Update                            *)
(***************************************************************************)

\* A master that was stopped starts again from the first tick, with what is
\* left in its lists.
Start ==
    /\ mutex_ = None /\ mbStop /\ upc = "off"
    /\ starts < MaxStarts /\ starts' = starts + 1
    /\ jiffies <= MaxBefore
    /\ left' = IF starts = 0 THEN {}
               ELSE left \cup {s.timer : s \in UNION {vecs_[p] : p \in Positions}}
    /\ mbStop' = FALSE
    /\ timer_jiffies_' = 1
    /\ jiffies' = 0
    /\ upc' = "loop"
    /\ UNCHANGED <<vecs_, timers, regVars, timeout, alive, age, early>>

Stop ==
    /\ mutex_ = None /\ ~mbStop
    /\ mbStop' = TRUE
    /\ UNCHANGED <<wheelVars, jiffies, upc, regVars, timeout, alive, starts,
                   histVars>>

\* sleep( 1 ), then Update( ++jiffiers )
Tick ==
    /\ upc = "loop" /\ ~mbStop
    /\ jiffies < MaxJiffies
    /\ jiffies' = jiffies + 1
    /\ upc' = "update"
    /\ age' = [t \in Timers |-> IF rpc[t] = "no" \/ age[t] = timeout[t]
                               THEN age[t] ELSE age[t] + 1]
    /\ UNCHANGED <<wheelVars, mbStop, regVars, timeout, alive, starts, left,
                   early>>

\* The thread leaves InternalRun, and Stop joins it.
Exit ==
    /\ upc = "loop" /\ mbStop
    /\ upc' = "off"
    /\ UNCHANGED <<wheelVars, mbStop, jiffies, regVars, timeout, alive,
                   starts, histVars>>

\* The section of Update under the mutex: cascade, and take the slots of
\* this tick, but those of timers that are gone.
Take ==
    LET l == Cascade[<<0, INDEX(0)>>]
    IN  /\ upc = "update" /\ mutex_ = None
        /\ jiffies >= timer_jiffies_
        /\ vecs_' = [Cascade EXCEPT ![<<0, INDEX(0)>>] = {}]
        /\ timers' = {s \in l : s.timer \in alive}
        /\ early' = early \cup
              {s.timer : s \in {x \in timers' : age[x.timer] < timeout[x.timer]}}
        /\ upc' = "inc"
        /\ UNCHANGED <<timer_jiffies_, mbStop, jiffies, regVars, timeout,
                       alive, starts, left, age>>

\* ++timer_jiffies_, without the mutex.
Advance ==
    /\ upc = "inc"
    /\ timer_jiffies_' = timer_jiffies_ + 1
    /\ upc' = "serve"
    /\ UNCHANGED <<vecs_, timers, mbStop, jiffies, regVars, timeout, alive,
                   starts, histVars>>

\* Expired ran; a timer that is periodic goes back, counted from the tick it
\* was due: timer->Timeout() + old_timer_jiffies.
Readd(s) ==
    /\ upc = "serve" /\ mutex_ = None
    /\ timers' = timers \ {s}
    /\ vecs_' = AddAll(vecs_,
                       {Slot(s.timer, timeout[s.timer] + timer_jiffies_ - 1)})
    /\ age' = [age EXCEPT ![s.timer] = 0]
    /\ UNCHANGED <<timer_jiffies_, mbStop, jiffies, upc, regVars, timeout,
                   alive, starts, left, early>>

Delete(s) ==
    /\ upc = "serve"
    /\ timers' = timers \ {s}
    /\ UNCHANGED <<timer_jiffies_, vecs_, mbStop, jiffies, upc, regVars,
                   timeout, alive, starts, histVars>>

\* The end of Update's loop.
Loop ==
    /\ upc = "serve" /\ timers = {}
    /\ upc' = IF jiffies >= timer_jiffies_ THEN "update" ELSE "loop"
    /\ UNCHANGED <<wheelVars, mbStop, jiffies, regVars, timeout, alive,
                   starts, histVars>>

\* ~TimerMaster when the thread was joined, or was never started: the slots
\* are deleted.
DestroyAllTimers ==
    /\ upc = "off" /\ mbStop /\ mutex_ = None
    /\ vecs_' = [p \in Positions |-> {}]
    /\ upc' = "gone"
    /\ UNCHANGED <<timer_jiffies_, timers, mbStop, jiffies, regVars, timeout,
                   alive, starts, histVars>>

(***************************************************************************)
(* Register, and the end of a timer                                        *)
(***************************************************************************)

\* Mutant: the deadline is one tick too near.
RegisterReadShort(t) ==
    /\ upc # "gone" /\ rpc[t] = "no" /\ mutex_ = None /\ t \in alive
    /\ mutex_' = t
    /\ rjiffies' = [rjiffies EXCEPT ![t] = timeout[t] + timer_jiffies_ - 1]
    /\ rpc' = [rpc EXCEPT ![t] = "add"]
    /\ UNCHANGED <<wheelVars, mbStop, jiffies, upc, timeout, alive, starts,
                   histVars>>

\* timer->Timeout() + timer_jiffies_
RegisterRead(t) ==
    /\ upc # "gone" /\ rpc[t] = "no" /\ mutex_ = None /\ t \in alive
    /\ mutex_' = t
    /\ rjiffies' = [rjiffies EXCEPT ![t] = timeout[t] + timer_jiffies_]
    /\ rpc' = [rpc EXCEPT ![t] = "add"]
    /\ UNCHANGED <<wheelVars, mbStop, jiffies, upc, timeout, alive, starts,
                   histVars>>

\* Mutant: the slot is added before its deadline is set.
RegisterAddUnset(t) ==
    /\ rpc[t] = "add"
    /\ vecs_' = [p \in Positions |-> IF p = Place(rjiffies[t])
                       THEN vecs_[p] \cup {Slot(t, 0)} ELSE vecs_[p]]
    /\ mutex_' = None
    /\ rjiffies' = [rjiffies EXCEPT ![t] = 0]
    /\ rpc' = [rpc EXCEPT ![t] = "done"]
    /\ UNCHANGED <<timer_jiffies_, timers, mbStop, jiffies, upc, timeout,
                   alive, starts, histVars>>

\* InternalAddTimer, which reads timer_jiffies_ again.
RegisterAdd(t) ==
    /\ rpc[t] = "add"
    /\ vecs_' = AddAll(vecs_, {Slot(t, rjiffies[t])})
    /\ mutex_' = None
    /\ rjiffies' = [rjiffies EXCEPT ![t] = 0]
    /\ rpc' = [rpc EXCEPT ![t] = "done"]
    /\ UNCHANGED <<timer_jiffies_, timers, mbStop, jiffies, upc, timeout,
                   alive, starts, histVars>>

\* The last shared_ptr to a timer goes; a timer being registered or served
\* is held by one.
Destroy(t) ==
    /\ t \in alive /\ rpc[t] # "add"
    /\ \A s \in timers : s.timer # t
    /\ alive' = alive \ {t}
    /\ UNCHANGED <<wheelVars, mbStop, jiffies, upc, regVars, timeout, starts,
                   histVars>>

Init ==
    /\ timer_jiffies_ = 1 /\ mbStop = TRUE
    /\ vecs_ = [p \in Positions |-> {}]
    /\ mutex_ = None /\ jiffies = 0 /\ upc = "off" /\ timers = {}
    /\ rpc = [t \in Timers |-> "no"]
    /\ rjiffies = [t \in Timers |-> 0]
    /\ timeout \in [Timers -> Timeouts]
    /\ alive = Timers
    /\ starts = 0 /\ left = {}
    /\ age = [t \in Timers |-> 0] /\ early = {}

Next ==
    \/ Start \/ Stop \/ Tick \/ Exit \/ Take \/ Advance \/ Loop
    \/ DestroyAllTimers
    \/ \E s \in timers : Readd(s) \/ Delete(s)
    \/ \E t \in Timers : RegisterRead(t) \/ RegisterAdd(t) \/ Destroy(t)

Spec == Init /\ [][Next]_vars

-----------------------------------------------------------------------------
(* Properties                                                              *)

Slots == UNION {vecs_[p] : p \in Positions}

TypeOK ==
    /\ timer_jiffies_ \in Nat /\ jiffies \in Nat
    /\ mbStop \in BOOLEAN
    /\ upc \in {"off", "loop", "update", "inc", "serve", "gone"}
    /\ \A s \in Slots \cup timers : s.timer \in Timers /\ s.jiffies \in Nat \ {0}
    /\ mutex_ \in Timers \cup {None}
    /\ rpc \in [Timers -> {"no", "add", "done"}]
    /\ left \subseteq Timers /\ early \subseteq Timers

\* The lists a cascade of this tick empties.
Cascaded ==
    {<<n, INDEX(n)>> : n \in {k \in 1 .. Levels - 1 :
                               \A m \in 0 .. k - 1 : INDEX(m) = 0}}

\* The assertions of Update and InternalAddTimer, wherever it is called:
\* from Register, from Update for a periodic timer, from a cascade, of timers
\* that are left from the run before too.
ChecksHold ==
    /\ upc = "loop" => jiffies + 1 >= timer_jiffies_
    /\ \A t \in Timers : rpc[t] = "add" => Fits(rjiffies[t])
    /\ upc = "serve" =>
        \A s \in timers : Fits(timeout[s.timer] + timer_jiffies_ - 1)
    /\ upc = "update" =>
        \A p \in Cascaded : \A s \in vecs_[p] : Fits(s.jiffies)

\* Every slot has a deadline, and the CHECKs of the wheel hold.
WheelInv == TypeOK /\ ChecksHold

Fresh(slots) == {s \in slots : s.timer \notin left}

\* Four vectors, cascades at the right ticks and registrations that straddle
\* a tick together make a plain alarm clock: a timer rings exactly at the
\* tick it was set for, none is missed, and periods do not drift.  Timers that
\* are left from the run before ring at some other tick and change nothing for
\* those of this run.
Clock == INSTANCE AlarmClock WITH
    now     <- IF upc = "inc" THEN timer_jiffies_ + 1 ELSE timer_jiffies_,
    armed   <- Fresh(Slots),
    ringing <- Fresh(timers),
    over    <- upc = "gone"

ClockSpec == Clock!Spec

\* "Call the f after timeout": no timer rings before Timeout() ticks went by,
\* but one that a Start found in the wheel of the run before may.
NeverEarly == early \subseteq left
=============================================================================
