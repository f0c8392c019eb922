------------------------- MODULE TimerMasterProofs -------------------------
(***************************************************************************)
(* Proofs about TimerMaster: the wheel is an alarm clock, for vectors of   *)
(* any size, any timers and any number of ticks, registrations and         *)
(* restarts.                                                               *)
(***************************************************************************)
EXTENDS TimerMaster, TLAPS

(***************************************************************************)
(* The inductive invariant                                                 *)
(***************************************************************************)

\* The next tick whose timers are still in the wheel: the tick of the clock.
Now == IF upc = "inc" THEN timer_jiffies_ + 1 ELSE timer_jiffies_

SlotSet == [timer : Timers, jiffies : Nat \ {0}]

Vecs == [Positions -> SUBSET SlotSet]

SlotsOf(vecs) == UNION {vecs[p] : p \in Positions}

Types ==
    /\ timer_jiffies_ \in Nat \ {0} /\ jiffies \in Nat /\ starts \in Nat
    /\ mbStop \in BOOLEAN
    /\ upc \in {"off", "loop", "update", "inc", "serve", "gone"}
    /\ vecs_ \in Vecs /\ timers \subseteq SlotSet
    /\ mutex_ \in Timers \cup {None}
    /\ rpc \in [Timers -> {"no", "add", "done"}]
    /\ rjiffies \in [Timers -> Nat]
    /\ timeout \in [Timers -> Timeouts]
    /\ alive \subseteq Timers
    /\ left \subseteq Timers /\ early \subseteq Timers
    /\ age \in [Timers -> Nat]

\* The tick of the wheel and the argument of Update go together; slots are
\* out of the wheel only between Take and the end of the loop.
Ticks ==
    /\ timer_jiffies_ = IF upc \in {"update", "inc"} THEN jiffies
                                                     ELSE jiffies + 1
    /\ timers # {} => upc \in {"inc", "serve"}
    /\ starts = 0 => upc \in {"off", "gone"} /\ jiffies = 0 /\ left = {}

\* When the list of level i that holds a slot has its turn.
Turn(i, s) == Width(i) * (s.jiffies \div Width(i))

\* The slot is in its list, whose turn has not come at tick n.
InTime(n, i, x, s) ==
    /\ x = (s.jiffies \div Width(i)) % kTVSize
    /\ n <= Turn(i, s)

\* It has its turn in this round of the vector.
Near(n, i, s) == Turn(i, s) < n + Width(i + 1)

\* How the slots are filed at tick n.  Those of timers in old may be there
\* from the run before, whose ticks were larger.
Filed(n, vecs, old) ==
    \A i \in 0 .. 3, x \in 0 .. kTVSize - 1 : \A s \in vecs[<<i, x>>] :
        /\ InTime(n, i, x, s)
        /\ s.timer \notin old => Near(n, i, s)
        /\ MaxBefore < Width(3) => Near(n, i, s) \/ Turn(i, s) <= Width(4)

\* A registration holds the mutex; its deadline is to come, and no further
\* away than its timeout.
Registering ==
    \A t \in Timers :
        /\ rpc[t] = "add" <=> mutex_ = t
        /\ rpc[t] = "add" =>
            /\ upc # "gone"
            /\ Now <= rjiffies[t] /\ rjiffies[t] <= timer_jiffies_ + timeout[t]
            /\ timeout[t] + jiffies <= age[t] + rjiffies[t]

\* A timer is registered once: its slot is in the wheel or out of it.
OneSlot ==
    /\ \A s \in SlotsOf(vecs_) \cup timers : rpc[s.timer] = "done"
    /\ \A s, r \in Fresh(SlotsOf(vecs_)) : s.timer = r.timer => s = r
    /\ \A s, r \in Fresh(timers) : s.timer = r.timer => s = r
    /\ \A s \in Fresh(SlotsOf(vecs_)), r \in timers : s.timer # r.timer

\* What rings was due at this tick, and what is set is not due before its
\* timeout is over.
OnTime ==
    /\ \A s \in Fresh(timers) : s.jiffies = jiffies
    /\ \A s \in Fresh(SlotsOf(vecs_)) :
          timeout[s.timer] + jiffies <= age[s.timer] + s.jiffies

IInv ==
    /\ Types /\ Ticks /\ Filed(Now, vecs_, left) /\ Registering /\ OneSlot
    /\ OnTime /\ NeverEarly

(***************************************************************************)
(* Arithmetic                                                              *)
(***************************************************************************)

\* A number is its quotient and its remainder.
LEMMA DivMod ==
    ASSUME NEW a \in Nat, NEW m \in Nat \ {0}
    PROVE  /\ a \div m \in Nat
           /\ a % m \in 0 .. m - 1
           /\ a = m * (a \div m) + (a % m)
BY SMT

\* The quotient and the remainder of a multiple.
LEMMA Multiple ==
    ASSUME NEW q \in Nat, NEW m \in Nat \ {0}
    PROVE  (m * q) \div m = q /\ (m * q) % m = 0
<1>1. (m * q) % m = 0
  BY SMT
<1>2. m * q \in Nat
  BY SMT
<1>3. m * q = m * ((m * q) \div m)
  BY <1>1, <1>2, DivMod
<1>. DEFINE r == (m * q) \div m
<1>4. r \in Nat /\ m * q = m * r
  BY <1>2, <1>3, DivMod
<1>. HIDE DEF r
<1>5. q = r
  BY <1>4, SMT
<1>6. QED BY <1>1, <1>5 DEF r

\* Two numbers of one round that have the same remainder are the same.
LEMMA Residue ==
    ASSUME NEW b \in Nat \ {0}, NEW u \in Nat, NEW q \in Nat,
           u <= q, q < u + b, q % b = u % b
    PROVE  q = u
<1>. DEFINE c == u \div b
            d == q \div b
            r == u % b
<1>1. /\ c \in Nat /\ d \in Nat /\ r \in 0 .. b - 1
      /\ u = b * c + r /\ q = b * d + r
  BY DivMod
<1>. HIDE DEF c, d, r
<1>2. b * c <= b * d /\ b * d < b * c + b
  BY <1>1, SMT
<1>3. c <= d /\ d < c + 1
  BY <1>1, <1>2, SMT
<1>4. c = d
  BY <1>1, <1>3, SMT
<1>5. QED BY <1>1, <1>4

\* The same for multiples of m, as the turns of two lists of a vector.
LEMMA SameTurn ==
    ASSUME NEW b \in Nat \ {0}, NEW m \in Nat \ {0}, NEW u \in Nat,
           NEW q \in Nat, m * u <= m * q, m * q < m * u + b * m,
           q % b = u % b
    PROVE  q = u
<1>1. u <= q
  BY SMT
<1>2. q < u + b
  <2>1. SUFFICES ASSUME u + b <= q PROVE FALSE
    BY SMT
  <2>2. m * (u + b) <= m * q
    BY <2>1, SMT
  <2>3. m * (u + b) = m * u + b * m
    BY SMT
  <2>4. QED BY <2>2, <2>3, SMT
<1>3. QED BY <1>1, <1>2, Residue

LEMMA Widths ==
    /\ kTVSize \in Nat \ {0, 1}
    /\ \A i \in 0 .. 4 : Width(i) \in Nat \ {0}
    /\ \A i \in 0 .. 3 : Width(i + 1) = kTVSize * Width(i)
    /\ Width(0) = 1
<1>1. kTVSize \in Nat \ {0, 1}
  BY WheelAssumption
<1>. DEFINE B == kTVSize
<1>2. /\ Width(0) = 1 /\ Width(1) = B /\ Width(2) = B * B
      /\ Width(3) = B * (B * B) /\ Width(4) = B * (B * (B * B))
  BY DEF Width
<1>3. /\ B * B \in Nat \ {0} /\ B * (B * B) \in Nat \ {0}
      /\ B * (B * (B * B)) \in Nat \ {0}
  <2>1. \A x \in Nat \ {0} : B * x \in Nat \ {0}
    BY <1>1, SMT
  <2>2. QED BY <1>1, <2>1
<1>4. \A i \in 0 .. 4 : i = 0 \/ i = 1 \/ i = 2 \/ i = 3 \/ i = 4
  OBVIOUS
<1>5. \A i \in 0 .. 4 : Width(i) \in Nat \ {0}
  BY <1>1, <1>2, <1>3, <1>4
<1>6. /\ Width(0 + 1) = B * Width(0) /\ Width(1 + 1) = B * Width(1)
      /\ Width(2 + 1) = B * Width(2) /\ Width(3 + 1) = B * Width(3)
  <2>1. 0 + 1 = 1 /\ 1 + 1 = 2 /\ 2 + 1 = 3 /\ 3 + 1 = 4 /\ B * 1 = B
    BY <1>1
  <2>2. QED BY <1>2, <2>1
<1>7. \A i \in 0 .. 3 : i = 0 \/ i = 1 \/ i = 2 \/ i = 3
  OBVIOUS
<1>8. \A i \in 0 .. 3 : Width(i + 1) = B * Width(i)
  BY <1>6, <1>7
<1>9. QED BY <1>1, <1>2, <1>5, <1>8

\* A level spans more than the one below it.
LEMMA Wider ==
    /\ \A i \in 0 .. 3 : 2 * Width(i) <= Width(i + 1)
    /\ Width(1) <= Width(2) /\ Width(2) <= Width(3)
    /\ 2 * Width(3) <= Width(4)
<1>1. ASSUME NEW i \in 0 .. 3 PROVE 2 * Width(i) <= Width(i + 1)
  <2>. DEFINE w == Width(i)
             B == kTVSize
  <2>1. w \in Nat \ {0} /\ B \in Nat /\ 2 <= B /\ Width(i + 1) = B * w
    BY Widths
  <2>. HIDE DEF w, B
  <2>2. 2 * w <= B * w
    BY <2>1, SMT
  <2>3. QED BY <2>1, <2>2 DEF w
<1>2. /\ 2 * Width(1) <= Width(1 + 1) /\ 2 * Width(2) <= Width(2 + 1)
      /\ 2 * Width(3) <= Width(3 + 1)
  BY <1>1
<1>3. /\ 2 * Width(1) <= Width(2) /\ 2 * Width(2) <= Width(3)
      /\ 2 * Width(3) <= Width(4)
  <2>1. 1 + 1 = 2 /\ 2 + 1 = 3 /\ 3 + 1 = 4
    OBVIOUS
  <2>2. QED BY <1>2, <2>1
<1>4. /\ Width(1) \in Nat /\ Width(2) \in Nat /\ Width(3) \in Nat
  BY Widths
<1>5. QED BY <1>1, <1>3, <1>4

\* A slot's turn comes before its deadline, by less than the list spans.
LEMMA Turns ==
    ASSUME NEW i \in 0 .. 3, NEW s, s.jiffies \in Nat
    PROVE  /\ s.jiffies \div Width(i) \in Nat
           /\ Turn(i, s) \in Nat
           /\ Turn(i, s) <= s.jiffies /\ s.jiffies < Turn(i, s) + Width(i)
           /\ i = 0 => Turn(i, s) = s.jiffies
<1>. DEFINE w == Width(i)
            j == s.jiffies
<1>1. w \in Nat \ {0} /\ (i = 0 => w = 1)
  BY Widths
<1>. HIDE DEF w
<1>2. /\ j \div w \in Nat /\ j % w \in 0 .. w - 1
      /\ j = w * (j \div w) + (j % w)
  BY <1>1, DivMod
<1>3. w * (j \div w) \in Nat
  BY <1>1, <1>2, SMT
<1>4. j % w \in Nat /\ j % w < w
  BY <1>1, <1>2
<1>. DEFINE k == w * (j \div w)
            r == j % w
<1>5. k \in Nat /\ r \in Nat /\ r < w /\ j = k + r
  BY <1>2, <1>3, <1>4
<1>. HIDE DEF k, r, j
<1>6. k <= j /\ j < k + w /\ (w = 1 => k = j)
  BY <1>1, <1>5
<1>7. QED BY <1>1, <1>2, <1>5, <1>6 DEF Turn, w, j, k

(***************************************************************************)
(* Where InternalAddTimer puts a slot                                      *)
(***************************************************************************)

\* The first level that reaches a deadline, and what that says of it.
LEMMA Placed ==
    ASSUME NEW j \in Nat, timer_jiffies_ \in Nat, Fits(j)
    PROVE  \E i \in 0 .. 3 :
              /\ Place(j) = <<i, (j \div Width(i)) % kTVSize>>
              /\ timer_jiffies_ <= j /\ j < timer_jiffies_ + Width(i + 1)
              /\ i # 0 => timer_jiffies_ + Width(i) <= j
<1>. DEFINE P(i) == FitsAt(i, j) /\ \A k \in 0 .. i - 1 : ~FitsAt(k, j)
            c == CHOOSE i \in 0 .. Levels - 1 : P(i)
<1>1. \E i \in 0 .. 3 : P(i)
  <2>1. FitsAt(3, j)
    BY DEF Fits, Levels
  <2>2. CASE FitsAt(0, j)
    <3>1. P(0)
      BY <2>2
    <3>2. QED BY <3>1
  <2>3. CASE ~FitsAt(0, j) /\ FitsAt(1, j)
    <3>1. P(1)
      BY <2>3
    <3>2. QED BY <3>1
  <2>4. CASE ~FitsAt(0, j) /\ ~FitsAt(1, j) /\ FitsAt(2, j)
    <3>1. \A k \in 0 .. 2 - 1 : k = 0 \/ k = 1
      OBVIOUS
    <3>2. P(2)
      BY <2>4, <3>1
    <3>3. QED BY <3>2
  <2>5. CASE ~FitsAt(0, j) /\ ~FitsAt(1, j) /\ ~FitsAt(2, j)
    <3>1. \A k \in 0 .. 3 - 1 : k = 0 \/ k = 1 \/ k = 2
      OBVIOUS
    <3>2. P(3)
      BY <2>1, <2>5, <3>1
    <3>3. QED BY <3>2
  <2>6. QED BY <2>2, <2>3, <2>4, <2>5
<1>2. c \in 0 .. 3 /\ P(c)
  <2>1. 0 .. Levels - 1 = 0 .. 3
    BY DEF Levels
  <2>. HIDE DEF P
  <2>2. QED BY <1>1, <2>1
<1>3. Place(j) = <<c, (j \div Width(c)) % kTVSize>>
  BY DEF Place
<1>. HIDE DEF c
<1>4. Width(c + 1) \in Nat /\ Width(c) \in Nat
  BY <1>2, Widths
<1>5. timer_jiffies_ <= j /\ j < timer_jiffies_ + Width(c + 1)
  BY <1>2, <1>4 DEF FitsAt
<1>6. ASSUME c # 0 PROVE timer_jiffies_ + Width(c) <= j
  <2>1. ~FitsAt(c - 1, j)
    BY <1>2, <1>6
  <2>2. c - 1 + 1 = c
    BY <1>2
  <2>3. QED BY <1>4, <1>5, <2>1, <2>2 DEF FitsAt
<1>7. QED BY <1>2, <1>3, <1>5, <1>6

LEMMA Place0 == \A i \in 0 .. 3, x \in 0 .. kTVSize - 1 : <<i, x>> \in Positions
BY DEF Positions, Levels

LEMMA PlaceType ==
    ASSUME NEW j \in Nat, NEW i \in 0 .. 3
    PROVE  (j \div Width(i)) % kTVSize \in 0 .. kTVSize - 1
<1>1. Width(i) \in Nat \ {0} /\ kTVSize \in Nat \ {0}
  BY Widths
<1>2. j \div Width(i) \in Nat
  BY <1>1, DivMod
<1>3. QED BY <1>1, <1>2, DivMod

\* The list has its turn in time, within a round, and above the first level
\* not at this tick.
LEMMA PlaceFiles ==
    ASSUME timer_jiffies_ \in Nat,
           NEW n \in {timer_jiffies_, timer_jiffies_ + 1},
           NEW s \in SlotSet, n <= s.jiffies, Fits(s.jiffies),
           NEW i, NEW x, Place(s.jiffies) = <<i, x>>
    PROVE  /\ i \in 0 .. 3 /\ x \in 0 .. kTVSize - 1
           /\ InTime(n, i, x, s) /\ Near(n, i, s)
           /\ i # 0 => timer_jiffies_ < Turn(i, s)
<1>. DEFINE j == s.jiffies
            T == timer_jiffies_
<1>1. j \in Nat
  BY DEF SlotSet
<1>2. PICK k \in 0 .. 3 :
              /\ Place(j) = <<k, (j \div Width(k)) % kTVSize>>
              /\ T <= j /\ j < T + Width(k + 1)
              /\ k # 0 => T + Width(k) <= j
  BY <1>1, Placed
<1>3. i = k /\ x = (j \div Width(i)) % kTVSize
  BY <1>2
<1>4. x \in 0 .. kTVSize - 1
  BY <1>1, <1>2, <1>3, PlaceType
<1>5. /\ Turn(i, s) \in Nat
      /\ Turn(i, s) <= j /\ j < Turn(i, s) + Width(i)
      /\ i = 0 => Turn(i, s) = j
  BY <1>1, <1>3, Turns
<1>6. Width(i) \in Nat /\ Width(i + 1) \in Nat
  BY <1>3, Widths
<1>. DEFINE u == Turn(i, s)
            w == Width(i)
            v == Width(i + 1)
<1>7. /\ u \in Nat /\ w \in Nat /\ v \in Nat /\ T \in Nat
      /\ u <= j /\ j < u + w /\ (i = 0 => u = j)
      /\ T <= j /\ j < T + v /\ (i # 0 => T + w <= j)
      /\ n <= j /\ (n = T \/ n = T + 1)
  BY <1>2, <1>3, <1>5, <1>6
<1>. HIDE DEF u, w, v, j
<1>8. n <= u /\ u < n + v /\ (i # 0 => T < u)
  BY <1>1, <1>7
<1>9. QED BY <1>3, <1>4, <1>8 DEF InTime, Near, u, v, j

\* At tick T the lists of level k that are left have their turn later.
Later(k, vecs) ==
    \A x \in 0 .. kTVSize - 1 : \A s \in vecs[<<k, x>>] :
        timer_jiffies_ < Turn(k, s)

LEMMA Added ==
    ASSUME NEW vecs \in Vecs, NEW slots \in SUBSET SlotSet
    PROVE  /\ AddAll(vecs, slots) \in Vecs
           /\ \A p \in Positions : AddAll(vecs, slots)[p] = vecs[p] \cup
                {s \in slots : Fits(s.jiffies) /\ Place(s.jiffies) = p}
BY DEF AddAll, Vecs

\* Slots that are added are filed, and those that fit are all there.
LEMMA AddFiles ==
    ASSUME timer_jiffies_ \in Nat,
           NEW n \in {timer_jiffies_, timer_jiffies_ + 1},
           NEW vecs \in Vecs, NEW slots \in SUBSET SlotSet, NEW old,
           Filed(n, vecs, old), \A s \in slots : n <= s.jiffies
    PROVE  /\ AddAll(vecs, slots) \in Vecs
           /\ Filed(n, AddAll(vecs, slots), old)
           /\ SlotsOf(AddAll(vecs, slots)) =
                SlotsOf(vecs) \cup {s \in slots : Fits(s.jiffies)}
           /\ \A k \in 1 .. 3 :
                Later(k, vecs) => Later(k, AddAll(vecs, slots))
<1>. DEFINE w == AddAll(vecs, slots)
            New(p) == {s \in slots : Fits(s.jiffies) /\ Place(s.jiffies) = p}
<1>1. w \in Vecs /\ \A p \in Positions : w[p] = vecs[p] \cup New(p)
  BY Added
<1>. HIDE DEF w
<1>2. ASSUME NEW i \in 0 .. 3, NEW x \in 0 .. kTVSize - 1, NEW s \in w[<<i, x>>]
      PROVE  /\ InTime(n, i, x, s)
             /\ s.timer \notin old => Near(n, i, s)
             /\ MaxBefore < Width(3) => Near(n, i, s) \/ Turn(i, s) <= Width(4)
  <2>1. CASE s \in vecs[<<i, x>>]
    BY <2>1 DEF Filed
  <2>2. CASE s \in New(<<i, x>>)
    <3>1. InTime(n, i, x, s) /\ Near(n, i, s)
      BY <2>2, PlaceFiles
    <3>2. QED BY <3>1
  <2>3. QED BY <1>1, <1>2, <2>1, <2>2, Place0
<1>3. Filed(n, w, old)
  BY <1>2 DEF Filed
<1>4. ASSUME NEW k \in 1 .. 3, Later(k, vecs)
      PROVE  Later(k, w)
  <2>1. SUFFICES ASSUME NEW x \in 0 .. kTVSize - 1, NEW s \in w[<<k, x>>]
                 PROVE  timer_jiffies_ < Turn(k, s)
    BY DEF Later
  <2>2. k \in 0 .. 3 /\ k # 0
    OBVIOUS
  <2>3. CASE s \in vecs[<<k, x>>]
    BY <1>4, <2>3 DEF Later
  <2>4. CASE s \in New(<<k, x>>)
    BY <2>2, <2>4, PlaceFiles
  <2>5. QED BY <1>1, <2>1, <2>2, <2>3, <2>4, Place0
<1>5. SlotsOf(w) = SlotsOf(vecs) \cup {s \in slots : Fits(s.jiffies)}
  <2>1. ASSUME NEW s \in SlotsOf(w)
        PROVE  s \in SlotsOf(vecs) \/ (s \in slots /\ Fits(s.jiffies))
    <3>1. PICK p \in Positions : s \in w[p]
      BY DEF SlotsOf
    <3>2. QED BY <1>1, <3>1 DEF SlotsOf
  <2>2. ASSUME NEW s \in SlotsOf(vecs) PROVE s \in SlotsOf(w)
    <3>1. PICK p \in Positions : s \in vecs[p]
      BY DEF SlotsOf
    <3>2. QED BY <1>1, <3>1 DEF SlotsOf
  <2>3. ASSUME NEW s \in slots, Fits(s.jiffies) PROVE s \in SlotsOf(w)
    <3>1. s.jiffies \in Nat
      BY DEF SlotSet
    <3>2. PICK i \in 0 .. 3 :
              Place(s.jiffies) = <<i, (s.jiffies \div Width(i)) % kTVSize>>
      BY <2>3, <3>1, Placed
    <3>3. Place(s.jiffies) \in Positions
      BY <3>1, <3>2, PlaceType, Place0
    <3>4. s \in w[Place(s.jiffies)]
      BY <1>1, <2>3, <3>3
    <3>5. QED BY <3>3, <3>4 DEF SlotsOf
  <2>4. QED BY <2>1, <2>2, <2>3
<1>6. QED BY <1>1, <1>3, <1>4, <1>5 DEF w

(***************************************************************************)
(* The cascades of a tick                                                  *)
(***************************************************************************)

\* The levels below n have all come round.
Round(n) == \A m \in 0 .. n - 1 : INDEX(m) = 0

\* A multiple of m whose quotient is a multiple of b is a multiple of b * m.
LEMMA Up ==
    ASSUME NEW b \in Nat \ {0}, NEW m \in Nat \ {0}, NEW a \in Nat,
           a = m * (a \div m), (a \div m) % b = 0
    PROVE  a = (b * m) * (a \div (b * m))
<1>. DEFINE u == a \div m
            c == u \div b
            w == b * m
<1>1. u \in Nat
  BY DivMod
<1>2. c \in Nat /\ u = b * c
  BY <1>1, DivMod
<1>3. w \in Nat \ {0}
  BY SMT
<1>4. m * (b * c) = (b * m) * c
  BY <1>2, SMT
<1>5. a = w * c
  BY <1>2, <1>4
<1>. HIDE DEF w, c
<1>6. (w * c) \div w = c
  BY <1>2, <1>3, Multiple
<1>7. QED BY <1>5, <1>6 DEF w

\* A multiple of b * m is one of m, whose quotient is a multiple of b.
LEMMA Down ==
    ASSUME NEW b \in Nat \ {0}, NEW m \in Nat \ {0}, NEW q \in Nat
    PROVE  /\ b * q \in Nat /\ (b * m) * q = m * (b * q)
           /\ (((b * m) * q) \div m) % b = 0
<1>1. b * q \in Nat /\ (b * m) * q = m * (b * q)
  BY SMT
<1>2. (m * (b * q)) \div m = b * q
  BY <1>1, Multiple
<1>3. (b * q) % b = 0
  BY Multiple
<1>4. QED BY <1>1, <1>2, <1>3

\* The tick at which level n is cascaded is the turn of one of its lists.
LEMMA RoundTick ==
    ASSUME timer_jiffies_ \in Nat, NEW n \in 0 .. 3, Round(n)
    PROVE  timer_jiffies_ = Width(n) * (timer_jiffies_ \div Width(n))
<1>. DEFINE T == timer_jiffies_
            Q(i) == T = Width(i) * (T \div Width(i))
<1>1. ASSUME NEW i \in 0 .. 2, Q(i), INDEX(i) = 0 PROVE Q(i + 1)
  <2>1. /\ Width(i) \in Nat \ {0} /\ kTVSize \in Nat \ {0}
        /\ Width(i + 1) = kTVSize * Width(i)
    BY Widths
  <2>2. QED BY <1>1, <2>1, Up DEF INDEX
<1>2. Q(0)
  <2>1. T \div 1 = T /\ 1 * T = T
    BY SMT
  <2>2. QED BY <2>1, Widths
<1>. HIDE DEF Q
<1>3. n = 0 \/ n = 1 \/ n = 2 \/ n = 3
  OBVIOUS
<1>4. n >= 1 => Q(0 + 1)
  BY <1>1, <1>2 DEF Round
<1>5. n >= 2 => Q(1 + 1)
  BY <1>1, <1>4 DEF Round
<1>6. n >= 3 => Q(2 + 1)
  BY <1>1, <1>5 DEF Round
<1>7. Q(n)
  BY <1>2, <1>3, <1>4, <1>5, <1>6
<1>8. QED BY <1>7 DEF Q

\* A list has its turn at a tick when the levels below have come round, and
\* it is the one that is cascaded then.
LEMMA TurnTick ==
    ASSUME timer_jiffies_ \in Nat, NEW n \in 0 .. 3, NEW q \in Nat,
           timer_jiffies_ = Width(n) * q
    PROVE  Round(n) /\ INDEX(n) = q % kTVSize
<1>. DEFINE T == timer_jiffies_
            D(i) == \E r \in Nat : T = Width(i) * r
<1>1. ASSUME NEW i \in 0 .. 2, D(i + 1) PROVE D(i) /\ INDEX(i) = 0
  <2>1. PICK r \in Nat : T = Width(i + 1) * r
    BY <1>1
  <2>2. /\ Width(i) \in Nat \ {0} /\ kTVSize \in Nat \ {0}
        /\ Width(i + 1) = kTVSize * Width(i)
    BY Widths
  <2>3. /\ kTVSize * r \in Nat /\ T = Width(i) * (kTVSize * r)
        /\ (T \div Width(i)) % kTVSize = 0
    <3>. DEFINE w == Width(i)
    <3>1. T = (kTVSize * w) * r
      BY <2>1, <2>2
    <3>. HIDE DEF w
    <3>2. /\ kTVSize * r \in Nat /\ (kTVSize * w) * r = w * (kTVSize * r)
          /\ (((kTVSize * w) * r) \div w) % kTVSize = 0
      BY <2>2, Down DEF w
    <3>3. QED BY <3>1, <3>2 DEF w
  <2>4. QED BY <2>3 DEF INDEX
<1>2. D(n)
  OBVIOUS
<1>. HIDE DEF D
<1>3. n = 0 \/ n = 1 \/ n = 2 \/ n = 3
  OBVIOUS
<1>4. n = 3 => D(2) /\ INDEX(2) = 0
  BY <1>1, <1>2
<1>5. n >= 2 => D(1) /\ INDEX(1) = 0
  BY <1>1, <1>2, <1>3, <1>4
<1>6. n >= 1 => D(0) /\ INDEX(0) = 0
  BY <1>1, <1>2, <1>3, <1>5
<1>7. Round(n)
  <2>1. SUFFICES ASSUME NEW m \in 0 .. n - 1 PROVE INDEX(m) = 0
    BY DEF Round
  <2>2. m = 0 \/ m = 1 \/ m = 2
    BY <1>3
  <2>3. QED BY <1>3, <1>4, <1>5, <1>6, <2>2
<1>8. Width(n) \in Nat \ {0}
  BY Widths
<1>9. T \div Width(n) = q
  BY <1>8, Multiple
<1>10. QED BY <1>7, <1>9 DEF INDEX

LEMMA IndexType ==
    ASSUME timer_jiffies_ \in Nat, NEW n \in 0 .. 3
    PROVE  INDEX(n) \in 0 .. kTVSize - 1
BY PlaceType DEF INDEX

\* The slots of the list that is cascaded fit, those that are near a level
\* below.
LEMMA CascadeFits ==
    ASSUME timer_jiffies_ \in Nat \ {0}, NEW n \in 0 .. 3, Round(n),
           NEW s \in SlotSet, InTime(timer_jiffies_, n, INDEX(n), s),
           Near(timer_jiffies_, n, s) \/ Turn(n, s) <= Width(4)
    PROVE  /\ timer_jiffies_ <= s.jiffies /\ Fits(s.jiffies)
           /\ Near(timer_jiffies_, n, s) => Turn(n, s) = timer_jiffies_
<1>. DEFINE T == timer_jiffies_
            w == Width(n)
            j == s.jiffies
            u == T \div w
            q == j \div w
            B == kTVSize
<1>1. /\ w \in Nat \ {0} /\ B \in Nat \ {0} /\ Width(n + 1) = B * w
      /\ Width(4) \in Nat
  BY Widths
<1>2. T \in Nat \ {0} /\ T = w * u /\ u \in Nat
  BY <1>1, RoundTick, DivMod
<1>3. /\ j \in Nat /\ q \in Nat /\ Turn(n, s) = w * q
      /\ w * q \in Nat /\ w * q <= j /\ j < w * q + w
  BY Turns DEF SlotSet, Turn
<1>4. w * u <= w * q /\ q % B = u % B
  BY <1>2, <1>3 DEF InTime, INDEX
<1>5. T <= j
  BY <1>2, <1>3, <1>4
<1>6. w <= Width(4)
  <2>1. \A i \in 0 .. 4 : Width(i) \in Nat
    BY Widths
  <2>2. Width(0) <= Width(1)
    <3>1. 2 * Width(0) <= Width(0 + 1)
      BY Wider
    <3>2. 0 + 1 = 1
      OBVIOUS
    <3>3. QED BY <2>1, <3>1, <3>2
  <2>3. n = 0 \/ n = 1 \/ n = 2 \/ n = 3
    OBVIOUS
  <2>4. QED BY <2>1, <2>2, <2>3, Wider
<1>7. u >= 1 /\ w <= T
  BY <1>1, <1>2, SMT
<1>8. Fits(j) <=> j - T < Width(4)
  <2>1. Levels - 1 + 1 = 4
    BY DEF Levels
  <2>2. QED BY <1>5, <1>2, <1>3, <2>1 DEF Fits, FitsAt
<1>9. ASSUME Near(T, n, s) PROVE Fits(j) /\ Turn(n, s) = T
  <2>1. w * q < w * u + B * w
    BY <1>1, <1>2, <1>3, <1>9 DEF Near
  <2>. HIDE DEF w, u, q, B
  <2>2. q = u
    BY <1>1, <1>2, <1>3, <1>4, <2>1, SameTurn
  <2>3. j < T + w
    BY <1>2, <1>3, <2>2
  <2>4. j - T < Width(4)
    BY <1>1, <1>2, <1>3, <1>6, <2>3
  <2>5. QED BY <1>2, <1>3, <1>8, <2>2, <2>4
<1>10. ASSUME Turn(n, s) <= Width(4) PROVE Fits(j)
  <2>. HIDE DEF w, u, q, B
  <2>1. j < Width(4) + T
    BY <1>1, <1>2, <1>3, <1>7, <1>10
  <2>2. QED BY <1>1, <1>2, <1>3, <1>8, <2>1
<1>11. QED BY <1>5, <1>9, <1>10

\* A list that is not cascaded has its turn later.
LEMMA NotYet ==
    ASSUME timer_jiffies_ \in Nat, NEW n \in 0 .. 3, NEW s \in SlotSet,
           NEW x, InTime(timer_jiffies_, n, x, s), ~Round(n) \/ x # INDEX(n)
    PROVE  timer_jiffies_ < Turn(n, s)
<1>1. s.jiffies \div Width(n) \in Nat /\ Turn(n, s) \in Nat
  BY Turns DEF SlotSet
<1>2. timer_jiffies_ # Turn(n, s)
  BY <1>1, TurnTick DEF InTime, Turn
<1>3. QED BY <1>1, <1>2 DEF InTime

\* What a cascade does to the wheel: its slots stay filed, those of timers of
\* this run are all there, and the level has its turns later.
LEMMA CascadeStep ==
    ASSUME timer_jiffies_ \in Nat \ {0}, NEW n \in 1 .. 3, Round(n),
           NEW vecs \in Vecs, Filed(timer_jiffies_, vecs, left)
    PROVE  LET w == CascadeTimers(vecs, n)
           IN  /\ w \in Vecs /\ Filed(timer_jiffies_, w, left)
               /\ Later(n, w)
               /\ \A k \in 1 .. 3 : Later(k, vecs) => Later(k, w)
               /\ Fresh(SlotsOf(w)) = Fresh(SlotsOf(vecs))
               /\ SlotsOf(w) \subseteq SlotsOf(vecs)
<1>. DEFINE T == timer_jiffies_
            p == <<n, INDEX(n)>>
            e == [vecs EXCEPT ![p] = {}]
            w == AddAll(e, vecs[p])
<1>1. n \in 0 .. 3 /\ INDEX(n) \in 0 .. kTVSize - 1 /\ p \in Positions
  BY IndexType, Place0
<1>2. /\ e \in Vecs /\ e[p] = {} /\ vecs[p] \in SUBSET SlotSet
      /\ \A r \in Positions : r # p => e[r] = vecs[r]
      /\ \A r \in Positions : e[r] \subseteq vecs[r]
  BY <1>1 DEF Vecs
<1>3. \A s \in vecs[p] : InTime(T, n, INDEX(n), s)
  BY <1>1 DEF Filed
<1>4. \A s \in vecs[p] : T <= s.jiffies
  <2>1. SUFFICES ASSUME NEW s \in vecs[p] PROVE T <= s.jiffies
    OBVIOUS
  <2>2. s \in SlotSet /\ s.jiffies \in Nat
    BY <1>2 DEF SlotSet
  <2>3. Turn(n, s) <= s.jiffies /\ Turn(n, s) \in Nat /\ T <= Turn(n, s)
    BY <1>1, <1>3, <2>2, Turns DEF InTime
  <2>4. QED BY <2>2, <2>3
<1>5. \A s \in vecs[p] : s.timer \notin left => Fits(s.jiffies)
  <2>1. SUFFICES ASSUME NEW s \in vecs[p], s.timer \notin left
                 PROVE  Fits(s.jiffies)
    OBVIOUS
  <2>2. Near(T, n, s)
    BY <1>1, <2>1 DEF Filed
  <2>3. QED BY <1>1, <1>2, <1>3, <2>2, CascadeFits
<1>6. Filed(T, e, left)
  BY <1>2, Place0 DEF Filed
<1>7. /\ w \in Vecs /\ Filed(T, w, left)
      /\ SlotsOf(w) = SlotsOf(e) \cup {s \in vecs[p] : Fits(s.jiffies)}
      /\ \A k \in 1 .. 3 : Later(k, e) => Later(k, w)
  BY <1>2, <1>4, <1>6, AddFiles
<1>8. \A k \in 1 .. 3 : Later(k, vecs) => Later(k, e)
  BY <1>2, Place0 DEF Later
<1>9. Later(n, e)
  <2>1. SUFFICES ASSUME NEW x \in 0 .. kTVSize - 1, NEW s \in e[<<n, x>>]
                 PROVE  T < Turn(n, s)
    BY DEF Later
  <2>2. x # INDEX(n) /\ s \in vecs[<<n, x>>]
    BY <1>1, <1>2, <2>1, Place0
  <2>3. InTime(T, n, x, s)
    BY <1>1, <2>2 DEF Filed
  <2>4. s \in SlotSet
    BY <1>1, <2>2, Place0 DEF Vecs
  <2>5. QED BY <1>1, <2>2, <2>3, <2>4, NotYet
<1>10. SlotsOf(vecs) = SlotsOf(e) \cup vecs[p]
  <2>1. SlotsOf(e) \cup vecs[p] \subseteq SlotsOf(vecs)
    BY <1>1, <1>2 DEF SlotsOf
  <2>2. SlotsOf(vecs) \subseteq SlotsOf(e) \cup vecs[p]
    BY <1>1, <1>2 DEF SlotsOf
  <2>3. QED BY <2>1, <2>2
<1>11. Fresh(SlotsOf(w)) = Fresh(SlotsOf(vecs))
  BY <1>5, <1>7, <1>10 DEF Fresh
<1>12. SlotsOf(w) \subseteq SlotsOf(vecs)
  BY <1>7, <1>10
<1>13. CascadeTimers(vecs, n) = w
  BY DEF CascadeTimers
<1>14. QED BY <1>7, <1>8, <1>9, <1>11, <1>12, <1>13

\* The chain of cascades: after it no list but those of the first level has
\* its turn at this tick.
LEMMA CascadeAll ==
    ASSUME timer_jiffies_ \in Nat \ {0}, vecs_ \in Vecs,
           Filed(timer_jiffies_, vecs_, left)
    PROVE  /\ Cascade \in Vecs /\ Filed(timer_jiffies_, Cascade, left)
           /\ \A k \in 1 .. 3 : Later(k, Cascade)
           /\ Fresh(SlotsOf(Cascade)) = Fresh(SlotsOf(vecs_))
           /\ SlotsOf(Cascade) \subseteq SlotsOf(vecs_)
<1>. DEFINE T == timer_jiffies_
            v1 == IF Round(1) THEN CascadeTimers(vecs_, 1) ELSE vecs_
            v2 == IF Round(2) THEN CascadeTimers(v1, 2) ELSE v1
            v3 == IF Round(3) THEN CascadeTimers(v2, 3) ELSE v2
            Good(v) == /\ v \in Vecs /\ Filed(T, v, left)
                       /\ Fresh(SlotsOf(v)) = Fresh(SlotsOf(vecs_))
                       /\ SlotsOf(v) \subseteq SlotsOf(vecs_)
<1>1. ASSUME NEW v, Good(v), NEW n \in 1 .. 3, ~Round(n) PROVE Later(n, v)
  <2>1. SUFFICES ASSUME NEW x \in 0 .. kTVSize - 1, NEW s \in v[<<n, x>>]
                 PROVE  T < Turn(n, s)
    BY DEF Later
  <2>2. n \in 0 .. 3
    OBVIOUS
  <2>3. s \in SlotSet /\ InTime(T, n, x, s)
    BY <1>1, <2>1, <2>2, Place0 DEF Vecs, Filed
  <2>4. QED BY <1>1, <2>2, <2>3, NotYet
<1>2. ASSUME NEW v, Good(v), NEW n \in 1 .. 3
      PROVE  LET w == IF Round(n) THEN CascadeTimers(v, n) ELSE v
             IN  /\ Good(w) /\ Later(n, w)
                 /\ \A k \in 1 .. 3 : Later(k, v) => Later(k, w)
  <2>1. CASE Round(n)
    <3>. DEFINE w == CascadeTimers(v, n)
    <3>1. /\ w \in Vecs /\ Filed(T, w, left) /\ Later(n, w)
          /\ \A k \in 1 .. 3 : Later(k, v) => Later(k, w)
          /\ Fresh(SlotsOf(w)) = Fresh(SlotsOf(v))
          /\ SlotsOf(w) \subseteq SlotsOf(v)
      BY <1>2, <2>1, CascadeStep
    <3>. HIDE DEF w
    <3>2. Good(w)
      BY <1>2, <3>1
    <3>3. QED BY <2>1, <3>1, <3>2 DEF w
  <2>2. CASE ~Round(n)
    BY <1>1, <1>2, <2>2
  <2>3. QED BY <2>1, <2>2
<1>. HIDE DEF Good
<1>3. Good(vecs_)
  BY DEF Good
<1>4. Good(v1) /\ Later(1, v1)
  BY <1>2, <1>3
<1>. HIDE DEF v1
<1>5. Good(v2) /\ Later(1, v2) /\ Later(2, v2)
  BY <1>2, <1>4
<1>. HIDE DEF v2
<1>6. Good(v3) /\ Later(1, v3) /\ Later(2, v3) /\ Later(3, v3)
  BY <1>2, <1>5
<1>7. \A k \in 1 .. 3 : Later(k, v3)
  <2>1. \A k \in 1 .. 3 : k = 1 \/ k = 2 \/ k = 3
    OBVIOUS
  <2>2. QED BY <1>6, <2>1
<1>8. /\ Round(1) <=> INDEX(0) = 0
      /\ Round(2) <=> INDEX(0) = 0 /\ INDEX(1) = 0
      /\ Round(3) <=> INDEX(0) = 0 /\ INDEX(1) = 0 /\ INDEX(2) = 0
  <2>1. /\ \A m : m \in 0 .. 1 - 1 <=> m = 0
        /\ \A m : m \in 0 .. 2 - 1 <=> (m = 0 \/ m = 1)
        /\ \A m : m \in 0 .. 3 - 1 <=> (m = 0 \/ m = 1 \/ m = 2)
    OBVIOUS
  <2>2. QED BY <2>1 DEF Round
<1>9. Cascade = v3
  BY <1>8, Zenon DEF Cascade, v1, v2
<1>10. QED BY <1>6, <1>7, <1>9 DEF Good

(***************************************************************************)
(* The invariant                                                           *)
(***************************************************************************)

LEMMA Timeout ==
    ASSUME Types
    PROVE  \A t \in Timers :
              timeout[t] \in Nat /\ 1 <= timeout[t] /\ timeout[t] < Width(4)
<1>. DEFINE h == Width(4)
<1>1. h \in Nat /\ Timeouts \subseteq 1 .. h - 1
  BY Widths, WheelAssumption DEF Levels
<1>. HIDE DEF h
<1>2. \A t \in Timers : timeout[t] \in Timeouts
  BY DEF Types
<1>3. \A d \in Timeouts : d \in Nat /\ 1 <= d /\ d < h
  BY <1>1
<1>4. QED BY <1>2, <1>3 DEF h

LEMMA NowType == ASSUME Types PROVE Now \in Nat \ {0}
BY DEF Types, Now

\* The slots in the wheel are due at the clock's tick or later.
LEMMA Due ==
    ASSUME Types, Filed(Now, vecs_, left)
    PROVE  \A s \in SlotsOf(vecs_) : s \in SlotSet /\ Now <= s.jiffies
<1>1. SUFFICES ASSUME NEW i \in 0 .. 3, NEW x \in 0 .. kTVSize - 1,
                      NEW s \in vecs_[<<i, x>>]
               PROVE  s \in SlotSet /\ Now <= s.jiffies
  BY DEF SlotsOf, Positions, Levels
<1>2. s \in SlotSet /\ s.jiffies \in Nat
  BY Place0 DEF Types, Vecs, SlotSet
<1>3. Turn(i, s) \in Nat /\ Turn(i, s) <= s.jiffies
  BY <1>2, Turns
<1>4. Now \in Nat /\ Now <= Turn(i, s)
  BY NowType DEF Filed, InTime
<1>5. QED BY <1>2, <1>3, <1>4

LEMMA InitHolds == Init => IInv
<1>. SUFFICES ASSUME Init PROVE IInv
  OBVIOUS
<1>1. SlotsOf(vecs_) = {} /\ vecs_ \in Vecs
  BY DEF Init, SlotsOf, Vecs
<1>2. Types
  BY <1>1 DEF Init, Types
<1>3. Ticks
  BY DEF Init, Ticks
<1>4. Filed(Now, vecs_, left)
  BY Place0 DEF Init, Filed
<1>5. Registering
  BY WheelAssumption DEF Init, Registering
<1>6. OneSlot /\ OnTime
  BY <1>1 DEF Init, OneSlot, OnTime, Fresh
<1>7. NeverEarly
  BY DEF Init, NeverEarly
<1>8. QED BY <1>2, <1>3, <1>4, <1>5, <1>6, <1>7 DEF IInv

\* A start leaves the slots where they are.  Those of the run before may then
\* be further away than a round, but not further than the wheel reaches when
\* that run was no longer than a list of the last level spans.
LEMMA StartFiles ==
    ASSUME IInv, Start
    PROVE  Filed(1, vecs_, left')
<1>1. SUFFICES ASSUME NEW i \in 0 .. 3, NEW x \in 0 .. kTVSize - 1,
                      NEW s \in vecs_[<<i, x>>]
               PROVE  /\ InTime(1, i, x, s)
                      /\ s.timer \notin left' => Near(1, i, s)
                      /\ MaxBefore < Width(3) =>
                            Near(1, i, s) \/ Turn(i, s) <= Width(4)
  BY DEF Filed
<1>2. /\ Now \in Nat \ {0} /\ Now = jiffies + 1 /\ jiffies \in Nat
      /\ jiffies <= MaxBefore /\ MaxBefore \in Nat
  BY NowType, WheelAssumption DEF IInv, Types, Ticks, Start, Now
<1>3. /\ InTime(Now, i, x, s)
      /\ s.timer \notin left => Near(Now, i, s)
      /\ MaxBefore < Width(3) => Near(Now, i, s) \/ Turn(i, s) <= Width(4)
  BY DEF IInv, Filed
<1>4. s \in SlotSet /\ s.jiffies \in Nat /\ s \in SlotsOf(vecs_)
  BY Place0 DEF IInv, Types, Vecs, SlotSet, SlotsOf
<1>5. /\ Turn(i, s) \in Nat /\ Width(3) \in Nat /\ Width(4) \in Nat
      /\ Width(i + 1) \in Nat /\ s.jiffies \div Width(i) \in Nat
      /\ kTVSize \in Nat \ {0} /\ Width(i) \in Nat \ {0}
  BY <1>4, Turns, Widths
<1>6. InTime(1, i, x, s)
  BY <1>2, <1>3, <1>5 DEF InTime
<1>7. ASSUME s.timer \notin left' PROVE Near(1, i, s)
  <2>1. starts = 0
    BY <1>4, <1>7 DEF Start, SlotsOf
  <2>2. jiffies = 0 /\ left = {}
    BY <2>1 DEF IInv, Ticks
  <2>3. Now = 1
    BY <1>2, <2>2
  <2>4. QED BY <1>3, <2>2, <2>3
<1>8. ASSUME MaxBefore < Width(3), Near(Now, i, s)
      PROVE  Turn(i, s) <= Width(4)
  <2>1. Turn(i, s) < Now + Width(i + 1) /\ Now <= Width(3)
    BY <1>2, <1>5, <1>8 DEF Near
  <2>2. CASE i = 3
    <3>. DEFINE w == Width(3)
                q == s.jiffies \div Width(3)
                B == kTVSize
    <3>1. /\ w \in Nat \ {0} /\ q \in Nat /\ B \in Nat /\ Turn(i, s) = w * q
          /\ Width(4) = B * w
      <4>1. 3 + 1 = 4
        OBVIOUS
      <4>2. QED BY <1>5, <2>2, <4>1, Widths DEF Turn
    <3>2. w * q < w + B * w
      <4>1. i + 1 = 4
        BY <2>2
      <4>2. w * q \in Nat /\ B * w \in Nat
        BY <1>5, <3>1
      <4>3. QED BY <1>2, <2>1, <3>1, <4>1, <4>2
    <3>. HIDE DEF w, q, B
    <3>3. q <= B
      <4>1. SUFFICES ASSUME B + 1 <= q PROVE FALSE
        BY <3>1
      <4>2. w * (B + 1) <= w * q
        BY <3>1, <4>1, SMT
      <4>3. w * (B + 1) = w + B * w
        BY <3>1, SMT
      <4>4. QED BY <3>1, <3>2, <4>2, <4>3, SMT
    <3>4. w * q <= B * w
      BY <3>1, <3>3, SMT
    <3>5. QED BY <3>1, <3>4
  <2>3. CASE i # 3
    <3>1. Width(i + 1) <= Width(3)
      <4>1. i = 0 \/ i = 1 \/ i = 2
        BY <2>3
      <4>2. 0 + 1 = 1 /\ 1 + 1 = 2 /\ 2 + 1 = 3
        OBVIOUS
      <4>3. \A k \in 0 .. 4 : Width(k) \in Nat
        BY Widths
      <4>4. QED BY <4>1, <4>2, <4>3, Wider
    <3>2. QED BY <1>2, <1>5, <2>1, <3>1, Wider
  <2>4. QED BY <2>2, <2>3
<1>9. QED BY <1>3, <1>6, <1>7, <1>8

\* At a tick what is due is taken from the wheel, the slots of timers of this
\* run at the tick they were set for; what stays is due later.
LEMMA Taken ==
    ASSUME IInv, Take
    PROVE  /\ vecs_' \in Vecs /\ Filed(timer_jiffies_ + 1, vecs_', left)
           /\ Fresh(SlotsOf(vecs_')) =
                {s \in Fresh(SlotsOf(vecs_)) : s.jiffies # timer_jiffies_}
           /\ Fresh(timers') =
                {s \in Fresh(SlotsOf(vecs_)) :
                    s.jiffies = timer_jiffies_ /\ s.timer \in alive}
           /\ SlotsOf(vecs_') \subseteq SlotsOf(vecs_)
           /\ timers' \subseteq SlotsOf(vecs_)
<1>. DEFINE T == timer_jiffies_
            c == Cascade
            p == <<0, INDEX(0)>>
            w == [c EXCEPT ![p] = {}]
<1>1. /\ T \in Nat \ {0} /\ vecs_ \in Vecs /\ Filed(T, vecs_, left)
  BY DEF IInv, Types, Take, Now
<1>2. /\ c \in Vecs /\ Filed(T, c, left)
      /\ \A k \in 1 .. 3 : Later(k, c)
      /\ Fresh(SlotsOf(c)) = Fresh(SlotsOf(vecs_))
      /\ SlotsOf(c) \subseteq SlotsOf(vecs_)
  BY <1>1, CascadeAll
<1>3. vecs_' = w /\ timers' = {s \in c[p] : s.timer \in alive}
  BY DEF Take
<1>. HIDE DEF c
<1>4. INDEX(0) \in 0 .. kTVSize - 1 /\ p \in Positions
  BY <1>1, IndexType, Place0
<1>5. /\ w \in Vecs /\ w[p] = {}
      /\ \A r \in Positions : r # p => w[r] = c[r]
      /\ \A r \in Positions : w[r] \subseteq c[r]
  BY <1>2, <1>4 DEF Vecs
<1>6. SlotsOf(c) = SlotsOf(w) \cup c[p]
  <2>1. SlotsOf(w) \cup c[p] \subseteq SlotsOf(c)
    BY <1>4, <1>5 DEF SlotsOf
  <2>2. SlotsOf(c) \subseteq SlotsOf(w) \cup c[p]
    BY <1>4, <1>5 DEF SlotsOf
  <2>3. QED BY <2>1, <2>2
<1>7. ASSUME NEW i \in 0 .. 3, NEW x \in 0 .. kTVSize - 1, NEW s \in w[<<i, x>>]
      PROVE  /\ s \in SlotSet /\ s \in c[<<i, x>>]
             /\ Turn(i, s) \in Nat /\ Turn(i, s) <= s.jiffies
             /\ T < Turn(i, s)
  <2>1. s \in c[<<i, x>>] /\ <<i, x>> # p
    BY <1>5, <1>7, Place0
  <2>2. s \in SlotSet /\ s.jiffies \in Nat /\ InTime(T, i, x, s)
    BY <1>2, <2>1, Place0 DEF Vecs, Filed, SlotSet
  <2>3. Turn(i, s) \in Nat /\ Turn(i, s) <= s.jiffies
    BY <2>2, Turns
  <2>4. CASE i = 0
    <3>1. x # INDEX(i)
      BY <2>1, <2>4
    <3>2. QED BY <1>1, <2>1, <2>2, <2>3, <3>1, NotYet
  <2>5. CASE i # 0
    <3>1. i \in 1 .. 3
      BY <2>5
    <3>2. QED BY <1>2, <2>1, <2>2, <2>3, <3>1 DEF Later
  <2>6. QED BY <2>4, <2>5
<1>8. Filed(T + 1, w, left)
  <2>1. SUFFICES ASSUME NEW i \in 0 .. 3, NEW x \in 0 .. kTVSize - 1,
                        NEW s \in w[<<i, x>>]
                 PROVE  /\ InTime(T + 1, i, x, s)
                        /\ s.timer \notin left => Near(T + 1, i, s)
                        /\ MaxBefore < Width(3) =>
                              Near(T + 1, i, s) \/ Turn(i, s) <= Width(4)
    BY DEF Filed
  <2>2. s \in c[<<i, x>>] /\ Turn(i, s) \in Nat /\ T < Turn(i, s)
    BY <1>7
  <2>3. /\ InTime(T, i, x, s)
        /\ s.timer \notin left => Near(T, i, s)
        /\ MaxBefore < Width(3) => Near(T, i, s) \/ Turn(i, s) <= Width(4)
    BY <1>2, <2>2 DEF Filed
  <2>4. InTime(T + 1, i, x, s)
    BY <1>1, <2>2, <2>3 DEF InTime
  <2>5. Width(i + 1) \in Nat
    BY Widths
  <2>6. Near(T, i, s) => Near(T + 1, i, s)
    BY <1>1, <2>2, <2>5 DEF Near
  <2>7. QED BY <2>3, <2>4, <2>6
<1>9. \A s \in SlotsOf(w) : s.jiffies # T
  <2>1. SUFFICES ASSUME NEW i \in 0 .. 3, NEW x \in 0 .. kTVSize - 1,
                        NEW s \in w[<<i, x>>]
                 PROVE  s.jiffies # T
    BY DEF SlotsOf, Positions, Levels
  <2>2. Turn(i, s) \in Nat /\ Turn(i, s) <= s.jiffies /\ T < Turn(i, s)
    BY <1>7
  <2>3. QED BY <1>1, <2>2
<1>10. \A s \in c[p] : s.timer \notin left => s.jiffies = T
  <2>1. SUFFICES ASSUME NEW s \in c[p], s.timer \notin left
                 PROVE  s.jiffies = T
    OBVIOUS
  <2>2. s \in SlotSet /\ s.jiffies \in Nat
    BY <1>2, <1>4 DEF Vecs, SlotSet
  <2>3. InTime(T, 0, INDEX(0), s) /\ Near(T, 0, s)
    BY <1>2, <1>4, <2>1 DEF Filed
  <2>4. Round(0)
    BY DEF Round
  <2>5. Turn(0, s) = T
    BY <1>1, <2>2, <2>3, <2>4, CascadeFits
  <2>6. QED BY <2>2, <2>5, Turns
<1>11. Fresh(SlotsOf(w)) = {s \in Fresh(SlotsOf(vecs_)) : s.jiffies # T}
  BY <1>2, <1>6, <1>9, <1>10 DEF Fresh
<1>12. Fresh(timers') = {s \in Fresh(SlotsOf(vecs_)) :
                           s.jiffies = T /\ s.timer \in alive}
  BY <1>2, <1>3, <1>6, <1>9, <1>10 DEF Fresh
<1>13. QED BY <1>2, <1>3, <1>5, <1>6, <1>8, <1>11, <1>12

LEMMA StartStep == ASSUME IInv, Start PROVE IInv'
<1>1. Filed(1, vecs_, left')
  BY StartFiles
<1>2. Now' = 1 /\ timers = {} /\ upc = "off" /\ timers' = {}
  BY DEF IInv, Ticks, Start, Now
<1>3. \A s \in SlotsOf(vecs_) : s.timer \in Timers
  BY Due DEF IInv, SlotSet
<1>4. Types'
  <2>1. left' \subseteq Timers
    BY <1>3 DEF IInv, Types, Start, SlotsOf
  <2>2. /\ timer_jiffies_' = 1 /\ jiffies' = 0 /\ starts' = starts + 1
        /\ mbStop' \in BOOLEAN /\ upc' = "loop"
        /\ UNCHANGED <<vecs_, timers, mutex_, rpc, rjiffies, timeout, alive,
                       age, early>>
    BY DEF Start, regVars
  <2>3. QED BY <2>1, <2>2 DEF IInv, Types
<1>5. Ticks'
  BY <1>2 DEF IInv, Types, Ticks, Start
<1>6. Filed(Now, vecs_, left)'
  BY <1>1, <1>2 DEF Start
<1>7. Registering'
  BY WheelAssumption DEF IInv, Types, Registering, Start, regVars
<1>8. CASE starts = 0
  <2>1. left' = {} /\ left = {} /\ jiffies = 0 /\ jiffies' = 0
    BY <1>8 DEF IInv, Ticks, Start
  <2>2. OneSlot'
    BY <1>2, <2>1 DEF IInv, OneSlot, Start, SlotsOf, Fresh, regVars
  <2>3. OnTime'
    BY <1>2, <2>1 DEF IInv, OnTime, Start, SlotsOf, Fresh
  <2>4. NeverEarly'
    BY <2>1 DEF IInv, NeverEarly, Start
  <2>5. QED BY <1>4, <1>5, <1>6, <1>7, <2>2, <2>3, <2>4 DEF IInv
<1>9. CASE starts # 0
  <2>1. Fresh(SlotsOf(vecs_))' = {} /\ left \subseteq left'
    BY <1>9 DEF Start, SlotsOf, Fresh
  <2>2. OneSlot'
    BY <1>2, <2>1 DEF IInv, OneSlot, Start, SlotsOf, Fresh, regVars
  <2>3. OnTime'
    BY <1>2, <2>1 DEF OnTime, Fresh
  <2>4. NeverEarly'
    BY <2>1 DEF IInv, NeverEarly, Start
  <2>5. QED BY <1>4, <1>5, <1>6, <1>7, <2>2, <2>3, <2>4 DEF IInv
<1>10. QED BY <1>8, <1>9

LEMMA StopStep == ASSUME IInv, Stop PROVE IInv'
BY DEF IInv, Types, Ticks, Filed, Registering, OneSlot, OnTime, NeverEarly,
       Now, SlotsOf, Fresh, Stop, wheelVars, regVars, histVars

LEMMA ExitStep == ASSUME IInv, Exit PROVE IInv'
BY DEF IInv, Types, Ticks, Filed, Registering, OneSlot, OnTime, NeverEarly,
       Now, SlotsOf, Fresh, Exit, wheelVars, regVars, histVars

LEMMA TickStep == ASSUME IInv, Tick PROVE IInv'
<1>1. /\ Now' = Now /\ vecs_' = vecs_ /\ left' = left /\ timers' = timers
      /\ timers = {} /\ jiffies' = jiffies + 1 /\ Now = jiffies + 1
      /\ jiffies \in Nat /\ rpc' = rpc
  BY DEF IInv, Types, Ticks, Tick, Now, wheelVars, regVars
<1>2. Types'
  BY DEF IInv, Types, Tick, wheelVars, regVars
<1>3. Ticks'
  BY DEF IInv, Types, Ticks, Tick, wheelVars
<1>4. Filed(Now, vecs_, left)'
  BY <1>1 DEF IInv
<1>5. ASSUME NEW t \in Timers, rpc[t] # "no", NEW j \in Nat, Now <= j,
             timeout[t] + jiffies <= age[t] + j
      PROVE  timeout[t] + jiffies' <= age'[t] + j
  <2>1. timeout[t] \in Nat /\ age[t] \in Nat
    BY Timeout DEF IInv, Types
  <2>2. age'[t] = IF age[t] = timeout[t] THEN age[t] ELSE age[t] + 1
    BY <1>5 DEF Tick
  <2>3. QED BY <1>1, <1>5, <2>1, <2>2
<1>6. Registering'
  <2>1. SUFFICES ASSUME NEW t \in Timers, rpc[t] = "add"
                 PROVE  timeout[t] + jiffies' <= age'[t] + rjiffies[t]
    BY <1>1 DEF IInv, Registering, Tick, wheelVars, regVars
  <2>2. /\ rjiffies[t] \in Nat /\ Now <= rjiffies[t]
        /\ timeout[t] + jiffies <= age[t] + rjiffies[t]
    BY <2>1 DEF IInv, Types, Registering
  <2>3. QED BY <1>5, <2>1, <2>2
<1>7. OneSlot'
  BY <1>1 DEF IInv, OneSlot, SlotsOf, Fresh
<1>8. OnTime'
  <2>1. SUFFICES ASSUME NEW s \in Fresh(SlotsOf(vecs_))
                 PROVE  timeout[s.timer] + jiffies' <= age'[s.timer] + s.jiffies
    BY <1>1 DEF OnTime, Fresh, SlotsOf, Tick
  <2>2. /\ s \in SlotsOf(vecs_) /\ s.timer \in Timers
        /\ s.jiffies \in Nat /\ Now <= s.jiffies
    BY Due DEF IInv, Fresh, SlotSet
  <2>3. /\ rpc[s.timer] = "done"
        /\ timeout[s.timer] + jiffies <= age[s.timer] + s.jiffies
    BY <2>2 DEF IInv, OneSlot, OnTime
  <2>4. QED BY <1>5, <2>2, <2>3
<1>9. NeverEarly'
  BY DEF IInv, NeverEarly, Tick
<1>10. QED BY <1>2, <1>3, <1>4, <1>6, <1>7, <1>8, <1>9 DEF IInv

LEMMA TakeStep == ASSUME IInv, Take PROVE IInv'
<1>. DEFINE T == timer_jiffies_
            F == Fresh(SlotsOf(vecs_))
<1>1. /\ vecs_' \in Vecs /\ Filed(T + 1, vecs_', left)
      /\ Fresh(SlotsOf(vecs_')) = {s \in F : s.jiffies # T}
      /\ Fresh(timers') = {s \in F : s.jiffies = T /\ s.timer \in alive}
      /\ SlotsOf(vecs_') \subseteq SlotsOf(vecs_)
      /\ timers' \subseteq SlotsOf(vecs_)
  BY Taken
<1>2. /\ upc = "update" /\ upc' = "inc" /\ T' = T /\ jiffies' = jiffies
      /\ left' = left /\ Now' = T + 1 /\ jiffies = T /\ mutex_ = None
      /\ rpc' = rpc /\ timeout' = timeout /\ age' = age
  BY DEF IInv, Ticks, Take, Now, regVars
<1>3. \A s \in SlotsOf(vecs_) : s \in SlotSet
  BY Due DEF IInv
<1>4. timers' \subseteq SlotSet /\ \A s \in timers' : s.timer \in Timers
  BY <1>1, <1>3 DEF SlotSet
<1>5. /\ Fresh(SlotsOf(vecs_))' = Fresh(SlotsOf(vecs_'))
      /\ Fresh(timers)' = Fresh(timers')
  BY <1>2 DEF Fresh, SlotsOf
<1>6. Types'
  <2>1. early' \subseteq Timers
    BY <1>4 DEF IInv, Types, Take
  <2>2. QED BY <1>1, <1>2, <1>4, <2>1 DEF IInv, Types, Take, regVars
<1>7. Ticks'
  BY <1>2 DEF IInv, Ticks, Take
<1>8. Filed(Now, vecs_, left)'
  BY <1>1, <1>2
<1>9. Registering'
  BY <1>2, WheelAssumption DEF IInv, Registering, Take, regVars
<1>10. OneSlot'
  <2>1. \A s \in SlotsOf(vecs_') \cup timers' : rpc[s.timer] = "done"
    BY <1>1 DEF IInv, OneSlot
  <2>2. \A s, r \in F : s.timer = r.timer => s = r
    BY DEF IInv, OneSlot
  <2>3. \A s \in Fresh(SlotsOf(vecs_')), r \in timers' : s.timer # r.timer
    <3>1. SUFFICES ASSUME NEW s \in Fresh(SlotsOf(vecs_')), NEW r \in timers',
                          s.timer = r.timer
                   PROVE  FALSE
      OBVIOUS
    <3>2. r \in Fresh(timers')
      BY <3>1 DEF Fresh
    <3>3. QED BY <1>1, <2>2, <3>1, <3>2
  <2>4. SlotsOf(vecs_)' = SlotsOf(vecs_')
    BY DEF SlotsOf
  <2>5. QED BY <1>1, <1>2, <1>5, <2>1, <2>2, <2>3, <2>4 DEF OneSlot
<1>11. OnTime'
  BY <1>1, <1>2, <1>5 DEF IInv, OnTime
<1>12. NeverEarly'
  <2>1. SUFFICES ASSUME NEW s \in timers', age[s.timer] < timeout[s.timer],
                        s.timer \notin left
                 PROVE  FALSE
    BY <1>2 DEF IInv, NeverEarly, Take
  <2>2. s \in F /\ s.jiffies = T
    BY <1>1, <2>1 DEF Fresh
  <2>3. timeout[s.timer] + jiffies <= age[s.timer] + s.jiffies
    BY <2>2 DEF IInv, OnTime
  <2>4. timeout[s.timer] \in Nat /\ age[s.timer] \in Nat /\ jiffies \in Nat
    BY <1>4, Timeout DEF IInv, Types
  <2>5. QED BY <1>2, <2>1, <2>2, <2>3, <2>4
<1>13. QED BY <1>6, <1>7, <1>8, <1>9, <1>10, <1>11, <1>12 DEF IInv

LEMMA AdvanceStep == ASSUME IInv, Advance PROVE IInv'
<1>1. /\ Now' = Now /\ vecs_' = vecs_ /\ left' = left /\ timers' = timers
      /\ timer_jiffies_ = jiffies /\ jiffies' = jiffies /\ upc' = "serve"
      /\ timer_jiffies_' = timer_jiffies_ + 1 /\ rpc' = rpc
  BY DEF IInv, Ticks, Advance, Now, regVars, histVars
<1>2. Types'
  BY DEF IInv, Types, Advance, regVars, histVars
<1>3. Ticks'
  BY <1>1 DEF IInv, Types, Ticks, Advance, histVars
<1>4. Filed(Now, vecs_, left)'
  BY <1>1 DEF IInv
<1>5. Registering'
  <2>1. \A t \in Timers : timeout[t] \in Nat /\ rjiffies[t] \in Nat
    BY Timeout DEF IInv, Types
  <2>2. timer_jiffies_ \in Nat
    BY DEF IInv, Types
  <2>3. QED BY <1>1, <2>1, <2>2 DEF IInv, Registering, Advance, regVars,
               histVars
<1>6. OneSlot' /\ OnTime' /\ NeverEarly'
  BY <1>1 DEF IInv, OneSlot, OnTime, NeverEarly, SlotsOf, Fresh, Advance,
              histVars
<1>7. QED BY <1>2, <1>3, <1>4, <1>5, <1>6 DEF IInv

LEMMA LoopStep == ASSUME IInv, Loop PROVE IInv'
<1>1. /\ Now' = Now /\ vecs_' = vecs_ /\ left' = left /\ timers' = timers
      /\ timer_jiffies_ = jiffies + 1 /\ jiffies' = jiffies /\ upc' = "loop"
      /\ timer_jiffies_' = timer_jiffies_ /\ rpc' = rpc
  BY DEF IInv, Types, Ticks, Loop, Now, wheelVars, regVars, histVars
<1>2. Types'
  BY <1>1 DEF IInv, Types, Loop, regVars, histVars
<1>3. Ticks'
  BY <1>1 DEF IInv, Types, Ticks, Loop, histVars
<1>4. Filed(Now, vecs_, left)'
  BY <1>1 DEF IInv
<1>5. Registering'
  BY <1>1 DEF IInv, Registering, Loop, regVars, histVars
<1>6. OneSlot' /\ OnTime' /\ NeverEarly'
  BY <1>1 DEF IInv, OneSlot, OnTime, NeverEarly, SlotsOf, Fresh, Loop,
              histVars
<1>7. QED BY <1>2, <1>3, <1>4, <1>5, <1>6 DEF IInv

\* One slot goes into the wheel, and fits.
LEMMA AddOne ==
    ASSUME IInv, NEW t \in Timers, NEW j \in Nat \ {0},
           Now <= j, j < timer_jiffies_ + Width(4),
           vecs_' = AddAll(vecs_, {Slot(t, j)}), left' = left
    PROVE  /\ vecs_' \in Vecs /\ Filed(Now, vecs_', left)
           /\ SlotsOf(vecs_') = SlotsOf(vecs_) \cup {Slot(t, j)}
           /\ Fresh(SlotsOf(vecs_))' =
                Fresh(SlotsOf(vecs_)) \cup Fresh({Slot(t, j)})
<1>. DEFINE s == Slot(t, j)
            T == timer_jiffies_
<1>1. s \in SlotSet /\ s.jiffies = j /\ s.timer = t
  BY DEF Slot, SlotSet
<1>2. T \in Nat /\ Now \in {T, T + 1}
  BY DEF IInv, Types, Now
<1>3. Fits(j)
  <2>1. Levels - 1 + 1 = 4 /\ Width(4) \in Nat
    BY Widths DEF Levels
  <2>2. QED BY <1>2, <2>1 DEF Fits, FitsAt
<1>. HIDE DEF s
<1>4. /\ AddAll(vecs_, {s}) \in Vecs
      /\ Filed(Now, AddAll(vecs_, {s}), left)
      /\ SlotsOf(AddAll(vecs_, {s})) =
            SlotsOf(vecs_) \cup {r \in {s} : Fits(r.jiffies)}
  <2>1. \A r \in {s} : Now <= r.jiffies
    BY <1>1
  <2>2. QED BY <1>1, <1>2, <2>1, AddFiles DEF IInv, Types
<1>5. {r \in {s} : Fits(r.jiffies)} = {s}
  BY <1>1, <1>3
<1>6. SlotsOf(vecs_') = SlotsOf(vecs_) \cup {s}
  BY <1>4, <1>5 DEF s
<1>7. Fresh(SlotsOf(vecs_))' = Fresh(SlotsOf(vecs_) \cup {s})
  BY <1>6 DEF Fresh, SlotsOf
<1>8. QED BY <1>4, <1>6, <1>7 DEF Fresh, s

LEMMA ReaddStep ==
    ASSUME IInv, NEW s \in timers, Readd(s)
    PROVE  IInv'
<1>. DEFINE t == s.timer
            j == timeout[t] + timer_jiffies_ - 1
            r == Slot(t, j)
<1>1. /\ t \in Timers /\ s \in SlotSet /\ timeout[t] \in Nat
      /\ 1 <= timeout[t] /\ timeout[t] < Width(4)
  BY Timeout DEF IInv, Types, SlotSet
<1>2. /\ timer_jiffies_ \in Nat \ {0} /\ jiffies \in Nat /\ Width(4) \in Nat
      /\ Now = timer_jiffies_ /\ timer_jiffies_ = jiffies + 1
      /\ upc = "serve" /\ mutex_ = None
  BY Widths DEF IInv, Types, Ticks, Readd, Now
<1>3. /\ j \in Nat \ {0} /\ Now <= j /\ j < timer_jiffies_ + Width(4)
      /\ j = timeout[t] + jiffies
  BY <1>1, <1>2
<1>4. /\ vecs_' = AddAll(vecs_, {r}) /\ timers' = timers \ {s}
      /\ age' = [age EXCEPT ![t] = 0]
      /\ UNCHANGED <<timer_jiffies_, mbStop, jiffies, upc, mutex_, rpc,
                     rjiffies, timeout, alive, starts, left, early>>
  BY DEF Readd, regVars
<1>5. r.timer = t /\ r.jiffies = j
  BY DEF Slot
<1>. HIDE DEF j
<1>6. /\ vecs_' \in Vecs /\ Filed(Now, vecs_', left)
      /\ SlotsOf(vecs_') = SlotsOf(vecs_) \cup {r}
      /\ Fresh(SlotsOf(vecs_))' = Fresh(SlotsOf(vecs_)) \cup Fresh({r})
  BY <1>1, <1>3, <1>4, AddOne
<1>. HIDE DEF r
<1>7. /\ Fresh(timers)' = Fresh(timers) \ {s}
      /\ SlotsOf(vecs_)' = SlotsOf(vecs_')
      /\ Fresh({r}) = IF t \in left THEN {} ELSE {r}
  BY <1>4, <1>5 DEF Fresh, SlotsOf
<1>8. Types'
  BY <1>4, <1>6 DEF IInv, Types
<1>9. Ticks'
  BY <1>4 DEF IInv, Ticks
<1>10. Filed(Now, vecs_, left)'
  BY <1>4, <1>6 DEF Now
<1>11. Registering'
  <2>1. \A q \in Timers : rpc[q] # "add"
    BY <1>2, WheelAssumption DEF IInv, Registering
  <2>2. QED BY <1>2, <1>4, <2>1 DEF IInv, Registering
<1>12. OneSlot'
  <2>1. \A q \in SlotsOf(vecs_') \cup timers' : rpc[q.timer] = "done"
    BY <1>4, <1>5, <1>6 DEF IInv, OneSlot
  <2>2. \A q \in Fresh(SlotsOf(vecs_)) : q.timer # t
    BY DEF IInv, OneSlot
  <2>3. \A q, p \in Fresh(SlotsOf(vecs_))' : q.timer = p.timer => q = p
    BY <1>5, <1>6, <1>7, <2>2 DEF IInv, OneSlot
  <2>4. \A q \in timers' : t \in left \/ q.timer # t
    BY <1>4 DEF IInv, OneSlot, Fresh
  <2>5. \A q \in Fresh(SlotsOf(vecs_))', p \in timers' : q.timer # p.timer
    BY <1>4, <1>5, <1>6, <1>7, <2>4 DEF IInv, OneSlot
  <2>6. QED BY <1>4, <1>7, <2>1, <2>3, <2>5 DEF IInv, OneSlot
<1>13. OnTime'
  <2>1. ASSUME NEW q \in Fresh(SlotsOf(vecs_))'
        PROVE  timeout[q.timer] + jiffies <= age'[q.timer] + q.jiffies
    <3>1. CASE q \in Fresh(SlotsOf(vecs_))
      <4>1. q.timer \in Timers /\ q.timer # t
        BY <3>1, Due DEF IInv, OneSlot, Fresh, SlotSet
      <4>2. age'[q.timer] = age[q.timer]
        BY <1>4, <4>1 DEF IInv, Types
      <4>3. QED BY <3>1, <4>2 DEF IInv, OnTime
    <3>2. CASE q = r
      <4>1. age'[t] = 0
        BY <1>1, <1>4 DEF IInv, Types
      <4>2. QED BY <1>1, <1>2, <1>3, <1>5, <3>2, <4>1
    <3>3. QED BY <1>6, <1>7, <2>1, <3>1, <3>2
  <2>2. QED BY <1>4, <1>7, <2>1 DEF IInv, OnTime
<1>14. NeverEarly'
  BY <1>4 DEF IInv, NeverEarly
<1>15. QED BY <1>8, <1>9, <1>10, <1>11, <1>12, <1>13, <1>14 DEF IInv

LEMMA DeleteStep ==
    ASSUME IInv, NEW s \in timers, Delete(s)
    PROVE  IInv'
<1>1. /\ timers' = timers \ {s}
      /\ UNCHANGED <<timer_jiffies_, vecs_, mbStop, jiffies, upc, mutex_, rpc,
                     rjiffies, timeout, alive, starts, left, age, early>>
  BY DEF Delete, regVars, histVars
<1>2. Types'
  BY <1>1 DEF IInv, Types
<1>3. Ticks' /\ Filed(Now, vecs_, left)' /\ Registering' /\ NeverEarly'
  BY <1>1 DEF IInv, Ticks, Filed, Registering, NeverEarly, Now
<1>4. OneSlot' /\ OnTime'
  BY <1>1 DEF IInv, OneSlot, OnTime, Fresh, SlotsOf
<1>5. QED BY <1>2, <1>3, <1>4 DEF IInv

LEMMA DestroyAllStep == ASSUME IInv, DestroyAllTimers PROVE IInv'
<1>1. /\ vecs_' = [p \in Positions |-> {}] /\ upc = "off" /\ upc' = "gone"
      /\ mutex_ = None
      /\ UNCHANGED <<timer_jiffies_, timers, mbStop, jiffies, mutex_, rpc,
                     rjiffies, timeout, alive, starts, left, age, early>>
  BY DEF DestroyAllTimers, regVars, histVars
<1>2. SlotsOf(vecs_)' = {} /\ vecs_' \in Vecs /\ timers' = {}
  BY <1>1 DEF SlotsOf, Vecs, IInv, Ticks
<1>3. Types'
  BY <1>1, <1>2 DEF IInv, Types
<1>4. Ticks' /\ NeverEarly'
  BY <1>1 DEF IInv, Ticks, NeverEarly
<1>5. Filed(Now, vecs_, left)'
  BY <1>1, Place0 DEF Filed
<1>6. Registering'
  BY <1>1, WheelAssumption DEF IInv, Registering
<1>7. OneSlot' /\ OnTime'
  BY <1>2 DEF OneSlot, OnTime, Fresh
<1>8. QED BY <1>3, <1>4, <1>5, <1>6, <1>7 DEF IInv

LEMMA RegisterReadStep ==
    ASSUME IInv, NEW t \in Timers, RegisterRead(t)
    PROVE  IInv'
<1>1. /\ upc # "gone" /\ rpc[t] = "no" /\ mutex_ = None /\ mutex_' = t
      /\ rjiffies' = [rjiffies EXCEPT ![t] = timeout[t] + timer_jiffies_]
      /\ rpc' = [rpc EXCEPT ![t] = "add"]
      /\ UNCHANGED <<timer_jiffies_, vecs_, timers, mbStop, jiffies, upc,
                     timeout, alive, starts, left, age, early>>
  BY DEF RegisterRead, wheelVars, histVars
<1>2. /\ timer_jiffies_ \in Nat /\ jiffies \in Nat /\ age[t] \in Nat
      /\ timeout[t] \in Nat /\ 1 <= timeout[t] /\ jiffies <= timer_jiffies_
      /\ Now <= timer_jiffies_ + 1
  BY Timeout DEF IInv, Types, Ticks, Now
<1>3. Types'
  BY <1>1, <1>2 DEF IInv, Types
<1>4. Ticks' /\ Filed(Now, vecs_, left)' /\ NeverEarly' /\ Now' = Now
  BY <1>1 DEF IInv, Ticks, Filed, NeverEarly, Now
<1>5. Registering'
  <2>1. SUFFICES ASSUME NEW q \in Timers
                 PROVE  /\ rpc'[q] = "add" <=> mutex_' = q
                        /\ rpc'[q] = "add" =>
                            /\ upc # "gone"
                            /\ Now <= rjiffies'[q]
                            /\ rjiffies'[q] <= timer_jiffies_ + timeout[q]
                            /\ timeout[q] + jiffies <= age[q] + rjiffies'[q]
    BY <1>1, <1>4 DEF Registering
  <2>2. CASE q = t
    <3>1. rpc'[q] = "add" /\ rjiffies'[q] = timeout[t] + timer_jiffies_
      BY <1>1, <2>2 DEF IInv, Types
    <3>2. Now \in Nat
      BY NowType DEF IInv
    <3>3. QED BY <1>1, <1>2, <2>2, <3>1, <3>2
  <2>3. CASE q # t
    <3>1. rpc'[q] = rpc[q] /\ rpc[q] # "add"
      BY <1>1, <2>3, WheelAssumption DEF IInv, Types, Registering
    <3>2. QED BY <1>1, <2>3, <3>1
  <2>4. QED BY <2>2, <2>3
<1>6. OneSlot'
  <2>1. \A s \in SlotsOf(vecs_) \cup timers : s.timer \in Timers /\ s.timer # t
    <3>1. \A s \in SlotsOf(vecs_) \cup timers : s.timer \in Timers
      BY Due DEF IInv, Types, SlotSet
    <3>2. QED BY <1>1, <3>1 DEF IInv, OneSlot
  <2>2. \A s \in SlotsOf(vecs_) \cup timers : rpc'[s.timer] = "done"
    BY <1>1, <2>1 DEF IInv, OneSlot, Types
  <2>3. QED BY <1>1, <2>2 DEF IInv, OneSlot, SlotsOf, Fresh
<1>7. OnTime'
  BY <1>1 DEF IInv, OnTime, SlotsOf, Fresh
<1>8. QED BY <1>3, <1>4, <1>5, <1>6, <1>7 DEF IInv

LEMMA RegisterAddStep ==
    ASSUME IInv, NEW t \in Timers, RegisterAdd(t)
    PROVE  IInv'
<1>. DEFINE j == rjiffies[t]
            r == Slot(t, j)
<1>1. /\ rpc[t] = "add" /\ mutex_' = None
      /\ vecs_' = AddAll(vecs_, {r})
      /\ rjiffies' = [rjiffies EXCEPT ![t] = 0]
      /\ rpc' = [rpc EXCEPT ![t] = "done"]
      /\ UNCHANGED <<timer_jiffies_, timers, mbStop, jiffies, upc,
                     timeout, alive, starts, left, age, early>>
  BY DEF RegisterAdd, histVars
<1>2. /\ mutex_ = t /\ Now <= j /\ j <= timer_jiffies_ + timeout[t]
      /\ timeout[t] + jiffies <= age[t] + j
  BY <1>1 DEF IInv, Registering
<1>3. /\ timer_jiffies_ \in Nat /\ timeout[t] \in Nat /\ timeout[t] < Width(4)
      /\ Now \in Nat \ {0} /\ j \in Nat /\ Width(4) \in Nat
  BY Timeout, NowType, Widths DEF IInv, Types
<1>4. j \in Nat \ {0} /\ j < timer_jiffies_ + Width(4)
  BY <1>2, <1>3
<1>5. r.timer = t /\ r.jiffies = j
  BY DEF Slot
<1>6. /\ vecs_' \in Vecs /\ Filed(Now, vecs_', left)
      /\ SlotsOf(vecs_') = SlotsOf(vecs_) \cup {r}
      /\ Fresh(SlotsOf(vecs_))' = Fresh(SlotsOf(vecs_)) \cup Fresh({r})
  BY <1>1, <1>2, <1>4, AddOne
<1>. HIDE DEF r, j
<1>7. /\ Fresh(timers)' = Fresh(timers) /\ SlotsOf(vecs_)' = SlotsOf(vecs_')
      /\ Fresh({r}) = IF t \in left THEN {} ELSE {r}
      /\ Now' = Now
  BY <1>1, <1>5 DEF Fresh, SlotsOf, Now
<1>8. Types'
  BY <1>1, <1>6 DEF IInv, Types
<1>9. Ticks' /\ Filed(Now, vecs_, left)' /\ NeverEarly'
  BY <1>1, <1>6, <1>7 DEF IInv, Ticks, NeverEarly
<1>10. Registering'
  <2>1. \A q \in Timers : q # t => rpc[q] # "add"
    BY <1>2 DEF IInv, Registering
  <2>2. \A q \in Timers : rpc'[q] # "add"
    BY <1>1, <2>1 DEF IInv, Types
  <2>3. QED BY <1>1, <2>2, WheelAssumption DEF Registering
<1>11. \A s \in SlotsOf(vecs_) \cup timers : s.timer \in Timers /\ s.timer # t
  <2>1. \A s \in SlotsOf(vecs_) \cup timers : s.timer \in Timers
    BY Due DEF IInv, Types, SlotSet
  <2>2. QED BY <1>1, <2>1 DEF IInv, OneSlot
<1>12. OneSlot'
  <2>1. \A s \in SlotsOf(vecs_) \cup timers : rpc'[s.timer] = "done"
    BY <1>1, <1>11 DEF IInv, OneSlot, Types
  <2>2. rpc'[t] = "done"
    BY <1>1 DEF IInv, Types
  <2>3. \A s \in SlotsOf(vecs_') \cup timers' : rpc'[s.timer] = "done"
    BY <1>1, <1>5, <1>6, <2>1, <2>2
  <2>4. \A q, p \in Fresh(SlotsOf(vecs_))' : q.timer = p.timer => q = p
    BY <1>5, <1>6, <1>7, <1>11 DEF IInv, OneSlot, Fresh
  <2>5. \A q \in Fresh(SlotsOf(vecs_))', p \in timers' : q.timer # p.timer
    BY <1>1, <1>5, <1>6, <1>7, <1>11 DEF IInv, OneSlot
  <2>6. QED BY <1>7, <2>3, <2>4, <2>5 DEF IInv, OneSlot
<1>13. OnTime'
  BY <1>1, <1>2, <1>5, <1>6, <1>7 DEF IInv, OnTime
<1>14. QED BY <1>8, <1>9, <1>10, <1>12, <1>13 DEF IInv

LEMMA DestroyStep ==
    ASSUME IInv, NEW t \in Timers, Destroy(t)
    PROVE  IInv'
<1>1. alive' \subseteq Timers
  BY DEF IInv, Types, Destroy
<1>2. UNCHANGED <<timer_jiffies_, vecs_, timers, mbStop, jiffies, upc, mutex_,
                  rpc, rjiffies, timeout, starts, left, age, early>>
  BY DEF Destroy, wheelVars, regVars, histVars
<1>3. Types'
  BY <1>1, <1>2 DEF IInv, Types
<1>4. Ticks' /\ Filed(Now, vecs_, left)' /\ Registering' /\ NeverEarly'
  BY <1>2 DEF IInv, Ticks, Filed, Registering, NeverEarly, Now
<1>5. OneSlot' /\ OnTime'
  BY <1>2 DEF IInv, OneSlot, OnTime, Fresh, SlotsOf
<1>6. QED BY <1>3, <1>4, <1>5 DEF IInv

LEMMA StutterStep == ASSUME IInv, UNCHANGED vars PROVE IInv'
BY DEF IInv, Types, Ticks, Filed, Registering, OneSlot, OnTime, NeverEarly,
       Now, SlotsOf, Fresh, vars, wheelVars, regVars, histVars

LEMMA StepHolds == IInv /\ [Next]_vars => IInv'
<1>. SUFFICES ASSUME IInv, [Next]_vars PROVE IInv'
  OBVIOUS
<1>1. CASE Start \/ Stop \/ Tick \/ Exit
  BY <1>1, StartStep, StopStep, TickStep, ExitStep
<1>2. CASE Take \/ Advance \/ Loop \/ DestroyAllTimers
  BY <1>2, TakeStep, AdvanceStep, LoopStep, DestroyAllStep
<1>3. CASE \E s \in timers : Readd(s) \/ Delete(s)
  BY <1>3, ReaddStep, DeleteStep
<1>4. CASE \E t \in Timers : RegisterRead(t) \/ RegisterAdd(t) \/ Destroy(t)
  BY <1>4, RegisterReadStep, RegisterAddStep, DestroyStep
<1>5. CASE UNCHANGED vars
  BY <1>5, StutterStep
<1>6. QED BY <1>1, <1>2, <1>3, <1>4, <1>5 DEF Next

\* The slots are filed where they have their turn in time, registrations have
\* deadlines to come, and each timer of the run has one slot, due when its
\* timeout is over.
THEOREM Invariance == Spec => []IInv
BY InitHolds, StepHolds, PTL DEF Spec

(***************************************************************************)
(* What it gives                                                           *)
(***************************************************************************)

\* "Call the f after timeout", TimerMaster.hpp: no timer rings before
\* Timeout() ticks went by since Register or since it last rang, but one that
\* a Start found in the wheel.
THEOREM NoTimerIsEarly == Spec => []NeverEarly
<1>1. IInv => NeverEarly
  BY DEF IInv
<1>2. QED BY Invariance, <1>1, PTL

\* The CHECK of Update and that of InternalAddTimer, from wherever it is
\* called, hold when no run before a restart was longer than a list of the
\* last level spans: 2^24 seconds in the code.  Within it the slots that are
\* left over still fit when their list is cascaded.
THEOREM ChecksNeverFail == MaxBefore < Width(3) => (Spec => []WheelInv)
<1>. SUFFICES ASSUME MaxBefore < Width(3) PROVE Spec => []WheelInv
  OBVIOUS
<1>1. ASSUME IInv PROVE WheelInv
  <2>1. TypeOK
    <3>1. \A s \in SlotsOf(vecs_) \cup timers : s \in SlotSet
      BY <1>1, Due DEF IInv, Types
    <3>2. \A s \in Slots \cup timers :
            s.timer \in Timers /\ s.jiffies \in Nat \ {0}
      BY <3>1 DEF SlotSet, Slots, SlotsOf
    <3>3. timer_jiffies_ \in Nat
      BY <1>1 DEF IInv, Types
    <3>4. QED BY <1>1, <3>2, <3>3 DEF IInv, Types, TypeOK
  <2>2. /\ timer_jiffies_ \in Nat \ {0} /\ jiffies \in Nat
        /\ Width(4) \in Nat /\ Levels - 1 + 1 = 4
    BY <1>1, Widths DEF IInv, Types, Levels
  <2>3. upc = "loop" => jiffies + 1 >= timer_jiffies_
    BY <1>1, <2>2 DEF IInv, Ticks
  <2>4. ASSUME NEW t \in Timers, rpc[t] = "add" PROVE Fits(rjiffies[t])
    <3>1. /\ Now <= rjiffies[t] /\ rjiffies[t] <= timer_jiffies_ + timeout[t]
          /\ rjiffies[t] \in Nat /\ timer_jiffies_ <= Now
      BY <1>1, <2>2, <2>4 DEF IInv, Registering, Types, Now
    <3>2. timeout[t] \in Nat /\ timeout[t] < Width(4) /\ Now \in Nat
      BY <1>1, Timeout, NowType DEF IInv
    <3>3. QED BY <2>2, <3>1, <3>2 DEF Fits, FitsAt
  <2>5. ASSUME NEW s \in timers
        PROVE  Fits(timeout[s.timer] + timer_jiffies_ - 1)
    <3>1. s.timer \in Timers
      BY <1>1 DEF IInv, Types, SlotSet
    <3>2. /\ timeout[s.timer] \in Nat /\ 1 <= timeout[s.timer]
          /\ timeout[s.timer] < Width(4)
      BY <1>1, <3>1, Timeout DEF IInv
    <3>3. QED BY <2>2, <3>2 DEF Fits, FitsAt
  <2>6. ASSUME upc = "update", NEW p \in Cascaded, NEW s \in vecs_[p]
        PROVE  Fits(s.jiffies)
    <3>1. PICK n \in 1 .. 3 : p = <<n, INDEX(n)>> /\ Round(n)
      BY DEF Cascaded, Round, Levels
    <3>2. n \in 0 .. 3 /\ INDEX(n) \in 0 .. kTVSize - 1 /\ Now = timer_jiffies_
      BY <2>2, <2>6, IndexType DEF Now
    <3>3. s \in SlotSet
      BY <1>1, <2>6, <3>1, <3>2, Place0 DEF IInv, Types, Vecs
    <3>4. /\ InTime(timer_jiffies_, n, INDEX(n), s)
          /\ Near(timer_jiffies_, n, s) \/ Turn(n, s) <= Width(4)
      BY <1>1, <2>6, <3>1, <3>2 DEF IInv, Filed
    <3>5. QED BY <2>2, <3>1, <3>2, <3>3, <3>4, CascadeFits
  <2>7. ChecksHold
    BY <2>3, <2>4, <2>5, <2>6 DEF ChecksHold
  <2>8. QED BY <2>1, <2>7 DEF WheelInv
<1>2. QED BY Invariance, <1>1, PTL

(***************************************************************************)
(* The wheel is an alarm clock                                             *)
(***************************************************************************)

LEMMA ClockInit == Init => Clock!Init
<1>. SUFFICES ASSUME Init PROVE Clock!Init
  OBVIOUS
<1>1. Types
  BY InitHolds DEF IInv
<1>2. timeout \in [Timers -> Nat \ {0}]
  <2>1. \A t \in Timers : timeout[t] \in Nat \ {0}
    BY <1>1, Timeout
  <2>2. QED BY <1>1, <2>1 DEF Types
<1>3. Fresh(Slots) = {} /\ Fresh(timers) = {}
  BY DEF Init, Slots, Fresh
<1>4. QED BY <1>2, <1>3 DEF Init, Clock!Init

\* What the clock sees of a step that leaves wheel and timers alone.
LEMMA ClockStutter ==
    ASSUME Now' = Now, UNCHANGED <<vecs_, timers, timeout, alive, left>>,
           (upc' = "gone") = (upc = "gone")
    PROVE  UNCHANGED Clock!vars
BY DEF Clock!vars, Now, Slots, Fresh

LEMMA ClockTake == ASSUME IInv, Take PROVE Clock!Tick
<1>. DEFINE T == timer_jiffies_
            F == Fresh(Slots)
<1>1. Slots = SlotsOf(vecs_) /\ Slots' = SlotsOf(vecs_')
  BY DEF Slots, SlotsOf
<1>2. /\ upc = "update" /\ upc' = "inc" /\ T' = T /\ left' = left
      /\ timers = {} /\ timeout' = timeout /\ alive' = alive
  BY DEF IInv, Ticks, Take
<1>3. Fresh(Slots)' = Fresh(Slots') /\ Fresh(timers)' = Fresh(timers')
  BY <1>2 DEF Fresh
<1>4. /\ Fresh(Slots)' = {s \in F : s.jiffies # T}
      /\ Fresh(timers)' = {s \in F : s.jiffies = T /\ s.timer \in alive}
  BY <1>1, <1>3, Taken
<1>5. Fresh(timers) = {}
  BY <1>2 DEF Fresh
<1>. HIDE DEF F
<1>6. /\ {s \in F : s.jiffies = T /\ s.timer \in alive} =
            {a \in {b \in F : b.jiffies = T} : a.timer \in alive}
      /\ {s \in F : s.jiffies # T} = F \ {b \in F : b.jiffies = T}
  OBVIOUS
<1>7. QED BY <1>2, <1>4, <1>5, <1>6 DEF Clock!Tick, F

LEMMA ClockReadd ==
    ASSUME IInv, NEW s \in timers, Readd(s)
    PROVE  [Clock!Next]_(Clock!vars)
<1>. DEFINE t == s.timer
            j == timeout[t] + timer_jiffies_ - 1
            r == Slot(t, j)
<1>1. /\ t \in Timers /\ timeout[t] \in Nat
      /\ 1 <= timeout[t] /\ timeout[t] < Width(4)
  BY Timeout DEF IInv, Types, SlotSet
<1>2. /\ timer_jiffies_ \in Nat \ {0} /\ jiffies \in Nat /\ Width(4) \in Nat
      /\ Now = timer_jiffies_ /\ timer_jiffies_ = jiffies + 1
      /\ upc = "serve"
  BY Widths DEF IInv, Types, Ticks, Readd, Now
<1>3. /\ j \in Nat \ {0} /\ Now <= j /\ j < timer_jiffies_ + Width(4)
      /\ j = jiffies + timeout[t]
  BY <1>1, <1>2
<1>4. /\ vecs_' = AddAll(vecs_, {r}) /\ timers' = timers \ {s}
      /\ UNCHANGED <<timer_jiffies_, upc, timeout, alive, left>>
  BY DEF Readd
<1>. HIDE DEF j
<1>5. Fresh(Slots)' = Fresh(Slots) \cup Fresh({r})
  BY <1>1, <1>3, <1>4, AddOne DEF Slots, SlotsOf
<1>6. /\ Fresh(timers)' = Fresh(timers) \ {s}
      /\ Fresh({r}) = IF t \in left THEN {} ELSE {r}
  BY <1>4 DEF Fresh, Slot
<1>7. CASE t \in left
  <2>1. Fresh(timers)' = Fresh(timers)
    BY <1>6, <1>7 DEF Fresh
  <2>2. Fresh(Slots)' = Fresh(Slots)
    BY <1>5, <1>6, <1>7
  <2>3. QED BY <1>4, <2>1, <2>2 DEF Clock!vars
<1>8. CASE t \notin left
  <2>1. s \in Fresh(timers)
    BY <1>8 DEF Fresh
  <2>2. s.jiffies = jiffies
    BY <2>1 DEF IInv, OnTime
  <2>3. r = [timer |-> s.timer, jiffies |-> s.jiffies + timeout[s.timer]]
    BY <1>3, <2>2 DEF Slot
  <2>4. Clock!Rearm(s)
    BY <1>4, <1>5, <1>6, <1>8, <2>1, <2>3 DEF Clock!Rearm
  <2>5. QED BY <2>1, <2>4 DEF Clock!Next
<1>9. QED BY <1>7, <1>8

LEMMA ClockDelete ==
    ASSUME IInv, NEW s \in timers, Delete(s)
    PROVE  [Clock!Next]_(Clock!vars)
<1>1. /\ timers' = timers \ {s}
      /\ UNCHANGED <<timer_jiffies_, upc, vecs_, timeout, alive, left>>
  BY DEF Delete, histVars
<1>2. /\ Fresh(timers)' = Fresh(timers) \ {s}
      /\ Fresh(Slots)' = Fresh(Slots)
  BY <1>1 DEF Fresh, Slots
<1>3. CASE s \in Fresh(timers)
  <2>1. Clock!Drop(s)
    BY <1>1, <1>2, <1>3 DEF Clock!Drop
  <2>2. QED BY <1>3, <2>1 DEF Clock!Next
<1>4. CASE s \notin Fresh(timers)
  BY <1>1, <1>2, <1>4 DEF Clock!vars
<1>5. QED BY <1>3, <1>4

LEMMA ClockAdd ==
    ASSUME IInv, NEW t \in Timers, RegisterAdd(t)
    PROVE  [Clock!Next]_(Clock!vars)
<1>. DEFINE j == rjiffies[t]
            r == Slot(t, j)
<1>1. /\ rpc[t] = "add" /\ vecs_' = AddAll(vecs_, {r})
      /\ UNCHANGED <<timer_jiffies_, timers, upc, timeout, alive, left>>
  BY DEF RegisterAdd, histVars
<1>2. /\ Now <= j /\ j <= timer_jiffies_ + timeout[t] /\ upc # "gone"
  BY <1>1 DEF IInv, Registering
<1>3. /\ timer_jiffies_ \in Nat /\ timeout[t] \in Nat /\ timeout[t] < Width(4)
      /\ Now \in Nat \ {0} /\ j \in Nat /\ Width(4) \in Nat
      /\ timer_jiffies_ <= Now
  BY Timeout, NowType, Widths DEF IInv, Types, Now
<1>4. /\ j \in Nat \ {0} /\ j < timer_jiffies_ + Width(4)
      /\ j \in Now .. Now + timeout[t]
  BY <1>2, <1>3
<1>. HIDE DEF j
<1>5. Fresh(Slots)' = Fresh(Slots) \cup Fresh({r})
  BY <1>1, <1>2, <1>4, AddOne DEF Slots, SlotsOf, j
<1>6. /\ Fresh(timers)' = Fresh(timers)
      /\ Fresh({r}) = IF t \in left THEN {} ELSE {r}
  BY <1>1 DEF Fresh, Slot
<1>7. CASE t \in left
  BY <1>1, <1>5, <1>6, <1>7 DEF Clock!vars
<1>8. CASE t \notin left
  <2>1. Fresh(Slots)' = Fresh(Slots) \cup {[timer |-> t, jiffies |-> j]}
    BY <1>5, <1>6, <1>8 DEF Slot
  <2>2. Clock!Arm(t)
    BY <1>1, <1>2, <1>4, <1>6, <2>1 DEF Clock!Arm, Now
  <2>3. QED BY <2>2 DEF Clock!Next
<1>9. QED BY <1>7, <1>8

LEMMA ClockStart == ASSUME IInv, Start PROVE [Clock!Next]_(Clock!vars)
<1>1. /\ upc = "off" /\ timers = {} /\ upc' = "loop" /\ timer_jiffies_' = 1
      /\ jiffies' = 0
      /\ UNCHANGED <<vecs_, timers, timeout, alive>>
  BY DEF IInv, Ticks, Start
<1>2. Fresh(timers) = {} /\ Fresh(timers)' = {}
  BY <1>1 DEF Fresh
<1>3. CASE starts = 0
  <2>1. timer_jiffies_ = 1 /\ left = {} /\ left' = {}
    BY <1>3 DEF IInv, Ticks, Start
  <2>2. Now' = Now
    BY <1>1, <2>1 DEF Now
  <2>3. QED BY <1>1, <2>1, <2>2, ClockStutter
<1>4. CASE starts # 0
  <2>1. Fresh(Slots)' = {}
    BY <1>4 DEF Start, Slots, Fresh
  <2>2. Clock!Restart
    BY <1>1, <1>2, <2>1 DEF Clock!Restart
  <2>3. QED BY <2>2 DEF Clock!Next
<1>5. QED BY <1>3, <1>4

LEMMA ClockGiveUp == ASSUME IInv, DestroyAllTimers PROVE Clock!GiveUp
<1>1. /\ upc = "off" /\ upc' = "gone" /\ timers = {}
      /\ UNCHANGED <<timer_jiffies_, timers, timeout, alive, left>>
      /\ vecs_' = [p \in Positions |-> {}]
  BY DEF IInv, Ticks, DestroyAllTimers, histVars
<1>2. Fresh(timers) = {} /\ Fresh(timers)' = {} /\ Fresh(Slots)' = {}
  BY <1>1 DEF Fresh, Slots
<1>3. QED BY <1>1, <1>2 DEF Clock!GiveUp

LEMMA ClockDie ==
    ASSUME NEW t \in Timers, Destroy(t)
    PROVE  Clock!Die(t)
<1>1. /\ alive' = alive \ {t}
      /\ UNCHANGED <<timer_jiffies_, upc, vecs_, timers, timeout, left>>
  BY DEF Destroy, wheelVars, histVars
<1>2. Fresh(timers)' = Fresh(timers) /\ Fresh(Slots)' = Fresh(Slots)
  BY <1>1 DEF Fresh, Slots
<1>3. QED BY <1>1, <1>2 DEF Clock!Die

LEMMA ClockNext == IInv /\ [Next]_vars => [Clock!Next]_(Clock!vars)
<1>. SUFFICES ASSUME IInv, [Next]_vars PROVE [Clock!Next]_(Clock!vars)
  OBVIOUS
<1>1. CASE Start
  BY <1>1, ClockStart
<1>2. CASE Stop \/ Exit \/ UNCHANGED vars
  <2>1. /\ Now' = Now /\ UNCHANGED <<vecs_, timers, timeout, alive, left>>
        /\ (upc' = "gone") = (upc = "gone")
    BY <1>2 DEF Stop, Exit, vars, wheelVars, histVars, Now
  <2>2. QED BY <2>1, ClockStutter
<1>3. CASE Tick \/ Loop
  <2>1. /\ Now' = Now /\ UNCHANGED <<vecs_, timers, timeout, alive, left>>
        /\ (upc' = "gone") = (upc = "gone")
    BY <1>3 DEF Tick, Loop, wheelVars, histVars, Now
  <2>2. QED BY <2>1, ClockStutter
<1>4. CASE Advance
  <2>1. /\ Now' = Now /\ UNCHANGED <<vecs_, timers, timeout, alive, left>>
        /\ (upc' = "gone") = (upc = "gone")
    BY <1>4 DEF Advance, histVars, Now
  <2>2. QED BY <2>1, ClockStutter
<1>5. CASE Take
  BY <1>5, ClockTake DEF Clock!Next
<1>6. CASE DestroyAllTimers
  BY <1>6, ClockGiveUp DEF Clock!Next
<1>7. CASE \E s \in timers : Readd(s) \/ Delete(s)
  BY <1>7, ClockReadd, ClockDelete
<1>8. ASSUME NEW t \in Timers, RegisterRead(t)
      PROVE  [Clock!Next]_(Clock!vars)
  <2>1. /\ Now' = Now /\ UNCHANGED <<vecs_, timers, timeout, alive, left>>
        /\ (upc' = "gone") = (upc = "gone")
    BY <1>8 DEF RegisterRead, wheelVars, histVars, Now
  <2>2. QED BY <2>1, ClockStutter
<1>9. ASSUME NEW t \in Timers, Destroy(t)
      PROVE  [Clock!Next]_(Clock!vars)
  BY <1>9, ClockDie DEF Clock!Next
<1>10. CASE \E t \in Timers : RegisterRead(t) \/ RegisterAdd(t) \/ Destroy(t)
  BY <1>8, <1>9, <1>10, ClockAdd
<1>11. QED BY <1>1, <1>2, <1>3, <1>4, <1>5, <1>6, <1>7, <1>10 DEF Next

\* Update, the cascades and registrations that straddle a tick together are a
\* plain alarm clock: every timer of the run rings at the tick it was set
\* for, none is lost or rings twice, and periods do not drift.
THEOREM WheelIsClock == Spec => ClockSpec
BY Invariance, ClockInit, ClockNext, PTL DEF Spec, ClockSpec, Clock!Spec

=============================================================================
