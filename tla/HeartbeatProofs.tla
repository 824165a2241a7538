--------------------------- MODULE HeartbeatProofs ---------------------------
(***************************************************************************)
(* Proofs about Heartbeat, for any number of timers, any intervals and     *)
(* policies.                                                               *)
(***************************************************************************)
EXTENDS Heartbeat, FiniteSetTheorems, TLAPS

-----------------------------------------------------------------------------
(* The arithmetic of the interval.                                         *)

LEMMA MinOfTwo ==
  ASSUME NEW a \in Int, NEW b \in Int
  PROVE  Min({a, b}) = IF a <= b THEN a ELSE b
<1>1. CASE a <= b
  <2>1. \A x \in {a, b} : (\A y \in {a, b} : x <= y) <=> x = a
    BY <1>1
  <2> QED BY <1>1, <2>1 DEF Min
<1>2. CASE ~(a <= b)
  <2>1. \A x \in {a, b} : (\A y \in {a, b} : x <= y) <=> x = b
    BY <1>2
  <2> QED BY <1>2, <2>1 DEF Min
<1> QED BY <1>1, <1>2

LEMMA MaxOfTwo ==
  ASSUME NEW a \in Int, NEW b \in Int
  PROVE  Max({a, b}) = IF a >= b THEN a ELSE b
<1>1. CASE a >= b
  <2>1. \A x \in {a, b} : (\A y \in {a, b} : x >= y) <=> x = a
    BY <1>1
  <2> QED BY <1>1, <2>1 DEF Max
<1>2. CASE ~(a >= b)
  <2>1. \A x \in {a, b} : (\A y \in {a, b} : x >= y) <=> x = b
    BY <1>2
  <2> QED BY <1>2, <2>1 DEF Max
<1> QED BY <1>1, <1>2

\* Whatever a caller or a policy asks for, the clamp returns a delay that
\* setInterval honours, and never less than the floor.
LEMMA ClampRange ==
  ASSUME NEW ms \in Int \cup {NotANumber}
  PROVE  /\ ClampHeartbeatIntervalMs(ms) \in MinInterval..MaxInterval
         /\ SetIntervalDelay(ClampHeartbeatIntervalMs(ms))
              = ClampHeartbeatIntervalMs(ms)
         /\ ms \in Int /\ ms >= MinInterval => ClampHeartbeatIntervalMs(ms) <= ms
         /\ ms \in Int /\ ms < MinInterval =>
              ClampHeartbeatIntervalMs(ms) = MinInterval
<1> USE ConstantsAssumption
<1>1. CASE ms = NotANumber
  BY <1>1 DEF ClampHeartbeatIntervalMs, SetIntervalDelay
<1>2. CASE ms \in Int
  <2> DEFINE floored == Max({MinInterval, ms})
  <2>1. floored = IF MinInterval >= ms THEN MinInterval ELSE ms
    BY <1>2, MaxOfTwo
  <2>2. floored \in Int
    BY <1>2, <2>1
  <2> HIDE DEF floored
  <2>3. Min({MaxInterval, floored})
          = IF MaxInterval <= floored THEN MaxInterval ELSE floored
    BY <2>2, MinOfTwo
  <2>4. ClampHeartbeatIntervalMs(ms) = Min({MaxInterval, floored})
    BY <1>2 DEF ClampHeartbeatIntervalMs, floored
  <2> QED BY <1>2, <2>1, <2>3, <2>4 DEF SetIntervalDelay
<1> QED BY <1>1, <1>2

LEMMA DivisionFits ==
  ASSUME NEW n \in Nat, NEW d \in Nat \ {0}
  PROVE  n \div d \in Nat /\ d * (n \div d) <= n
<1> DEFINE q == n \div d
           r == n % d
<1>1. q \in Int /\ r \in 0..(d - 1) /\ n = d * q + r
  OBVIOUS
<1>2. q \in Nat
  OBVIOUS
<1> QED BY <1>1, <1>2

\* A policy's interval: a number, of which the default divisor's worth fits
\* the window whenever the floor does.
LEMMA PolicyIntervalFits ==
  ASSUME NEW q \in Requests, q.via = "policy"
  PROVE  /\ PolicyIntervalMs(q) \in Nat
         /\ EffectiveHeartbeatWindowMs(q.duration) \in Int
         /\ q.divisor \in {0, DefaultDivisor}
            /\ EffectiveHeartbeatWindowMs(q.duration) > 0
            => DefaultDivisor * PolicyIntervalMs(q)
                 <= EffectiveHeartbeatWindowMs(q.duration)
<1> USE ConstantsAssumption
<1> DEFINE window == EffectiveHeartbeatWindowMs(q.duration)
           base == IF window > 0 THEN window ELSE DefaultWindow
<1>1. q.duration \in Int \cup {NoDuration} /\ q.divisor \in Int
  BY DEF Request
<1>2. window \in Int
  BY <1>1 DEF EffectiveHeartbeatWindowMs
<1>3. Divisor(q) \in Nat \ {0}
  BY <1>1 DEF Divisor
<1>4. q.divisor \in {0, DefaultDivisor} => Divisor(q) = DefaultDivisor
  BY <1>1 DEF Divisor
<1>5. PolicyIntervalMs(q) = base \div Divisor(q)
  BY DEF PolicyIntervalMs
<1>6. base \in Nat /\ (window > 0 => base = window)
  BY <1>2
<1> HIDE DEF window, base
<1>7. /\ base \div Divisor(q) \in Nat
      /\ Divisor(q) * (base \div Divisor(q)) <= base
  BY <1>3, <1>6, DivisionFits
<1> QED BY <1>2, <1>4, <1>5, <1>6, <1>7 DEF window

-----------------------------------------------------------------------------
(* The life cycle of the timers.                                           *)

LifeInv ==
  /\ pc \in [Starts -> {"idle", "reading", "started", "failed"}]
  /\ ended \subseteq {s \in Starts : pc[s] = "started"}
  /\ RunsUntilStopped

LEMMA InitLife == Init => LifeInv
BY DEF Init, LifeInv, RunsUntilStopped

LEMMA NextLife ==
  ASSUME LifeInv, [Next]_vars
  PROVE  LifeInv'
<1> USE DEF LifeInv, RunsUntilStopped, loopVars, serverVars, ghostVars
<1>1. ASSUME NEW s \in Starts, StartHeartbeat(s)
      PROVE  LifeInv'
  BY <1>1 DEF StartHeartbeat, Arm
<1>2. ASSUME NEW s \in Starts, StartHeartbeatFromPolicy(s)
      PROVE  LifeInv'
  BY <1>2 DEF StartHeartbeatFromPolicy
<1>3. ASSUME NEW s \in Starts, PolicyRead(s)
      PROVE  LifeInv'
  BY <1>3 DEF PolicyRead, Arm
<1>4. ASSUME NEW s \in Starts, PolicyFails(s)
      PROVE  LifeInv'
  BY <1>4 DEF PolicyFails
<1>5. ASSUME NEW s \in Starts, Tick(s)
      PROVE  LifeInv'
  BY <1>5 DEF Tick
<1>6. ASSUME NEW s \in Starts, Stop(s)
      PROVE  LifeInv'
  BY <1>6 DEF Stop
<1>7. ASSUME NEW p \in flying, Land(p) \/ Lose(p)
      PROVE  LifeInv'
  BY <1>7 DEF Land, Lose
<1>8. CASE Dispose
  BY <1>8 DEF Dispose
<1>9. CASE Advance
  BY <1>9 DEF Advance
<1>10. CASE UNCHANGED vars
  BY <1>10 DEF vars
<1> QED
  BY <1>1, <1>2, <1>3, <1>4, <1>5, <1>6, <1>7, <1>8, <1>9, <1>10 DEF Next

\* At every instant the timers that run are those that dispose can reach:
\* the ones started and not yet stopped.
THEOREM TimersRunUntilStopped == Spec => []RunsUntilStopped
<1>1. LifeInv => RunsUntilStopped
  BY DEF LifeInv
<1> QED BY <1>1, InitLife, NextLife, PTL DEF Spec

-----------------------------------------------------------------------------
(* Lost pings.                                                             *)

\* What the proofs assume of the constants: three pings to a window.
ThreePings == DefaultDivisor >= 3

\* A timer whose pings have landed or are lost when its next tick comes.
Prompt(s) == MaxLatency < interval[s]

Window(s) == EffectiveHeartbeatWindowMs(args[s].duration)

\* The policies whose window the interval floor does not spoil.
Sized(s) ==
  /\ args[s].via = "policy"
  /\ args[s].divisor \in {0, DefaultDivisor}
  /\ Window(s) >= DefaultDivisor * MinInterval

\* Pings sent since the one that landed last, and not yet landed.
Missing(s) ==
  lost[s] + (IF \E p \in flying : p.start = s THEN 1 ELSE 0)

TypeInv ==
  /\ args \in [Starts -> Requests]
  /\ interval \in [Starts -> Nat]
  /\ due \in [Starts -> Int]
  /\ beat \in [Starts -> Int]
  /\ lost \in [Starts -> Nat]
  /\ flying \subseteq [start: Starts, age: Nat]
  /\ \A s \in Starts : pc[s] = "reading" => args[s].via = "policy"

TimerInv ==
  \A s \in running :
    /\ interval[s] >= MinInterval
    /\ 0 <= due[s] /\ due[s] <= interval[s]
    /\ Sized(s) => Window(s) \in Int /\ 3 * interval[s] <= Window(s)

\* A ping in flight is the one its timer sent last, where pings are prompt.
FlightInv ==
  \A p \in flying :
    /\ pc[p.start] = "started"
    /\ p.age <= MaxLatency
    /\ p.start \in running /\ Prompt(p.start) =>
         p.age = interval[p.start] - due[p.start]

\* The age of the last heartbeat is that of the pings missing since.
AgeInv ==
  \A s \in running : Prompt(s) /\ beat[s] # NoBeat =>
    /\ Missing(s) = 0 => beat[s] <= interval[s] - due[s]
    /\ Missing(s) = 1 => beat[s] <= 2 * interval[s] - due[s]
    /\ Missing(s) = 2 => beat[s] <= 3 * interval[s] - due[s]
    /\ Missing(s) = 3 => beat[s] <= 4 * interval[s] - due[s]

\* A timer that does not run yet has had no heartbeat.
FreshInv ==
  \A s \in Starts : pc[s] # "started" => beat[s] = NoBeat

BeatInv ==
  /\ LifeInv /\ TypeInv /\ TimerInv /\ FlightInv /\ AgeInv /\ FreshInv

LEMMA InitBeat == Init => BeatInv
<1> SUFFICES ASSUME Init
             PROVE  BeatInv
  OBVIOUS
<1>1. LifeInv
  BY InitLife
<1>2. TypeInv
  <2>1. (CHOOSE q \in Requests : TRUE) \in Requests
    BY ConstantsAssumption
  <2> QED BY <2>1, ConstantsAssumption DEF Init, TypeInv, NoBeat
<1>3. TimerInv /\ FlightInv /\ AgeInv /\ FreshInv
  BY DEF Init, TimerInv, FlightInv, AgeInv, FreshInv
<1> QED BY <1>1, <1>2, <1>3 DEF BeatInv

\* Arming a timer sizes it and starts it with a whole interval to go.
LEMMA ArmBeat ==
  ASSUME ThreePings, BeatInv, NEW s \in Starts, NEW ms, Arm(s, ms),
         pc[s] \in {"idle", "reading"},
         args' \in [Starts -> Requests],
         \A t \in Starts : t # s => args'[t] = args[t],
         ms \in Int \cup {NotANumber},
         args'[s].via = "policy" => ms = PolicyIntervalMs(args'[s]),
         UNCHANGED <<flying, serverVars, ghostVars>>
  PROVE  BeatInv'
<1> USE ConstantsAssumption DEF BeatInv
<1> DEFINE delay == SetIntervalDelay(ClampHeartbeatIntervalMs(ms))
<1>1. /\ interval' = [interval EXCEPT ![s] = delay]
      /\ due' = [due EXCEPT ![s] = delay]
      /\ running' = running \cup {s}
      /\ timers' = timers \cup {s}
      /\ pc' = [pc EXCEPT ![s] = "started"]
      /\ UNCHANGED <<flying, beat, lost, ended, covered>>
  BY DEF Arm, serverVars, ghostVars
<1>2. /\ delay \in MinInterval..MaxInterval
      /\ ms \in Int /\ ms >= MinInterval => delay <= ms
      /\ ms \in Int /\ ms < MinInterval => delay = MinInterval
  BY ClampRange
<1>3. s \notin running /\ beat[s] = NoBeat
  BY DEF LifeInv, RunsUntilStopped, FreshInv
<1>4. LifeInv'
  BY <1>1 DEF LifeInv, RunsUntilStopped
<1>5. Sized(s)' => Window(s)' \in Int /\ 3 * delay <= Window(s)'
  <2> SUFFICES ASSUME Sized(s)'
               PROVE  Window(s)' \in Int /\ 3 * delay <= Window(s)'
    OBVIOUS
  <2>1. /\ args'[s] \in Requests /\ args'[s].via = "policy"
        /\ ms = PolicyIntervalMs(args'[s])
        /\ Window(s)' = EffectiveHeartbeatWindowMs(args'[s].duration)
        /\ args'[s].divisor \in {0, DefaultDivisor}
        /\ Window(s)' >= DefaultDivisor * MinInterval
    BY DEF Sized, Window
  <2>2. /\ ms \in Nat /\ Window(s)' \in Int
        /\ (Window(s)' > 0 => DefaultDivisor * ms <= Window(s)')
    BY <2>1, PolicyIntervalFits
  <2>3. /\ DefaultDivisor * MinInterval \in Nat
        /\ DefaultDivisor * MinInterval > 0
    <3>1. \A a, b \in Nat \ {0} : a * b \in Nat /\ a * b > 0
      OBVIOUS
    <3> QED BY <3>1
  <2>4. \A a \in Nat : DefaultDivisor * a >= 3 * a
    <3> SUFFICES ASSUME NEW a \in Nat
                 PROVE  DefaultDivisor * a >= 3 * a
      OBVIOUS
    <3>1. DefaultDivisor - 3 \in Nat
      BY DEF ThreePings
    <3>2. (DefaultDivisor - 3) * a >= 0
      BY <3>1
    <3>3. DefaultDivisor * a = 3 * a + (DefaultDivisor - 3) * a
      OBVIOUS
    <3> QED BY <3>2, <3>3
  <2>5. 3 * MinInterval <= Window(s)' /\ 3 * ms <= Window(s)'
    <3>1. DefaultDivisor * MinInterval >= 3 * MinInterval
      BY <2>4
    <3>2. DefaultDivisor * ms >= 3 * ms
      BY <2>2, <2>4
    <3> QED BY <2>1, <2>2, <2>3, <3>1, <3>2
  <2> HIDE DEF delay
  <2> QED BY <1>2, <2>2, <2>5
<1>6. TypeInv'
  BY <1>1, <1>2 DEF TypeInv, LifeInv
<1>7. TimerInv'
  <2> HIDE DEF delay
  <2> SUFFICES ASSUME NEW t \in running'
               PROVE  (/\ interval[t] >= MinInterval
                       /\ 0 <= due[t] /\ due[t] <= interval[t]
                       /\ Sized(t) => Window(t) \in Int /\ 3 * interval[t] <= Window(t))'
    BY DEF TimerInv
  <2>1. CASE t = s
    BY <1>1, <1>2, <1>5, <2>1 DEF TypeInv
  <2>2. CASE t # s
    <3>1. t \in running /\ t \in Starts
      BY <1>1, <2>2 DEF LifeInv, RunsUntilStopped
    <3>2. args'[t] = args[t] /\ interval'[t] = interval[t] /\ due'[t] = due[t]
      BY <1>1, <2>2, <3>1 DEF TypeInv
    <3> QED BY <3>1, <3>2 DEF TimerInv, Sized, Window
  <2> QED BY <2>1, <2>2
<1>8. FlightInv'
  <2> HIDE DEF delay
  <2> SUFFICES ASSUME NEW p \in flying
               PROVE  (/\ pc[p.start] = "started"
                       /\ p.age <= MaxLatency
                       /\ p.start \in running /\ Prompt(p.start) =>
                            p.age = interval[p.start] - due[p.start])'
    BY <1>1 DEF FlightInv
  <2>1. p.start \in Starts /\ p.start # s
    BY DEF FlightInv, TypeInv
  <2> QED BY <1>1, <2>1 DEF FlightInv, Prompt, TypeInv, LifeInv
<1>9. AgeInv'
  <2> HIDE DEF delay
  <2> SUFFICES ASSUME NEW t \in running', t # s, Prompt(t)', beat'[t] # NoBeat
               PROVE  (/\ Missing(t) = 0 => beat[t] <= interval[t] - due[t]
                       /\ Missing(t) = 1 => beat[t] <= 2 * interval[t] - due[t]
                       /\ Missing(t) = 2 => beat[t] <= 3 * interval[t] - due[t]
                       /\ Missing(t) = 3 => beat[t] <= 4 * interval[t] - due[t])'
    BY <1>1, <1>3 DEF AgeInv
  <2>1. t \in running /\ t \in Starts
    BY <1>1 DEF LifeInv, RunsUntilStopped
  <2>2. /\ interval'[t] = interval[t] /\ due'[t] = due[t]
        /\ Missing(t)' = Missing(t) /\ Prompt(t)
    BY <1>1, <2>1 DEF TypeInv, Missing, Prompt
  <2> QED BY <1>1, <2>1, <2>2 DEF AgeInv
<1>10. FreshInv'
  BY <1>1 DEF FreshInv, LifeInv
<1> QED BY <1>4, <1>6, <1>7, <1>8, <1>9, <1>10

\* Where pings are prompt a timer has at most one in flight, and none when
\* a tick is due.
LEMMA OneFlight ==
  ASSUME ThreePings, BeatInv
  PROVE  /\ \A p, q \in flying :
              p.start = q.start /\ p.start \in running /\ Prompt(p.start) => p = q
         /\ \A p \in flying :
              p.start \in running /\ Prompt(p.start) => due[p.start] # 0
<1> USE ConstantsAssumption DEF BeatInv
<1>1. \A p \in flying : p \in [start: Starts, age: Nat]
  BY DEF TypeInv
<1>2. \A p \in flying : p.start \in running /\ Prompt(p.start) =>
        p.age = interval[p.start] - due[p.start]
  BY DEF FlightInv
<1>3. ASSUME NEW p \in flying, NEW q \in flying,
             p.start = q.start, p.start \in running, Prompt(p.start)
      PROVE  p = q
  BY <1>1, <1>2, <1>3
<1>4. ASSUME NEW p \in flying, p.start \in running, Prompt(p.start)
      PROVE  due[p.start] # 0
  <2>1. p.age <= MaxLatency /\ MaxLatency < interval[p.start]
    BY <1>4 DEF FlightInv, Prompt
  <2>2. p.age = interval[p.start] - due[p.start] /\ interval[p.start] \in Nat
    BY <1>1, <1>2, <1>4 DEF TypeInv
  <2> QED BY <2>1, <2>2
<1> QED BY <1>3, <1>4

LEMMA TickBeat ==
  ASSUME ThreePings, BeatInv, NEW s \in Starts, Tick(s)
  PROVE  BeatInv'
<1> USE ConstantsAssumption DEF BeatInv
<1> DEFINE new == [start |-> s, age |-> 0]
<1>1. /\ s \in running /\ due[s] = 0
      /\ due' = [due EXCEPT ![s] = interval[s]]
      /\ flying' = flying \cup {new}
      /\ UNCHANGED <<pc, args, interval, running, timers, beat, lost, ended>>
  BY DEF Tick, serverVars, ghostVars
<1>2. pc[s] = "started" /\ running \subseteq Starts
  BY <1>1 DEF LifeInv, RunsUntilStopped
<1>3. Prompt(s) => \A p \in flying : p.start # s
  BY <1>1, OneFlight
<1>4. LifeInv' /\ FreshInv'
  BY <1>1 DEF LifeInv, RunsUntilStopped, FreshInv
<1>5. TypeInv'
  BY <1>1 DEF TypeInv
<1>6. TimerInv'
  <2> SUFFICES ASSUME NEW t \in running
               PROVE  /\ interval[t] >= MinInterval
                      /\ 0 <= due'[t] /\ due'[t] <= interval[t]
                      /\ Sized(t) => Window(t) \in Int /\ 3 * interval[t] <= Window(t)
    BY <1>1 DEF TimerInv, Sized, Window
  <2> QED BY <1>1, <1>2 DEF TimerInv, TypeInv
<1>7. FlightInv'
  <2> SUFFICES ASSUME NEW p \in flying'
               PROVE  /\ pc[p.start] = "started"
                      /\ p.age <= MaxLatency
                      /\ p.start \in running /\ Prompt(p.start) =>
                           p.age = interval[p.start] - due'[p.start]
    BY <1>1 DEF FlightInv, Prompt
  <2>1. CASE p = new
    BY <1>1, <1>2, <2>1 DEF TypeInv
  <2>2. CASE p \in flying
    BY <1>1, <1>3, <2>2 DEF FlightInv, TypeInv
  <2> QED BY <1>1, <2>1, <2>2
<1>8. AgeInv'
  <2> SUFFICES ASSUME NEW t \in running, Prompt(t), beat[t] # NoBeat
               PROVE  /\ Missing(t)' = 0 => beat[t] <= interval[t] - due'[t]
                      /\ Missing(t)' = 1 => beat[t] <= 2 * interval[t] - due'[t]
                      /\ Missing(t)' = 2 => beat[t] <= 3 * interval[t] - due'[t]
                      /\ Missing(t)' = 3 => beat[t] <= 4 * interval[t] - due'[t]
    BY <1>1 DEF AgeInv, Prompt
  <2>0. t \in Starts /\ interval[t] \in Nat /\ due[t] \in Int /\ beat[t] \in Int
        /\ lost[t] \in Nat
    BY <1>2 DEF TypeInv
  <2>1. CASE t = s
    <3>1. Missing(s) = lost[s] /\ Missing(s)' = lost[s] + 1
      <4>1. new \in flying' /\ new.start = s
        BY <1>1
      <4>2. lost[s] \in Nat /\ lost' = lost
        BY <1>1, <2>0, <2>1
      <4>3. (\E p \in flying' : p.start = s) /\ ~(\E p \in flying : p.start = s)
        BY <1>3, <2>1, <4>1
      <4> HIDE DEF new
      <4> QED BY <4>2, <4>3 DEF Missing
    <3>2. due'[s] = interval[s] /\ due[s] = 0
      BY <1>1 DEF TypeInv
    <3>3. /\ lost[s] = 0 => beat[s] <= interval[s]
          /\ lost[s] = 1 => beat[s] <= 2 * interval[s]
          /\ lost[s] = 2 => beat[s] <= 3 * interval[s]
      BY <2>0, <2>1, <3>1, <3>2 DEF AgeInv
    <3>4. Missing(t)' = lost[s] + 1
      BY <2>1, <3>1
    <3>5. /\ interval[s] \in Nat /\ beat[s] \in Int /\ lost[s] \in Nat
      BY <2>0, <2>1
    <3> HIDE DEF new
    <3> QED BY <2>1, <3>2, <3>3, <3>4, <3>5
  <2>2. CASE t # s
    <3>1. Missing(t)' = Missing(t) /\ due'[t] = due[t]
      BY <1>1, <2>0, <2>2 DEF Missing, TypeInv
    <3> QED BY <1>1, <3>1 DEF AgeInv
  <2> QED BY <2>1, <2>2
<1> QED BY <1>4, <1>5, <1>6, <1>7, <1>8

\* A prompt ping that lands or is lost leaves its timer with none in flight.
LEMMA PingEnds ==
  ASSUME ThreePings, BeatInv, NEW p \in flying, Land(p) \/ Lose(p)
  PROVE  BeatInv'
<1> USE ConstantsAssumption DEF BeatInv
<1> DEFINE s == p.start
<1>1. /\ flying' = flying \ {p}
      /\ UNCHANGED <<pc, args, interval, due, running, timers, ended>>
  BY DEF Land, Lose, loopVars, ghostVars
<1>2. s \in Starts /\ pc[s] = "started" /\ running \subseteq Starts
  BY DEF TypeInv, FlightInv, LifeInv, RunsUntilStopped
<1>3. \/ /\ beat' = [beat EXCEPT ![s] = 0]
         /\ lost' = [lost EXCEPT ![s] = 0]
      \/ /\ beat' = beat
         /\ lost' = [lost EXCEPT ![s] = lost[s] + 1]
  BY DEF Land, Lose
<1>4. LifeInv'
  BY <1>1 DEF LifeInv, RunsUntilStopped
<1>5. TypeInv'
  BY <1>1, <1>2, <1>3 DEF TypeInv
<1>6. TimerInv' /\ FlightInv'
  BY <1>1 DEF TimerInv, FlightInv, Prompt, Sized, Window
<1>7. FreshInv'
  BY <1>1, <1>2, <1>3 DEF FreshInv, TypeInv
<1>8. AgeInv'
  <2> SUFFICES ASSUME NEW t \in running, Prompt(t), beat'[t] # NoBeat
               PROVE  /\ Missing(t)' = 0 => beat'[t] <= interval[t] - due[t]
                      /\ Missing(t)' = 1 => beat'[t] <= 2 * interval[t] - due[t]
                      /\ Missing(t)' = 2 => beat'[t] <= 3 * interval[t] - due[t]
                      /\ Missing(t)' = 3 => beat'[t] <= 4 * interval[t] - due[t]
    BY <1>1 DEF AgeInv, Prompt
  <2>0. /\ t \in Starts /\ interval[t] \in Nat /\ due[t] \in Int
        /\ beat[t] \in Int /\ lost[t] \in Nat
        /\ due[t] <= interval[t]
    BY <1>2 DEF TypeInv, TimerInv
  <2>1. CASE t = s
    <3>1. \A q \in flying' : q.start # s
      BY <1>1, <2>1, OneFlight
    <3>2. Missing(s)' = lost'[s] /\ Missing(s) = lost[s] + 1
      <4>1. lost[s] \in Nat /\ lost'[s] \in Nat
        BY <1>2, <1>5 DEF TypeInv
      <4>2. ~(\E q \in flying' : q.start = s) /\ (\E q \in flying : q.start = s)
        BY <3>1
      <4> HIDE DEF s
      <4> QED BY <4>1, <4>2 DEF Missing
    <3>3. CASE beat'[s] = 0 /\ lost'[s] = 0
      BY <2>0, <2>1, <3>2, <3>3
    <3>4. CASE beat'[s] = beat[s] /\ lost'[s] = lost[s] + 1
      BY <2>0, <2>1, <3>2, <3>4 DEF AgeInv
    <3> QED BY <1>2, <1>3, <3>3, <3>4 DEF TypeInv
  <2>2. CASE t # s
    <3>1. /\ Missing(t)' = Missing(t) /\ beat'[t] = beat[t]
      <4>1. lost'[t] = lost[t] /\ beat'[t] = beat[t]
        BY <1>3, <2>0, <2>2 DEF TypeInv
      <4>2. (\E q \in flying' : q.start = t) <=> (\E q \in flying : q.start = t)
        BY <1>1, <2>2
      <4> QED BY <4>1, <4>2 DEF Missing
    <3> QED BY <1>1, <3>1 DEF AgeInv
  <2> QED BY <2>1, <2>2
<1> QED BY <1>4, <1>5, <1>6, <1>7, <1>8

LEMMA AdvanceBeat ==
  ASSUME ThreePings, BeatInv, Advance
  PROVE  BeatInv'
<1> USE ConstantsAssumption DEF BeatInv
<1>1. PICK d \in Waits :
        /\ d > 0
        /\ \A w \in Waits : d <= w
        /\ due' = [s \in Starts |-> IF s \in running THEN due[s] - d ELSE due[s]]
        /\ flying' = {[p EXCEPT !.age = @ + d] : p \in flying}
        /\ beat' = [s \in Starts |-> IF beat[s] = NoBeat THEN NoBeat
                                     ELSE Min({beat[s] + d, MaxAge})]
        /\ UNCHANGED <<pc, args, interval, running, timers, lost, ended, covered>>
  BY DEF Advance, ghostVars
<1>2. running \subseteq Starts
  BY DEF LifeInv, RunsUntilStopped
<1>3. d \in Nat \ {0}
  <2>1. \A s \in running : due[s] \in Int
    BY <1>2 DEF TypeInv
  <2>2. \A p \in flying : MaxLatency - p.age \in Int
    BY DEF TypeInv
  <2> QED BY <1>1, <2>1, <2>2 DEF Waits
<1>4. /\ \A s \in running : d <= due[s]
      /\ \A p \in flying : d <= MaxLatency - p.age
  BY <1>1 DEF Waits
<1>5. \A s \in Starts : beat[s] # NoBeat =>
        beat'[s] \in Int /\ beat'[s] <= beat[s] + d
  <2> SUFFICES ASSUME NEW s \in Starts, beat[s] # NoBeat
               PROVE  beat'[s] \in Int /\ beat'[s] <= beat[s] + d
    OBVIOUS
  <2>1. beat[s] + d \in Int
    BY <1>3 DEF TypeInv
  <2>2. Min({beat[s] + d, MaxAge}) =
          IF beat[s] + d <= MaxAge THEN beat[s] + d ELSE MaxAge
    BY <2>1, MinOfTwo
  <2>3. beat'[s] = Min({beat[s] + d, MaxAge})
    BY <1>1
  <2> QED BY <2>1, <2>2, <2>3
<1>6. \A s \in Starts : beat[s] = NoBeat => beat'[s] = NoBeat
  BY <1>1
<1>7. LifeInv' /\ FreshInv'
  BY <1>1, <1>6 DEF LifeInv, RunsUntilStopped, FreshInv
<1>8. \A q \in flying' : \E p \in flying :
        /\ q = [p EXCEPT !.age = @ + d]
        /\ q.start = p.start /\ q.age = p.age + d /\ q.age \in Nat
  BY <1>1, <1>3 DEF TypeInv
<1>9. TypeInv'
  <2>1. flying' \subseteq [start: Starts, age: Nat]
    BY <1>1, <1>3 DEF TypeInv
  <2>2. due' \in [Starts -> Int]
    BY <1>1, <1>3 DEF TypeInv
  <2>3. beat' \in [Starts -> Int]
    <3>1. \A s \in Starts : beat'[s] \in Int
      BY <1>5, <1>6 DEF NoBeat
    <3> QED BY <1>1, <3>1
  <2> QED BY <1>1, <2>1, <2>2, <2>3 DEF TypeInv
<1>10. \A s \in running : due'[s] = due[s] - d /\ s \in Starts
                          /\ due[s] \in Int /\ interval[s] \in Nat
  BY <1>1, <1>2 DEF TypeInv
<1>11. TimerInv'
  <2> SUFFICES ASSUME NEW s \in running
               PROVE  /\ interval[s] >= MinInterval
                      /\ 0 <= due'[s] /\ due'[s] <= interval[s]
                      /\ Sized(s) => Window(s) \in Int /\ 3 * interval[s] <= Window(s)
    BY <1>1 DEF TimerInv, Sized, Window
  <2> QED BY <1>3, <1>4, <1>10 DEF TimerInv
<1>12. FlightInv'
  <2> SUFFICES ASSUME NEW q \in flying'
               PROVE  /\ pc[q.start] = "started"
                      /\ q.age <= MaxLatency
                      /\ q.start \in running /\ Prompt(q.start) =>
                           q.age = interval[q.start] - due'[q.start]
    BY <1>1 DEF FlightInv, Prompt
  <2>1. PICK p \in flying : q.start = p.start /\ q.age = p.age + d
    BY <1>8
  <2>2. p.age \in Nat
    BY DEF TypeInv
  <2> QED BY <1>3, <1>4, <1>10, <2>1, <2>2 DEF FlightInv
<1>13. AgeInv'
  <2> SUFFICES ASSUME NEW s \in running, Prompt(s), beat'[s] # NoBeat
               PROVE  /\ Missing(s)' = 0 => beat'[s] <= interval[s] - due'[s]
                      /\ Missing(s)' = 1 => beat'[s] <= 2 * interval[s] - due'[s]
                      /\ Missing(s)' = 2 => beat'[s] <= 3 * interval[s] - due'[s]
                      /\ Missing(s)' = 3 => beat'[s] <= 4 * interval[s] - due'[s]
    BY <1>1 DEF AgeInv, Prompt
  <2>1. beat[s] # NoBeat /\ beat'[s] <= beat[s] + d /\ beat[s] \in Int
        /\ beat'[s] \in Int
    BY <1>5, <1>6, <1>10 DEF TypeInv
  <2>2. Missing(s)' = Missing(s)
    <3>1. (\E q \in flying' : q.start = s) <=> (\E p \in flying : p.start = s)
      <4>1. \A p \in flying : [p EXCEPT !.age = @ + d] \in flying'
                              /\ [p EXCEPT !.age = @ + d].start = p.start
        <5> SUFFICES ASSUME NEW p \in flying
                     PROVE  /\ [p EXCEPT !.age = @ + d] \in flying'
                            /\ [p EXCEPT !.age = @ + d].start = p.start
          OBVIOUS
        <5>1. p \in [start: Starts, age: Nat]
          BY DEF TypeInv
        <5>2. [p EXCEPT !.age = @ + d] \in flying'
          BY <1>1
        <5> QED BY <5>1, <5>2
      <4>2. ASSUME NEW q \in flying', q.start = s
            PROVE  \E p \in flying : p.start = s
        BY <1>8, <4>2
      <4>3. ASSUME NEW p \in flying, p.start = s
            PROVE  \E q \in flying' : q.start = s
        BY <4>1, <4>3
      <4> QED BY <4>2, <4>3
    <3> QED BY <1>1, <3>1 DEF Missing
  <2> QED BY <1>3, <1>10, <2>1, <2>2 DEF AgeInv
<1> QED BY <1>7, <1>9, <1>11, <1>12, <1>13

LEMMA NextBeat ==
  ASSUME ThreePings, BeatInv, [Next]_vars
  PROVE  BeatInv'
<1> USE ConstantsAssumption DEF BeatInv
<1>0. LifeInv'
  BY NextLife
<1>1. ASSUME NEW s \in Starts, StartHeartbeat(s)
      PROVE  BeatInv'
  <2>1. PICK q \in Requests :
          /\ q.via = "interval"
          /\ args' = [args EXCEPT ![s] = q]
          /\ Arm(s, q.ms)
    BY <1>1 DEF StartHeartbeat
  <2>2. q.ms \in Int \cup {NotANumber}
    BY <2>1 DEF Request
  <2> QED BY <1>1, <2>1, <2>2, ArmBeat DEF StartHeartbeat, TypeInv
<1>2. ASSUME NEW s \in Starts, StartHeartbeatFromPolicy(s)
      PROVE  BeatInv'
  <2>1. PICK q \in Requests :
          q.via = "policy" /\ args' = [args EXCEPT ![s] = q]
    BY <1>2 DEF StartHeartbeatFromPolicy
  <2>2. /\ pc[s] = "idle" /\ pc' = [pc EXCEPT ![s] = "reading"]
        /\ UNCHANGED <<interval, due, running, timers, flying, beat, lost, ended>>
    BY <1>2 DEF StartHeartbeatFromPolicy, loopVars, serverVars, ghostVars
  <2>3. \A t \in running : t # s /\ t \in Starts /\ args'[t] = args[t]
    BY <2>1, <2>2 DEF LifeInv, RunsUntilStopped, TypeInv
  <2>4. TypeInv'
    BY <2>1, <2>2 DEF TypeInv, LifeInv
  <2>5. TimerInv'
    BY <2>2, <2>3 DEF TimerInv, Sized, Window
  <2>6. FlightInv'
    BY <2>2 DEF FlightInv, Prompt, TypeInv, LifeInv
  <2>7. AgeInv' /\ FreshInv'
    BY <2>2 DEF AgeInv, Prompt, Missing, FreshInv, LifeInv
  <2> QED BY <1>0, <2>4, <2>5, <2>6, <2>7
<1>3. ASSUME NEW s \in Starts, PolicyRead(s)
      PROVE  BeatInv'
  <2>1. args[s].via = "policy" /\ args[s] \in Requests
    BY <1>3 DEF PolicyRead, TypeInv
  <2>2. PolicyIntervalMs(args[s]) \in Int
    BY <2>1, PolicyIntervalFits
  <2> QED BY <1>3, <2>1, <2>2, ArmBeat DEF PolicyRead, TypeInv
<1>4. ASSUME NEW s \in Starts, PolicyFails(s)
      PROVE  BeatInv'
  BY <1>0, <1>4
  DEF PolicyFails, loopVars, serverVars, ghostVars, TypeInv, TimerInv, FlightInv,
      AgeInv, Prompt, FreshInv, Missing, Sized, Window, LifeInv
<1>5. ASSUME NEW s \in Starts, Stop(s)
      PROVE  BeatInv'
  BY <1>0, <1>5
  DEF Stop, serverVars, TypeInv, TimerInv, FlightInv, AgeInv, Prompt, FreshInv, Missing,
      Sized, Window
<1>6. CASE Dispose
  BY <1>0, <1>6
  DEF Dispose, serverVars, TypeInv, TimerInv, FlightInv, AgeInv, Prompt,
      FreshInv, Missing, Sized, Window
<1>7. CASE UNCHANGED vars
  BY <1>0, <1>7
  DEF vars, TypeInv, TimerInv, FlightInv, AgeInv, Prompt, FreshInv, Missing, Sized, Window
<1> QED
  BY <1>1, <1>2, <1>3, <1>4, <1>5, <1>6, <1>7, TickBeat, PingEnds, AdvanceBeat
  DEF Next

\* With at least three pings to a window, each landing or lost before the
\* next one leaves, no single lost ping makes a machine cullable: for every
\* policy whose window the interval floor does not spoil.
THEOREM OneLossIsTolerated ==
  ASSUME ThreePings
  PROVE  Spec => []OneLossTolerated
<1>1. ASSUME BeatInv, NEW s \in Starts, KeptFromPolicy(s), lost[s] <= 1,
             beat[s] # NoBeat
      PROVE  ~(beat[s] > Window(s))
  <2> USE ConstantsAssumption
  <2>1. s \in running /\ Sized(s) /\ Prompt(s)
    BY <1>1 DEF KeptFromPolicy, Sized, Window, Prompt
  <2>2. /\ interval[s] \in Nat /\ due[s] \in Int /\ beat[s] \in Int
        /\ lost[s] \in {0, 1}
    BY <1>1 DEF BeatInv, TypeInv
  <2>3. /\ Window(s) \in Int /\ 3 * interval[s] <= Window(s)
        /\ interval[s] >= MinInterval
        /\ 0 <= due[s] /\ due[s] <= interval[s]
    BY <1>1, <2>1 DEF BeatInv, TimerInv
  <2>4. /\ Missing(s) = 0 => beat[s] <= interval[s] - due[s]
        /\ Missing(s) = 1 => beat[s] <= 2 * interval[s] - due[s]
        /\ Missing(s) = 2 => beat[s] <= 3 * interval[s] - due[s]
    BY <1>1, <2>1 DEF BeatInv, AgeInv
  <2>5. Missing(s) \in {0, 1, 2}
    BY <2>2 DEF Missing
  <2> QED BY <2>2, <2>3, <2>4, <2>5
<1>2. BeatInv => OneLossTolerated
  BY <1>1 DEF OneLossTolerated, Cullable, Window
<1>3. BeatInv /\ [Next]_vars => BeatInv'
  BY NextBeat
<1> QED BY <1>2, <1>3, InitBeat, PTL DEF Spec

-----------------------------------------------------------------------------
\* The platform's default window is whole seconds, as every policy's is.
WholeSeconds == DefaultWindow % 1000 = 0

LEMMA ReadsInSeconds ==
  ASSUME NEW window \in Int, window % 1000 = 0,
         NEW age \in Int, age <= window + 999
  PROVE  age \div 1000 <= window \div 1000
OBVIOUS

\* After two lost pings in a row the third one, which leaves when a window
\* has passed, still finds the machine reported alive: its age is truncated
\* to whole seconds, and the ping lands within one.
THEOREM TwoLossesStillReadAlive ==
  ASSUME ThreePings, WholeSeconds
  PROVE  Spec => []TwoLossesReadAlive
<1>1. ASSUME BeatInv, NEW s \in Starts, KeptFromPolicy(s), MaxLatency < 1000,
             lost[s] <= 2, beat[s] # NoBeat
      PROVE  ~(beat[s] \div 1000 > Window(s) \div 1000)
  <2> USE ConstantsAssumption
  <2>1. s \in running /\ Sized(s) /\ Prompt(s)
    BY <1>1 DEF KeptFromPolicy, Sized, Window, Prompt
  <2>2. /\ interval[s] \in Nat /\ due[s] \in Int /\ beat[s] \in Int
        /\ lost[s] \in {0, 1, 2} /\ args[s] \in Requests
    BY <1>1 DEF BeatInv, TypeInv
  <2>3. /\ Window(s) \in Int /\ 3 * interval[s] <= Window(s)
        /\ interval[s] >= MinInterval
        /\ 0 <= due[s] /\ due[s] <= interval[s]
    BY <1>1, <2>1 DEF BeatInv, TimerInv
  <2>4. /\ Missing(s) = 0 => beat[s] <= interval[s] - due[s]
        /\ Missing(s) = 1 => beat[s] <= 2 * interval[s] - due[s]
        /\ Missing(s) = 2 => beat[s] <= 3 * interval[s] - due[s]
        /\ Missing(s) = 3 => beat[s] <= 4 * interval[s] - due[s]
    BY <1>1, <2>1 DEF BeatInv, AgeInv
  <2>5. beat[s] <= Window(s) + 999
    <3>1. CASE \E p \in flying : p.start = s
      <4>1. PICK p \in flying : p.start = s
        BY <3>1
      <4>2. interval[s] - due[s] <= 999
        <5>1. p.age <= MaxLatency /\ p.age = interval[s] - due[s]
          BY <1>1, <2>1, <4>1 DEF BeatInv, FlightInv
        <5> QED BY <1>1, <2>2, <5>1
      <4>3. Missing(s) \in {1, 2, 3}
        BY <2>2, <3>1 DEF Missing
      <4> QED BY <2>2, <2>3, <2>4, <4>2, <4>3
    <3>2. CASE ~\E p \in flying : p.start = s
      <4>1. Missing(s) \in {0, 1, 2}
        BY <2>2, <3>2 DEF Missing
      <4> QED BY <2>2, <2>3, <2>4, <4>1
    <3> QED BY <3>1, <3>2
  <2>6. Window(s) % 1000 = 0
    <3>1. args[s].duration \in Int \cup {NoDuration}
      BY <2>1, <2>2 DEF Request, Sized
    <3>2. CASE args[s].duration = NoDuration
      BY <3>2 DEF Window, EffectiveHeartbeatWindowMs, WholeSeconds
    <3>3. CASE args[s].duration \in Int
      <4> DEFINE n == args[s].duration
      <4>1. Window(s) = n * 1000
        BY <3>3 DEF Window, EffectiveHeartbeatWindowMs
      <4>2. n \in Int
        BY <3>3
      <4> HIDE DEF n
      <4> QED BY <4>1, <4>2
    <3> QED BY <3>1, <3>2, <3>3
  <2> QED BY <2>2, <2>3, <2>5, <2>6, ReadsInSeconds
<1>2. BeatInv => TwoLossesReadAlive
  BY <1>1 DEF TwoLossesReadAlive, ReadsDead, Window
<1>3. BeatInv /\ [Next]_vars => BeatInv'
  BY NextBeat
<1> QED BY <1>2, <1>3, InitBeat, PTL DEF Spec
-----------------------------------------------------------------------------
(* Types, and pings in flight, however slow the network is.                *)

TypesInv ==
  /\ LifeInv
  /\ TypeOK
  /\ \A s \in Starts : pc[s] = "reading" => args[s].via = "policy"

\* The pings of a timer left at least MinInterval apart, and the next one
\* leaves as long after the last.
SpacingInv ==
  /\ \A p \in flying :
       /\ pc[p.start] = "started"
       /\ p.start \in running => p.age >= interval[p.start] - due[p.start]
  /\ \A p, q \in flying : p.start = q.start /\ p # q =>
       p.age - q.age >= MinInterval \/ q.age - p.age >= MinInterval

LEMMA InitTypes == Init => TypesInv /\ SpacingInv
<1> SUFFICES ASSUME Init
             PROVE  TypesInv /\ SpacingInv
  OBVIOUS
<1>1. (CHOOSE q \in Requests : TRUE) \in Requests
  BY ConstantsAssumption
<1>2. LifeInv
  BY InitLife
<1>3. TypeOK
  BY <1>1, ConstantsAssumption DEF Init, TypeOK, NoBeat
<1> QED BY <1>2, <1>3 DEF Init, TypesInv, SpacingInv

LEMMA ArmTypes ==
  ASSUME TypesInv, SpacingInv, NEW s \in Starts, NEW ms \in Int \cup {NotANumber}, Arm(s, ms),
         pc[s] \in {"idle", "reading"}, args' \in [Starts -> Requests],
         \A t \in Starts : t # s => args'[t] = args[t],
         UNCHANGED <<flying, serverVars, ghostVars>>
  PROVE  TypesInv' /\ SpacingInv'
<1> USE ConstantsAssumption DEF TypesInv
<1> DEFINE delay == SetIntervalDelay(ClampHeartbeatIntervalMs(ms))
<1>1. /\ interval' = [interval EXCEPT ![s] = delay]
      /\ due' = [due EXCEPT ![s] = delay]
      /\ running' = running \cup {s}
      /\ timers' = timers \cup {s}
      /\ pc' = [pc EXCEPT ![s] = "started"]
      /\ UNCHANGED <<flying, beat, lost, ended, covered>>
  BY DEF Arm, serverVars, ghostVars
<1>2. delay \in MinInterval..MaxInterval /\ delay \in 0..MaxInterval
  BY ClampRange
<1> HIDE DEF delay
<1>3. LifeInv'
  BY <1>1 DEF LifeInv, RunsUntilStopped
<1>4. TypeOK'
  BY <1>1, <1>2 DEF TypeOK
<1>5. \A t \in Starts : pc'[t] = "reading" => args'[t].via = "policy"
  BY <1>1 DEF TypeOK
<1>6. \A p \in flying : p.start \in Starts /\ p.start # s
  BY DEF SpacingInv, TypeOK
<1>7. SpacingInv'
  BY <1>1, <1>6 DEF SpacingInv, TypeOK
<1> QED BY <1>3, <1>4, <1>5, <1>7

LEMMA AdvanceTypes ==
  ASSUME TypesInv, SpacingInv, Advance
  PROVE  TypesInv' /\ SpacingInv'
<1> USE ConstantsAssumption DEF TypesInv
<1>1. PICK d \in Waits :
        /\ d > 0
        /\ \A w \in Waits : d <= w
        /\ due' = [s \in Starts |-> IF s \in running THEN due[s] - d ELSE due[s]]
        /\ flying' = {[p EXCEPT !.age = @ + d] : p \in flying}
        /\ beat' = [s \in Starts |-> IF beat[s] = NoBeat THEN NoBeat
                                     ELSE Min({beat[s] + d, MaxAge})]
        /\ UNCHANGED <<pc, args, interval, running, timers, lost, ended, covered>>
  BY DEF Advance, ghostVars
<1>2. /\ \A s \in running : s \in Starts /\ due[s] \in 0..MaxInterval
      /\ \A p \in flying : p \in [start: Starts, age: 0..MaxLatency]
  BY DEF TypeOK
<1>3. d \in Nat \ {0}
  BY <1>1, <1>2 DEF Waits
<1>4. /\ \A s \in running : d <= due[s]
      /\ \A p \in flying : d <= MaxLatency - p.age
  BY <1>1 DEF Waits
<1>5. LifeInv'
  BY <1>1 DEF LifeInv, RunsUntilStopped
<1>6. \A q \in flying' : \E p \in flying :
        /\ q = [p EXCEPT !.age = @ + d]
        /\ q.start = p.start /\ q.age = p.age + d
        /\ q \in [start: Starts, age: 0..MaxLatency]
  <2>1. ASSUME NEW p \in flying
        PROVE  LET q == [p EXCEPT !.age = @ + d] IN
               /\ q.start = p.start /\ q.age = p.age + d
               /\ q \in [start: Starts, age: 0..MaxLatency]
    <3>1. p.age + d \in 0..MaxLatency
      BY <1>2, <1>3, <1>4
    <3> QED BY <1>2, <3>1
  <2> QED BY <1>1, <2>1
<1>7. due' \in [Starts -> 0..MaxInterval]
  <2>1. \A s \in Starts : due'[s] \in 0..MaxInterval
    BY <1>1, <1>2, <1>3, <1>4 DEF TypeOK
  <2> QED BY <1>1, <2>1
<1>8. beat' \in [Starts -> {NoBeat} \cup 0..MaxAge]
  <2>1. ASSUME NEW s \in Starts, beat[s] # NoBeat
        PROVE  Min({beat[s] + d, MaxAge}) \in 0..MaxAge
    <3>1. beat[s] + d \in Nat
      BY <1>3, <2>1 DEF TypeOK
    <3> QED BY <3>1, MinOfTwo
  <2>2. \A s \in Starts : beat'[s] \in {NoBeat} \cup 0..MaxAge
    BY <1>1, <2>1
  <2> QED BY <1>1, <2>2
<1>9. TypeOK'
  BY <1>1, <1>6, <1>7, <1>8 DEF TypeOK
<1>10. ASSUME NEW q \in flying'
       PROVE  /\ pc[q.start] = "started"
              /\ q.start \in running => q.age >= interval[q.start] - due'[q.start]
  <2>1. PICK p \in flying : q.start = p.start /\ q.age = p.age + d
    BY <1>6
  <2>2. pc[p.start] = "started"
        /\ (p.start \in running => p.age >= interval[p.start] - due[p.start])
    BY DEF SpacingInv
  <2>3. CASE p.start \in running
    <3>1. /\ due'[p.start] = due[p.start] - d /\ p.age \in Nat
          /\ due[p.start] \in Int /\ interval[p.start] \in Int
      BY <1>1, <1>2, <2>3 DEF TypeOK
    <3> QED BY <1>3, <2>1, <2>2, <3>1
  <2> QED BY <2>1, <2>2, <2>3
<1>11. ASSUME NEW p \in flying', NEW q \in flying', p.start = q.start, p # q
       PROVE  p.age - q.age >= MinInterval \/ q.age - p.age >= MinInterval
  <2>1. PICK pp \in flying : p = [pp EXCEPT !.age = @ + d] /\ p.start = pp.start
                             /\ p.age = pp.age + d
    BY <1>6
  <2>2. PICK qq \in flying : q = [qq EXCEPT !.age = @ + d] /\ q.start = qq.start
                             /\ q.age = qq.age + d
    BY <1>6
  <2>3. pp # qq /\ pp.start = qq.start
    BY <1>11, <2>1, <2>2
  <2>4. pp.age - qq.age >= MinInterval \/ qq.age - pp.age >= MinInterval
    BY <2>3 DEF SpacingInv
  <2>5. pp.age \in Int /\ qq.age \in Int
    BY <1>2
  <2> QED BY <1>3, <2>1, <2>2, <2>4, <2>5
<1>12. SpacingInv'
  BY <1>1, <1>10, <1>11 DEF SpacingInv
<1> QED BY <1>1, <1>5, <1>9, <1>12

LEMMA NextTypes ==
  ASSUME TypesInv, SpacingInv, [Next]_vars
  PROVE  TypesInv' /\ SpacingInv'
<1> USE ConstantsAssumption DEF TypesInv, loopVars, serverVars, ghostVars
<1>0. LifeInv'
  BY NextLife
<1>1. ASSUME NEW s \in Starts, StartHeartbeat(s)
      PROVE  TypesInv' /\ SpacingInv'
  <2>1. PICK q \in Requests :
          q.via = "interval" /\ args' = [args EXCEPT ![s] = q] /\ Arm(s, q.ms)
    BY <1>1 DEF StartHeartbeat
  <2>2. q.ms \in Int \cup {NotANumber}
    BY <2>1 DEF Request
  <2>3. args' \in [Starts -> Requests] /\ \A t \in Starts : t # s => args'[t] = args[t]
    BY <2>1 DEF TypeOK
  <2> QED BY <1>1, <2>1, <2>2, <2>3, ArmTypes DEF StartHeartbeat
<1>2. ASSUME NEW s \in Starts, StartHeartbeatFromPolicy(s)
      PROVE  TypesInv' /\ SpacingInv'
  <2>1. PICK q \in Requests : q.via = "policy" /\ args' = [args EXCEPT ![s] = q]
    BY <1>2 DEF StartHeartbeatFromPolicy
  <2>2. pc' = [pc EXCEPT ![s] = "reading"] /\ pc[s] = "idle"
        /\ UNCHANGED <<loopVars, flying, serverVars, ghostVars>>
    BY <1>2 DEF StartHeartbeatFromPolicy
  <2>3. TypeOK'
    BY <2>1, <2>2 DEF TypeOK
  <2>4. \A t \in Starts : pc'[t] = "reading" => args'[t].via = "policy"
    BY <2>1, <2>2 DEF TypeOK
  <2>5. SpacingInv'
    BY <2>2 DEF SpacingInv, TypeOK
  <2> QED BY <1>0, <2>3, <2>4, <2>5
<1>3. ASSUME NEW s \in Starts, PolicyRead(s)
      PROVE  TypesInv' /\ SpacingInv'
  <2>1. args[s] \in Requests /\ args[s].via = "policy"
    BY <1>3 DEF PolicyRead, TypeOK
  <2>2. PolicyIntervalMs(args[s]) \in Int \cup {NotANumber}
    BY <2>1, PolicyIntervalFits
  <2>3. args' \in [Starts -> Requests] /\ args' = args
    BY <1>3 DEF PolicyRead, TypeOK
  <2> QED BY <1>3, <2>2, <2>3, ArmTypes DEF PolicyRead
<1>4. ASSUME NEW s \in Starts, PolicyFails(s)
      PROVE  TypesInv' /\ SpacingInv'
  <2>1. TypeOK' /\ \A t \in Starts : pc'[t] = "reading" => args'[t].via = "policy"
    BY <1>4 DEF PolicyFails, TypeOK
  <2>2. SpacingInv'
    BY <1>4 DEF PolicyFails, SpacingInv, TypeOK
  <2> QED BY <1>0, <2>1, <2>2
<1>5. ASSUME NEW s \in Starts, Tick(s)
      PROVE  TypesInv' /\ SpacingInv'
  <2> DEFINE sent == [start |-> s, age |-> 0]
  <2>1. /\ s \in running /\ due[s] = 0
        /\ due' = [due EXCEPT ![s] = interval[s]]
        /\ flying' = flying \cup {sent}
        /\ UNCHANGED <<pc, args, interval, running, timers, beat, lost, ended, covered>>
    BY <1>5 DEF Tick
  <2>2. interval[s] \in MinInterval..MaxInterval /\ interval[s] \in 0..MaxInterval
    BY DEF TypeOK
  <2>3. sent \in [start: Starts, age: 0..MaxLatency] /\ sent.start = s /\ sent.age = 0
    OBVIOUS
  <2> HIDE DEF sent
  <2>4. TypeOK'
    BY <2>1, <2>2, <2>3 DEF TypeOK
  <2>5. \A p \in flying : p.start \in Starts /\ p.age \in Nat
    BY DEF TypeOK
  <2>6. \A p \in flying : p.start = s => p.age >= MinInterval
    BY <2>1, <2>2, <2>5 DEF SpacingInv
  <2>7. \A p \in flying' :
          /\ pc'[p.start] = "started"
          /\ p.start \in running' => p.age >= interval'[p.start] - due'[p.start]
    <3>1. pc[s] = "started" /\ due'[s] = interval[s]
      BY <2>1 DEF LifeInv, RunsUntilStopped, TypeOK
    <3>2. \A t \in Starts : t # s => due'[t] = due[t]
      BY <2>1 DEF TypeOK
    <3> QED BY <2>1, <2>2, <2>3, <2>5, <3>1, <3>2 DEF SpacingInv
  <2>8. \A p, q \in flying' : p.start = q.start /\ p # q =>
          p.age - q.age >= MinInterval \/ q.age - p.age >= MinInterval
    BY <2>1, <2>3, <2>5, <2>6 DEF SpacingInv
  <2> QED BY <1>0, <2>1, <2>4, <2>7, <2>8 DEF SpacingInv
<1>6. ASSUME NEW s \in Starts, Stop(s)
      PROVE  TypesInv' /\ SpacingInv'
  <2>1. TypeOK'
    BY <1>6 DEF Stop, TypeOK
  <2> QED BY <1>0, <1>6, <2>1 DEF Stop, SpacingInv
<1>7. ASSUME NEW p \in flying, Land(p) \/ Lose(p)
      PROVE  TypesInv' /\ SpacingInv'
  <2>1. p.start \in Starts
    BY DEF TypeOK
  <2>2. CASE Land(p)
    <3>1. TypeOK'
      BY <2>1, <2>2 DEF Land, TypeOK
    <3> QED BY <1>0, <2>2, <3>1 DEF Land, SpacingInv
  <2>3. CASE Lose(p)
    <3>1. TypeOK'
      BY <2>1, <2>3 DEF Lose, TypeOK
    <3> QED BY <1>0, <2>3, <3>1 DEF Lose, SpacingInv
  <2> QED BY <1>7, <2>2, <2>3
<1>8. CASE Dispose
  <2>1. TypeOK'
    BY <1>8 DEF Dispose, TypeOK
  <2> QED BY <1>0, <1>8, <2>1 DEF Dispose, SpacingInv
<1>9. CASE Advance
  BY <1>9, AdvanceTypes
<1>10. CASE UNCHANGED vars
  BY <1>0, <1>10 DEF vars, TypeOK, SpacingInv
<1> QED
  BY <1>1, <1>2, <1>3, <1>4, <1>5, <1>6, <1>7, <1>8, <1>9, <1>10 DEF Next

\* Type correctness of the timers; no delay leaves the range that setInterval
\* honours.
THEOREM TypeCorrect == Spec => []TypeOK
<1>1. TypesInv => TypeOK
  BY DEF TypesInv
<1> QED BY <1>1, InitTypes, NextTypes, PTL DEF Spec

\* Numbers at least d apart have different quotients by d.
LEMMA QuotientsDiffer ==
  ASSUME NEW d \in Nat \ {0}, NEW x \in Nat, NEW y \in Nat, x - y >= d
  PROVE  x \div d # y \div d
<1>1. x = d * (x \div d) + (x % d) /\ x % d \in 0..(d - 1)
  OBVIOUS
<1>2. y = d * (y \div d) + (y % d) /\ y % d \in 0..(d - 1)
  OBVIOUS
<1> QED BY <1>1, <1>2

LEMMA QuotientFits ==
  ASSUME NEW d \in Nat \ {0}, NEW m \in Nat, NEW x \in 0..m
  PROVE  x \div d \in 0..(m \div d) /\ m \div d \in Nat
OBVIOUS

\* Whatever interval was asked for and however slow the network is, the pings
\* of a timer in flight are no more than fit the latency one floor apart.
THEOREM PingsAreFew == Spec => []PingsBounded
<1>1. ASSUME TypesInv, SpacingInv, NEW s \in Starts
      PROVE  Cardinality({p \in flying : p.start = s}) <= MaxLatency \div MinInterval + 1
  <2> USE ConstantsAssumption
  <2> DEFINE mine == {p \in flying : p.start = s}
             most == MaxLatency \div MinInterval
             f == [p \in mine |-> p.age \div MinInterval]
  <2>1. \A p \in mine : p.age \in 0..MaxLatency
    BY <1>1 DEF TypesInv, TypeOK
  <2>2. most \in Nat /\ \A p \in mine : f[p] \in 0..most
    BY <2>1, QuotientFits
  <2>3. \A p, q \in mine : p # q => f[p] # f[q]
    <3> SUFFICES ASSUME NEW p \in mine, NEW q \in mine, p # q
                 PROVE  f[p] # f[q]
      OBVIOUS
    <3>1. p.age - q.age >= MinInterval \/ q.age - p.age >= MinInterval
      BY <1>1 DEF SpacingInv
    <3>2. p.age \in Nat /\ q.age \in Nat /\ MinInterval \in Nat \ {0}
      BY <2>1
    <3>3. p.age \div MinInterval # q.age \div MinInterval
      BY <3>1, <3>2, QuotientsDiffer
    <3> QED BY <3>3
  <2> HIDE DEF most
  <2>4. f \in Injection(mine, 0..most)
    BY <2>2, <2>3 DEF Injection, IsInjective
  <2>5. IsFiniteSet(0..most) /\ Cardinality(0..most) = most + 1
    BY <2>2, FS_Interval
  <2> HIDE DEF mine, f
  <2>6. Cardinality(mine) <= Cardinality(0..most)
    BY <2>4, <2>5, FS_Injection
  <2> QED BY <2>5, <2>6 DEF mine, most
<1>2. TypesInv /\ SpacingInv => PingsBounded
  BY <1>1 DEF PingsBounded
<1> QED BY <1>2, InitTypes, NextTypes, PTL DEF Spec
=============================================================================
