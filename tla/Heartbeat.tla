------------------------------ MODULE Heartbeat ------------------------------
(***************************************************************************)
(* The heartbeat timers of one TamgaClient (src/client.ts: startHeartbeat, *)
(* startProcessHeartbeat, startHeartbeatFromPolicy, trackTimer, dispose):  *)
(* their life cycle, the pings they leave in flight, and what reaches the  *)
(* server's clock.  Time is in milliseconds and jumps from event to event. *)
(***************************************************************************)
EXTENDS Integers, FiniteSets, FiniteSetsExt

CONSTANTS
  Starts,          \* start calls; each one keeps a row of its own alive
  Requests,        \* the arguments callers start timers with
  NotANumber,      \* NaN and the infinities
  NoDuration,      \* a policy whose heartbeat_duration is null
  MinInterval,     \* MIN_HEARTBEAT_INTERVAL_MS
  MaxInterval,     \* MAX_HEARTBEAT_INTERVAL_MS, also setInterval's ceiling
  DefaultWindow,   \* MACHINE_HEARTBEAT_WINDOW_MS
  DefaultDivisor,  \* MACHINE_HEARTBEAT_INTERVAL_DIVISOR
  MaxLatency,      \* longest time a ping takes to land or to be lost
  MaxLost,         \* bound: most pings of one timer lost in a row
  MaxAge           \* bound: a heartbeat's age is not counted beyond it

\* startHeartbeat and startProcessHeartbeat take an interval; the third
\* entry point reads a policy's heartbeat_duration (in seconds) first.
Request == [via: {"interval"}, ms: Int \cup {NotANumber}]
      \cup [via: {"policy"}, duration: Int \cup {NoDuration}, divisor: Int]

ASSUME ConstantsAssumption ==
  /\ Requests \subseteq Request
  /\ Requests # {}
  /\ NotANumber \notin Int
  /\ NoDuration \notin Int
  /\ MinInterval \in Nat \ {0}
  /\ MaxInterval \in Nat
  /\ MaxInterval >= MinInterval
  /\ DefaultWindow \in Nat \ {0}
  /\ DefaultDivisor \in Nat \ {0}
  /\ MaxLatency \in Nat \ {0}
  /\ MaxLost \in Nat
  /\ MaxAge \in Nat

VARIABLES
  pc,        \* where each start call is
  args,      \* its arguments
  interval,  \* the delay its setInterval was given
  due,       \* time until its next tick
  running,   \* start calls whose interval is armed
  timers,    \* the client's `timers` set: stop functions dispose can reach
  flying,    \* pings in flight, with their age
  beat,      \* age of the last heartbeat the server recorded
  lost,      \* pings lost since that heartbeat
  ended,     \* ghost: timers the caller stopped or disposed of
  covered    \* ghost: start calls made before the latest dispose

loopVars   == <<interval, due, running, timers>>
serverVars == <<beat, lost>>
ghostVars  == <<ended, covered>>
vars == <<pc, args, interval, due, running, timers, flying, beat, lost,
          ended, covered>>

NoBeat == -1

Init ==
  /\ pc = [s \in Starts |-> "idle"]
  /\ args = [s \in Starts |-> CHOOSE q \in Requests : TRUE]
  /\ interval = [s \in Starts |-> MinInterval]
  /\ due = [s \in Starts |-> 0]
  /\ running = {}
  /\ timers = {}
  /\ flying = {}
  /\ beat = [s \in Starts |-> NoBeat]
  /\ lost = [s \in Starts |-> 0]
  /\ ended = {}
  /\ covered = {}

-----------------------------------------------------------------------------
(* The interval arithmetic.                                                *)

\* setInterval honours no other delay: it ticks every millisecond instead.
SetIntervalDelay(ms) ==
  IF ms \in 1..MaxInterval THEN ms ELSE 1

\* Mutant: the caller's number is handed to setInterval as it is.
ClampNothing(ms) == ms

ClampHeartbeatIntervalMs(ms) ==
  IF ms = NotANumber THEN MinInterval
  ELSE Min({MaxInterval, Max({MinInterval, ms})})

EffectiveHeartbeatWindowMs(duration) ==
  IF duration = NoDuration THEN DefaultWindow ELSE duration * 1000

\* Mutant: a divisor that leaves room for no more than one lost ping.
DivisorTooSmall(q) == 2

Divisor(q) == IF q.divisor > 0 THEN q.divisor ELSE DefaultDivisor

\* Mutant: pings go out once per window.
IntervalOfWholeWindow(q) == EffectiveHeartbeatWindowMs(q.duration)

\* A window that no rate can satisfy is replaced by the platform's default.
PolicyIntervalMs(q) ==
  LET window == EffectiveHeartbeatWindowMs(q.duration) IN
  (IF window > 0 THEN window ELSE DefaultWindow) \div Divisor(q)

-----------------------------------------------------------------------------
(* The client.                                                             *)

\* startHeartbeat / startProcessHeartbeat from setInterval on: nothing in it
\* suspends, so the timer is armed and tracked in one step.
Arm(s, ms) ==
  LET delay == SetIntervalDelay(ClampHeartbeatIntervalMs(ms)) IN
  /\ interval' = [interval EXCEPT ![s] = delay]
  /\ due' = [due EXCEPT ![s] = delay]
  /\ running' = running \cup {s}
  /\ timers' = timers \cup {s}
  /\ pc' = [pc EXCEPT ![s] = "started"]

StartHeartbeat(s) ==
  /\ pc[s] = "idle"
  /\ \E q \in Requests :
       /\ q.via = "interval"
       /\ args' = [args EXCEPT ![s] = q]
       /\ Arm(s, q.ms)
  /\ UNCHANGED <<flying, serverVars, ghostVars>>

\* startHeartbeatFromPolicy up to its await of GET /licenses/{id}/policy.
StartHeartbeatFromPolicy(s) ==
  /\ pc[s] = "idle"
  /\ \E q \in Requests :
       /\ q.via = "policy"
       /\ args' = [args EXCEPT ![s] = q]
  /\ pc' = [pc EXCEPT ![s] = "reading"]
  /\ UNCHANGED <<loopVars, flying, serverVars, ghostVars>>

\* ... and after it: the timer starts whatever happened meanwhile.
PolicyRead(s) ==
  /\ pc[s] = "reading"
  /\ Arm(s, PolicyIntervalMs(args[s]))
  /\ UNCHANGED <<args, flying, serverVars, ghostVars>>

PolicyFails(s) ==
  /\ pc[s] = "reading"
  /\ pc' = [pc EXCEPT ![s] = "failed"]
  /\ UNCHANGED <<args, loopVars, flying, serverVars, ghostVars>>

\* The interval's callback; no earlier ping is waited for.
Tick(s) ==
  /\ s \in running
  /\ due[s] = 0
  /\ due' = [due EXCEPT ![s] = interval[s]]
  /\ flying' = flying \cup {[start |-> s, age |-> 0]}
  /\ UNCHANGED <<pc, args, interval, running, timers, serverVars, ghostVars>>

\* The stop function a start returned: it may be called again and again.
Stop(s) ==
  /\ pc[s] = "started"
  /\ timers' = timers \ {s}
  /\ running' = running \ {s}
  /\ ended' = ended \cup {s}
  /\ UNCHANGED <<pc, args, interval, due, flying, serverVars, covered>>

\* Mutant: the tracked timers are forgotten and not stopped.
DisposeForgets ==
  /\ timers' = {}
  /\ ended' = ended \cup {s \in Starts : pc[s] = "started"}
  /\ covered' = {s \in Starts : pc[s] # "idle"}
  /\ UNCHANGED <<pc, args, interval, due, running, flying, serverVars>>

Dispose ==
  /\ timers' = {}
  /\ running' = running \ timers
  /\ ended' = ended \cup {s \in Starts : pc[s] = "started"}
  /\ covered' = {s \in Starts : pc[s] # "idle"}
  /\ UNCHANGED <<pc, args, interval, due, flying, serverVars>>

-----------------------------------------------------------------------------
(* The network, the server and the clock.                                  *)

\* The server sets last_heartbeat_at = NOW().
Land(p) ==
  /\ p \in flying
  /\ flying' = flying \ {p}
  /\ beat' = [beat EXCEPT ![p.start] = 0]
  /\ lost' = [lost EXCEPT ![p.start] = 0]
  /\ UNCHANGED <<pc, args, loopVars, ghostVars>>

\* Mutant: a rejected ping stops its timer.
LoseAndStop(p) ==
  /\ p \in flying
  /\ lost[p.start] < MaxLost
  /\ flying' = flying \ {p}
  /\ lost' = [lost EXCEPT ![p.start] = @ + 1]
  /\ running' = running \ {p.start}
  /\ UNCHANGED <<pc, args, interval, due, timers, beat, ghostVars>>

\* A ping fails on its way; the rejection is swallowed.
Lose(p) ==
  /\ p \in flying
  /\ lost[p.start] < MaxLost
  /\ flying' = flying \ {p}
  /\ lost' = [lost EXCEPT ![p.start] = @ + 1]
  /\ UNCHANGED <<pc, args, loopVars, beat, ghostVars>>

\* The times left to the next ticks and to the ends of the pings in flight.
Waits == {due[s] : s \in running} \cup {MaxLatency - p.age : p \in flying}

\* Time passes up to the first of those events.
Advance ==
  \E d \in Waits :
    /\ d > 0
    /\ \A w \in Waits : d <= w
    /\ due' = [s \in Starts |-> IF s \in running THEN due[s] - d ELSE due[s]]
    /\ flying' = {[p EXCEPT !.age = @ + d] : p \in flying}
    /\ beat' = [s \in Starts |-> IF beat[s] = NoBeat THEN NoBeat
                                 ELSE Min({beat[s] + d, MaxAge})]
    /\ UNCHANGED <<pc, args, interval, running, timers, lost, ghostVars>>

Next ==
  \/ \E s \in Starts :
       \/ StartHeartbeat(s) \/ StartHeartbeatFromPolicy(s)
       \/ PolicyRead(s) \/ PolicyFails(s) \/ Tick(s) \/ Stop(s)
  \/ \E p \in flying : Land(p) \/ Lose(p)
  \/ Dispose
  \/ Advance

Spec == Init /\ [][Next]_vars

-----------------------------------------------------------------------------
TypeOK ==
  /\ pc \in [Starts -> {"idle", "reading", "started", "failed"}]
  /\ args \in [Starts -> Requests]
  /\ interval \in [Starts -> MinInterval..MaxInterval]
  /\ due \in [Starts -> 0..MaxInterval]
  /\ running \subseteq Starts
  /\ timers \subseteq Starts
  /\ flying \subseteq [start: Starts, age: 0..MaxLatency]
  /\ beat \in [Starts -> {NoBeat} \cup 0..MaxAge]
  /\ lost \in [Starts -> 0..MaxLost]
  /\ ended \subseteq Starts
  /\ covered \subseteq Starts

\* A timer runs from the call that started it until its stop function or
\* dispose is called, whatever becomes of its pings; until then dispose can
\* reach it, and afterwards the client keeps nothing of it.
RunsUntilStopped ==
  LET live == {s \in Starts : pc[s] = "started"} \ ended
  IN  running = live /\ timers = live

\* However degenerate the interval a caller or a policy asks for, a timer
\* has no more pings in flight than one per second of a ping's time: it
\* cannot become a busy loop (clampHeartbeatIntervalMs).
PingsBounded ==
  \A s \in Starts :
    Cardinality({p \in flying : p.start = s}) <= MaxLatency \div MinInterval + 1

\* A timer sized from its policy by the default divisor, on a window the
\* interval floor does not spoil and a network faster than the timer.
KeptFromPolicy(s) ==
  /\ s \in running
  /\ args[s].via = "policy"
  /\ args[s].divisor \in {0, DefaultDivisor}
  /\ EffectiveHeartbeatWindowMs(args[s].duration) >= DefaultDivisor * MinInterval
  /\ MaxLatency < interval[s]

\* The cull job's claim: `last_heartbeat_at < NOW() - window`, exactly.
Cullable(s) ==
  /\ beat[s] # NoBeat
  /\ beat[s] > EffectiveHeartbeatWindowMs(args[s].duration)

\* What a read reports: the age is truncated to whole seconds first.
ReadsDead(s) ==
  /\ beat[s] # NoBeat
  /\ beat[s] \div 1000 > EffectiveHeartbeatWindowMs(args[s].duration) \div 1000

\* One lost ping never leaves a machine for the cull job to claim
\* (startHeartbeatFromPolicy and its divisor).
OneLossTolerated ==
  \A s \in Starts : KeptFromPolicy(s) /\ lost[s] <= 1 => ~Cullable(s)

\* After two lost pings in a row the machine is still reported alive, though
\* the third leaves when exactly the window is over: the cull job, whose
\* comparison is exact, may claim the row until it lands.  The third must take
\* less than the second that a read's truncation forgives.
TwoLossesReadAlive ==
  \A s \in Starts :
    KeptFromPolicy(s) /\ MaxLatency < 1000 /\ lost[s] <= 2 => ~ReadsDead(s)

\* dispose "stops every heartbeat timer this client started", including by
\* startHeartbeatFromPolicy, and is "the one call a teardown path needs":
\* no start call made before it leaves a timer running (client.ts, doc of
\* dispose).
DisposeIsFinal == running \cap covered = {}
=============================================================================
