---------------------------- MODULE MCHeartbeat ----------------------------
(* Instances of Heartbeat for TLC.                                        *)
EXTENDS Heartbeat, TLC

CONSTANTS s1, s2, nan, null

\* Policies with a three-second and an unsatisfiable window, whose caller's
\* divisor falls back to the default, and one with a null window.
Policies ==
  [via: {"policy"}, duration: {3, 0}, divisor: {0}]
    \cup [via: {"policy"}, duration: {null}, divisor: {3}]

\* What callers hand to startHeartbeat: zero, too long, not a number.
Intervals ==
  [via: {"interval"}, ms: {0, 10000, nan}]

AllRequests == Policies \cup Intervals

Interchangeable == Permutations(Starts)
=============================================================================
