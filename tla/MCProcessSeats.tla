--------------------------- MODULE MCProcessSeats ---------------------------
(* Instances of ProcessSeats for TLC.                                     *)
EXTENDS ProcessSeats

CONSTANTS a1, a2, p1, p2, p3, none

\* One application that comes back under another pid, and one, alone in its
\* container, that always has the same.
SampleLaunches == {<<a1, p1>>, <<a1, p2>>, <<a2, p3>>}

\* A sweep by the client's own page size and one by the caller's.
SampleLimits == {NoLimit, 1}
=============================================================================
