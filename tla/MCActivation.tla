--------------------------- MODULE MCActivation ---------------------------
(* Instances of Activation for TLC.                                       *)
EXTENDS Activation, TLC

CONSTANTS c1, c2, c3, m1, m2, m3, l1, l2, f1, f2, none

\* One license and two fingerprints; callers that create and callers that
\* adopt, all of them rolling back over-limit machines.
OneLicense == [lic: {l1}, fp: {f1, f2}, autoDelete: {TRUE}, reuse: BOOLEAN]

\* The same, and one that adopts on another license what the first may hold.
TwoSeats == OneLicense \cup [lic: {l2}, fp: {f1}, autoDelete: {TRUE}, reuse: {TRUE}]

\* Two licenses under a uniqueness scope that spans them, and every
\* combination of the two flags on one of them.
TwoLicenses ==
  [lic: {l1, l2}, fp: {f1, f2}, autoDelete: {FALSE}, reuse: {TRUE}]
    \cup [lic: {l1}, fp: {f1}, autoDelete: BOOLEAN, reuse: BOOLEAN]

Interchangeable == Permutations(Calls) \cup Permutations(MachineIds)
=============================================================================
