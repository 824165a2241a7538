------------------------------ MODULE RemoteCall ------------------------------
(***************************************************************************)
(* What one call through the transport promises its caller, without        *)
(* attempts, timers or bodies: the server carries it out at most once; an  *)
(* answer means it did, a refusal that it never did and never will, and no *)
(* answer leaves it open, even afterwards.  src/transport.ts, doFetch.     *)
(***************************************************************************)
EXTENDS Naturals

VARIABLES
  effects, \* how often the server carried the call out
  verdict  \* what the caller knows: pending, answered, refused, unknown

vars == <<effects, verdict>>

Init == effects = 0 /\ verdict = "pending"

\* A caller that gave up may be followed by the effect of its request.
CarryOut ==
  /\ effects = 0
  /\ verdict \in {"pending", "unknown"}
  /\ effects' = 1
  /\ UNCHANGED verdict

Answer ==
  /\ verdict = "pending" /\ effects = 1
  /\ verdict' = "answered"
  /\ UNCHANGED effects

Refuse ==
  /\ verdict = "pending" /\ effects = 0
  /\ verdict' = "refused"
  /\ UNCHANGED effects

GiveUp ==
  /\ verdict = "pending"
  /\ verdict' = "unknown"
  /\ UNCHANGED effects

Next == CarryOut \/ Answer \/ Refuse \/ GiveUp

Spec == Init /\ [][Next]_vars
=============================================================================
