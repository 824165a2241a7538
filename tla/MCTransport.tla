---------------------------- MODULE MCTransport ----------------------------
(* Instances of Transport for TLC.                                        *)
EXTENDS Transport

CONSTANT none

\* The default deadline and an opt-out.
UsualTimeouts == {45000, 0}

\* Just above the longest delay of the instance's timers.
LongTimeout == {TimerMax + 1}

Error(form, status, code, meta) ==
  [statusForm |-> form, status |-> status, code |-> code, detail |-> "detail",
   meta |-> meta]

\* A typed and an untyped code, a status in either form and one that names no
\* number, two errors, one that is malformed, and none.
SampleErrorBodies ==
  LET taken == Error("text", 409, "FINGERPRINT_TAKEN", "machineId")
      limit == Error("number", 422, "MACHINE_LIMIT_EXCEEDED", "notObject")
      other == Error("text", 429, "TOO_MANY_REQUESTS", "other")
  IN {ErrorBody(errors) :
        errors \in {<<taken>>, <<[taken EXCEPT !.status = NaN]>>,
                    <<limit, other>>, <<other>>, <<>>,
                    <<taken, [limit EXCEPT !.code = NotText]>>}}
=============================================================================
