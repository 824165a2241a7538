----------------------------- MODULE SeatLedger -----------------------------
(***************************************************************************)
(* What activateMachine (src/client.ts) promises about the seats of a      *)
(* license, without requests, answers or a network: a call takes at most   *)
(* one seat, reports the seat its caller holds or why it holds none, and   *)
(* hands back only a seat it took itself.                                  *)
(***************************************************************************)
CONSTANTS
  Calls,        \* invocations of activateMachine
  MachineIds,
  Requests,     \* the argument tuples callers use
  NoId,         \* no machine
  Verdicts,     \* validation codes
  OverageCodes  \* those that say the license is over a limit

VARIABLES
  seats,     \* the seats taken and not given up, as the server's rows
  taken,     \* every seat ever taken
  asked,     \* what each call was asked to do
  report,    \* what each call has told its caller
  returned,  \* ids of the seats handed back by a rollback
  unsure     \* calls that ended without knowing what the server did

ledger == <<seats, taken, asked, report, returned, unsure>>

NotCalled == [kind |-> "idle"]
Pending   == [kind |-> "pending"]
Threw(code) == [kind |-> "threw", code |-> code]
Result(code, m) == [kind |-> "result", code |-> code, machine |-> m]

\* The seat a call took, if it took one.
OwnSeats(c) == {m \in taken : m.by = c}

Init ==
  /\ seats = {}
  /\ taken = {}
  /\ asked \in [Calls -> Requests]
  /\ report = [c \in Calls |-> NotCalled]
  /\ returned = {}
  /\ unsure = {}

Call(c) ==
  /\ report[c] = NotCalled
  /\ \E q \in Requests : asked' = [asked EXCEPT ![c] = q]
  /\ report' = [report EXCEPT ![c] = Pending]
  /\ UNCHANGED <<seats, taken, returned, unsure>>

\* A call takes its seat once, possibly after it gave up, and never beside a
\* seat of the same fingerprint on the same license.
Take(c) ==
  /\ report[c] \in {Pending, Threw("FAILED")}
  /\ OwnSeats(c) = {}
  /\ \A m \in seats : m.lic # asked[c].lic \/ m.fp # asked[c].fp
  /\ \E id \in MachineIds \ {m.id : m \in taken} :
       LET m == [id |-> id, lic |-> asked[c].lic, fp |-> asked[c].fp, by |-> c] IN
       seats' = seats \cup {m} /\ taken' = taken \cup {m}
  /\ UNCHANGED <<asked, report, returned, unsure>>

\* The rollback: of a call's own seat, if its caller wanted that, before the
\* call reports or after it gave up waiting for the rollback.
HandBack(m) ==
  /\ m \in seats /\ asked[m.by].autoDelete
  /\ \/ report[m.by] = Pending
     \/ m.by \in unsure /\ \E code \in OverageCodes : report[m.by] = Result(code, NoId)
  /\ seats' = seats \ {m}
  /\ returned' = returned \cup {m.id}
  /\ UNCHANGED <<taken, asked, report, unsure>>

\* An operator, or the server's cull, removes a seat at any time.
Remove(m) ==
  /\ m \in seats
  /\ seats' = seats \ {m}
  /\ UNCHANGED <<taken, asked, report, returned, unsure>>

\* The fingerprint belongs to somebody else: the call took nothing.
Refused(c) == OwnSeats(c) = {} /\ report' = [report EXCEPT ![c] = Threw("FINGERPRINT_TAKEN")]

\* The seat reported is of the license and fingerprint asked for; it is the
\* one the call took, or it took none and its caller accepts another's; and a
\* rollback that was due is not skipped.
Seated(c) ==
  \E m \in taken, code \in Verdicts :
    /\ m.lic = asked[c].lic /\ m.fp = asked[c].fp
    /\ OwnSeats(c) = {m} \/ (OwnSeats(c) = {} /\ asked[c].reuse)
    /\ ~(m.by = c /\ asked[c].autoDelete /\ code \in OverageCodes)
    /\ report' = [report EXCEPT ![c] = Result(code, m.id)]

\* Over the limit: the call took nothing, or what it took is gone again.
Unseated(c) ==
  \E code \in OverageCodes :
    /\ OwnSeats(c) \cap seats = {}
    /\ OwnSeats(c) # {} => asked[c].autoDelete
    /\ report' = [report EXCEPT ![c] = Result(code, NoId)]

Report(c) ==
  /\ report[c] = Pending
  /\ Refused(c) \/ Seated(c) \/ Unseated(c)
  /\ UNCHANGED <<seats, taken, asked, returned, unsure>>

\* A request failed: the call throws, or says that it rolled its seat back.
GiveUp(c) ==
  /\ report[c] = Pending
  /\ \/ report' = [report EXCEPT ![c] = Threw("FAILED")]
     \/ /\ OwnSeats(c) # {} /\ asked[c].autoDelete
        /\ \E code \in OverageCodes : report' = [report EXCEPT ![c] = Result(code, NoId)]
  /\ unsure' = unsure \cup {c}
  /\ UNCHANGED <<seats, taken, asked, returned>>

Next ==
  \/ \E c \in Calls : Call(c) \/ Take(c) \/ Report(c) \/ GiveUp(c)
  \/ \E m \in seats : HandBack(m) \/ Remove(m)

Spec == Init /\ [][Next]_ledger
=============================================================================
