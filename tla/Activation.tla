----------------------------- MODULE Activation -----------------------------
(***************************************************************************)
(* TamgaClient.activateMachine (src/client.ts): several activations, in    *)
(* one process or in many, run against one licensing server.  A call       *)
(* suspends at every request; between two of its requests the other calls, *)
(* the server and an operator deleting machines run.  A request can be     *)
(* executed late or never, and its answer can be lost: a call that stopped *)
(* waiting leaves its request in the network.                              *)
(***************************************************************************)
EXTENDS Naturals, FiniteSets

CONSTANTS
  Calls,          \* invocations of activateMachine
  MachineIds,     \* ids the server can give to machine rows
  Licenses,
  Fingerprints,
  Requests,       \* the argument tuples callers use
  NoId,           \* `undefined`, where the code holds an optional machine
  MaxMachines,    \* the policy's max_machines
  CreateCap,      \* largest count the overage strategy lets a create reach
  WiderScope,     \* uniqueness spans licenses (UNIQUE_PER_POLICY / _ACCOUNT)
  OtherLimits,    \* create-time limit codes not about the machine count
  OtherVerdicts   \* validation codes not about the machine count

CreateLimitCodes == {"MACHINE_LIMIT_EXCEEDED", "CORE_LIMIT_EXCEEDED",
                     "MEMORY_LIMIT_EXCEEDED", "DISK_LIMIT_EXCEEDED"}

OverageCodes == {"TOO_MANY_MACHINES", "TOO_MANY_CORES", "TOO_MUCH_MEMORY",
                 "TOO_MUCH_DISK", "TOO_MANY_PROCESSES"}

ASSUME ConstantsAssumption ==
  /\ Requests # {}
  /\ Requests \subseteq [lic: Licenses, fp: Fingerprints,
                         autoDelete: BOOLEAN, reuse: BOOLEAN]
  /\ NoId \notin MachineIds
  /\ MaxMachines \in Nat
  /\ CreateCap \in Nat
  /\ CreateCap >= MaxMachines
  /\ WiderScope \in BOOLEAN
  /\ OtherLimits \subseteq CreateLimitCodes \ {"MACHINE_LIMIT_EXCEEDED"}
  /\ "VALID" \notin OtherVerdicts
  /\ OtherVerdicts \subseteq STRING

VARIABLES
  machines,   \* the server's machine rows; `by` is a ghost: the creating call
  issued,     \* ghost: every row ever created; its ids are never reused
  net,        \* requests the server has not executed yet
  pc,         \* what each call awaits
  args,       \* each call's arguments
  ans,        \* the answer that has reached a call and that it has not read
  created,    \* local `createdMachine` of each call
  machine,    \* local `machine` of each call
  limited,    \* local `createLimit`, as its normalized code
  outcome,    \* what each finished call returned or threw
  faulted,    \* ghost: calls one of whose requests failed
  disturbed,  \* ghost: calls during which some machine row was removed
  rolledBack  \* ghost: ids removed by an automatic rollback

serverVars == <<machines, issued>>
localVars  == <<args, created, machine, limited>>
ghostVars  == <<faulted, disturbed, rolledBack>>
vars == <<machines, issued, net, pc, args, ans, created, machine, limited,
          outcome, faulted, disturbed, rolledBack>>

-----------------------------------------------------------------------------
Waiting  == {"create", "get", "search", "validate", "delete"}
Verdicts == {"VALID", "TOO_MANY_MACHINES"} \cup OtherVerdicts
OptionalId == MachineIds \cup {NoId}

Row     == [id: MachineIds, lic: Licenses, fp: Fingerprints, by: Calls]
Message == [op: Waiting, call: Calls, id: OptionalId]

Answer == [kind: {"none", "missing", "deleted"}]
     \cup [kind: {"created"}, id: MachineIds]
     \cup [kind: {"taken"}, id: OptionalId]
     \cup [kind: {"limit"}, code: CreateLimitCodes]
     \cup [kind: {"row"}, id: MachineIds, fp: Fingerprints]
     \cup [kind: {"verdict"}, code: Verdicts]

\* `result` is a returned ValidationResult, `threw` an exception.
Outcome == [kind: {"pending"}]
      \cup [kind: {"threw"}, code: {"FINGERPRINT_TAKEN", "FAILED"}]
      \cup [kind: {"result"}, code: Verdicts \cup OverageCodes,
            machine: OptionalId]

NoAnswer == [kind |-> "none"]
Pending  == [kind |-> "pending"]
Threw(code) == [kind |-> "threw", code |-> code]
Result(code, m) == [kind |-> "result", code |-> code, machine |-> m]

RowsOn(lic) == {m \in machines : m.lic = lic}
Running == {c \in Calls : pc[c] \in Waiting}

Init ==
  /\ machines = {}
  /\ issued = {}
  /\ net = {}
  /\ pc = [c \in Calls |-> "idle"]
  /\ args = [c \in Calls |-> CHOOSE q \in Requests : TRUE]
  /\ ans = [c \in Calls |-> NoAnswer]
  /\ created = [c \in Calls |-> NoId]
  /\ machine = [c \in Calls |-> NoId]
  /\ limited = [c \in Calls |-> "none"]
  /\ outcome = [c \in Calls |-> Pending]
  /\ faulted = {}
  /\ disturbed = {}
  /\ rolledBack = {}

-----------------------------------------------------------------------------
(* The client.                                                             *)

\* Mutant: the create-time code is passed on as it is.
CreateLimitCodeUnmapped(code) == code

\* CREATE_LIMIT_CODE_TO_VALIDATION_CODE
CreateLimitValidationCode(code) ==
  CASE code = "MACHINE_LIMIT_EXCEEDED" -> "TOO_MANY_MACHINES"
    [] code = "CORE_LIMIT_EXCEEDED"    -> "TOO_MANY_CORES"
    [] code = "MEMORY_LIMIT_EXCEEDED"  -> "TOO_MUCH_MEMORY"
    [] code = "DISK_LIMIT_EXCEEDED"    -> "TOO_MUCH_DISK"

\* The call consumes its answer, sends its next request and awaits it.
Await(c, op, id) ==
  /\ pc' = [pc EXCEPT ![c] = op]
  /\ ans' = [ans EXCEPT ![c] = NoAnswer]
  /\ net' = net \cup {[op |-> op, call |-> c, id |-> id]}
  /\ UNCHANGED outcome

Finish(c, out) ==
  /\ pc' = [pc EXCEPT ![c] = "done"]
  /\ ans' = [ans EXCEPT ![c] = NoAnswer]
  /\ outcome' = [outcome EXCEPT ![c] = out]
  /\ UNCHANGED net

Start(c) ==
  /\ pc[c] = "idle"
  /\ \E q \in Requests : args' = [args EXCEPT ![c] = q]
  /\ Await(c, "create", NoId)
  /\ UNCHANGED <<serverVars, created, machine, limited, ghostVars>>

\* Mutant: `machine` is not set beside `createdMachine`.
OnCreatedForgetsMachine(c) ==
  /\ pc[c] = "create" /\ ans[c].kind = "created"
  /\ created' = [created EXCEPT ![c] = ans[c].id]
  /\ Await(c, "validate", NoId)
  /\ UNCHANGED <<serverVars, args, machine, limited, ghostVars>>

\* Mutant: the machine is reported without validating after the create.
OnCreatedSkipsValidate(c) ==
  /\ pc[c] = "create" /\ ans[c].kind = "created"
  /\ created' = [created EXCEPT ![c] = ans[c].id]
  /\ machine' = [machine EXCEPT ![c] = ans[c].id]
  /\ Finish(c, Result("VALID", ans[c].id))
  /\ UNCHANGED <<serverVars, args, limited, ghostVars>>

\* createMachine resolved.
OnCreated(c) ==
  /\ pc[c] = "create" /\ ans[c].kind = "created"
  /\ created' = [created EXCEPT ![c] = ans[c].id]
  /\ machine' = [machine EXCEPT ![c] = ans[c].id]
  /\ Await(c, "validate", NoId)
  /\ UNCHANGED <<serverVars, args, limited, ghostVars>>

\* Mutant: no search for a conflict that names no machine.
OnTakenNeverSearches(c) ==
  /\ pc[c] = "create" /\ ans[c].kind = "taken"
  /\ \/ /\ args[c].reuse /\ ans[c].id # NoId
        /\ Await(c, "get", ans[c].id)
     \/ /\ ~(args[c].reuse /\ ans[c].id # NoId)
        /\ Finish(c, Threw("FINGERPRINT_TAKEN"))
  /\ UNCHANGED <<serverVars, localVars, ghostVars>>

\* The conflict path: adopt through the id the 409 names, else by search.
OnTaken(c) ==
  /\ pc[c] = "create" /\ ans[c].kind = "taken"
  /\ \/ /\ ~args[c].reuse
        /\ Finish(c, Threw("FINGERPRINT_TAKEN"))
     \/ /\ args[c].reuse /\ ans[c].id # NoId
        /\ Await(c, "get", ans[c].id)
     \/ /\ args[c].reuse /\ ans[c].id = NoId
        /\ Await(c, "search", NoId)
  /\ UNCHANGED <<serverVars, localVars, ghostVars>>

\* A create-time limit refused the machine: validate all the same.
OnLimit(c) ==
  /\ pc[c] = "create" /\ ans[c].kind = "limit"
  /\ limited' = [limited EXCEPT ![c] = CreateLimitValidationCode(ans[c].code)]
  /\ Await(c, "validate", NoId)
  /\ UNCHANGED <<serverVars, args, created, machine, ghostVars>>

\* Mutant: the row read back is believed whatever its fingerprint.
MatchesAnyRow(c) == ans[c].kind = "row"

\* `attributes.fingerprint === fingerprint`
Matches(c) == ans[c].kind = "row" /\ ans[c].fp = args[c].fp

\* Mutant: a machine that vanished is asked for again.
OnGotRetriesMissing(c) ==
  /\ pc[c] = "get" /\ ans[c].kind \in {"row", "missing"}
  /\ \/ /\ Matches(c)
        /\ machine' = [machine EXCEPT ![c] = ans[c].id]
        /\ Await(c, "validate", NoId)
     \/ /\ ~Matches(c)
        /\ \E m \in issued : Await(c, "get", m.id)
        /\ UNCHANGED machine
  /\ UNCHANGED <<serverVars, args, created, limited, ghostVars>>

\* adoptConflictingMachine after its GET: a 404 and a row with another
\* fingerprint both fall through to the license-scoped search.
OnGot(c) ==
  /\ pc[c] = "get" /\ ans[c].kind \in {"row", "missing"}
  /\ \/ /\ Matches(c)
        /\ machine' = [machine EXCEPT ![c] = ans[c].id]
        /\ Await(c, "validate", NoId)
     \/ /\ ~Matches(c)
        /\ Await(c, "search", NoId)
        /\ UNCHANGED machine
  /\ UNCHANGED <<serverVars, args, created, limited, ghostVars>>

\* adoptConflictingMachine after findMachineByFingerprint.
OnFound(c) ==
  /\ pc[c] = "search" /\ ans[c].kind \in {"row", "missing"}
  /\ \/ /\ Matches(c)
        /\ machine' = [machine EXCEPT ![c] = ans[c].id]
        /\ Await(c, "validate", NoId)
     \/ /\ ~Matches(c)
        /\ Finish(c, Threw("FINGERPRINT_TAKEN"))
        /\ UNCHANGED machine
  /\ UNCHANGED <<serverVars, args, created, limited, ghostVars>>

\* Mutant: the machine the call resolved to is rolled back, adopted or not.
RollbackTargetAny(c) == machine[c]

\* Only a machine that this call created may be deleted again.
RollbackTarget(c) == created[c]

MustRollBack(c) ==
  /\ args[c].autoDelete
  /\ RollbackTarget(c) # NoId
  /\ ans[c].code \in OverageCodes

\* After validateById: the create-time verdict wins, then the rollback.
\* `outcome` keeps the verdict of a call that still has to delete.
OnVerdict(c) ==
  /\ pc[c] = "validate" /\ ans[c].kind = "verdict"
  /\ LET code == ans[c].code IN
       \/ /\ limited[c] # "none"
          /\ Finish(c, Result(limited[c], NoId))
       \/ /\ limited[c] = "none" /\ MustRollBack(c)
          /\ pc' = [pc EXCEPT ![c] = "delete"]
          /\ ans' = [ans EXCEPT ![c] = NoAnswer]
          /\ net' = net \cup
               {[op |-> "delete", call |-> c, id |-> RollbackTarget(c)]}
          /\ outcome' = [outcome EXCEPT ![c] = Result(code, NoId)]
       \/ /\ limited[c] = "none" /\ ~MustRollBack(c)
          /\ Finish(c, Result(code, machine[c]))
  /\ UNCHANGED <<serverVars, localVars, ghostVars>>

\* The rollback's DELETE was answered; a 404 is swallowed like any failure.
OnDeleted(c) ==
  /\ pc[c] = "delete" /\ ans[c].kind \in {"deleted", "missing"}
  /\ Finish(c, outcome[c])
  /\ UNCHANGED <<serverVars, localVars, ghostVars>>

\* The awaited request fails for the client: its deadline expired, the
\* connection dropped, or the server answered an error no branch handles.
\* The request stays in the network: it may have been, or may yet be,
\* executed.  The rollback's DELETE is the one failure that is swallowed.
Fail(c) ==
  /\ pc[c] \in Waiting
  /\ \/ pc[c] # "delete" /\ Finish(c, Threw("FAILED"))
     \/ pc[c] = "delete" /\ Finish(c, outcome[c])
  /\ faulted' = faulted \cup {c}
  /\ UNCHANGED <<serverVars, localVars, disturbed, rolledBack>>

-----------------------------------------------------------------------------
(* The server, as the client uses it.                                      *)

\* The server consumes request r; the answer reaches the call only while it
\* still awaits that request.
Reply(r, a) ==
  /\ net' = net \ {r}
  /\ ans' = IF pc[r.call] = r.op THEN [ans EXCEPT ![r.call] = a] ELSE ans
  /\ UNCHANGED <<pc, localVars, outcome>>

Conflicts(lic, fp) ==
  {m \in machines : m.fp = fp /\ (m.lic = lic \/ WiderScope)}

\* What a 409 may carry as meta.machineId: nothing (an older server, or a
\* conflict on another license), or an id that the client must not believe
\* without reading the row back; never the same fingerprint elsewhere.
Hints(lic, fp) ==
  {NoId} \cup {m.id : m \in {n \in machines : n.lic = lic \/ n.fp # fp}}

ServerCreate(r) ==
  /\ r \in net /\ r.op = "create"
  /\ LET lic == args[r.call].lic
         fp  == args[r.call].fp
     IN  \/ /\ Conflicts(lic, fp) # {}
            /\ \E hint \in Hints(lic, fp) :
                 Reply(r, [kind |-> "taken", id |-> hint])
            /\ UNCHANGED serverVars
         \/ /\ Conflicts(lic, fp) = {}
            /\ \E code \in OtherLimits \cup
                    {x \in {"MACHINE_LIMIT_EXCEEDED"} :
                       Cardinality(RowsOn(lic)) + 1 > CreateCap} :
                 Reply(r, [kind |-> "limit", code |-> code])
            /\ UNCHANGED serverVars
         \/ /\ Conflicts(lic, fp) = {}
            /\ Cardinality(RowsOn(lic)) + 1 <= CreateCap
            /\ \E id \in MachineIds \ {m.id : m \in issued} :
                 LET row == [id |-> id, lic |-> lic, fp |-> fp, by |-> r.call] IN
                 /\ machines' = machines \cup {row}
                 /\ issued' = issued \cup {row}
                 /\ Reply(r, [kind |-> "created", id |-> id])
  /\ UNCHANGED ghostVars

RowAnswers(S) ==
  IF S = {} THEN {[kind |-> "missing"]}
  ELSE {[kind |-> "row", id |-> m.id, fp |-> m.fp] : m \in S}

\* GET /machines/{id} is not scoped to a license.
ServerGet(r) ==
  /\ r \in net /\ r.op = "get"
  /\ \E a \in RowAnswers({m \in machines : m.id = r.id}) : Reply(r, a)
  /\ UNCHANGED <<serverVars, ghostVars>>

\* Mutant: the search is not filtered by license.
SearchScopeAll(lic) == machines

\* listMachines({ licenseId })
SearchScope(lic) == RowsOn(lic)

\* findMachineByFingerprint on a license whose machines fit one page
\* (Listings has the walk over several pages).
ServerSearch(r) ==
  /\ r \in net /\ r.op = "search"
  /\ \E a \in RowAnswers({m \in SearchScope(args[r.call].lic) :
                            m.fp = args[r.call].fp}) : Reply(r, a)
  /\ UNCHANGED <<serverVars, ghostVars>>

CountVerdict(lic) ==
  IF Cardinality(RowsOn(lic)) > MaxMachines THEN "TOO_MANY_MACHINES" ELSE "VALID"

ServerValidate(r) ==
  /\ r \in net /\ r.op = "validate"
  /\ \E code \in {CountVerdict(args[r.call].lic)} \cup OtherVerdicts :
       Reply(r, [kind |-> "verdict", code |-> code])
  /\ UNCHANGED <<serverVars, ghostVars>>

ServerDelete(r) ==
  /\ r \in net /\ r.op = "delete"
  /\ LET gone == {m \in machines : m.id = r.id} IN
       /\ machines' = machines \ gone
       /\ Reply(r, [kind |-> IF gone = {} THEN "missing" ELSE "deleted"])
       /\ disturbed' = IF gone = {} THEN disturbed ELSE disturbed \cup Running
       /\ rolledBack' = rolledBack \cup {m.id : m \in gone}
  /\ UNCHANGED <<issued, faulted>>

\* A machine row disappears for another reason: an operator deleted it, or
\* the server culled it for missing heartbeats.
Cull(m) ==
  /\ m \in machines
  /\ machines' = machines \ {m}
  /\ disturbed' = disturbed \cup Running
  /\ UNCHANGED <<issued, net, pc, localVars, ans, outcome, faulted, rolledBack>>

-----------------------------------------------------------------------------
ClientStep(c) ==
  \/ Start(c) \/ OnCreated(c) \/ OnTaken(c) \/ OnLimit(c) \/ OnGot(c)
  \/ OnFound(c) \/ OnVerdict(c) \/ OnDeleted(c) \/ Fail(c)

ServerStep(r) ==
  \/ ServerCreate(r) \/ ServerGet(r) \/ ServerSearch(r)
  \/ ServerValidate(r) \/ ServerDelete(r)

Next ==
  \/ \E c \in Calls : ClientStep(c)
  \/ \E r \in net : ServerStep(r)
  \/ \E m \in machines : Cull(m)

Spec == Init /\ [][Next]_vars

\* Every awaited request ends: with its answer or with the deadline that
\* the transport arms around each attempt.  A call need not be started.
Fairness ==
  \A c \in Calls : WF_vars(\/ OnCreated(c) \/ OnTaken(c) \/ OnLimit(c)
                           \/ OnGot(c) \/ OnFound(c) \/ OnVerdict(c)
                           \/ OnDeleted(c) \/ Fail(c))

FairSpec == Spec /\ Fairness
-----------------------------------------------------------------------------
TypeOK ==
  /\ machines \subseteq issued
  /\ issued \subseteq Row
  /\ net \subseteq Message
  /\ pc \in [Calls -> Waiting \cup {"idle", "done"}]
  /\ args \in [Calls -> Requests]
  /\ ans \in [Calls -> Answer]
  /\ created \in [Calls -> OptionalId]
  /\ machine \in [Calls -> OptionalId]
  /\ limited \in [Calls -> OverageCodes \cup {"none"}]
  /\ outcome \in [Calls -> Outcome]
  /\ faulted \subseteq Calls
  /\ disturbed \subseteq Calls
  /\ rolledBack \subseteq MachineIds

\* A rollback only ever names a machine the same call created, however late
\* its DELETE is executed (client.ts, `createdMachine` kept apart from
\* `machine`).
DeletesOnlyOwn ==
  \A r \in net : r.op = "delete" =>
    \E m \in issued : m.id = r.id /\ m.by = r.call

\* The machine a call resolves to is one of its own license and fingerprint,
\* although the id in a 409 is unverified and GET is not license-scoped
\* (adoptConflictingMachine).
MachineMatchesRequest ==
  \A c \in Calls : machine[c] # NoId =>
    \E m \in issued : /\ m.id = machine[c]
                      /\ m.lic = args[c].lic
                      /\ m.fp = args[c].fp

\* A result without a machine always carries an over-limit code, so that no
\* caller is told VALID about an activation that holds no seat (the cases
\* the doc of ValidationResult.machine lists).
NoMachineOnlyOverLimit ==
  \A c \in Calls :
    (pc[c] = "done" /\ outcome[c].kind = "result" /\ outcome[c].machine = NoId)
    => outcome[c].code \in OverageCodes

\* No silent seat: a row still on the server after the call that created it
\* ended was reported to the caller of that call, unless a request failed.
SeatsAccountedFor ==
  \A m \in machines : pc[m.by] = "done" /\ m.by \notin faulted =>
    outcome[m.by].kind = "result" /\ outcome[m.by].machine = m.id

Told(c, code) ==
  pc[c] = "done" /\ outcome[c].kind = "result" /\ outcome[c].code = code

\* The machines still registered that some caller was told VALID about never
\* outnumber the limit, whatever the interleaving of creates, rollbacks and
\* adoptions: validation follows the create it vouches for.
ValidSeatsWithinLimit ==
  \A lic \in Licenses :
    Cardinality({m \in RowsOn(lic) :
      \E c \in Calls : Told(c, "VALID") /\ outcome[c].machine = m.id})
    <= MaxMachines

\* Another license holds or held the fingerprint the call asks for, under a
\* uniqueness scope that spans both.
TakenElsewhere(c) ==
  /\ WiderScope
  /\ \E m \in issued : m.fp = args[c].fp /\ m.lic # args[c].lic

\* With reuse, a known fingerprint is activated again instead of refused: a
\* call ends in FINGERPRINT_TAKEN only if a row went away while it ran or
\* the conflict can be on another license.
ReuseIsIdempotent ==
  \A c \in Calls :
    /\ outcome[c].kind = "threw" /\ outcome[c].code = "FINGERPRINT_TAKEN"
    /\ args[c].reuse
    /\ ~TakenElsewhere(c)
    => c \in disturbed

\* Every activation that starts ends, with a result or an exception.
Settles == \A c \in Calls : (pc[c] # "idle") ~> (pc[c] = "done")

\* "A reused machine is never rolled back" (client.ts, doc of
\* activateMachine): a machine handed to a caller that did not create it
\* stays, unless an operator removes it.
ReusedNeverRolledBack ==
  \A c \in Calls :
    Told(c, "VALID") /\ outcome[c].machine # created[c]
    => outcome[c].machine \notin rolledBack

-----------------------------------------------------------------------------
(* The seat ledger that all of this amounts to.                            *)

\* What each call has told its caller so far.
Reported ==
  [c \in Calls |-> IF pc[c] = "idle" THEN [kind |-> "idle"]
                   ELSE IF pc[c] = "done" THEN outcome[c] ELSE Pending]

Ledger == INSTANCE SeatLedger WITH
  seats <- machines, taken <- issued, asked <- args, report <- Reported,
  returned <- rolledBack, unsure <- faulted

\* However creates, adoptions and rollbacks interleave, fail or come late,
\* each activation is one entry of the ledger: at most one seat taken, and a
\* report that names the seat held, or says why there is none
\* (activateMachine).
ImplementsSeatLedger == Ledger!Spec
=============================================================================
