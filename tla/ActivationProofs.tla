-------------------------- MODULE ActivationProofs --------------------------
(***************************************************************************)
(* Proofs about Activation, for every set of calls, machines, licenses and *)
(* fingerprints and every limit.                                           *)
(***************************************************************************)
EXTENDS Activation, FiniteSetTheorems, TLAPS

-----------------------------------------------------------------------------
(* Type correctness.                                                       *)

USE DEF Waiting, OptionalId

LEMMA CreateLimitCodeType ==
  ASSUME NEW code \in CreateLimitCodes
  PROVE  CreateLimitValidationCode(code) \in OverageCodes
BY DEF CreateLimitCodes, CreateLimitValidationCode, OverageCodes

\* What the sub-actions shared by the client's steps preserve.
LEMMA AwaitType ==
  ASSUME TypeOK, NEW c \in Calls, NEW op \in Waiting, NEW id \in OptionalId,
         Await(c, op, id)
  PROVE  /\ net' \subseteq Message
         /\ pc' \in [Calls -> Waiting \cup {"idle", "done"}]
         /\ ans' \in [Calls -> Answer]
         /\ outcome' \in [Calls -> Outcome]
BY DEF TypeOK, Await, Message, Answer, NoAnswer

LEMMA FinishType ==
  ASSUME TypeOK, NEW c \in Calls, NEW out \in Outcome, Finish(c, out)
  PROVE  /\ net' \subseteq Message
         /\ pc' \in [Calls -> Waiting \cup {"idle", "done"}]
         /\ ans' \in [Calls -> Answer]
         /\ outcome' \in [Calls -> Outcome]
BY DEF TypeOK, Finish, Answer, NoAnswer

LEMMA ReplyType ==
  ASSUME TypeOK, NEW r \in net, NEW a \in Answer, Reply(r, a)
  PROVE  /\ net' \subseteq Message
         /\ pc' \in [Calls -> Waiting \cup {"idle", "done"}]
         /\ args' \in [Calls -> Requests]
         /\ ans' \in [Calls -> Answer]
         /\ created' \in [Calls -> OptionalId]
         /\ machine' \in [Calls -> OptionalId]
         /\ limited' \in [Calls -> OverageCodes \cup {"none"}]
         /\ outcome' \in [Calls -> Outcome]
BY DEF TypeOK, Reply, Message, localVars

LEMMA ThrewType ==
  ASSUME NEW code \in {"FINGERPRINT_TAKEN", "FAILED"}
  PROVE  Threw(code) \in Outcome
BY DEF Threw, Outcome

LEMMA ResultType ==
  ASSUME NEW code \in Verdicts \cup OverageCodes, NEW m \in OptionalId
  PROVE  Result(code, m) \in Outcome
BY DEF Result, Outcome

LEMMA InitType == Init => TypeOK
<1> SUFFICES ASSUME Init PROVE TypeOK
  OBVIOUS
<1>1. (CHOOSE q \in Requests : TRUE) \in Requests
  BY ConstantsAssumption
<1>2. NoAnswer \in Answer /\ Pending \in Outcome
  BY DEF NoAnswer, Answer, Pending, Outcome
<1> QED
  BY <1>1, <1>2 DEF Init, TypeOK

LEMMA ClientType ==
  ASSUME TypeOK, NEW c \in Calls, ClientStep(c)
  PROVE  TypeOK'
<1> USE DEF serverVars, localVars, ghostVars
<1>1. CASE Start(c)
  BY <1>1, AwaitType DEF Start, TypeOK
<1>2. CASE OnCreated(c)
  <2>1. ans[c].id \in MachineIds
    BY <1>2 DEF OnCreated, TypeOK, Answer
  <2> QED BY <1>2, <2>1, AwaitType DEF OnCreated, TypeOK
<1>3. CASE OnTaken(c)
  <2>1. ans[c].id \in OptionalId
    BY <1>3 DEF OnTaken, TypeOK, Answer
  <2> QED BY <1>3, <2>1, AwaitType, FinishType, ThrewType DEF OnTaken, TypeOK
<1>4. CASE OnLimit(c)
  <2>1. ans[c].code \in CreateLimitCodes
    BY <1>4 DEF OnLimit, TypeOK, Answer
  <2> QED BY <1>4, <2>1, AwaitType, CreateLimitCodeType DEF OnLimit, TypeOK
<1>5. CASE OnGot(c)
  <2>1. Matches(c) => ans[c].id \in MachineIds
    BY DEF Matches, TypeOK, Answer
  <2> QED BY <1>5, <2>1, AwaitType DEF OnGot, TypeOK
<1>6. CASE OnFound(c)
  <2>1. Matches(c) => ans[c].id \in MachineIds
    BY DEF Matches, TypeOK, Answer
  <2> QED BY <1>6, <2>1, AwaitType, FinishType, ThrewType DEF OnFound, TypeOK
<1>7. CASE OnVerdict(c)
  <2>1. ans[c].code \in Verdicts
    BY <1>7 DEF OnVerdict, TypeOK, Answer
  <2>2. CASE limited[c] # "none" /\ Finish(c, Result(limited[c], NoId))
    BY <1>7, <2>2, FinishType, ResultType DEF OnVerdict, TypeOK
  <2>3. CASE Finish(c, Result(ans[c].code, machine[c]))
    BY <1>7, <2>1, <2>3, FinishType, ResultType DEF OnVerdict, TypeOK
  <2>4. CASE /\ pc' = [pc EXCEPT ![c] = "delete"]
             /\ ans' = [ans EXCEPT ![c] = NoAnswer]
             /\ net' = net \cup
                  {[op |-> "delete", call |-> c, id |-> RollbackTarget(c)]}
             /\ outcome' = [outcome EXCEPT ![c] = Result(ans[c].code, NoId)]
    <3>1. Result(ans[c].code, NoId) \in Outcome
      BY <2>1, ResultType
    <3>2. [op |-> "delete", call |-> c, id |-> RollbackTarget(c)] \in Message
      BY DEF TypeOK, RollbackTarget, Message
    <3>3. NoAnswer \in Answer
      BY DEF NoAnswer, Answer
    <3> QED BY <1>7, <2>4, <3>1, <3>2, <3>3 DEF OnVerdict, TypeOK
  <2> QED BY <1>7, <2>2, <2>3, <2>4 DEF OnVerdict
<1>8. CASE OnDeleted(c)
  BY <1>8, FinishType DEF OnDeleted, TypeOK
<1>9. CASE Fail(c)
  BY <1>9, FinishType, ThrewType DEF Fail, TypeOK
<1> QED
  BY <1>1, <1>2, <1>3, <1>4, <1>5, <1>6, <1>7, <1>8, <1>9 DEF ClientStep

LEMMA ServerType ==
  ASSUME TypeOK, NEW r \in net, ServerStep(r)
  PROVE  TypeOK'
<1> USE DEF serverVars, ghostVars
<1>0. r \in Message /\ r.call \in Calls /\ r.op \in Waiting /\ r.id \in OptionalId
  BY DEF TypeOK, Message
<1>1. CASE ServerCreate(r)
  <2> DEFINE lic == args[r.call].lic
             fp  == args[r.call].fp
  <2>0. lic \in Licenses /\ fp \in Fingerprints
    BY <1>0, ConstantsAssumption DEF TypeOK
  <2>1. CASE \E hint \in Hints(lic, fp) :
               /\ Reply(r, [kind |-> "taken", id |-> hint])
               /\ UNCHANGED serverVars
    <3>1. PICK hint \in Hints(lic, fp) :
            Reply(r, [kind |-> "taken", id |-> hint]) /\ UNCHANGED serverVars
      BY <2>1
    <3>2. hint \in OptionalId
      BY DEF Hints, TypeOK, Row
    <3>3. [kind |-> "taken", id |-> hint] \in Answer
      BY <3>2 DEF Answer
    <3> QED BY <1>1, <3>1, <3>3, ReplyType DEF ServerCreate, TypeOK
  <2>2. CASE \E code \in CreateLimitCodes :
               /\ Reply(r, [kind |-> "limit", code |-> code])
               /\ UNCHANGED serverVars
    <3>1. PICK code \in CreateLimitCodes :
            Reply(r, [kind |-> "limit", code |-> code]) /\ UNCHANGED serverVars
      BY <2>2
    <3>2. [kind |-> "limit", code |-> code] \in Answer
      BY DEF Answer
    <3> QED BY <1>1, <3>1, <3>2, ReplyType DEF ServerCreate, TypeOK
  <2>3. CASE \E id \in MachineIds : \E row \in Row :
               /\ machines' = machines \cup {row}
               /\ issued' = issued \cup {row}
               /\ Reply(r, [kind |-> "created", id |-> id])
    <3>1. PICK id \in MachineIds, row \in Row :
               /\ machines' = machines \cup {row}
               /\ issued' = issued \cup {row}
               /\ Reply(r, [kind |-> "created", id |-> id])
      BY <2>3
    <3>2. [kind |-> "created", id |-> id] \in Answer
      BY DEF Answer
    <3> QED BY <1>1, <3>1, <3>2, ReplyType DEF ServerCreate, TypeOK
  <2>4. OtherLimits \cup {x \in {"MACHINE_LIMIT_EXCEEDED"} :
           Cardinality(RowsOn(lic)) + 1 > CreateCap} \subseteq CreateLimitCodes
    BY ConstantsAssumption DEF CreateLimitCodes
  <2>5. \A id \in MachineIds :
          [id |-> id, lic |-> lic, fp |-> fp, by |-> r.call] \in Row
    BY <1>0, <2>0 DEF Row
  <2> HIDE DEF lic, fp
  <2>6. \/ \E hint \in Hints(lic, fp) :
               /\ Reply(r, [kind |-> "taken", id |-> hint])
               /\ UNCHANGED serverVars
        \/ \E code \in CreateLimitCodes :
               /\ Reply(r, [kind |-> "limit", code |-> code])
               /\ UNCHANGED serverVars
        \/ \E id \in MachineIds : \E row \in Row :
               /\ machines' = machines \cup {row}
               /\ issued' = issued \cup {row}
               /\ Reply(r, [kind |-> "created", id |-> id])
    BY <1>1, <2>4, <2>5 DEF ServerCreate, lic, fp
  <2> QED BY <2>1, <2>2, <2>3, <2>6
<1>2. CASE ServerGet(r) \/ ServerSearch(r)
  <2>1. PICK S \in SUBSET machines : \E a \in RowAnswers(S) :
               Reply(r, a) /\ UNCHANGED <<serverVars, ghostVars>>
    BY <1>2 DEF ServerGet, ServerSearch, SearchScope, RowsOn
  <2>2. RowAnswers(S) \subseteq Answer
    BY DEF RowAnswers, Answer, TypeOK, Row
  <2> QED BY <2>1, <2>2, ReplyType DEF TypeOK
<1>3. CASE ServerValidate(r)
  <2>1. PICK code \in {CountVerdict(args[r.call].lic)} \cup OtherVerdicts :
               Reply(r, [kind |-> "verdict", code |-> code])
    BY <1>3 DEF ServerValidate
  <2>2. [kind |-> "verdict", code |-> code] \in Answer
    BY DEF CountVerdict, Verdicts, Answer
  <2> QED BY <1>3, <2>1, <2>2, ReplyType DEF ServerValidate, TypeOK
<1>4. CASE ServerDelete(r)
  <2> DEFINE gone == {m \in machines : m.id = r.id}
             a == [kind |-> IF gone = {} THEN "missing" ELSE "deleted"]
  <2>1. a \in Answer
    BY DEF Answer
  <2>2. Reply(r, a) /\ machines' = machines \ gone
    BY <1>4 DEF ServerDelete
  <2>3. rolledBack' \subseteq MachineIds /\ disturbed' \subseteq Calls
    BY <1>4 DEF ServerDelete, TypeOK, Row, Running
  <2>4. UNCHANGED <<issued, faulted>>
    BY <1>4 DEF ServerDelete
  <2> HIDE DEF a, gone
  <2> QED BY <2>1, <2>2, <2>3, <2>4, ReplyType DEF TypeOK
<1> QED
  BY <1>1, <1>2, <1>3, <1>4 DEF ServerStep

LEMMA CullType ==
  ASSUME TypeOK, NEW m \in machines, Cull(m)
  PROVE  TypeOK'
BY DEF TypeOK, Cull, Running, localVars

LEMMA NextType == TypeOK /\ [Next]_vars => TypeOK'
<1> SUFFICES ASSUME TypeOK, [Next]_vars PROVE TypeOK'
  OBVIOUS
<1>1. CASE UNCHANGED vars
  BY <1>1 DEF TypeOK, vars
<1> QED
  BY <1>1, ClientType, ServerType, CullType DEF Next

\* Every variable of the activation protocol keeps its type.
THEOREM TypeCorrect == Spec => []TypeOK
BY InitType, NextType, PTL DEF Spec

-----------------------------------------------------------------------------
(* Whose machine is whose.  The invariant below ties every id a call may   *)
(* hold (in an answer, in a local, in a request) to the row it names.      *)

\* Row m is what call c asked for.
Wanted(m, c) == m.lic = args[c].lic /\ m.fp = args[c].fp

\* Row m may be named to call c: not its fingerprint on another license.
Namable(m, c) == m.fp = args[c].fp => m.lic = args[c].lic

RowIdentity == \A m, n \in issued : m.id = n.id => m = n

\* Rows come from the one create of a call that has started.
RowOrigin ==
  /\ \A m \in issued : /\ Wanted(m, m.by)
                       /\ pc[m.by] # "idle"
                       /\ \A r \in net : r.op = "create" => r.call # m.by
  /\ \A m, n \in issued : m.by = n.by => m = n
  /\ \A r \in net : r.op = "create" => r.id = NoId

IdleCalls ==
  /\ \A c \in Calls : pc[c] = "idle" =>
       /\ ans[c] = NoAnswer /\ outcome[c] = Pending
       /\ machine[c] = NoId /\ created[c] = NoId
  /\ \A r \in net : pc[r.call] # "idle"

\* The answers a call can find while it awaits each kind of request.
Answers(op, kind) ==
  \/ op = "create" /\ kind \in {"created", "taken", "limit"}
  \/ op \in {"get", "search"} /\ kind \in {"row", "missing"}
  \/ op = "validate" /\ kind = "verdict"
  \/ op = "delete" /\ kind \in {"deleted", "missing"}

AnswersFit ==
  \A c \in Calls : ans[c].kind = "none" \/ Answers(pc[c], ans[c].kind)

CreatedRows ==
  \A c \in Calls :
    /\ ans[c].kind = "created" =>
         \E m \in issued : m.id = ans[c].id /\ m.by = c
    /\ created[c] # NoId =>
         \E m \in issued : m.id = created[c] /\ m.by = c

NamedRows ==
  /\ \A c \in Calls : ans[c].kind = "taken" /\ ans[c].id # NoId =>
       \E m \in issued : m.id = ans[c].id /\ Namable(m, c)
  /\ \A c \in Calls : ans[c].kind = "row" =>
       \E m \in issued : m.id = ans[c].id /\ m.fp = ans[c].fp /\ Namable(m, c)
  /\ \A r \in net : r.op = "get" =>
       \E m \in issued : m.id = r.id /\ Namable(m, r.call)

OwnInv ==
  /\ TypeOK
  /\ RowIdentity
  /\ RowOrigin
  /\ IdleCalls
  /\ AnswersFit
  /\ CreatedRows
  /\ NamedRows
  /\ DeletesOnlyOwn
  /\ MachineMatchesRequest

LEMMA InitOwn == Init => OwnInv
<1> SUFFICES ASSUME Init PROVE OwnInv
  OBVIOUS
<1>1. TypeOK
  BY InitType
<1> QED
  BY <1>1 DEF Init, OwnInv, RowIdentity, RowOrigin, IdleCalls, AnswersFit, CreatedRows,
     NamedRows, DeletesOnlyOwn, MachineMatchesRequest, NoAnswer

\* What a step of a call that has started does, whichever step it is.
Frame(c) ==
  /\ UNCHANGED <<machines, issued, args>>
  /\ pc[c] # "idle"
  /\ \A d \in Calls : pc[d] # "idle" => pc'[d] # "idle"
  /\ \A d \in Calls : d # c =>
       /\ pc'[d] = pc[d] /\ ans'[d] = ans[d] /\ outcome'[d] = outcome[d]
       /\ created'[d] = created[d] /\ machine'[d] = machine[d]
  /\ ans'[c] = NoAnswer
  /\ pc'[c] \notin {"idle", "create"}

\* The requests such a step adds.
Sends(c) ==
  \A r \in net' : r \notin net =>
    /\ r.call = c
    /\ r.op = pc'[c]
    /\ r.op # "create"
    /\ r.op = "get" =>
         ans[c].kind = "taken" /\ ans[c].id # NoId /\ r.id = ans[c].id
    /\ r.op = "delete" => created[c] # NoId /\ r.id = created[c]
    /\ r.op \in {"search", "validate"} => r.id = NoId

\* The locals such a step assigns.
Assigns(c) ==
  /\ created'[c] = created[c] \/ (ans[c].kind = "created" /\ created'[c] = ans[c].id)
  /\ \/ machine'[c] = machine[c]
     \/ (ans[c].kind = "created" \/ Matches(c)) /\ machine'[c] = ans[c].id

LEMMA AwaitFrame ==
  ASSUME TypeOK, NEW c \in Calls, NEW op \in Waiting, NEW id, Await(c, op, id)
  PROVE  /\ pc' = [pc EXCEPT ![c] = op]
         /\ pc'[c] = op
         /\ ans'[c] = NoAnswer
         /\ \A d \in Calls : d # c => pc'[d] = pc[d] /\ ans'[d] = ans[d]
         /\ outcome' = outcome
         /\ \A r \in net' : r \notin net => r = [op |-> op, call |-> c, id |-> id]
BY DEF TypeOK, Await

LEMMA FinishFrame ==
  ASSUME TypeOK, NEW c \in Calls, NEW out, Finish(c, out)
  PROVE  /\ pc'[c] = "done"
         /\ ans'[c] = NoAnswer
         /\ \A d \in Calls : d # c =>
              pc'[d] = pc[d] /\ ans'[d] = ans[d] /\ outcome'[d] = outcome[d]
         /\ outcome'[c] = out
         /\ net' = net
BY DEF TypeOK, Finish

LEMMA ClientFrame ==
  ASSUME TypeOK, NEW c \in Calls, ClientStep(c), ~Start(c)
  PROVE  Frame(c) /\ Sends(c) /\ Assigns(c)
<1> USE DEF serverVars, localVars, ghostVars, Frame, Sends, Assigns
<1>2. CASE OnCreated(c)
  BY <1>2, AwaitFrame DEF OnCreated, TypeOK
<1>3. CASE OnTaken(c)
  BY <1>3, AwaitFrame, FinishFrame DEF OnTaken, TypeOK
<1>4. CASE OnLimit(c)
  BY <1>4, AwaitFrame DEF OnLimit, TypeOK
<1>5. CASE OnGot(c)
  BY <1>5, AwaitFrame DEF OnGot, TypeOK
<1>6. CASE OnFound(c)
  BY <1>6, AwaitFrame, FinishFrame DEF OnFound, TypeOK
<1>7. CASE OnVerdict(c)
  <2>1. CASE \E out : Finish(c, out)
    BY <1>7, <2>1, FinishFrame DEF OnVerdict, TypeOK
  <2>2. CASE /\ MustRollBack(c)
             /\ pc' = [pc EXCEPT ![c] = "delete"]
             /\ ans' = [ans EXCEPT ![c] = NoAnswer]
             /\ net' = net \cup
                  {[op |-> "delete", call |-> c, id |-> RollbackTarget(c)]}
             /\ outcome' = [outcome EXCEPT ![c] = Result(ans[c].code, NoId)]
    BY <1>7, <2>2 DEF OnVerdict, TypeOK, MustRollBack, RollbackTarget
  <2> QED BY <1>7, <2>1, <2>2 DEF OnVerdict
<1>8. CASE OnDeleted(c)
  BY <1>8, FinishFrame DEF OnDeleted, TypeOK
<1>9. CASE Fail(c)
  BY <1>9, FinishFrame DEF Fail, TypeOK
<1> QED
  BY <1>2, <1>3, <1>4, <1>5, <1>6, <1>7, <1>8, <1>9 DEF ClientStep

LEMMA StartOwn ==
  ASSUME OwnInv, NEW c \in Calls, Start(c)
  PROVE  OwnInv'
<1> USE DEF serverVars, ghostVars, OwnInv, Wanted, Namable
<1>1. \A m \in issued : m.by # c
  BY DEF Start, RowOrigin
<1>2. \A r \in net : r.call # c
  BY DEF Start, IdleCalls
<1>3. /\ pc' = [pc EXCEPT ![c] = "create"]
      /\ ans' = [ans EXCEPT ![c] = NoAnswer]
      /\ net' = net \cup {[op |-> "create", call |-> c, id |-> NoId]}
      /\ \A d \in Calls : d # c => args'[d] = args[d]
      /\ UNCHANGED <<machines, issued, outcome, created, machine>>
  BY DEF Start, Await, TypeOK
<1>4. machine[c] = NoId /\ created[c] = NoId
  BY DEF Start, IdleCalls
<1>5. TypeOK'
  BY ClientType DEF ClientStep
<1>6. RowIdentity'
  BY <1>3 DEF RowIdentity
<1>7. RowOrigin'
  BY <1>1, <1>3 DEF RowOrigin, TypeOK, Row
<1>8. IdleCalls' /\ AnswersFit'
  BY <1>3 DEF IdleCalls, AnswersFit, Answers, NoAnswer, TypeOK, Message
<1>9. CreatedRows' /\ DeletesOnlyOwn'
  BY <1>3, <1>4 DEF CreatedRows, DeletesOnlyOwn, NoAnswer, TypeOK
<1>10. NamedRows'
  BY <1>2, <1>3 DEF NamedRows, NoAnswer, TypeOK, Message
<1>11. MachineMatchesRequest'
  BY <1>3, <1>4 DEF MachineMatchesRequest, TypeOK
<1> QED BY <1>5, <1>6, <1>7, <1>8, <1>9, <1>10, <1>11

LEMMA ClientOwn ==
  ASSUME OwnInv, NEW c \in Calls, ClientStep(c), ~Start(c)
  PROVE  OwnInv'
<1> USE DEF OwnInv, Wanted, Namable
<1>1. Frame(c) /\ Sends(c) /\ Assigns(c)
  BY ClientFrame
<1>2. TypeOK'
  BY ClientType
<1>3. RowIdentity'
  BY <1>1 DEF RowIdentity, Frame
<1>4. RowOrigin'
  BY <1>1 DEF RowOrigin, Frame, Sends, TypeOK, Row
<1>5. IdleCalls'
  BY <1>1 DEF IdleCalls, Frame, Sends, TypeOK, Message
<1>6. AnswersFit'
  BY <1>1 DEF AnswersFit, Frame, NoAnswer, TypeOK
<1>7. CreatedRows'
  BY <1>1 DEF CreatedRows, Frame, Assigns, NoAnswer, TypeOK
<1>8. NamedRows'
  BY <1>1 DEF NamedRows, Frame, Sends, NoAnswer, TypeOK
<1>9. DeletesOnlyOwn'
  BY <1>1 DEF DeletesOnlyOwn, CreatedRows, Frame, Sends, TypeOK
<1>10. MachineMatchesRequest'
  <2>1. ans[c].kind = "created" =>
          \E m \in issued : m.id = ans[c].id /\ Wanted(m, c)
    BY DEF CreatedRows, RowOrigin
  <2>2. Matches(c) => \E m \in issued : m.id = ans[c].id /\ Wanted(m, c)
    BY DEF NamedRows, Matches
  <2> QED BY <1>1, <2>1, <2>2 DEF MachineMatchesRequest, Frame, Assigns, TypeOK
<1> QED BY <1>2, <1>3, <1>4, <1>5, <1>6, <1>7, <1>8, <1>9, <1>10

\* What an execution by the server does to the calls: it uses up request r
\* and answers its call with a, if that call is still waiting.
ReplyFrame(r, a) ==
  /\ net' = net \ {r}
  /\ UNCHANGED <<pc, args, created, machine, limited, outcome>>
  /\ \A d \in Calls : \/ ans'[d] = ans[d]
                      \/ d = r.call /\ pc[d] = r.op /\ ans'[d] = a

LEMMA ReplyFramed ==
  ASSUME TypeOK, NEW r \in net, NEW a, Reply(r, a)
  PROVE  ReplyFrame(r, a)
BY DEF Reply, ReplyFrame, TypeOK, localVars, Message

\* An answer that names no row a call must not believe.
Sound(r, a) ==
  /\ Answers(r.op, a.kind)
  /\ a.kind = "created" => \E m \in issued' : m.id = a.id /\ m.by = r.call
  /\ a.kind = "taken" /\ a.id # NoId =>
       \E m \in issued : m.id = a.id /\ Namable(m, r.call)
  /\ a.kind = "row" =>
       \E m \in issued : m.id = a.id /\ m.fp = a.fp /\ Namable(m, r.call)

\* The issued rows grow at most by the one row a create request was for.
Grows(r) ==
  \A m \in issued' : m \in issued \/
    /\ r.op = "create" /\ m.by = r.call /\ Wanted(m, r.call)
    /\ \A n \in issued : n.id # m.id
    /\ issued' = issued \cup {m}

LEMMA ReplyOwn ==
  ASSUME OwnInv, NEW r \in net, NEW a, ReplyFrame(r, a), Sound(r, a), Grows(r),
         issued \subseteq issued', TypeOK'
  PROVE  OwnInv'
<1> USE DEF OwnInv, Wanted, Namable, ReplyFrame
<1>0. r.call \in Calls /\ r.op \in Waiting
  BY DEF TypeOK, Message
<1>1. RowIdentity'
  BY DEF RowIdentity, Grows
<1>2. RowOrigin'
  <2>1. \A n \in issued : r.op = "create" => n.by # r.call
    BY DEF RowOrigin
  <2>2. pc[r.call] # "idle"
    BY DEF IdleCalls
  <2>3. \A q \in net : q.op = "create" /\ r.op = "create" /\ q.call = r.call => q = r
    BY DEF RowOrigin, TypeOK, Message
  <2> QED BY <2>1, <2>2, <2>3 DEF RowOrigin, Grows
<1>3. IdleCalls'
  BY <1>0 DEF IdleCalls, TypeOK
<1>4. AnswersFit'
  BY DEF AnswersFit, Sound
<1>5. CreatedRows'
  BY DEF CreatedRows, Sound
<1>6. NamedRows'
  BY DEF NamedRows, Sound
<1>7. DeletesOnlyOwn' /\ MachineMatchesRequest'
  BY DEF DeletesOnlyOwn, MachineMatchesRequest
<1> QED BY <1>1, <1>2, <1>3, <1>4, <1>5, <1>6, <1>7

LEMMA ServerOwn ==
  ASSUME OwnInv, NEW r \in net, ServerStep(r)
  PROVE  OwnInv'
<1> USE DEF serverVars, ghostVars
<1>0. TypeOK /\ TypeOK'
  BY ServerType DEF OwnInv
<1>1. SUFFICES \E a : Reply(r, a) /\ Sound(r, a) /\ Grows(r) /\ issued \subseteq issued'
  BY <1>0, ReplyFramed, ReplyOwn
<1>2. CASE ServerCreate(r)
  <2> DEFINE lic == args[r.call].lic
             fp  == args[r.call].fp
  <2>0. r.op = "create"
    BY <1>2 DEF ServerCreate
  <2>1. CASE \E hint \in Hints(lic, fp) :
               /\ Reply(r, [kind |-> "taken", id |-> hint])
               /\ UNCHANGED serverVars
    BY <1>0, <2>0, <2>1 DEF Hints, Sound, Grows, Answers, Namable, TypeOK
  <2>2. CASE \E code : /\ Reply(r, [kind |-> "limit", code |-> code])
                       /\ UNCHANGED serverVars
    BY <2>0, <2>2 DEF Sound, Grows, Answers
  <2>3. CASE \E id \in MachineIds \ {m.id : m \in issued} :
               LET row == [id |-> id, lic |-> lic, fp |-> fp, by |-> r.call] IN
               /\ issued' = issued \cup {row}
               /\ Reply(r, [kind |-> "created", id |-> id])
    <3>1. PICK id \in MachineIds \ {m.id : m \in issued} :
            /\ issued' = issued \cup
                 {[id |-> id, lic |-> lic, fp |-> fp, by |-> r.call]}
            /\ Reply(r, [kind |-> "created", id |-> id])
      BY <2>3
    <3>2. Sound(r, [kind |-> "created", id |-> id])
      <4> DEFINE row == [id |-> id, lic |-> lic, fp |-> fp, by |-> r.call]
      <4>1. row \in issued' /\ row.id = id /\ row.by = r.call
        BY <3>1
      <4> HIDE DEF row
      <4> QED BY <2>0, <4>1 DEF Sound, Answers
    <3>3. Grows(r)
      BY <2>0, <3>1 DEF Grows, Wanted
    <3> DEFINE a == [kind |-> "created", id |-> id]
    <3>4. Reply(r, a) /\ Sound(r, a) /\ issued \subseteq issued'
      BY <3>1, <3>2
    <3> HIDE DEF a
    <3> QED BY <3>3, <3>4
  <2> QED BY <1>2, <2>1, <2>2, <2>3 DEF ServerCreate
<1>3. CASE ServerGet(r)
  <2>1. \A m \in issued : m.id = r.id => Namable(m, r.call)
    BY <1>3 DEF ServerGet, OwnInv, NamedRows, RowIdentity
  <2> QED BY <1>0, <1>3, <2>1 DEF ServerGet, RowAnswers, Sound, Grows, Answers, TypeOK
<1>4. CASE ServerSearch(r)
  BY <1>0, <1>4
  DEF ServerSearch, SearchScope, RowAnswers, RowsOn, Sound, Grows, Answers, Namable, TypeOK
<1>5. CASE ServerValidate(r)
  BY <1>5 DEF ServerValidate, Sound, Grows, Answers
<1>6. CASE ServerDelete(r)
  BY <1>6 DEF ServerDelete, Sound, Grows, Answers
<1> QED
  BY <1>2, <1>3, <1>4, <1>5, <1>6 DEF ServerStep

LEMMA NextOwn == OwnInv /\ [Next]_vars => OwnInv'
<1> SUFFICES ASSUME OwnInv, [Next]_vars PROVE OwnInv'
  OBVIOUS
<1> USE DEF OwnInv, RowIdentity, RowOrigin, IdleCalls, AnswersFit, CreatedRows,
            NamedRows, DeletesOnlyOwn, MachineMatchesRequest, Wanted, Namable
<1>1. TypeOK'
  BY NextType
<1>2. CASE UNCHANGED vars
  BY <1>1, <1>2 DEF vars
<1>3. CASE \E m \in machines : Cull(m)
  BY <1>1, <1>3 DEF Cull, localVars
<1> QED
  BY <1>2, <1>3, StartOwn, ClientOwn, ServerOwn DEF Next

\* No rollback can name a machine another call created or adopted as its own,
\* however its DELETE is delayed.
THEOREM OnlyOwnMachinesDeleted == Spec => []DeletesOnlyOwn
<1>1. OwnInv => DeletesOnlyOwn
  BY DEF OwnInv
<1> QED BY <1>1, InitOwn, NextOwn, PTL DEF Spec

\* A call never resolves to a machine of another license or fingerprint.
THEOREM MachinesMatchRequests == Spec => []MachineMatchesRequest
<1>1. OwnInv => MachineMatchesRequest
  BY DEF OwnInv
<1> QED BY <1>1, InitOwn, NextOwn, PTL DEF Spec

-----------------------------------------------------------------------------
(* Seats vouched for.  A call is vouched from the moment the server counts *)
(* the license's rows for it and finds them within the limit: that is when *)
(* VALID becomes true, long before the caller hears of it.                 *)

Vouched(c) ==
  \/ pc[c] = "validate" /\ ans[c].kind = "verdict" /\ ans[c].code = "VALID"
  \/ Told(c, "VALID")

VouchedRows(lic) ==
  {m \in RowsOn(lic) : \E c \in Calls : Vouched(c) /\ machine[c] = m.id}

\* A verdict awaiting its rollback is over the limit, a returned machine is
\* the one the call resolved to.
Verdicted ==
  \A c \in Calls :
    /\ outcome[c].kind = "result" => pc[c] \in {"delete", "done"}
    /\ pc[c] = "delete" => outcome[c].kind = "result" /\ outcome[c].code \in OverageCodes
    /\ outcome[c].kind = "result" /\ outcome[c].machine # NoId =>
         outcome[c].machine = machine[c]

VouchInv ==
  /\ OwnInv
  /\ IsFiniteSet(issued)
  /\ Verdicted
  /\ \A lic \in Licenses : Cardinality(VouchedRows(lic)) <= MaxMachines

\* A set of rows inside one that fits the limit fits it too.
LEMMA FewerRows ==
  ASSUME NEW S, NEW T, IsFiniteSet(T), S \subseteq T, Cardinality(T) <= MaxMachines
  PROVE  Cardinality(S) <= MaxMachines
BY FS_Subset, FS_CardinalityType, ConstantsAssumption

LEMMA InitVouch == Init => VouchInv
<1> SUFFICES ASSUME Init PROVE VouchInv
  OBVIOUS
<1>1. \A lic \in Licenses : VouchedRows(lic) = {}
  BY DEF Init, VouchedRows, RowsOn
<1>2. Cardinality({}) <= MaxMachines /\ IsFiniteSet({})
  BY FS_EmptySet, ConstantsAssumption
<1> QED
  BY <1>1, <1>2, InitOwn DEF Init, VouchInv, Verdicted, Pending

\* Steps that add no vouched row and no row at all.
LEMMA VouchShrinks ==
  ASSUME VouchInv, OwnInv', Verdicted', issued' = issued, machines' \subseteq machines,
         \A c \in Calls : Vouched(c)' => Vouched(c) /\ machine'[c] = machine[c]
  PROVE  VouchInv'
<1>1. \A lic \in Licenses : VouchedRows(lic)' \subseteq VouchedRows(lic)
  BY DEF VouchedRows, RowsOn
<1>2. IsFiniteSet(machines)
  BY FS_Subset DEF VouchInv, OwnInv, TypeOK
<1>3. \A lic \in Licenses : IsFiniteSet(VouchedRows(lic))
  BY <1>2, FS_Subset DEF VouchedRows, RowsOn
<1>4. \A lic \in Licenses : Cardinality(VouchedRows(lic)') <= MaxMachines
  BY <1>1, <1>3, FewerRows DEF VouchInv
<1> QED BY <1>4 DEF VouchInv

LEMMA ClientVerdicted ==
  ASSUME VouchInv, NEW c \in Calls, ClientStep(c)
  PROVE  /\ Verdicted'
         /\ \A d \in Calls : Vouched(d)' => Vouched(d) /\ machine'[d] = machine[d]
<1> USE DEF serverVars, localVars, ghostVars, VouchInv, OwnInv, Verdicted, Vouched, Told
<1>0. "VALID" \notin OverageCodes
  BY DEF OverageCodes
<1>1. CASE Start(c)
  BY <1>1, AwaitFrame DEF Start, TypeOK, IdleCalls, Pending, NoAnswer
<1>2. CASE OnCreated(c)
  BY <1>2, AwaitFrame DEF OnCreated, TypeOK, NoAnswer
<1>3. CASE OnTaken(c)
  BY <1>3, AwaitFrame, FinishFrame DEF OnTaken, TypeOK, NoAnswer, Threw
<1>4. CASE OnLimit(c)
  BY <1>4, AwaitFrame DEF OnLimit, TypeOK, NoAnswer
<1>5. CASE OnGot(c)
  BY <1>5, AwaitFrame DEF OnGot, TypeOK, NoAnswer
<1>6. CASE OnFound(c)
  BY <1>6, AwaitFrame, FinishFrame DEF OnFound, TypeOK, NoAnswer, Threw
<1>7. CASE OnVerdict(c)
  <2>1. CASE limited[c] # "none" /\ Finish(c, Result(limited[c], NoId))
    <3>1. limited[c] \in OverageCodes
      BY <2>1 DEF TypeOK
    <3> QED BY <1>0, <1>7, <2>1, <3>1, FinishFrame DEF OnVerdict, TypeOK, NoAnswer, Result
  <2>2. CASE Finish(c, Result(ans[c].code, machine[c]))
    BY <1>7, <2>2, FinishFrame DEF OnVerdict, TypeOK, NoAnswer, Result
  <2>3. CASE /\ MustRollBack(c)
             /\ pc' = [pc EXCEPT ![c] = "delete"]
             /\ ans' = [ans EXCEPT ![c] = NoAnswer]
             /\ net' = net \cup
                  {[op |-> "delete", call |-> c, id |-> RollbackTarget(c)]}
             /\ outcome' = [outcome EXCEPT ![c] = Result(ans[c].code, NoId)]
    BY <1>0, <1>7, <2>3 DEF OnVerdict, TypeOK, NoAnswer, MustRollBack, Result
  <2> QED BY <1>7, <2>1, <2>2, <2>3 DEF OnVerdict
<1>8. CASE OnDeleted(c)
  BY <1>0, <1>8, FinishFrame DEF OnDeleted, TypeOK, NoAnswer
<1>9. CASE Fail(c)
  BY <1>0, <1>9, FinishFrame DEF Fail, TypeOK, NoAnswer, Threw
<1> QED
  BY <1>1, <1>2, <1>3, <1>4, <1>5, <1>6, <1>7, <1>8, <1>9 DEF ClientStep

LEMMA ServerVouch ==
  ASSUME VouchInv, NEW r \in net, ServerStep(r)
  PROVE  VouchInv'
<1> USE DEF serverVars, ghostVars
<1>1. OwnInv' /\ OwnInv /\ TypeOK
  BY ServerOwn DEF VouchInv, OwnInv
<1>2. PICK a : ReplyFrame(r, a)
  BY <1>1, ReplyFramed
  DEF ServerStep, ServerCreate, ServerGet, ServerSearch, ServerValidate, ServerDelete
<1>3. Verdicted'
  BY <1>2 DEF VouchInv, Verdicted, ReplyFrame
<1>4. r.call \in Calls
  BY <1>1 DEF TypeOK, Message
<1>5. CASE r.op # "validate"
  <2>1. \A c \in Calls : Vouched(c)' => Vouched(c) /\ machine'[c] = machine[c]
    BY <1>2, <1>5 DEF Vouched, Told, ReplyFrame
  <2>2. CASE issued' = issued /\ machines' \subseteq machines
    BY <1>1, <1>3, <2>1, <2>2, VouchShrinks
  <2>3. CASE \E row : /\ issued' = issued \cup {row}
                      /\ machines' = machines \cup {row}
                      /\ \A m \in issued : m.id # row.id
    <3>1. PICK row : /\ issued' = issued \cup {row}
                     /\ machines' = machines \cup {row}
                     /\ \A m \in issued : m.id # row.id
      BY <2>3
    <3>2. \A c \in Calls : machine[c] # NoId => machine[c] # row.id
      BY <1>1, <3>1 DEF OwnInv, MachineMatchesRequest
    <3>3. row.id # NoId
      BY <1>1, <3>1, ConstantsAssumption DEF OwnInv, TypeOK, Row
    <3>4. \A lic \in Licenses : VouchedRows(lic)' \subseteq VouchedRows(lic)
      BY <2>1, <3>1, <3>2, <3>3 DEF VouchedRows, RowsOn
    <3>5. IsFiniteSet(machines) /\ IsFiniteSet(issued')
      BY <3>1, FS_Subset, FS_AddElement DEF VouchInv, OwnInv, TypeOK
    <3>6. \A lic \in Licenses : IsFiniteSet(VouchedRows(lic))
      BY <3>5, FS_Subset DEF VouchedRows, RowsOn
    <3>7. \A lic \in Licenses : Cardinality(VouchedRows(lic)') <= MaxMachines
      BY <3>4, <3>6, FewerRows DEF VouchInv
    <3> QED BY <1>1, <1>3, <3>5, <3>7 DEF VouchInv
  <2>4. CASE ServerCreate(r)
    <3>1. CASE UNCHANGED serverVars
      BY <2>2, <3>1
    <3>2. ASSUME NEW id \in MachineIds \ {m.id : m \in issued}, NEW row,
                 row.id = id,
                 issued' = issued \cup {row}, machines' = machines \cup {row}
          PROVE  VouchInv'
      BY <2>3, <3>2
    <3>3. \/ UNCHANGED serverVars
          \/ \E id \in MachineIds \ {m.id : m \in issued} :
               LET row == [id |-> id, lic |-> args[r.call].lic,
                           fp |-> args[r.call].fp, by |-> r.call]
               IN  issued' = issued \cup {row} /\ machines' = machines \cup {row}
      BY <2>4 DEF ServerCreate
    <3>4. CASE \E id \in MachineIds \ {m.id : m \in issued} :
                 LET row == [id |-> id, lic |-> args[r.call].lic,
                             fp |-> args[r.call].fp, by |-> r.call]
                 IN  issued' = issued \cup {row} /\ machines' = machines \cup {row}
      <4>1. PICK id \in MachineIds \ {m.id : m \in issued} :
              LET row == [id |-> id, lic |-> args[r.call].lic,
                          fp |-> args[r.call].fp, by |-> r.call]
              IN  issued' = issued \cup {row} /\ machines' = machines \cup {row}
        BY <3>4
      <4> QED BY <3>2, <4>1
    <3> QED BY <3>1, <3>3, <3>4
  <2>5. CASE ServerGet(r) \/ ServerSearch(r) \/ ServerDelete(r)
    BY <2>2, <2>5 DEF ServerGet, ServerSearch, ServerDelete
  <2> QED BY <1>5, <2>4, <2>5 DEF ServerStep, ServerValidate
<1>6. CASE r.op = "validate"
  <2>0. PICK own \in Licenses : own = args[r.call].lic
    BY <1>1, <1>4, ConstantsAssumption DEF TypeOK
  <2>1. /\ ServerValidate(r)
        /\ machines' = machines /\ issued' = issued
    BY <1>6 DEF ServerStep, ServerCreate, ServerGet, ServerSearch, ServerValidate,
        ServerDelete
  <2>2. PICK code \in {CountVerdict(own)} \cup OtherVerdicts :
          Reply(r, [kind |-> "verdict", code |-> code])
    BY <2>0, <2>1 DEF ServerValidate
  <2>3. ReplyFrame(r, [kind |-> "verdict", code |-> code])
    BY <1>1, <2>2, ReplyFramed
  <2>4. \A c \in Calls : Vouched(c)' => Vouched(c) \/ (c = r.call /\ code = "VALID")
    BY <2>3 DEF Vouched, Told, ReplyFrame
  <2>5. machine' = machine
    BY <2>3 DEF ReplyFrame
  <2>6. CASE code # "VALID"
    BY <1>1, <1>3, <2>1, <2>4, <2>5, <2>6, VouchShrinks
  <2>7. CASE code = "VALID"
    <3>1. Cardinality(RowsOn(own)) <= MaxMachines \/ ~ (Cardinality(RowsOn(own)) <= MaxMachines)
      OBVIOUS
    <3>2. IsFiniteSet(RowsOn(own))
      BY FS_Subset DEF VouchInv, OwnInv, TypeOK, RowsOn
    <3>3. Cardinality(RowsOn(own)) <= MaxMachines
      BY <2>7, <3>2, FS_CardinalityType, ConstantsAssumption DEF CountVerdict
    <3>4. VouchedRows(own)' \subseteq RowsOn(own)
      BY <2>1, <2>3 DEF VouchedRows, RowsOn, ReplyFrame
    <3>5. ASSUME NEW m \in machines, m.id = machine[r.call] PROVE m.lic = own
      <4>1. m \in issued /\ m.id # NoId
        BY <1>1, ConstantsAssumption DEF TypeOK, Row
      <4>2. PICK n \in issued : n.id = machine[r.call] /\ n.lic = own
        BY <1>1, <1>4, <2>0, <3>5, <4>1 DEF OwnInv, MachineMatchesRequest
      <4> QED BY <1>1, <3>5, <4>1, <4>2 DEF OwnInv, RowIdentity
    <3>6. \A lic \in Licenses : lic # own =>
            VouchedRows(lic)' \subseteq VouchedRows(lic)
      BY <2>1, <2>4, <2>5, <3>5 DEF VouchedRows, RowsOn
    <3>7. \A lic \in Licenses : IsFiniteSet(VouchedRows(lic))
      <4>1. IsFiniteSet(machines)
        BY FS_Subset DEF VouchInv, OwnInv, TypeOK
      <4> QED BY <4>1, FS_Subset DEF VouchedRows, RowsOn
    <3>8. Cardinality(VouchedRows(own)') <= MaxMachines
      BY <3>2, <3>3, <3>4, FewerRows
    <3>9. ASSUME NEW lic \in Licenses
          PROVE  Cardinality(VouchedRows(lic)') <= MaxMachines
      <4>1. CASE lic = own
        BY <3>8, <4>1
      <4>2. CASE lic # own
        BY <3>6, <3>7, <4>2, FewerRows DEF VouchInv
      <4> QED BY <4>1, <4>2
    <3> QED BY <1>1, <1>3, <2>1, <3>9 DEF VouchInv
  <2> QED BY <2>6, <2>7
<1> QED BY <1>5, <1>6

LEMMA NextVouch == VouchInv /\ [Next]_vars => VouchInv'
<1> SUFFICES ASSUME VouchInv, [Next]_vars PROVE VouchInv'
  OBVIOUS
<1>1. OwnInv /\ OwnInv'
  BY NextOwn DEF VouchInv
<1>2. CASE UNCHANGED vars
  BY <1>1, <1>2, VouchShrinks DEF vars, VouchInv, Verdicted, Vouched, Told
<1>3. ASSUME NEW m \in machines, Cull(m) PROVE VouchInv'
  BY <1>1, <1>3, VouchShrinks
  DEF Cull, localVars, VouchInv, Verdicted, Vouched, Told
<1>4. ASSUME NEW c \in Calls, ClientStep(c) PROVE VouchInv'
  <2>1. machines' = machines /\ issued' = issued
    BY <1>4 DEF ClientStep, Start, OnCreated, OnTaken, OnLimit, OnGot, OnFound,
       OnVerdict, OnDeleted, Fail, serverVars
  <2> QED BY <1>1, <1>4, <2>1, ClientVerdicted, VouchShrinks
<1> QED
  BY <1>2, <1>3, <1>4, ServerVouch DEF Next

\* However creates, rollbacks, adoptions and deletions interleave, the live
\* machines that callers were told VALID about fit the license's limit.
THEOREM ValidSeatsFit == Spec => []ValidSeatsWithinLimit
<1>1. VouchInv => ValidSeatsWithinLimit
  <2> SUFFICES ASSUME VouchInv, NEW lic \in Licenses
               PROVE  Cardinality({m \in RowsOn(lic) :
                        \E c \in Calls : Told(c, "VALID") /\ outcome[c].machine = m.id})
                      <= MaxMachines
    BY DEF ValidSeatsWithinLimit
  <2> DEFINE T == {m \in RowsOn(lic) :
                     \E c \in Calls : Told(c, "VALID") /\ outcome[c].machine = m.id}
  <2>1. \A m \in machines : m.id # NoId
    BY ConstantsAssumption DEF VouchInv, OwnInv, TypeOK, Row
  <2>2. T \subseteq VouchedRows(lic)
    BY <2>1 DEF VouchInv, Verdicted, VouchedRows, Vouched, Told, RowsOn
  <2>3. IsFiniteSet(VouchedRows(lic))
    <3>1. IsFiniteSet(machines)
      BY FS_Subset DEF VouchInv, OwnInv, TypeOK
    <3> QED BY <3>1, FS_Subset DEF VouchedRows, RowsOn
  <2> QED BY <2>2, <2>3, FewerRows DEF VouchInv
<1> QED BY <1>1, InitVouch, NextVouch, PTL DEF Spec

-----------------------------------------------------------------------------
(* No seat is left behind in silence, and re-activation with reuse         *)
(* succeeds.                                                               *)

\* While none of a call's requests has failed, at most one request of its own
\* is in the network: the one it awaits.
AwaitedRequests ==
  \A r \in net : r.call \notin faulted =>
    /\ pc[r.call] = r.op /\ ans[r.call] = NoAnswer
    /\ \A q \in net : q.call = r.call => q = r

\* The stages at which a call that suffered no failure still owns its row.
Owns(c, m) ==
  \/ pc[c] = "create" /\ ans[c].kind = "created" /\ ans[c].id = m.id
  \/ /\ pc[c] = "validate"
     /\ created[c] = m.id /\ machine[c] = m.id /\ limited[c] = "none"
  \/ pc[c] = "delete" /\ ans[c] = NoAnswer /\ created[c] = m.id
  \/ /\ pc[c] = "done"
     /\ outcome[c].kind = "result" /\ outcome[c].machine = m.id

SeatInv ==
  /\ OwnInv
  /\ AwaitedRequests
  /\ \A c \in Calls : pc[c] \in {"idle", "create"} => limited[c] = "none"
  /\ \A m \in machines : m.by \notin faulted => Owns(m.by, m)

LEMMA InitSeat == Init => SeatInv
BY InitOwn DEF Init, SeatInv, AwaitedRequests

LEMMA ClientSeat ==
  ASSUME SeatInv, NEW c \in Calls, ClientStep(c)
  PROVE  SeatInv'
<1> USE DEF serverVars, localVars, ghostVars, SeatInv
<1>0. OwnInv /\ OwnInv' /\ TypeOK
  BY StartOwn, ClientOwn DEF OwnInv
<1>1. /\ machines' = machines
      /\ faulted' = faulted \/ (faulted' = faulted \cup {c} /\ Fail(c))
  BY DEF ClientStep, Start, OnCreated, OnTaken, OnLimit, OnGot, OnFound,
     OnVerdict, OnDeleted, Fail
<1>3. \A d \in Calls : d # c =>
        /\ pc'[d] = pc[d] /\ ans'[d] = ans[d] /\ outcome'[d] = outcome[d]
        /\ created'[d] = created[d] /\ machine'[d] = machine[d]
        /\ limited'[d] = limited[d]
  <2>1. CASE Start(c)
    BY <1>0, <2>1 DEF Start, Await, TypeOK
  <2>2. CASE ~Start(c)
    <3>1. Frame(c)
      BY <1>0, <2>2, ClientFrame
    <3>2. \A d \in Calls : d # c => limited'[d] = limited[d]
      BY <1>0, <2>2 DEF ClientStep, OnCreated, OnTaken, OnLimit, OnGot,
         OnFound, OnVerdict, OnDeleted, Fail, TypeOK
    <3> QED BY <3>1, <3>2 DEF Frame
  <2> QED BY <2>1, <2>2
<1>2. \A m \in machines : m.by # c /\ m.by \notin faulted' => Owns(m.by, m)'
  BY <1>0, <1>1, <1>3 DEF Owns, TypeOK, Row
<1>4. CASE Start(c)
  <2>1. \A m \in machines : m.by # c
    BY <1>0, <1>4 DEF Start, OwnInv, RowOrigin, TypeOK
  <2>2. \A r \in net : r.call # c
    BY <1>0, <1>4 DEF Start, OwnInv, IdleCalls
  <2>3. /\ pc'[c] = "create" /\ ans'[c] = NoAnswer /\ limited'[c] = "none"
        /\ net' = net \cup {[op |-> "create", call |-> c, id |-> NoId]}
        /\ faulted' = faulted
    BY <1>0, <1>4 DEF Start, Await, TypeOK
  <2>4. AwaitedRequests'
    BY <1>0, <1>3, <2>2, <2>3 DEF AwaitedRequests, TypeOK, Message
  <2> QED BY <1>0, <1>1, <1>2, <1>3, <2>1, <2>3, <2>4
<1>5. CASE Fail(c)
  <2>1. c \in faulted' /\ net' = net /\ pc'[c] = "done"
    BY <1>0, <1>5, FinishFrame DEF Fail
  <2>2. AwaitedRequests'
    BY <1>0, <1>1, <1>3, <2>1 DEF AwaitedRequests, TypeOK, Message
  <2> QED BY <1>0, <1>1, <1>2, <1>3, <2>1, <2>2
<1>6. CASE ~Start(c) /\ ~Fail(c)
  <2>1. ans[c].kind # "none" /\ faulted' = faulted
    BY <1>6 DEF ClientStep, OnCreated, OnTaken, OnLimit, OnGot, OnFound, OnVerdict,
       OnDeleted
  <2>2. Frame(c) /\ Sends(c)
    BY <1>0, <1>6, ClientFrame
  <2>3. AwaitedRequests'
    <3>1. \A r \in net : r.call = c => c \in faulted
      BY <2>1 DEF AwaitedRequests, NoAnswer
    <3>2. ASSUME NEW q \in net', q.call = c, c \notin faulted
          PROVE  /\ pc'[c] = q.op
                 /\ \A p \in net' : p.call = c => p = q
      <4>1. \A p \in net' : p.call = c => p \notin net
        BY <3>1, <3>2
      <4>0. \A p \in net' : p \in Message
        BY <1>0 DEF OwnInv, TypeOK
      <4>2. ASSUME NEW p \in net', p.call = c
            PROVE  p.op = q.op /\ p.id = q.id
        <5>1. p \notin net /\ q \notin net
          BY <3>2, <4>1, <4>2
        <5>2. /\ p.op = pc'[c] /\ q.op = pc'[c]
              /\ (p.op = "get" => p.id = ans[c].id)
              /\ (q.op = "get" => q.id = ans[c].id)
              /\ (p.op = "delete" => p.id = created[c])
              /\ (q.op = "delete" => q.id = created[c])
              /\ (p.op \in {"search", "validate"} => p.id = NoId)
              /\ (q.op \in {"search", "validate"} => q.id = NoId)
              /\ p.op # "create"
          BY <2>2, <3>2, <4>2, <5>1 DEF Sends, Frame
        <5>3. p.op \in {"create", "get", "search", "validate", "delete"}
          BY <4>0, <4>2 DEF Message
        <5> QED BY <5>2, <5>3
      <4>3. pc'[c] = q.op
        BY <2>2, <3>2, <4>1 DEF Sends
      <4>4. \A p \in net' : p \in Message
        BY <1>0 DEF OwnInv, TypeOK
      <4> QED BY <3>2, <4>2, <4>3, <4>4 DEF Message
    <3>3. ASSUME NEW q \in net', q.call # c, q.call \notin faulted
          PROVE  /\ pc'[q.call] = q.op /\ ans'[q.call] = NoAnswer
                 /\ \A p \in net' : p.call = q.call => p = q
      BY <1>0, <1>3, <2>2, <3>3 DEF AwaitedRequests, Sends, TypeOK, Message
    <3> QED
      BY <2>1, <2>2, <3>2, <3>3 DEF AwaitedRequests, Frame
  <2>4. SUFFICES ASSUME NEW m \in machines, m.by = c, c \notin faulted
                 PROVE  Owns(c, m)'
    <3>1. pc'[c] \notin {"idle", "create"}
      BY <2>2 DEF Frame
    <3> QED BY <1>0, <1>1, <1>2, <1>3, <2>1, <2>3, <3>1
  <2>5. Owns(c, m)
    BY <2>4
  <2> USE DEF NoAnswer, Owns
  <2>b. CASE OnCreated(c)
    <3>1. pc[c] = "create" /\ ans[c].id = m.id /\ limited[c] = "none"
      BY <2>5, <2>b DEF OnCreated
    <3>2. pc'[c] = "validate"
      BY <1>0, <2>b, AwaitFrame DEF OnCreated
    <3>3. created'[c] = m.id /\ machine'[c] = m.id /\ limited'[c] = "none"
      BY <1>0, <2>b, <3>1 DEF OnCreated, TypeOK
    <3> QED BY <3>2, <3>3
  <2>c. CASE OnTaken(c)
    BY <2>5, <2>c DEF OnTaken
  <2>d. CASE OnLimit(c)
    BY <2>5, <2>d DEF OnLimit
  <2>e. CASE OnGot(c)
    BY <2>5, <2>e DEF OnGot
  <2>f. CASE OnFound(c)
    BY <2>5, <2>f DEF OnFound
  <2>g. CASE OnVerdict(c)
    <3>1. limited[c] = "none" /\ created[c] = m.id /\ machine[c] = m.id
      BY <2>5, <2>g DEF OnVerdict
    <3>2. CASE Finish(c, Result(ans[c].code, machine[c]))
      BY <1>0, <2>g, <3>1, <3>2, FinishFrame DEF OnVerdict, TypeOK, Result
    <3>3. CASE /\ pc' = [pc EXCEPT ![c] = "delete"]
               /\ ans' = [ans EXCEPT ![c] = NoAnswer]
      BY <1>0, <2>g, <3>1, <3>3 DEF OnVerdict, TypeOK
    <3> QED BY <2>g, <3>1, <3>2, <3>3 DEF OnVerdict
  <2>h. CASE OnDeleted(c)
    BY <2>5, <2>h DEF OnDeleted
  <2> QED
    BY <1>6, <2>b, <2>c, <2>d, <2>e, <2>f, <2>g, <2>h DEF ClientStep
<1> QED
  BY <1>4, <1>5, <1>6

LEMMA ServerSeat ==
  ASSUME SeatInv, NEW r \in net, ServerStep(r)
  PROVE  SeatInv'
<1> USE DEF serverVars, ghostVars, SeatInv
<1>1. OwnInv /\ OwnInv' /\ TypeOK
  BY ServerOwn DEF OwnInv
<1>2. faulted' = faulted
  BY DEF ServerStep, ServerCreate, ServerGet, ServerSearch, ServerValidate, ServerDelete
<1>3. PICK a : Reply(r, a)
  BY DEF ServerStep, ServerCreate, ServerGet, ServerSearch, ServerValidate, ServerDelete
<1>4. ReplyFrame(r, a)
  BY <1>1, <1>3, ReplyFramed
<1>5. r.call \in Calls
  BY <1>1 DEF TypeOK, Message
<1>6. AwaitedRequests'
  <2> SUFFICES ASSUME NEW q \in net', q.call \notin faulted
               PROVE  /\ pc'[q.call] = q.op /\ ans'[q.call] = NoAnswer
                      /\ \A p \in net' : p.call = q.call => p = q
    BY <1>2 DEF AwaitedRequests
  <2>1. q \in net /\ q # r /\ net' \subseteq net /\ pc' = pc
    BY <1>4 DEF ReplyFrame
  <2>2. q.call # r.call
    BY <2>1 DEF AwaitedRequests
  <2>3. q.call \in Calls
    BY <1>1, <2>1 DEF TypeOK, Message
  <2>4. ans'[q.call] = ans[q.call]
    BY <1>4, <2>2, <2>3 DEF ReplyFrame
  <2> QED BY <2>1, <2>4 DEF AwaitedRequests
\* A row whose state its call already accounts for stays accounted for,
\* unless this very step removes it.
<1>7. ASSUME NEW m \in machines, m.by \notin faulted,
             ~(r.op = "delete" /\ m.id = r.id)
      PROVE  Owns(m.by, m)'
  <2>1. m.by \in Calls
    BY <1>1 DEF TypeOK, Row
  <2>2. Owns(m.by, m)
    BY <1>7
  <2>3. CASE ans'[m.by] = ans[m.by]
    <3>1. /\ pc' = pc /\ created' = created /\ machine' = machine
          /\ limited' = limited /\ outcome' = outcome
      BY <1>4 DEF ReplyFrame
    <3> QED BY <2>2, <2>3, <3>1 DEF Owns
  <2>4. CASE m.by = r.call /\ pc[m.by] = r.op
    <3>1. ans[m.by] = NoAnswer
      BY <1>7, <2>4 DEF AwaitedRequests
    <3>2. r.op # "create"
      BY <2>2, <2>4, <3>1 DEF Owns, NoAnswer
    <3>3. CASE r.op = "validate"
      BY <1>4, <2>2, <2>4, <3>3 DEF Owns, ReplyFrame
    <3>4. CASE r.op = "delete"
      <4>1. PICK n \in issued : n.id = r.id /\ n.by = r.call
        BY <1>1, <3>4 DEF OwnInv, DeletesOnlyOwn
      <4> QED BY <1>1, <1>7, <2>4, <3>4, <4>1 DEF OwnInv, RowOrigin, TypeOK
    <3>5. pc[m.by] \notin {"get", "search"}
      BY <2>2 DEF Owns
    <3>6. r.op \in {"create", "get", "search", "validate", "delete"}
      BY <1>1 DEF TypeOK, Message
    <3> QED BY <2>4, <3>2, <3>3, <3>4, <3>5, <3>6
  <2> QED BY <1>4, <2>1, <2>3, <2>4 DEF ReplyFrame
<1>8. \A c \in Calls : pc'[c] \in {"idle", "create"} => limited'[c] = "none"
  BY <1>4 DEF ReplyFrame
<1>9. CASE ServerDelete(r)
  <2>1. \A m \in machines' : m \in machines /\ m.id # r.id
    BY <1>9 DEF ServerDelete
  <2> QED BY <1>1, <1>2, <1>6, <1>7, <1>8, <2>1
<1>10. CASE machines' = machines /\ r.op # "delete"
  BY <1>1, <1>2, <1>6, <1>7, <1>8, <1>10
<1>11. ASSUME NEW row, row.by = r.call, r.op = "create",
              machines' = machines \cup {row},
              Reply(r, [kind |-> "created", id |-> row.id])
       PROVE  SeatInv'
  <2>1. ReplyFrame(r, [kind |-> "created", id |-> row.id])
    BY <1>1, <1>11, ReplyFramed
  <2>2. row.by \notin faulted => Owns(row.by, row)'
    <3>1. SUFFICES ASSUME r.call \notin faulted PROVE Owns(r.call, row)'
      BY <1>11
    <3>2. pc[r.call] = "create"
      BY <1>11, <3>1 DEF AwaitedRequests
    <3>3. ans' = [ans EXCEPT ![r.call] = [kind |-> "created", id |-> row.id]]
      BY <1>11, <3>2 DEF Reply
    <3> QED BY <1>1, <1>5, <2>1, <3>2, <3>3 DEF Owns, ReplyFrame, TypeOK
  <2> QED BY <1>1, <1>2, <1>6, <1>7, <1>8, <1>11, <2>2
<1>12. CASE ServerCreate(r)
  <2>1. \/ machines' = machines
        \/ \E id \in MachineIds :
             LET row == [id |-> id, lic |-> args[r.call].lic,
                         fp |-> args[r.call].fp, by |-> r.call]
             IN  /\ machines' = machines \cup {row}
                 /\ Reply(r, [kind |-> "created", id |-> id])
    BY <1>12 DEF ServerCreate
  <2>2. r.op = "create"
    BY <1>12 DEF ServerCreate
  <2>3. ASSUME NEW id \in MachineIds,
               LET row == [id |-> id, lic |-> args[r.call].lic,
                           fp |-> args[r.call].fp, by |-> r.call]
               IN  /\ machines' = machines \cup {row}
                   /\ Reply(r, [kind |-> "created", id |-> id])
        PROVE  SeatInv'
    BY <1>11, <2>2, <2>3
  <2> QED BY <1>10, <2>1, <2>2, <2>3
<1>13. CASE ServerGet(r) \/ ServerSearch(r) \/ ServerValidate(r)
  BY <1>10, <1>13 DEF ServerGet, ServerSearch, ServerValidate
<1> QED
  BY <1>9, <1>12, <1>13 DEF ServerStep

LEMMA NextSeat == SeatInv /\ [Next]_vars => SeatInv'
<1> SUFFICES ASSUME SeatInv, [Next]_vars PROVE SeatInv'
  OBVIOUS
<1>1. OwnInv /\ OwnInv'
  BY NextOwn DEF SeatInv
<1>2. CASE UNCHANGED vars
  BY <1>1, <1>2 DEF vars, SeatInv, AwaitedRequests, Owns
<1>3. ASSUME NEW m \in machines, Cull(m) PROVE SeatInv'
  BY <1>1, <1>3 DEF Cull, localVars, SeatInv, AwaitedRequests, Owns
<1> QED
  BY <1>2, <1>3, ClientSeat, ServerSeat DEF Next

\* A machine still registered after the call that created it ended without a
\* failed request was reported to its caller: over-limit machines are rolled
\* back, refused ones never exist.
THEOREM NoSilentSeats == Spec => []SeatsAccountedFor
<1>1. SeatInv => SeatsAccountedFor
  BY DEF SeatInv, SeatsAccountedFor, Owns
<1> QED BY <1>1, InitSeat, NextSeat, PTL DEF Spec

-----------------------------------------------------------------------------
(* Reuse.                                                                  *)

Held(c) == \E m \in machines : Wanted(m, c)

TakenOutcome(c) == outcome[c].kind = "threw" /\ outcome[c].code = "FINGERPRINT_TAKEN"

\* While no row is removed, a call that met a conflict on its own license
\* has a row to adopt, and its search finds it.
ReuseFinds(c) ==
  /\ ans[c].kind = "taken" => Held(c)
  /\ pc[c] \in {"get", "search"} => Held(c)
  /\ pc[c] = "search" /\ ans[c].kind # "none" => Matches(c)
  /\ ~TakenOutcome(c)

ReuseInv ==
  /\ OwnInv
  /\ \A c \in Calls :
       args[c].reuse /\ ~TakenElsewhere(c) /\ c \notin disturbed => ReuseFinds(c)

LEMMA InitReuse == Init => ReuseInv
BY InitOwn DEF Init, ReuseInv, ReuseFinds, TakenOutcome, NoAnswer, Pending

LEMMA ElsewhereStays ==
  ASSUME NEW c \in Calls, issued \subseteq issued', args'[c] = args[c], ~TakenElsewhere(c)'
  PROVE  ~TakenElsewhere(c)
BY DEF TakenElsewhere

LEMMA ClientReuse ==
  ASSUME ReuseInv, NEW c \in Calls, ClientStep(c)
  PROVE  ReuseInv'
<1> USE DEF serverVars, localVars, ghostVars
<1>0. OwnInv /\ OwnInv' /\ TypeOK
  BY StartOwn, ClientOwn DEF OwnInv, ReuseInv
<1>1. machines' = machines /\ issued' = issued /\ disturbed' = disturbed
  BY DEF ClientStep, Start, OnCreated, OnTaken, OnLimit, OnGot, OnFound,
     OnVerdict, OnDeleted, Fail
<1>2. \A d \in Calls : d # c =>
        /\ pc'[d] = pc[d] /\ ans'[d] = ans[d] /\ outcome'[d] = outcome[d]
        /\ args'[d] = args[d]
  <2>1. CASE Start(c)
    BY <1>0, <2>1 DEF Start, Await, TypeOK
  <2>2. CASE ~Start(c)
    BY <1>0, <2>2, ClientFrame DEF Frame
  <2> QED BY <2>1, <2>2
<1>3. ASSUME NEW d \in Calls, d # c, args'[d].reuse, ~TakenElsewhere(d)', d \notin disturbed'
      PROVE  ReuseFinds(d)'
  <2>1. ReuseFinds(d)
    BY <1>1, <1>2, <1>3, ElsewhereStays DEF ReuseInv
  <2> QED BY <1>1, <1>2, <1>3, <2>1
      DEF ReuseFinds, Held, Wanted, Matches, TakenOutcome
<1>4. ASSUME args'[c].reuse, ~TakenElsewhere(c)', c \notin disturbed'
      PROVE  ReuseFinds(c)'
  <2>1. CASE Start(c)
    <3>1. /\ pc'[c] = "create" /\ ans'[c] = NoAnswer /\ outcome'[c] = Pending
      BY <1>0, <2>1 DEF Start, Await, TypeOK, OwnInv, IdleCalls
    <3> QED BY <3>1 DEF ReuseFinds, TakenOutcome, NoAnswer, Pending
  <2>2. CASE ~Start(c)
    <3>0. args' = args
      BY <1>0, <2>2, ClientFrame DEF Frame
    <3>1. args' = args /\ ReuseFinds(c)
      BY <1>1, <1>4, <3>0, ElsewhereStays DEF ReuseInv
    <3>2. ans'[c] = NoAnswer
      BY <1>0, <2>2 DEF ClientStep, OnCreated, OnTaken, OnLimit, OnGot, OnFound,
         OnVerdict, OnDeleted, Fail, Await, Finish, TypeOK
    <3>3. pc'[c] \in {"get", "search"} => Held(c)'
      <4>1. pc'[c] \in {"get", "search"} => ans[c].kind = "taken" \/ pc[c] = "get"
        BY <1>0, <2>2 DEF ClientStep, OnCreated, OnTaken, OnLimit, OnGot, OnFound,
           OnVerdict, OnDeleted, Fail, Await, Finish, TypeOK
      <4> QED BY <1>1, <3>1, <4>1 DEF ReuseFinds, Held, Wanted
    <3>4. ~TakenOutcome(c)'
      <4>1. OnTaken(c) => outcome' = outcome
        BY <1>4, <3>1 DEF OnTaken, Await
      <4>2. OnFound(c) => outcome' = outcome
        BY <3>1 DEF OnFound, ReuseFinds, Await
      <4>3. outcome'[c] = outcome[c] \/ outcome'[c].kind = "result"
            \/ outcome'[c].code = "FAILED"
        BY <1>0, <2>2, <4>1, <4>2 DEF ClientStep, OnCreated, OnLimit, OnGot, OnVerdict,
           OnDeleted, Fail, Await, Finish, TypeOK, Result, Threw
      <4> QED BY <3>1, <4>3 DEF ReuseFinds, TakenOutcome
    <3> QED BY <3>2, <3>3, <3>4 DEF ReuseFinds, NoAnswer
  <2> QED BY <2>1, <2>2
<1> QED BY <1>0, <1>3, <1>4 DEF ReuseInv

\* Whoever removes a row disturbs the calls that run; other steps of the
\* server only add rows.
LEMMA Removals ==
  ASSUME NEW r \in net, ServerStep(r)
  PROVE  /\ UNCHANGED <<pc, args, outcome>>
         /\ machines \subseteq machines' \/ disturbed' = disturbed \cup Running
         /\ disturbed \subseteq disturbed'
         /\ issued \subseteq issued'
BY DEF ServerStep, ServerCreate, ServerGet, ServerSearch, ServerValidate,
       ServerDelete, Reply, serverVars, localVars, ghostVars

LEMMA ServerReuse ==
  ASSUME ReuseInv, NEW r \in net, ServerStep(r)
  PROVE  ReuseInv'
<1>0. OwnInv /\ OwnInv' /\ TypeOK
  BY NextOwn DEF OwnInv, ReuseInv, Next
<1> SUFFICES ASSUME NEW c \in Calls, args'[c].reuse, ~TakenElsewhere(c)', c \notin disturbed'
             PROVE  ReuseFinds(c)'
  BY <1>0 DEF ReuseInv
<1>1. /\ UNCHANGED <<pc, args, outcome>>
      /\ machines \subseteq machines' \/ c \notin Running
      /\ c \notin disturbed
      /\ issued \subseteq issued'
  BY Removals
<1>2. ReuseFinds(c) /\ ~TakenElsewhere(c)
  BY <1>1, ElsewhereStays DEF ReuseInv
<1>3. Held(c) /\ pc[c] \in Waiting => Held(c)'
  BY <1>1 DEF Held, Wanted, Running
<1>4. pc'[c] \in {"get", "search"} => Held(c)'
  BY <1>1, <1>2, <1>3 DEF ReuseFinds
<1>5. CASE ans'[c] = ans[c]
  <2>1. ans[c].kind = "taken" => pc[c] = "create"
    BY <1>0 DEF OwnInv, AnswersFit, Answers
  <2> QED BY <1>1, <1>2, <1>3, <1>4, <1>5, <2>1
      DEF ReuseFinds, Matches, TakenOutcome
<1>6. CASE ans'[c] # ans[c]
  <2>1. r.call = c /\ pc[c] = r.op /\ args' = args
    BY <1>0, <1>1, <1>6, ZenonT(60) DEF ServerStep, ServerCreate, ServerGet, ServerSearch,
       ServerValidate, ServerDelete, Reply, TypeOK
  <2>2. ans'[c].kind = "taken" => Held(c)'
    <3>1. ans'[c].kind = "taken" => Conflicts(args[c].lic, args[c].fp) # {}
                                    /\ machines' = machines
      BY <1>0, <2>1 DEF ServerStep, ServerCreate, ServerGet, ServerSearch,
         ServerValidate, ServerDelete, Reply, TypeOK, RowAnswers, serverVars
    <3>2. machines \subseteq issued
      BY <1>0 DEF TypeOK
    <3> QED BY <1>2, <2>1, <3>1, <3>2 DEF Conflicts, Held, Wanted, TakenElsewhere
  <2>3. pc[c] = "search" => ans'[c].kind = "row" /\ ans'[c].fp = args[c].fp
    <3> SUFFICES ASSUME pc[c] = "search"
                 PROVE  ans'[c].kind = "row" /\ ans'[c].fp = args[c].fp
      OBVIOUS
    <3>1. ServerSearch(r)
      BY <2>1 DEF ServerStep, ServerCreate, ServerGet, ServerValidate, ServerDelete
    <3>2. {m \in RowsOn(args[c].lic) : m.fp = args[c].fp} # {}
      BY <1>2 DEF ReuseFinds, Held, Wanted, RowsOn
    <3>3. \E a \in RowAnswers({m \in RowsOn(args[c].lic) : m.fp = args[c].fp}) :
            Reply(r, a)
      BY <2>1, <3>1 DEF ServerSearch, SearchScope
    <3>4. PICK m \in RowsOn(args[c].lic) :
            /\ m.fp = args[c].fp
            /\ Reply(r, [kind |-> "row", id |-> m.id, fp |-> m.fp])
      BY <3>2, <3>3 DEF RowAnswers
    <3> QED BY <1>0, <2>1, <3>4 DEF Reply, TypeOK
  <2> QED BY <1>1, <1>2, <1>4, <2>1, <2>2, <2>3
      DEF ReuseFinds, Matches, TakenOutcome
<1> QED BY <1>5, <1>6

LEMMA NextReuse == ReuseInv /\ [Next]_vars => ReuseInv'
<1> SUFFICES ASSUME ReuseInv, [Next]_vars PROVE ReuseInv'
  OBVIOUS
<1>1. OwnInv /\ OwnInv'
  BY NextOwn DEF ReuseInv
<1>2. CASE UNCHANGED vars
  BY <1>1, <1>2
  DEF vars, ReuseInv, ReuseFinds, Held, Wanted, Matches, TakenOutcome, TakenElsewhere
<1>3. ASSUME NEW m \in machines, Cull(m) PROVE ReuseInv'
  <2> SUFFICES ASSUME NEW c \in Calls, args'[c].reuse, ~TakenElsewhere(c)', c \notin disturbed'
               PROVE  ReuseFinds(c)'
    BY <1>1 DEF ReuseInv
  <2>1. /\ UNCHANGED <<pc, args, ans, outcome>>
        /\ c \notin Running /\ c \notin disturbed /\ issued' = issued
    BY <1>3 DEF Cull, localVars
  <2>2. pc[c] \notin Waiting
    BY <2>1 DEF Running
  <2>3. ReuseFinds(c)
    BY <2>1, ElsewhereStays DEF ReuseInv
  <2>4. ans[c].kind # "taken"
    BY <1>1, <2>2 DEF OwnInv, AnswersFit, Answers
  <2> QED BY <2>1, <2>2, <2>3, <2>4 DEF ReuseFinds, Matches, TakenOutcome
<1> QED
  BY <1>2, <1>3, ClientReuse, ServerReuse DEF Next

\* Activation with reuse is idempotent: it refuses a known fingerprint only if
\* a row went away while it ran, or where the conflict can be on another
\* license.
THEOREM ReactivationSucceeds == Spec => []ReuseIsIdempotent
<1>1. ReuseInv => ReuseIsIdempotent
  BY DEF ReuseInv, ReuseFinds, TakenOutcome, ReuseIsIdempotent
<1> QED BY <1>1, InitReuse, NextReuse, PTL DEF Spec

-----------------------------------------------------------------------------
(* Results without a machine.                                              *)

\* A call that validates has a machine or was refused one for a limit.
ValidatesSomething ==
  \A c \in Calls : pc[c] = "validate" => limited[c] # "none" \/ machine[c] # NoId

\* NoMachineOnlyOverLimit, the verdict of a call that still rolls back included.
EmptyResults ==
  \A c \in Calls :
    outcome[c].kind = "result" /\ outcome[c].machine = NoId
      => outcome[c].code \in OverageCodes

LEMMA InitEmpty == Init => ValidatesSomething /\ EmptyResults
BY DEF Init, ValidatesSomething, EmptyResults, Pending, Waiting

LEMMA ClientEmpty ==
  ASSUME TypeOK, ValidatesSomething, EmptyResults, NEW c \in Calls, ClientStep(c)
  PROVE  (ValidatesSomething /\ EmptyResults)'
<1> USE DEF TypeOK, ValidatesSomething, EmptyResults, localVars
<1>0. NoId \notin MachineIds
  BY ConstantsAssumption
<1>f. ASSUME NEW out, Finish(c, out), UNCHANGED <<machine, limited>>,
             out.kind = "result" /\ out.machine = NoId => out.code \in OverageCodes
      PROVE  (ValidatesSomething /\ EmptyResults)'
  BY <1>f DEF Finish
<1>t. \A code : Threw(code).kind # "result"
  BY DEF Threw
<1>1. CASE Start(c)
  BY <1>1 DEF Start, Await
<1>2. CASE OnCreated(c)
  <2>1. ans[c].id # NoId
    BY <1>0, <1>2 DEF OnCreated, Answer
  <2> QED BY <1>2, <2>1 DEF OnCreated, Await
<1>3. CASE OnTaken(c)
  <2>1. CASE Finish(c, Threw("FINGERPRINT_TAKEN"))
    BY <1>3, <1>f, <1>t, <2>1 DEF OnTaken
  <2>2. CASE Await(c, "get", ans[c].id) \/ Await(c, "search", NoId)
    BY <1>3, <2>2 DEF OnTaken, Await
  <2> QED BY <1>3, <2>1, <2>2 DEF OnTaken
<1>4. CASE OnLimit(c)
  <2>1. CreateLimitValidationCode(ans[c].code) # "none"
    BY <1>4 DEF OnLimit, Answer, CreateLimitCodes, CreateLimitValidationCode
  <2> QED BY <1>4, <2>1 DEF OnLimit, Await
<1>5. Matches(c) => ans[c].id # NoId
  BY <1>0 DEF Matches, Answer
<1>6. CASE OnGot(c)
  BY <1>5, <1>6 DEF OnGot, Await
<1>7. CASE OnFound(c)
  <2>1. CASE Matches(c)
    BY <1>5, <1>7, <2>1 DEF OnFound, Await
  <2>2. CASE ~Matches(c)
    BY <1>7, <1>f, <1>t, <2>2 DEF OnFound
  <2> QED BY <2>1, <2>2
<1>8. CASE OnVerdict(c)
  <2> DEFINE code == ans[c].code
  <2>r. \A x, m : /\ Result(x, m).kind = "result" /\ Result(x, m).code = x
                 /\ Result(x, m).machine = m
    BY DEF Result
  <2>1. CASE limited[c] # "none" /\ Finish(c, Result(limited[c], NoId))
    <3>1. limited[c] \in OverageCodes
      BY <2>1
    <3> QED BY <1>8, <1>f, <2>1, <2>r, <3>1 DEF OnVerdict
  <2>2. CASE MustRollBack(c) /\ pc' = [pc EXCEPT ![c] = "delete"]
             /\ outcome' = [outcome EXCEPT ![c] = Result(code, NoId)]
    BY <1>8, <2>2, <2>r DEF OnVerdict, MustRollBack
  <2>3. CASE limited[c] = "none" /\ Finish(c, Result(code, machine[c]))
    <3>1. machine[c] # NoId
      BY <1>8, <2>3 DEF OnVerdict
    <3> QED BY <1>8, <1>f, <2>3, <2>r, <3>1 DEF OnVerdict
  <2> QED BY <1>8, <2>1, <2>2, <2>3 DEF OnVerdict
<1>9. CASE OnDeleted(c)
  BY <1>9, <1>f DEF OnDeleted
<1>10. CASE Fail(c)
  BY <1>10, <1>f, <1>t DEF Fail
<1> QED
  BY <1>1, <1>2, <1>3, <1>4, <1>6, <1>7, <1>8, <1>9, <1>10 DEF ClientStep

LEMMA NextEmpty ==
  TypeOK /\ ValidatesSomething /\ EmptyResults /\ [Next]_vars
    => (ValidatesSomething /\ EmptyResults)'
<1>1. ASSUME UNCHANGED <<pc, localVars, outcome>>, ValidatesSomething, EmptyResults
      PROVE  (ValidatesSomething /\ EmptyResults)'
  BY <1>1 DEF ValidatesSomething, EmptyResults, localVars
<1>2. ASSUME NEW r \in net, ServerStep(r)
      PROVE  UNCHANGED <<pc, localVars, outcome>>
  BY <1>2
  DEF ServerStep, ServerCreate, ServerGet, ServerSearch, ServerValidate,
      ServerDelete, Reply
<1>3. ASSUME NEW m \in machines, Cull(m)
      PROVE  UNCHANGED <<pc, localVars, outcome>>
  BY <1>3 DEF Cull
<1>4. UNCHANGED vars => UNCHANGED <<pc, localVars, outcome>>
  BY DEF vars, localVars
<1> QED BY <1>1, <1>2, <1>3, <1>4, ClientEmpty DEF Next

\* A result without a machine always carries an over-limit code: a create
\* refused for a limit keeps its own, and a rollback has one of validate's.
THEOREM NoSeatOnlyOverLimit == Spec => []NoMachineOnlyOverLimit
<1>1. EmptyResults => NoMachineOnlyOverLimit
  BY DEF EmptyResults, NoMachineOnlyOverLimit
<1> QED BY <1>1, NextEmpty, InitEmpty, TypeCorrect, PTL DEF Spec

-----------------------------------------------------------------------------
(* The seat ledger.  What an entry of it says follows from how far the     *)
(* call behind it has come: the three operators below tie rows, requests   *)
(* and calls to that stage.                                                *)

HandedBack(out) == \E code \in OverageCodes : out = Result(code, NoId)

\* The row a call took, until it ends: created in its answer, then in both
\* of its locals.
RowStage(c, m) ==
  \/ pc[c] = "create" /\ ans[c].kind = "created" /\ ans[c].id = m.id
  \/ /\ pc[c] \in {"validate", "delete"}
     /\ created[c] = m.id /\ machine[c] = m.id /\ limited[c] = "none"
  \/ pc[c] = "done"

CallStage(c) ==
  /\ c \in faulted => pc[c] = "done"
  /\ pc[c] \in {"get", "search"} => args[c].reuse
  /\ pc[c] = "validate" /\ limited[c] = "none" /\ created[c] = NoId => args[c].reuse
  /\ pc[c] = "delete" =>
       created[c] # NoId /\ args[c].autoDelete /\ HandedBack(outcome[c])

\* A create or a rollback that is still in the network is awaited, or was
\* given up.
RequestStage(r) ==
  /\ r.op = "create" =>
       \/ pc[r.call] = "create" /\ ans[r.call] = NoAnswer
       \/ pc[r.call] = "done" /\ outcome[r.call] = Threw("FAILED")
  /\ r.op = "delete" =>
       /\ args[r.call].autoDelete
       /\ \/ pc[r.call] = "delete"
          \/ pc[r.call] = "done" /\ r.call \in faulted /\ HandedBack(outcome[r.call])

LedgerInv ==
  /\ SeatInv
  /\ ValidatesSomething
  /\ EmptyResults
  /\ \A m \in issued : RowStage(m.by, m)
  /\ \A c \in Calls : CallStage(c)
  /\ \A r \in net : RequestStage(r)

LEMMA InitLedger == Init => LedgerInv
BY InitSeat, InitEmpty DEF Init, LedgerInv, CallStage

\* What every client step leaves alone: the other calls.
LEMMA OthersUntouched ==
  ASSUME OwnInv, NEW c \in Calls, ClientStep(c), NEW d \in Calls, d # c
  PROVE  /\ pc'[d] = pc[d] /\ args'[d] = args[d] /\ ans'[d] = ans[d]
         /\ created'[d] = created[d] /\ machine'[d] = machine[d]
         /\ limited'[d] = limited[d] /\ outcome'[d] = outcome[d]
         /\ d \in faulted' <=> d \in faulted
<1> USE DEF serverVars, localVars, ghostVars, OwnInv
<1>1. CASE Start(c)
  BY <1>1 DEF Start, Await, TypeOK
<1>2. CASE ~Start(c)
  <2>1. Frame(c)
    BY <1>2, ClientFrame
  <2>2. limited'[d] = limited[d] /\ (d \in faulted' <=> d \in faulted)
    BY <1>2 DEF ClientStep, OnCreated, OnTaken, OnLimit, OnGot, OnFound, OnVerdict,
       OnDeleted, Fail, TypeOK
  <2> QED BY <2>1, <2>2 DEF Frame
<1> QED BY <1>1, <1>2

\* The stages of the call that steps.
LEMMA ClientStages ==
  ASSUME LedgerInv, NEW c \in Calls, ClientStep(c)
  PROVE  /\ CallStage(c)'
         /\ \A m \in issued : m.by = c => RowStage(c, m)'
         /\ \A r \in net' : r.call = c => RequestStage(r)'
         /\ issued' = issued
<1> USE DEF serverVars, localVars, ghostVars
<1>0. OwnInv /\ TypeOK /\ CallStage(c) /\ c \in Calls
  BY DEF LedgerInv, SeatInv, OwnInv
<1>s. issued' = issued
  BY DEF ClientStep, Start, OnCreated, OnTaken, OnLimit, OnGot, OnFound, OnVerdict,
     OnDeleted, Fail
<1>m. \A m \in issued : m.by = c => RowStage(c, m)
  BY DEF LedgerInv
<1>r. \A r \in net : r.call = c => RequestStage(r)
  BY DEF LedgerInv
<1>1. CASE Start(c)
  <2>1. \A m \in issued : m.by # c
    BY <1>0, <1>1 DEF Start, OwnInv, RowOrigin
  <2>2. \A r \in net : r.call # c
    BY <1>0, <1>1 DEF Start, OwnInv, IdleCalls
  <2>3. pc'[c] = "create" /\ ans'[c] = NoAnswer /\ faulted' = faulted /\ c \notin faulted
    BY <1>0, <1>1 DEF Start, Await, TypeOK, CallStage
  <2>4. CallStage(c)'
    BY <2>3 DEF CallStage
  <2>5. \A r \in net' : r.call = c => r = [op |-> "create", call |-> c, id |-> NoId]
    BY <1>1, <2>2 DEF Start, Await
  <2>6. \A r \in net' : r.call = c => RequestStage(r)'
    BY <2>3, <2>5 DEF RequestStage
  <2> QED BY <1>s, <2>1, <2>4, <2>6
\* A call that sends its next request.
<1>a. ASSUME NEW op \in {"get", "search", "validate"}, NEW id, Await(c, op, id),
             ans[c].kind # "none", UNCHANGED <<args, faulted>>,
             op \in {"get", "search"} => args[c].reuse,
             op = "validate" /\ limited'[c] = "none" /\ created'[c] = NoId => args[c].reuse,
             \A m \in issued : m.by = c => RowStage(c, m)'
      PROVE  /\ CallStage(c)'
             /\ \A m \in issued : m.by = c => RowStage(c, m)'
             /\ \A r \in net' : r.call = c => RequestStage(r)'
  <2>1. /\ pc'[c] = op /\ pc[c] \notin {"done", "idle"} /\ c \notin faulted'
        /\ \A r \in net' : r \notin net => r = [op |-> op, call |-> c, id |-> id]
    BY <1>0, <1>a, AwaitFrame DEF CallStage, OwnInv, AnswersFit, Answers
  <2>2. CallStage(c)'
    BY <1>a, <2>1 DEF CallStage
  <2>3. ASSUME NEW r \in net, r.call = c PROVE r.op \notin {"create", "delete"}
    <3>1. pc[c] = r.op /\ ans[c] = NoAnswer
      BY <1>a, <2>1, <2>3 DEF LedgerInv, SeatInv, AwaitedRequests
    <3> QED BY <1>a, <3>1 DEF NoAnswer
  <2>4. \A r \in net' : r.call = c => RequestStage(r)'
    BY <2>1, <2>3 DEF RequestStage
  <2> QED BY <1>a, <2>2, <2>4
\* A call that ends without a failed request.
<1>f. ASSUME NEW out, Finish(c, out), ans[c].kind # "none", UNCHANGED <<args, faulted>>
      PROVE  /\ CallStage(c)'
             /\ \A m \in issued : m.by = c => RowStage(c, m)'
             /\ \A r \in net' : r.call = c => RequestStage(r)'
  <2>1. pc'[c] = "done" /\ net' = net
    BY <1>0, <1>f, FinishFrame
  <2>2. pc[c] # "done" /\ c \notin faulted
    BY <1>0, <1>f DEF CallStage, OwnInv, AnswersFit, Answers
  <2>3. ASSUME NEW r \in net, r.call = c PROVE FALSE
    <3>1. ans[c] = NoAnswer
      BY <2>2, <2>3 DEF LedgerInv, SeatInv, AwaitedRequests
    <3> QED BY <1>f, <3>1 DEF NoAnswer
  <2> QED BY <2>1, <2>3 DEF CallStage, RowStage
<1>2. CASE OnCreated(c)
  <2>1. limited[c] = "none" /\ UNCHANGED <<args, limited, faulted>>
    BY <1>2 DEF OnCreated, LedgerInv, SeatInv
  <2>2. created'[c] = ans[c].id /\ machine'[c] = ans[c].id /\ limited'[c] = "none"
    BY <1>0, <1>2, <2>1 DEF OnCreated, TypeOK
  <2>3. ans[c].id # NoId
    BY <1>0, <1>2, ConstantsAssumption DEF OnCreated, TypeOK, Answer
  <2>4. pc'[c] = "validate"
    BY <1>0, <1>2, AwaitFrame DEF OnCreated
  <2>5. \A m \in issued : m.by = c => RowStage(c, m)'
    BY <1>2, <1>m, <2>2, <2>4 DEF OnCreated, RowStage
  <2>6. Await(c, "validate", NoId) /\ ans[c].kind # "none"
    BY <1>2 DEF OnCreated
  <2> QED BY <1>a, <1>s, <2>1, <2>2, <2>3, <2>5, <2>6
<1>3. CASE OnTaken(c)
  <2>1. ans[c].kind # "none" /\ UNCHANGED <<args, faulted>>
    BY <1>3 DEF OnTaken
  <2>2. \A m \in issued : m.by # c
    BY <1>3, <1>m DEF OnTaken, RowStage
  <2>3. CASE Finish(c, Threw("FINGERPRINT_TAKEN"))
    BY <1>f, <1>s, <2>1, <2>3
  <2>4. CASE args[c].reuse /\ Await(c, "get", ans[c].id)
    BY <1>a, <1>s, <2>1, <2>2, <2>4
  <2>5. CASE args[c].reuse /\ Await(c, "search", NoId)
    BY <1>a, <1>s, <2>1, <2>2, <2>5
  <2> QED BY <1>3, <2>3, <2>4, <2>5 DEF OnTaken
<1>4. CASE OnLimit(c)
  <2>1. ans[c].kind # "none" /\ UNCHANGED <<args, faulted>> /\ Await(c, "validate", NoId)
    BY <1>4 DEF OnLimit
  <2>2. \A m \in issued : m.by # c
    BY <1>4, <1>m DEF OnLimit, RowStage
  <2>3. limited'[c] # "none"
    <3>1. ans[c].code \in CreateLimitCodes
      BY <1>0, <1>4 DEF OnLimit, TypeOK, Answer
    <3>2. CreateLimitValidationCode(ans[c].code) # "none"
      BY <3>1 DEF CreateLimitCodes, CreateLimitValidationCode
    <3> QED BY <1>0, <1>4, <3>2 DEF OnLimit, TypeOK
  <2> QED BY <1>a, <1>s, <2>1, <2>2, <2>3
<1>5. CASE OnGot(c) \/ OnFound(c)
  <2>1. ans[c].kind # "none" /\ UNCHANGED <<args, faulted>> /\ args[c].reuse
    BY <1>0, <1>5 DEF OnGot, OnFound, CallStage
  <2>2. \A m \in issued : m.by # c
    BY <1>5, <1>m DEF OnGot, OnFound, RowStage
  <2>3. CASE Await(c, "validate", NoId)
    BY <1>a, <1>s, <2>1, <2>2, <2>3
  <2>4. CASE Await(c, "search", NoId)
    BY <1>a, <1>s, <2>1, <2>2, <2>4
  <2>5. CASE Finish(c, Threw("FINGERPRINT_TAKEN"))
    BY <1>f, <1>s, <2>1, <2>5
  <2> QED BY <1>5, <2>3, <2>4, <2>5 DEF OnGot, OnFound
<1>6. CASE OnVerdict(c)
  <2>1. ans[c].kind # "none" /\ UNCHANGED <<args, created, machine, limited, faulted>>
    BY <1>6 DEF OnVerdict
  <2>2. CASE \E out : Finish(c, out)
    BY <1>f, <1>s, <2>1, <2>2
  <2>3. CASE /\ limited[c] = "none" /\ MustRollBack(c)
             /\ pc' = [pc EXCEPT ![c] = "delete"]
             /\ ans' = [ans EXCEPT ![c] = NoAnswer]
             /\ net' = net \cup
                  {[op |-> "delete", call |-> c, id |-> RollbackTarget(c)]}
             /\ outcome' = [outcome EXCEPT ![c] = Result(ans[c].code, NoId)]
    <3>1. /\ pc'[c] = "delete" /\ outcome'[c] = Result(ans[c].code, NoId)
          /\ ans[c].code \in OverageCodes /\ args'[c].autoDelete /\ created'[c] # NoId
      BY <1>0, <2>1, <2>3 DEF MustRollBack, RollbackTarget, TypeOK
    <3>2. HandedBack(outcome[c])'
      BY <3>1 DEF HandedBack
    <3>3. c \notin faulted /\ pc[c] = "validate"
      BY <1>0, <1>6 DEF OnVerdict, CallStage
    <3>4. CallStage(c)'
      BY <2>1, <3>1, <3>2, <3>3 DEF CallStage
    <3>5. \A r \in net : r.call # c
      <4>1. ASSUME NEW r \in net, r.call = c PROVE ans[c] = NoAnswer
        BY <3>3, <4>1 DEF LedgerInv, SeatInv, AwaitedRequests
      <4> QED BY <2>1, <4>1 DEF NoAnswer
    <3>6. \A r \in net' : r.call = c => RequestStage(r)'
      BY <2>3, <3>1, <3>5 DEF RequestStage
    <3>7. \A m \in issued : m.by = c => RowStage(c, m)'
      BY <1>m, <2>1, <3>1, <3>3 DEF RowStage
    <3> QED BY <1>s, <3>4, <3>6, <3>7
  <2> QED BY <1>6, <2>2, <2>3 DEF OnVerdict
<1>7. CASE OnDeleted(c)
  <2>1. ans[c].kind # "none" /\ UNCHANGED <<args, faulted>> /\ Finish(c, outcome[c])
    BY <1>7 DEF OnDeleted
  <2> QED BY <1>f, <1>s, <2>1
<1>8. CASE Fail(c)
  <2>1. /\ pc'[c] = "done" /\ net' = net /\ args' = args /\ c \in faulted'
        /\ outcome'[c] = IF pc[c] = "delete" THEN outcome[c] ELSE Threw("FAILED")
    BY <1>0, <1>8, FinishFrame DEF Fail
  <2>2. ASSUME NEW r \in net, r.call = c PROVE RequestStage(r)'
    <3>1. RequestStage(r) /\ pc[c] # "done"
      BY <1>8, <1>r, <2>2 DEF Fail
    <3>2. r.op = "delete" => pc[c] = "delete" /\ args'[c].autoDelete
      BY <2>1, <2>2, <3>1 DEF RequestStage
    <3>3. pc[c] = "delete" => HandedBack(outcome[c])'
      BY <1>0, <2>1 DEF CallStage, HandedBack
    <3>4. r.op = "create" => pc[c] = "create"
      BY <2>2, <3>1 DEF RequestStage
    <3> QED BY <2>1, <2>2, <3>2, <3>3, <3>4 DEF RequestStage
  <2> QED BY <1>s, <2>1, <2>2 DEF CallStage, RowStage
<1> QED
  BY <1>1, <1>2, <1>3, <1>4, <1>5, <1>6, <1>7, <1>8 DEF ClientStep

LEMMA ClientLedger ==
  ASSUME LedgerInv, NEW c \in Calls, ClientStep(c)
  PROVE  LedgerInv'
<1> USE DEF LedgerInv
<1>1. SeatInv' /\ ValidatesSomething' /\ EmptyResults'
  BY ClientSeat, ClientEmpty DEF SeatInv, OwnInv
<1>2. OwnInv /\ OwnInv' /\ TypeOK /\ TypeOK'
  BY <1>1 DEF SeatInv, OwnInv
<1>3. ASSUME NEW d \in Calls, d # c PROVE CallStage(d)'
  BY <1>2, <1>3, OthersUntouched DEF CallStage, HandedBack
<1>4. ASSUME NEW m \in issued', m.by # c PROVE RowStage(m.by, m)'
  <2>1. m \in issued /\ m.by \in Calls
    BY <1>2, <1>4, ClientStages DEF TypeOK, Row
  <2> QED BY <1>2, <1>4, <2>1, OthersUntouched DEF RowStage
<1>5. ASSUME NEW r \in net', r.call # c PROVE RequestStage(r)'
  <2>1. r \in net
    <3>1. CASE Start(c)
      BY <1>5, <3>1 DEF Start, Await
    <3>2. CASE ~Start(c)
      BY <1>2, <1>5, <3>2, ClientFrame DEF Sends
    <3> QED BY <3>1, <3>2
  <2>2. r.call \in Calls
    BY <1>2, <2>1 DEF TypeOK, Message
  <2> QED BY <1>2, <1>5, <2>1, <2>2, OthersUntouched DEF RequestStage, HandedBack
<1> QED BY <1>1, <1>3, <1>4, <1>5, ClientStages

LEMMA ServerLedger ==
  ASSUME LedgerInv, NEW r \in net, ServerStep(r)
  PROVE  LedgerInv'
<1> USE DEF serverVars, ghostVars, LedgerInv
<1>1. SeatInv' /\ OwnInv /\ TypeOK /\ TypeOK'
  BY ServerSeat, ServerType DEF SeatInv, OwnInv
<1>2. faulted' = faulted
  BY DEF ServerStep, ServerCreate, ServerGet, ServerSearch, ServerValidate, ServerDelete
<1>3. PICK a : Reply(r, a)
  BY DEF ServerStep, ServerCreate, ServerGet, ServerSearch, ServerValidate, ServerDelete
<1>4. ReplyFrame(r, a)
  BY <1>1, <1>3, ReplyFramed
<1>5. ValidatesSomething' /\ EmptyResults'
  BY <1>4 DEF ReplyFrame, ValidatesSomething, EmptyResults
<1>6. \A c \in Calls : CallStage(c)'
  BY <1>2, <1>4 DEF ReplyFrame, CallStage, HandedBack
<1>7. ASSUME NEW q \in net' PROVE RequestStage(q)'
  <2>1. q \in net /\ q # r /\ q.call \in Calls /\ RequestStage(q)
    BY <1>1, <1>4, <1>7 DEF ReplyFrame, TypeOK, Message
  <2>2. q.op = "create" /\ pc[q.call] = "create" => ans'[q.call] = ans[q.call]
    <3>1. ASSUME q.op = "create", r.op = "create", q.call = r.call PROVE FALSE
      BY <1>1, <2>1, <3>1 DEF OwnInv, RowOrigin, TypeOK, Message
    <3> QED BY <1>4, <2>1, <3>1 DEF ReplyFrame
  <2> QED BY <1>2, <1>4, <2>1, <2>2 DEF ReplyFrame, RequestStage, HandedBack
<1>8. ASSUME NEW m \in issued PROVE RowStage(m.by, m)'
  <2>1. m.by \in Calls /\ RowStage(m.by, m)
    BY <1>1 DEF TypeOK, Row
  <2>2. pc[m.by] = "create" => ans'[m.by] = ans[m.by]
    <3>1. r.op = "create" => r.call # m.by
      BY <1>1 DEF OwnInv, RowOrigin
    <3> QED BY <1>4, <2>1, <3>1 DEF ReplyFrame
  <2> QED BY <1>4, <2>1, <2>2 DEF ReplyFrame, RowStage
<1>9. ASSUME NEW m \in issued', m \notin issued PROVE RowStage(m.by, m)'
  <2>1. ServerCreate(r) /\ r.op = "create" /\ r.call \in Calls /\ RequestStage(r)
    BY <1>1, <1>9
    DEF ServerStep, ServerCreate, ServerGet, ServerSearch, ServerValidate, ServerDelete,
        TypeOK, Message
  <2>2. PICK id \in MachineIds :
          LET row == [id |-> id, lic |-> args[r.call].lic,
                      fp |-> args[r.call].fp, by |-> r.call]
          IN  issued' = issued \cup {row} /\ Reply(r, [kind |-> "created", id |-> id])
    BY <1>9, <2>1 DEF ServerCreate
  <2>3. m.id = id /\ m.by = r.call
    BY <1>9, <2>2
  <2>4. CASE pc[r.call] = "create"
    <3>1. ans' = [ans EXCEPT ![r.call] = [kind |-> "created", id |-> id]] /\ pc' = pc
      BY <2>1, <2>2, <2>4 DEF Reply
    <3>2. ans'[r.call] = [kind |-> "created", id |-> id]
      BY <1>1, <2>1, <3>1 DEF TypeOK
    <3> QED BY <2>3, <2>4, <3>1, <3>2 DEF RowStage
  <2>5. CASE pc[r.call] = "done"
    BY <1>4, <2>3, <2>5 DEF ReplyFrame, RowStage
  <2> QED BY <2>1, <2>4, <2>5 DEF RequestStage
<1> QED BY <1>1, <1>5, <1>6, <1>7, <1>8, <1>9

LEMMA NextLedger == LedgerInv /\ [Next]_vars => LedgerInv'
<1> SUFFICES ASSUME LedgerInv, [Next]_vars PROVE LedgerInv'
  OBVIOUS
<1>1. SeatInv' /\ ValidatesSomething' /\ EmptyResults'
  BY NextSeat, NextEmpty DEF LedgerInv, SeatInv, OwnInv
<1>2. ASSUME UNCHANGED <<issued, net, pc, localVars, ans, outcome, faulted>>
      PROVE  LedgerInv'
  BY <1>1, <1>2 DEF localVars, LedgerInv, RowStage, CallStage, RequestStage, HandedBack
<1>3. CASE UNCHANGED vars
  BY <1>2, <1>3 DEF vars, localVars
<1>4. ASSUME NEW m \in machines, Cull(m) PROVE LedgerInv'
  BY <1>2, <1>4 DEF Cull
<1> QED BY <1>3, <1>4, ClientLedger, ServerLedger DEF Next

\* What a call has reported changes only when it starts and when it ends.
LEMMA ReportStays ==
  ASSUME \A c \in Calls :
           /\ pc'[c] = pc[c] \/ {pc[c], pc'[c]} \subseteq Waiting
           /\ pc[c] = "done" => outcome'[c] = outcome[c]
  PROVE  Reported' = Reported
BY DEF Reported

LEMMA ReportChanges ==
  ASSUME TypeOK, NEW c \in Calls, NEW report,
         pc'[c] # "idle", report = IF pc'[c] = "done" THEN outcome'[c] ELSE Pending,
         \A d \in Calls : d # c => pc'[d] = pc[d] /\ outcome'[d] = outcome[d]
  PROVE  Reported' = [Reported EXCEPT ![c] = report]
BY DEF Reported, TypeOK

LEMMA EndsReport ==
  ASSUME TypeOK, NEW c \in Calls, NEW out, Finish(c, out)
  PROVE  Reported' = [Reported EXCEPT ![c] = out]
BY FinishFrame, ReportChanges

\* The seat a call took, as it validates.
LEMMA SeatTaken ==
  ASSUME LedgerInv, NEW c \in Calls, pc[c] \in {"validate", "delete"}
  PROVE  /\ created[c] = NoId => Ledger!OwnSeats(c) = {}
         /\ created[c] # NoId => \E m \in issued :
              /\ m.id = created[c] /\ machine[c] = m.id /\ limited[c] = "none"
              /\ Ledger!OwnSeats(c) = {m}
<1>1. OwnInv /\ TypeOK
  BY DEF LedgerInv, SeatInv, OwnInv
<1>2. \A m \in issued : m.by = c => created[c] = m.id /\ machine[c] = m.id /\ limited[c] = "none"
  BY DEF LedgerInv, RowStage
<1>3. \A m \in issued : m.id # NoId
  BY <1>1, ConstantsAssumption DEF TypeOK, Row
<1>4. created[c] = NoId => Ledger!OwnSeats(c) = {}
  BY <1>2, <1>3 DEF Ledger!OwnSeats
<1>5. CASE created[c] # NoId
  <2>1. PICK m \in issued : m.id = created[c] /\ m.by = c
    BY <1>1, <1>5 DEF OwnInv, CreatedRows
  <2>2. Ledger!OwnSeats(c) = {m}
    BY <1>1, <2>1 DEF Ledger!OwnSeats, OwnInv, RowOrigin
  <2> QED BY <1>2, <1>5, <2>1, <2>2
<1> QED BY <1>4, <1>5

\* A call that ends at its validation reports the seat it holds, or that the
\* limit left it none.
LEMMA VerdictReports ==
  ASSUME LedgerInv, NEW c \in Calls, OnVerdict(c)
  PROVE  UNCHANGED Ledger!ledger \/ Ledger!Report(c)
<1> USE DEF serverVars, localVars, ghostVars
<1>1. OwnInv /\ TypeOK /\ CallStage(c) /\ pc[c] = "validate"
  BY DEF LedgerInv, SeatInv, OwnInv, OnVerdict
<1>2. Reported[c] = Ledger!Pending
  BY <1>1 DEF Reported, Pending, Ledger!Pending
<1>3. UNCHANGED <<machines, issued, args, rolledBack, faulted>>
  BY DEF OnVerdict
<1>4. CASE limited[c] # "none" /\ Finish(c, Result(limited[c], NoId))
  <2>1. Reported' = [Reported EXCEPT ![c] = Ledger!Result(limited[c], NoId)]
    BY <1>1, <1>4, EndsReport DEF Result, Ledger!Result
  <2>2. limited[c] \in OverageCodes
    BY <1>1, <1>4 DEF TypeOK
  <2>3. Ledger!OwnSeats(c) = {}
    BY <1>1, <1>4, SeatTaken
  <2>4. Ledger!Unseated(c)
    BY <2>1, <2>2, <2>3 DEF Ledger!Unseated
  <2> QED BY <1>2, <1>3, <2>4 DEF Ledger!Report
<1>5. CASE pc' = [pc EXCEPT ![c] = "delete"] /\ outcome' = [outcome EXCEPT ![c] = Result(ans[c].code, NoId)]
  <2>1. Reported' = Reported
    BY <1>1, <1>5, ReportStays DEF TypeOK
  <2> QED BY <1>3, <2>1 DEF Ledger!ledger
<1>6. CASE limited[c] = "none" /\ ~MustRollBack(c) /\ Finish(c, Result(ans[c].code, machine[c]))
  <2>1. Reported' = [Reported EXCEPT ![c] = Ledger!Result(ans[c].code, machine[c])]
    BY <1>1, <1>6, EndsReport DEF Result, Ledger!Result
  <2>2. ans[c].code \in Verdicts
    BY <1>1 DEF OnVerdict, TypeOK, Answer
  <2>3. machine[c] # NoId
    BY <1>1, <1>6 DEF LedgerInv, ValidatesSomething
  <2>4. PICK m \in issued : m.id = machine[c] /\ m.lic = args[c].lic /\ m.fp = args[c].fp
    BY <1>1, <2>3 DEF OwnInv, MachineMatchesRequest
  <2>5. Ledger!OwnSeats(c) = {m} \/ (Ledger!OwnSeats(c) = {} /\ args[c].reuse)
    <3>1. CASE created[c] = NoId
      BY <1>1, <1>6, <3>1, SeatTaken DEF CallStage
    <3>2. CASE created[c] # NoId
      <4>1. PICK n \in issued : machine[c] = n.id /\ Ledger!OwnSeats(c) = {n}
        BY <1>1, <3>2, SeatTaken
      <4>2. n = m
        BY <1>1, <2>4, <4>1 DEF OwnInv, RowIdentity
      <4> QED BY <4>1, <4>2
    <3> QED BY <3>1, <3>2
  <2>6. ~(m.by = c /\ args[c].autoDelete /\ ans[c].code \in OverageCodes)
    <3>1. ASSUME m.by = c PROVE created[c] # NoId
      <4>1. m \in Ledger!OwnSeats(c)
        BY <3>1 DEF Ledger!OwnSeats
      <4> QED BY <1>1, <4>1, SeatTaken
    <3> QED BY <1>6, <3>1 DEF MustRollBack, RollbackTarget
  <2>7. Ledger!Seated(c)
    BY <2>1, <2>2, <2>4, <2>5, <2>6 DEF Ledger!Seated
  <2> QED BY <1>2, <1>3, <2>7 DEF Ledger!Report
<1> QED BY <1>4, <1>5, <1>6 DEF OnVerdict

LEMMA ClientRefines ==
  ASSUME LedgerInv, NEW c \in Calls, ClientStep(c)
  PROVE  [Ledger!Next]_(Ledger!ledger)
<1> USE DEF serverVars, localVars, ghostVars
<1>1. OwnInv /\ TypeOK /\ CallStage(c)
  BY DEF LedgerInv, SeatInv, OwnInv
<1>2. pc[c] \in Waiting => Reported[c] = Ledger!Pending
  BY DEF Reported, Pending, Ledger!Pending
<1>w. ASSUME NEW op \in Waiting, NEW id, Await(c, op, id), pc[c] \in Waiting,
             UNCHANGED <<machines, issued, args, rolledBack, faulted>>
      PROVE  UNCHANGED Ledger!ledger
  <2>1. Reported' = Reported
    BY <1>1, <1>w, AwaitFrame, ReportStays
  <2> QED BY <1>w, <2>1 DEF Ledger!ledger
\* A call that is refused its fingerprint.
<1>x. ASSUME Finish(c, Threw("FINGERPRINT_TAKEN")), pc[c] \in {"create", "get", "search"},
             ans[c].kind # "created",
             UNCHANGED <<machines, issued, args, rolledBack, faulted>>
      PROVE  Ledger!Report(c)
  <2>1. Ledger!OwnSeats(c) = {}
    BY <1>x DEF LedgerInv, RowStage, Ledger!OwnSeats
  <2>2. Reported' = [Reported EXCEPT ![c] = Ledger!Threw("FINGERPRINT_TAKEN")]
    BY <1>1, <1>x, EndsReport DEF Threw, Ledger!Threw
  <2>3. Ledger!Refused(c)
    BY <2>1, <2>2 DEF Ledger!Refused
  <2> QED BY <1>2, <1>x, <2>3 DEF Ledger!Report
<1>3. CASE Start(c)
  <2>1. Reported[c] = Ledger!NotCalled
    BY <1>3 DEF Start, Reported, Ledger!NotCalled
  <2>2. /\ pc'[c] = "create"
        /\ \A d \in Calls : d # c => pc'[d] = pc[d] /\ outcome'[d] = outcome[d]
    BY <1>1, <1>3, AwaitFrame DEF Start
  <2>3. Reported' = [Reported EXCEPT ![c] = Ledger!Pending]
    BY <1>1, <2>2, ReportChanges DEF Pending, Ledger!Pending
  <2> QED BY <1>3, <2>1, <2>3 DEF Start, Ledger!Call, Ledger!Next
<1>4. CASE OnCreated(c) \/ OnLimit(c)
  BY <1>4, <1>w DEF OnCreated, OnLimit
<1>5. CASE OnTaken(c)
  <2>1. CASE Finish(c, Threw("FINGERPRINT_TAKEN"))
    BY <1>5, <1>x, <2>1 DEF OnTaken, Ledger!Next
  <2>2. CASE Await(c, "get", ans[c].id) \/ Await(c, "search", NoId)
    BY <1>5, <1>w, <2>2 DEF OnTaken
  <2> QED BY <1>5, <2>1, <2>2 DEF OnTaken
<1>6. CASE OnGot(c)
  BY <1>6, <1>w DEF OnGot
<1>7. CASE OnFound(c)
  <2>1. CASE Finish(c, Threw("FINGERPRINT_TAKEN"))
    BY <1>7, <1>x, <2>1 DEF OnFound, Ledger!Next
  <2>2. CASE Await(c, "validate", NoId)
    BY <1>7, <1>w, <2>2 DEF OnFound
  <2> QED BY <1>7, <2>1, <2>2 DEF OnFound
<1>8. CASE OnVerdict(c)
  BY <1>8, VerdictReports DEF Ledger!Next
<1>9. CASE OnDeleted(c)
  <2>1. /\ pc[c] = "delete" /\ ans[c] # NoAnswer /\ Finish(c, outcome[c])
        /\ UNCHANGED <<machines, issued, args, rolledBack, faulted>>
    BY <1>9 DEF OnDeleted, NoAnswer
  <2>2. PICK code \in OverageCodes : outcome[c] = Ledger!Result(code, NoId)
    BY <1>1, <2>1 DEF CallStage, HandedBack, Result, Ledger!Result
  <2>3. args[c].autoDelete /\ c \notin faulted
    BY <1>1, <2>1 DEF CallStage
  <2>4. \A m \in machines : m.by # c
    BY <2>1, <2>3 DEF LedgerInv, SeatInv, Owns
  <2>5. Ledger!OwnSeats(c) \cap machines = {}
    BY <2>4 DEF Ledger!OwnSeats
  <2>6. Reported' = [Reported EXCEPT ![c] = outcome[c]]
    BY <1>1, <2>1, EndsReport
  <2>7. Ledger!Unseated(c)
    BY <2>2, <2>3, <2>5, <2>6 DEF Ledger!Unseated
  <2> QED BY <1>2, <2>1, <2>7 DEF Ledger!Report, Ledger!Next
<1>10. CASE Fail(c)
  <2>1. /\ pc[c] \in Waiting /\ faulted' = faulted \cup {c}
        /\ UNCHANGED <<machines, issued, args, rolledBack>>
    BY <1>10 DEF Fail
  <2>2. CASE pc[c] # "delete" /\ Finish(c, Threw("FAILED"))
    <3>1. Reported' = [Reported EXCEPT ![c] = Ledger!Threw("FAILED")]
      BY <1>1, <2>2, EndsReport DEF Threw, Ledger!Threw
    <3> QED BY <1>2, <2>1, <3>1 DEF Ledger!GiveUp, Ledger!Next
  <2>3. CASE pc[c] = "delete" /\ Finish(c, outcome[c])
    <3>1. PICK code \in OverageCodes : outcome[c] = Ledger!Result(code, NoId)
      BY <1>1, <2>3 DEF CallStage, HandedBack, Result, Ledger!Result
    <3>2. Ledger!OwnSeats(c) # {} /\ args[c].autoDelete
      BY <1>1, <2>3, SeatTaken DEF CallStage
    <3>3. Reported' = [Reported EXCEPT ![c] = Ledger!Result(code, NoId)]
      BY <1>1, <2>3, <3>1, EndsReport
    <3> QED BY <1>2, <2>1, <3>2, <3>3 DEF Ledger!GiveUp, Ledger!Next
  <2> QED BY <1>10, <2>2, <2>3 DEF Fail
<1> QED
  BY <1>3, <1>4, <1>5, <1>6, <1>7, <1>8, <1>9, <1>10 DEF ClientStep

LEMMA ServerRefines ==
  ASSUME LedgerInv, NEW r \in net, ServerStep(r)
  PROVE  [Ledger!Next]_(Ledger!ledger)
<1> USE DEF serverVars, ghostVars
<1>1. OwnInv /\ TypeOK /\ RequestStage(r)
  BY DEF LedgerInv, SeatInv, OwnInv
<1>2. /\ r.call \in Calls /\ UNCHANGED <<pc, args, outcome>>
      /\ faulted' = faulted
  BY <1>1 DEF ServerStep, ServerCreate, ServerGet, ServerSearch, ServerValidate,
     ServerDelete, Reply, localVars, TypeOK, Message
<1>3. Reported' = Reported
  BY <1>2 DEF Reported
<1>4. CASE UNCHANGED <<machines, issued, rolledBack>>
  BY <1>2, <1>3, <1>4 DEF Ledger!ledger
<1>5. CASE /\ r.op = "create" /\ rolledBack' = rolledBack
           /\ Conflicts(args[r.call].lic, args[r.call].fp) = {}
           /\ \E id \in MachineIds \ {m.id : m \in issued} :
                LET row == [id |-> id, lic |-> args[r.call].lic,
                            fp |-> args[r.call].fp, by |-> r.call]
                IN  machines' = machines \cup {row} /\ issued' = issued \cup {row}
  <2>1. Ledger!OwnSeats(r.call) = {}
    BY <1>1, <1>5 DEF OwnInv, RowOrigin, Ledger!OwnSeats
  <2>2. Reported[r.call] \in {Ledger!Pending, Ledger!Threw("FAILED")}
    BY <1>1, <1>2, <1>5
    DEF RequestStage, Reported, Pending, Threw, Ledger!Pending, Ledger!Threw
  <2>3. \A m \in machines : m.lic # args[r.call].lic \/ m.fp # args[r.call].fp
    BY <1>5 DEF Conflicts
  <2>4. Ledger!Take(r.call)
    BY <1>2, <1>3, <1>5, <2>1, <2>2, <2>3 DEF Ledger!Take
  <2> QED BY <1>2, <2>4 DEF Ledger!Next
<1>6. CASE ServerCreate(r)
  BY <1>4, <1>5, <1>6 DEF ServerCreate
<1>7. CASE ServerGet(r) \/ ServerSearch(r) \/ ServerValidate(r)
  BY <1>4, <1>7 DEF ServerGet, ServerSearch, ServerValidate
<1>8. CASE ServerDelete(r)
  <2> DEFINE gone == {m \in machines : m.id = r.id}
  <2>1. /\ r.op = "delete" /\ machines' = machines \ gone
        /\ rolledBack' = rolledBack \cup {m.id : m \in gone} /\ issued' = issued
    BY <1>8 DEF ServerDelete
  <2>2. CASE gone = {}
    BY <1>4, <2>1, <2>2
  <2>3. CASE gone # {}
    <3>1. PICK m \in machines : m.id = r.id
      BY <2>3
    <3>2. gone = {m}
      BY <1>1, <3>1 DEF OwnInv, RowIdentity, TypeOK
    <3>3. m.by = r.call
      BY <1>1, <2>1, <3>1 DEF OwnInv, DeletesOnlyOwn, RowIdentity, TypeOK
    <3>4. machines' = machines \ {m} /\ rolledBack' = rolledBack \cup {m.id}
      BY <2>1, <3>2
    <3> HIDE DEF gone
    <3>5. args[m.by].autoDelete
      BY <1>1, <2>1, <3>3 DEF RequestStage
    <3>6. \/ Reported[m.by] = Ledger!Pending
          \/ /\ m.by \in faulted
             /\ \E code \in OverageCodes : Reported[m.by] = Ledger!Result(code, NoId)
      BY <1>1, <1>2, <2>1, <3>3
      DEF RequestStage, HandedBack, Reported, Pending, Result, Ledger!Pending, Ledger!Result
    <3>7. Ledger!HandBack(m)
      BY <1>2, <1>3, <2>1, <3>1, <3>4, <3>5, <3>6 DEF Ledger!HandBack
    <3> QED BY <3>1, <3>7 DEF Ledger!Next
  <2> QED BY <2>2, <2>3
<1> QED BY <1>6, <1>7, <1>8 DEF ServerStep

\* However creates, adoptions and rollbacks interleave, fail or come late,
\* the activations are entries of the seat ledger.
THEOREM ActivationsKeepTheLedger == Spec => ImplementsSeatLedger
<1>1. Init => Ledger!Init
  <2>1. (CHOOSE q \in Requests : TRUE) \in Requests
    BY ConstantsAssumption
  <2> QED BY <2>1 DEF Init, Ledger!Init, Reported, Ledger!NotCalled
<1>2. LedgerInv /\ [Next]_vars => [Ledger!Next]_(Ledger!ledger)
  <2> SUFFICES ASSUME LedgerInv, [Next]_vars PROVE [Ledger!Next]_(Ledger!ledger)
    OBVIOUS
  <2>1. CASE UNCHANGED vars
    BY <2>1 DEF vars, Ledger!ledger, Reported
  <2>2. ASSUME NEW m \in machines, Cull(m) PROVE Ledger!Remove(m)
    BY <2>2 DEF Cull, Ledger!Remove, Reported, localVars
  <2> QED BY <2>1, <2>2, ClientRefines, ServerRefines DEF Next, Ledger!Next
<1> QED
  BY <1>1, <1>2, InitLedger, NextLedger, PTL DEF Spec, ImplementsSeatLedger, Ledger!Spec

=============================================================================
