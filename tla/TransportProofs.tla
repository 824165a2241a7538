--------------------------- MODULE TransportProofs ---------------------------
(***************************************************************************)
(* Proofs about Transport, for every deadline, retry limit, Retry-After    *)
(* and error document, and each of the client's requests.                  *)
(***************************************************************************)
EXTENDS Transport, FiniteSetTheorems, TLAPS

-----------------------------------------------------------------------------
(* The methods and what decodes their answers.                             *)

\* Each method decodes its answer by a send* function that understands the
\* forms its route answers in.
LEMMA SendersFitAnswers ==
  ASSUME NEW q \in Requests
  PROVE  /\ q.answers \subseteq {"envelope", "empty", "notJson"}
         /\ "notJson" \in q.answers => q.sender = "sendRaw"
         /\ "empty" \in q.answers => q.sender \in Lenient
         /\ {q.lacking, q.partial} \subseteq {"value", "parse_error", "type_error"}
<1> DEFINE Fits(x) ==
      /\ x.answers \subseteq {"envelope", "empty", "notJson"}
      /\ "notJson" \in x.answers => x.sender = "sendRaw"
      /\ "empty" \in x.answers => x.sender \in Lenient
      /\ {x.lacking, x.partial} \subseteq {"value", "parse_error", "type_error"}
<1>1. \A m, s, snd : Fits(Request(m, s, snd, {"envelope"}))
  BY DEF Request
<1>2. Fits(File) /\ Fits(Deletion) /\ Fits(checkForUpgrade)
  BY DEF Request, File, Deletion, checkForUpgrade, Lenient
<1>3. Fits(generateOfflineProof) /\ Fits(getArtifactDownloadUrl)
  BY DEF Request, WithMeta, Resource, generateOfflineProof, getArtifactDownloadUrl
<1> HIDE DEF Fits
<1>4. Fits(q)
  BY <1>1, <1>2, <1>3
  DEF Requests, Resource, WithMeta, Flat, validateByKey, validateById, quickValidate,
      checkIn, getLicense, getLicensePolicy, getPolicy, listSigningKeys,
      checkOutLicense, checkOutLicenseJson, checkOutMachine, checkOutMachineJson,
      createMachine, pingHeartbeat, resetHeartbeat, deleteMachine, getMachine,
      listMachines, updateMachine, createComponent, listComponents, createProcess,
      pingProcess, deleteProcess, listMachineProcesses, listEntitlements,
      getEntitlement, incrementEntitlementUsage, decrementEntitlementUsage,
      resetEntitlementUsage, listReleaseArtifacts, getArtifact, health
<1> QED BY <1>4 DEF Fits

\* The outcomes a call has without an answer.
Unanswered == {"pending", "timeout", "network_error"}

LEMMA DecodeAnswers ==
  ASSUME NEW q \in Requests, NEW r
  PROVE  Decode(q, r) \notin Unanswered
BY SendersFitAnswers DEF Decode, Unanswered

-----------------------------------------------------------------------------
(* At most one attempt of a call is carried out.                           *)

\* Only the current attempt can be on its way or have been carried out, and
\* one that a 429 refused is neither.
AttemptInv ==
  /\ attempt \in Nat
  /\ net = {} \/ net = {attempt}
  /\ executed = {} \/ executed = {attempt}
  /\ net = {} \/ executed = {}
  /\ response.status # "none" => net = {}
  /\ response.status = "throttled" => executed = {}
  /\ pc = "idle" => net = {} /\ executed = {}
  /\ pc = "reading" => response.status # "none"
  /\ pc = "sleeping" => net = {} /\ executed = {}

LEMMA InitAttempt == Init => AttemptInv
BY DEF Init, AttemptInv

LEMMA NextAttempt ==
  ASSUME AttemptInv, [Next]_vars
  PROVE  AttemptInv'
<1> USE DEF AttemptInv, ghostVars
<1>1. CASE Send
  BY <1>1 DEF Send, BeginAttempt, NoResponse
<1>2. CASE Headers
  BY <1>2 DEF Headers
<1>3. CASE BodyRead
  BY <1>3 DEF BodyRead, MayRetry
<1>4. CASE Retry
  BY <1>4 DEF Retry, BeginAttempt, NoResponse
<1>5. CASE DeadlineFires
  BY <1>5 DEF DeadlineFires
<1>6. CASE TimesOut
  BY <1>6 DEF TimesOut
<1>7. CASE NetworkFails
  BY <1>7 DEF NetworkFails
<1>8. ASSUME NEW n \in net, Throttle(n)
      PROVE  AttemptInv'
  BY <1>8 DEF Throttle
<1>9. ASSUME NEW n \in net, Execute(n)
      PROVE  AttemptInv'
  BY <1>9 DEF Execute
<1>10. CASE Advance
  BY <1>10 DEF Advance
<1>11. CASE UNCHANGED vars
  BY <1>11 DEF vars
<1> QED
  BY <1>1, <1>2, <1>3, <1>4, <1>5, <1>6, <1>7, <1>8, <1>9, <1>10, <1>11
  DEF Next, ClientStep

\* A call is carried out at most once, whatever its route and however its
\* attempts are throttled, lost or timed out.
THEOREM CarriedOutAtMostOnce == Spec => []ExecutedAtMostOnce
<1>1. AttemptInv => ExecutedAtMostOnce
  <2>1. Cardinality({}) = 0 /\ Cardinality({attempt}) = 1
    BY FS_EmptySet, FS_Singleton
  <2> QED BY <2>1 DEF AttemptInv, ExecutedAtMostOnce
<1> QED BY <1>1, InitAttempt, NextAttempt, PTL DEF Spec

-----------------------------------------------------------------------------
(* Deadlines.                                                              *)

\* The constants' bound under which a deadline is honoured.
TimerHonoursTimeouts == \A t \in Timeouts : t <= TimerMax

\* An armed deadline and the time already spent make up timeoutMs.
DeadlineInv ==
  /\ call \in Call
  /\ expired \in BOOLEAN
  /\ DeadlineOutlivesNothing
  /\ pc # "sleeping" => wait = 0
  /\ pc \in {"fetching", "reading"} =>
       /\ deadline \in Nat \cup {Unarmed}
       /\ deadline # Unarmed =>
            /\ call.timeoutMs > 0
            /\ lasted \in Nat
            /\ lasted + deadline = call.timeoutMs
       /\ expired => deadline = 0
  /\ TimeoutIsHonest
  /\ outcome # "pending" => pc = "done"
  /\ pc \in {"idle", "fetching", "reading", "sleeping", "done"}

\* While an attempt is under way only its deadline's timer is running.
LEMMA AdvanceToDeadline ==
  ASSUME deadline \in Nat \cup {Unarmed}, wait = 0,
         {deadline, wait} \ {Unarmed, 0} # {}
  PROVE  /\ deadline # Unarmed
         /\ Min({deadline, wait} \ {Unarmed, 0}) = deadline
<1>1. {deadline, wait} \ {Unarmed, 0} = {deadline} /\ deadline \in Nat
  BY DEF Unarmed
<1>2. Min({deadline}) = deadline
  BY <1>1 DEF Min
<1> QED BY <1>1, <1>2 DEF Unarmed

LEMMA InitDeadline == Init => DeadlineInv
<1> SUFFICES ASSUME Init
             PROVE  DeadlineInv
  OBVIOUS
<1>1. call \in Call /\ call.timeoutMs \in Timeouts
  BY DEF Init, Call
<1>2. expired \in BOOLEAN
  BY DEF Init
<1> QED
  BY <1>1, <1>2
  DEF Init, DeadlineInv, DeadlineOutlivesNothing, TimeoutIsHonest, Unarmed

LEMMA NextDeadline ==
  ASSUME TimerHonoursTimeouts, DeadlineInv, [Next]_vars
  PROVE  DeadlineInv'
<1> USE ConstantsAssumption
    DEF DeadlineInv, DeadlineOutlivesNothing, TimeoutIsHonest, Unarmed, ghostVars
<1>0. ASSUME NEW n, BeginAttempt(n), UNCHANGED <<call, wait, outcome>>,
             wait = 0, outcome = "pending"
      PROVE  DeadlineInv'
  <2>1. /\ call.timeoutMs \in Int /\ call.timeoutMs <= TimerMax
        /\ TimerMax \in Nat \ {0}
    BY ZenonT(60) DEF TimerHonoursTimeouts, Call
  <2>2. deadline' = IF call.timeoutMs <= 0 THEN -1 ELSE call.timeoutMs
    BY <1>0, <2>1 DEF BeginAttempt, DeadlineDelay
  <2>3. expired' \in BOOLEAN
    BY <1>0 DEF BeginAttempt
  <2> QED BY <1>0, <2>1, <2>2, <2>3 DEF BeginAttempt
<1>1. CASE Send
  BY <1>0, <1>1 DEF Send
<1>2. CASE Headers
  BY <1>2 DEF Headers
<1>3. CASE BodyRead
  <2>1. /\ deadline' = -1 /\ UNCHANGED <<call, attempt, expired, lasted>>
        /\ ~expired /\ pc = "reading"
    BY <1>3 DEF BodyRead, ClearDeadline
  <2>2. CASE /\ pc' = "sleeping" /\ UNCHANGED outcome
    BY <2>1, <2>2
  <2>3. CASE /\ pc' = "done" /\ outcome' = Decode(call.request, response)
             /\ UNCHANGED wait
    <3>1. Decode(call.request, response) # "timeout"
      BY DecodeAnswers DEF DeadlineInv, Call, Unanswered
    <3> QED BY <2>1, <2>3, <3>1
  <2> QED BY <1>3, <2>2, <2>3 DEF BodyRead
<1>4. CASE Retry
  BY <1>0, <1>4 DEF Retry
<1>5. CASE DeadlineFires
  BY <1>5 DEF DeadlineFires
<1>6. CASE TimesOut
  BY <1>6 DEF TimesOut, ClearDeadline
<1>7. CASE NetworkFails
  BY <1>7 DEF NetworkFails, ClearDeadline
<1>8. ASSUME NEW n \in net, Throttle(n)
      PROVE  DeadlineInv'
  BY <1>8 DEF Throttle
<1>9. ASSUME NEW n \in net, Execute(n)
      PROVE  DeadlineInv'
  BY <1>9 DEF Execute
<1>10. CASE Advance
  <2>1. CASE pc = "sleeping"
    BY <1>10, <2>1 DEF Advance
  <2>2. CASE pc \in {"fetching", "reading"}
    <3>1. deadline # Unarmed /\ Min({deadline, wait} \ {Unarmed, 0}) = deadline
      BY <1>10, <2>2, AdvanceToDeadline DEF Advance
    <3> QED BY <1>10, <2>2, <3>1 DEF Advance
  <2> QED BY <1>10, <2>1, <2>2 DEF Advance
<1>11. CASE UNCHANGED vars
  BY <1>11 DEF vars
<1> QED
  BY <1>1, <1>2, <1>3, <1>4, <1>5, <1>6, <1>7, <1>8, <1>9, <1>10, <1>11
  DEF Next, ClientStep

\* As long as no timeoutMs exceeds what setTimeout honours, a call reported
\* as timed out has had all of its time, and no deadline outlives its
\* attempt.
THEOREM DeadlinesHonoured ==
  ASSUME TimerHonoursTimeouts
  PROVE  Spec => [](TimeoutIsHonest /\ DeadlineOutlivesNothing)
<1>1. DeadlineInv => TimeoutIsHonest /\ DeadlineOutlivesNothing
  BY DEF DeadlineInv
<1>2. DeadlineInv /\ [Next]_vars => DeadlineInv'
  BY NextDeadline
<1> QED BY <1>1, <1>2, InitDeadline, PTL DEF Spec
-----------------------------------------------------------------------------
(* What the caller is told.                                                *)

\* A call ends in what its send* function makes of the answer of its current
\* attempt, once that answer is not to be retried.
CallInv ==
  /\ AttemptInv
  /\ call \in Call
  /\ attempt <= MaxRetries
  /\ pc = "sleeping" => attempt < MaxRetries
  /\ outcome # "pending" <=> pc = "done"
  /\ response.status \notin {"none", "throttled"} => executed = {attempt}
  /\ response.body \in Bodies
  /\ outcome \notin Unanswered =>
       /\ response.status # "none"
       /\ outcome = Decode(call.request, response)
       /\ thrown = Thrown(outcome, response)
       /\ ~MayRetry

LEMMA InitCall == Init => CallInv
<1>1. PlainBody("empty") \in Bodies
  BY DEF Bodies, PlainBodies
<1> QED
  BY <1>1, InitAttempt, ConstantsAssumption
  DEF Init, CallInv, NoResponse, Unanswered

LEMMA NextCall ==
  ASSUME CallInv, [Next]_vars
  PROVE  CallInv'
<1>0. AttemptInv'
  BY NextAttempt DEF CallInv
<1> USE <1>0, ConstantsAssumption DEF CallInv, ghostVars
<1>a. ASSUME NEW n \in 0..MaxRetries, BeginAttempt(n), UNCHANGED <<call, outcome, executed>>,
             outcome = "pending"
      PROVE  CallInv'
  <2>1. PlainBody("empty") \in Bodies
    BY DEF Bodies, PlainBodies
  <2> QED BY <1>a, <2>1 DEF BeginAttempt, NoResponse, Unanswered
<1>1. CASE Send
  BY <1>a, <1>1 DEF Send
<1>2. CASE Headers
  BY <1>2 DEF Headers, MayRetry, Decode, Thrown
<1>3. CASE BodyRead
  <2>1. /\ UNCHANGED <<call, attempt, expired, net, response, executed>>
        /\ pc = "reading" /\ response.status # "none" /\ outcome = "pending"
    BY <1>3 DEF BodyRead, AttemptInv
  <2>2. CASE MayRetry /\ pc' = "sleeping" /\ UNCHANGED <<outcome, thrown>>
    BY <2>1, <2>2 DEF MayRetry, Unanswered, AttemptInv
  <2>3. CASE /\ ~MayRetry /\ pc' = "done" /\ outcome' = Decode(call.request, response)
             /\ thrown' = Thrown(outcome', response)
    <3>1. outcome' \notin Unanswered
      BY <2>3, DecodeAnswers DEF Call
    <3> QED BY <2>1, <2>3, <3>1 DEF MayRetry, Unanswered
  <2> QED BY <1>3, <2>2, <2>3 DEF BodyRead
<1>4. CASE Retry
  <2>1. attempt + 1 \in 0..MaxRetries
    BY <1>4 DEF Retry, AttemptInv
  <2> QED BY <1>a, <1>4, <2>1 DEF Retry
<1>5. CASE DeadlineFires
  BY <1>5 DEF DeadlineFires, MayRetry
<1>6. CASE TimesOut
  BY <1>6 DEF TimesOut, Unanswered
<1>7. CASE NetworkFails
  BY <1>7 DEF NetworkFails, Unanswered
<1>8. ASSUME NEW n \in net, Throttle(n)
      PROVE  CallInv'
  <2>1. /\ UNCHANGED <<pc, call, attempt, outcome, thrown, executed>>
        /\ attempt = n
    BY <1>8 DEF Throttle, AttemptInv
  <2>2. CASE pc = "fetching"
    BY <1>8, <2>1, <2>2 DEF Throttle, Bodies, PlainBodies, RateLimitBodies, Unanswered
  <2>3. CASE pc # "fetching" /\ UNCHANGED response
    BY <2>1, <2>3 DEF MayRetry
  <2> QED BY <1>8, <2>1, <2>2, <2>3 DEF Throttle
<1>9. ASSUME NEW n \in net, Execute(n)
      PROVE  CallInv'
  <2>1. /\ UNCHANGED <<pc, call, attempt, outcome, thrown>>
        /\ attempt = n /\ executed' = {attempt}
    BY <1>9 DEF Execute, AttemptInv
  <2>2. CASE pc = "fetching"
    BY <1>9, <2>1, <2>2 DEF Execute, Unanswered
  <2>3. CASE pc # "fetching" /\ UNCHANGED response
    BY <2>1, <2>3 DEF MayRetry
  <2> QED BY <1>9, <2>1, <2>2, <2>3 DEF Execute
<1>10. CASE Advance
  BY <1>10 DEF Advance, MayRetry
<1>11. CASE UNCHANGED vars
  BY <1>11 DEF vars, MayRetry
<1> QED
  BY <1>1, <1>2, <1>3, <1>4, <1>5, <1>6, <1>7, <1>8, <1>9, <1>10, <1>11
  DEF Next, ClientStep

LEMMA CallInvariant == Spec => []CallInv
BY InitCall, NextCall, PTL DEF Spec

\* A 429 reaches the caller only from a call that must not be repeated or
\* whose retries are spent.
THEOREM RetriesAreSpent == Spec => []GivesUpOnlyWhenSpent
<1>1. CallInv => GivesUpOnlyWhenSpent
  BY ConstantsAssumption
  DEF CallInv, GivesUpOnlyWhenSpent, MayRetry, AttemptInv, Unanswered
<1> QED BY <1>1, CallInvariant, PTL

\* An answer reaches the caller as what it was, whichever method asked: an HTTP
\* error as an API error, or as a parse error where a page that is no JSON met
\* a strict route; a success in the route's own form as a result; and nothing
\* but a success as a result.
THEOREM AnswersReachTheCaller == Spec => []AnswersSurface
<1>1. CallInv => AnswersSurface
  <2> SUFFICES ASSUME CallInv, Answered
               PROVE  AnswersSurface
    BY DEF AnswersSurface
  <2>1. outcome = Decode(call.request, response)
    BY DEF CallInv, Answered, Unanswered, AttemptInv
  <2>2. call.request \in Requests
    BY DEF CallInv, Call
  <2> QED
    BY <2>1, <2>2, SendersFitAnswers DEF AnswersSurface, Decode, Strict, Lenient
<1> QED BY <1>1, CallInvariant, PTL

LEMMA DocumentParts ==
  ASSUME NEW b \in ErrorBodies
  PROVE  /\ b = ErrorBody(b.errors)
         /\ b.errors \in Seq({b.errors[i] : i \in DOMAIN b.errors})
         /\ \A i \in DOMAIN b.errors : IsErrorObject(b.errors[i])
<1>1. IsErrorDocument(b)
  BY ConstantsAssumption
<1> QED BY <1>1 DEF IsErrorDocument

\* An error the server spelled out reaches the caller under its own code; any
\* other under none it branches on, with the response's own status.
THEOREM CodesReachTheCaller == Spec => []ErrorsKeepTheirCode
<1>1. CallInv => ErrorsKeepTheirCode
  <2> SUFFICES ASSUME CallInv, outcome = "api_error"
               PROVE  ErrorsKeepTheirCode
    BY DEF ErrorsKeepTheirCode
  <2> DEFINE errors == response.body.errors
  <2>1. thrown = ApiErrorFromResponseBody(HttpStatus(response.status), response.body)
    BY DEF CallInv, Unanswered, Thrown
  <2>2. response.body.kind = "errors" \/ errors = <<>>
    <3>1. response.body \in PlainBodies \/ response.body = ErrorBody(errors)
      <4>1. response.body \in PlainBodies \/ response.body \in ErrorBodies
        BY DEF CallInv, Bodies
      <4> QED BY <4>1, DocumentParts
    <3> QED BY <3>1 DEF PlainBodies, PlainBody, ErrorBody
  <2>3. CASE SpelledOut(errors)
    <3>1. ParsesAsErrors(response.body)
      BY <2>2, <2>3 DEF ParsesAsErrors, IsParsable, SpelledOut
    <3>2. thrown = ErrorFromApiError(errors[1])
      BY <2>1, <2>3, <3>1 DEF ApiErrorFromResponseBody, SpelledOut
    <3> QED
      BY <2>3, <3>2
      DEF ErrorsKeepTheirCode, ErrorFromApiError, ClassOf, NamesMachine, TypedCodes,
          ConflictCodes
  <2>4. CASE ~SpelledOut(errors)
    <3>1. ~(ParsesAsErrors(response.body) /\ errors # <<>>)
      BY <2>4 DEF ParsesAsErrors, IsParsable, SpelledOut
    <3>2. thrown = UnknownError(HttpStatus(response.status))
      BY <2>1, <3>1 DEF ApiErrorFromResponseBody
    <3>3. "UNKNOWN" \notin TypedCodes
      BY DEF TypedCodes, CredentialCodes, ConflictCodes, RequestCodes, LimitCodes,
             AccountCodes, GeneralCodes
    <3> QED BY <2>4, <3>2, <3>3 DEF ErrorsKeepTheirCode, UnknownError
  <2> QED BY <2>3, <2>4
<1> QED BY <1>1, CallInvariant, PTL

-----------------------------------------------------------------------------
(* The refinement.                                                         *)

LEMMA EffectsOfOne ==
  ASSUME AttemptInv
  PROVE  Cardinality(executed) = IF executed = {} THEN 0 ELSE 1
<1>1. Cardinality({}) = 0 /\ Cardinality({attempt}) = 1
  BY FS_EmptySet, FS_Singleton
<1> QED BY <1>1 DEF AttemptInv

\* What the step does to the verdict when no outcome is set.
LEMMA VerdictStays ==
  ASSUME CallInv, CallInv', UNCHANGED outcome,
         outcome \notin Unanswered => UNCHANGED response
  PROVE  UNCHANGED Verdict
BY DEF Verdict, Unanswered

LEMMA StepRefines ==
  ASSUME CallInv, [Next]_vars
  PROVE  [Remote!Next]_(Remote!vars)
<1>0. CallInv' /\ AttemptInv /\ AttemptInv'
  BY NextCall, NextAttempt DEF CallInv
<1>e. /\ Cardinality(executed) = IF executed = {} THEN 0 ELSE 1
      /\ Cardinality(executed') = IF executed' = {} THEN 0 ELSE 1
  <2>1. Cardinality(executed') = IF executed' = {} THEN 0 ELSE 1
    <3>1. Cardinality({}) = 0 /\ Cardinality({attempt'}) = 1
      BY FS_EmptySet, FS_Singleton
    <3> QED BY <3>1, <1>0 DEF AttemptInv
  <2> QED BY <1>0, <2>1, EffectsOfOne
<1>s. ASSUME UNCHANGED <<executed, outcome>>,
             outcome \notin Unanswered => UNCHANGED response
      PROVE  UNCHANGED Remote!vars
  BY <1>0, <1>s, VerdictStays DEF Remote!vars
<1>g. ASSUME UNCHANGED executed, outcome = "pending",
             outcome' \in {"timeout", "network_error"}
      PROVE  Remote!GiveUp
  BY <1>g DEF Remote!GiveUp, Verdict
<1> USE DEF ghostVars
<1>1. CASE Send
  BY <1>0, <1>1, <1>s DEF Send, CallInv, Unanswered
<1>2. CASE Headers
  BY <1>2, <1>s DEF Headers
<1>3. CASE BodyRead
  <2>1. /\ UNCHANGED <<response, executed>>
        /\ pc = "reading" /\ response.status # "none" /\ outcome = "pending"
    BY <1>3, <1>0 DEF BodyRead, AttemptInv, CallInv
  <2>2. CASE UNCHANGED outcome
    BY <2>1, <2>2, <1>s
  <2>3. CASE outcome' = Decode(call.request, response)
    <3>1. outcome' \notin Unanswered
      BY <2>3, DecodeAnswers DEF Call, CallInv
    <3>2. Verdict = "pending"
      BY <2>1 DEF Verdict
    <3>3. Verdict' = IF response.status = "throttled" THEN "refused" ELSE "answered"
      BY <2>1, <3>1 DEF Verdict, Unanswered
    <3>4. CASE response.status = "throttled"
      <4>1. Cardinality(executed) = 0 /\ Cardinality(executed') = 0
        BY <3>4, <2>1, <1>0, <1>e DEF AttemptInv
      <4> QED BY <3>2, <3>3, <3>4, <4>1 DEF Remote!Refuse, Remote!Next
    <3>5. CASE response.status # "throttled"
      <4>1. Cardinality(executed) = 1 /\ Cardinality(executed') = 1
        BY <3>5, <2>1, <1>0, <1>e DEF CallInv
      <4> QED BY <3>2, <3>3, <3>5, <4>1 DEF Remote!Answer, Remote!Next
    <3> QED BY <3>4, <3>5
  <2> QED BY <1>3, <2>2, <2>3 DEF BodyRead
<1>4. CASE Retry
  BY <1>0, <1>4, <1>s DEF Retry, CallInv, Unanswered
<1>5. CASE DeadlineFires
  BY <1>5, <1>s DEF DeadlineFires
<1>6. CASE TimesOut
  BY <1>6, <1>g DEF TimesOut, CallInv, Remote!Next
<1>7. CASE NetworkFails
  BY <1>7, <1>g DEF NetworkFails, CallInv, Remote!Next
<1>8. ASSUME NEW n \in net, Throttle(n)
      PROVE  UNCHANGED Remote!vars
  BY <1>8, <1>0, <1>s DEF Throttle, CallInv, Unanswered
<1>9. ASSUME NEW n \in net, Execute(n)
      PROVE  Remote!CarryOut
  <2>1. /\ executed = {} /\ executed' # {} /\ UNCHANGED outcome
        /\ response.status = "none" /\ (outcome # "pending" => UNCHANGED response)
    BY <1>9, <1>0 DEF Execute, AttemptInv, CallInv
  <2>2. outcome \in Unanswered
    BY <2>1 DEF CallInv
  <2>3. Verdict \in {"pending", "unknown"} /\ UNCHANGED Verdict
    BY <2>1, <2>2 DEF Verdict, Unanswered
  <2> QED BY <1>e, <2>1, <2>3 DEF Remote!CarryOut
<1>10. CASE Advance
  BY <1>10, <1>s DEF Advance
<1>11. CASE UNCHANGED vars
  BY <1>11, <1>s DEF vars
<1> QED
  BY <1>1, <1>2, <1>3, <1>4, <1>5, <1>6, <1>7, <1>8, <1>9, <1>10, <1>11
  DEF Next, ClientStep, Remote!Next

\* Whatever is throttled, lost, late or timed out, a call is the one remote
\* call of the abstract specification.
THEOREM CallIsOneRemoteCall == Spec => ImplementsRemoteCall
<1>1. Init => Remote!Init
  BY FS_EmptySet DEF Init, Remote!Init, Verdict
<1>2. CallInv /\ [Next]_vars => [Remote!Next]_(Remote!vars)
  BY StepRefines
<1> QED BY <1>1, <1>2, CallInvariant, PTL DEF Spec, ImplementsRemoteCall, Remote!Spec

-----------------------------------------------------------------------------
(* The time a call takes, for every deadline, retry limit and Retry-After: *)
(* its types, the bound on the whole call, and the pauses the server asked *)
(* for.                                                                    *)

\* The longest pause before a retry.
LongestPause == MaxRetryAfter * 1000

\* Numbers and what becomes of them.
Clocks ==
  /\ deadline \in Nat \cup {Unarmed}
  /\ wait \in Nat
  /\ lasted \in Nat
  /\ elapsed \in Nat
  /\ penalty \in Nat

\* Which timer runs when.
Timers ==
  /\ pc \in {"idle", "fetching", "reading", "sleeping", "done"}
  /\ pc \in {"idle", "sleeping", "done"} => deadline = Unarmed
  /\ pc # "sleeping" => wait = 0

-----------------------------------------------------------------------------
\* Min and Max of two numbers.
LEMMA MinMaxOfTwo ==
  ASSUME NEW x \in Int, NEW y \in Int
  PROVE  /\ Min({x, y}) = IF x <= y THEN x ELSE y
         /\ Max({x, y}) = IF x <= y THEN y ELSE x
<1> DEFINE least == IF x <= y THEN x ELSE y
           most == IF x <= y THEN y ELSE x
<1>1. least \in {x, y} /\ \A z \in {x, y} : least <= z
  OBVIOUS
<1>2. \A n \in {x, y} : (\A z \in {x, y} : n <= z) => n = least
  OBVIOUS
<1>3. most \in {x, y} /\ \A z \in {x, y} : most >= z
  OBVIOUS
<1>4. \A n \in {x, y} : (\A z \in {x, y} : n >= z) => n = most
  OBVIOUS
<1> HIDE DEF least, most
<1>5. Min({x, y}) = least
  BY <1>1, <1>2 DEF Min
<1>6. Max({x, y}) = most
  BY <1>3, <1>4 DEF Max
<1> QED BY <1>5, <1>6 DEF least, most

\* The powers of the backoff.
LEMMA Backoff ==
  ASSUME NEW n \in Nat
  PROVE  2 ^ Min({n, 5}) \in 1..32
<1>1. Min({n, 5}) \in 0..5
  BY MinMaxOfTwo
<1>2. 2 ^ 0 = 1 /\ 2 ^ 1 = 2 /\ 2 ^ 2 = 4 /\ 2 ^ 3 = 8 /\ 2 ^ 4 = 16 /\ 2 ^ 5 = 32
  OBVIOUS
<1>3. ASSUME NEW m \in 0..5
      PROVE  2 ^ m \in 1..32
  <2>1. m = 0 \/ m = 1 \/ m = 2 \/ m = 3 \/ m = 4 \/ m = 5
    OBVIOUS
  <2>2. CASE m = 0
    BY <1>2, <2>2
  <2>3. CASE m = 1
    BY <1>2, <2>3
  <2>4. CASE m = 2
    BY <1>2, <2>4
  <2>5. CASE m = 3
    BY <1>2, <2>5
  <2>6. CASE m = 4
    BY <1>2, <2>6
  <2>7. CASE m = 5
    BY <1>2, <2>7
  <2> QED BY <2>1, <2>2, <2>3, <2>4, <2>5, <2>6, <2>7
<1> QED BY <1>1, <1>3

\* A pause is some time, and if the server named one, it is that one, capped.
LEMMA DelayOfRetry ==
  ASSUME NEW n \in Nat, NEW ra \in RetryAfters \cup {NoHeader},
         NEW d \in RetryDelays(n, ra)
  PROVE  /\ d \in Nat
         /\ MaxRetryAfter >= 33 => d <= LongestPause
         /\ ra # NoHeader =>
              /\ ra \in Nat
              /\ d = (IF ra <= MaxRetryAfter THEN ra ELSE MaxRetryAfter) * 1000
<1> USE ConstantsAssumption
<1>1. CASE ra = NoHeader
  <2>1. PICK j \in Jitters : d = 2 ^ Min({n, 5}) * 1000 + j
    BY <1>1 DEF RetryDelays
  <2> DEFINE b == 2 ^ Min({n, 5})
  <2>2. b \in 1..32 /\ j \in 0..999 /\ d = b * 1000 + j
    BY <2>1, Backoff
  <2> HIDE DEF b
  <2> QED BY <1>1, <2>2 DEF LongestPause
<1>2. CASE ra # NoHeader
  <2>0. ra \in Nat
    BY <1>2
  <2>1. d = Min({ra, MaxRetryAfter}) * 1000
    <3> DEFINE named == Min({ra, MaxRetryAfter}) * 1000
    <3>1. RetryDelays(n, ra) = {named}
      BY ONLY <1>2, ZenonT(60) DEF RetryDelays
    <3> HIDE DEF named
    <3>2. d = named
      BY ONLY <3>1, d \in RetryDelays(n, ra), ZenonT(60)
    <3> QED BY <3>2 DEF named
  <2>2. Min({ra, MaxRetryAfter}) = IF ra <= MaxRetryAfter THEN ra ELSE MaxRetryAfter
    <3>1. MaxRetryAfter \in Nat
      OBVIOUS
    <3> QED BY ONLY <2>0, <3>1, MinMaxOfTwo
  <2> QED BY <1>2, <2>0, <2>1, <2>2 DEF LongestPause
<1> QED BY <1>1, <1>2

-----------------------------------------------------------------------------
(* Types.                                                                  *)

TypeInv ==
  /\ CallInv
  /\ Clocks
  /\ Timers
  /\ expired \in BOOLEAN
  /\ attempt \in 0..MaxRetries
  /\ response \in Response \cup {NoResponse}

\* Time passes in one timer only, to its end.
LEMMA AdvanceOneTimer ==
  ASSUME TypeInv, Advance
  PROVE  LET d == IF pc = "sleeping" THEN wait ELSE deadline IN
         /\ d \in Nat \ {0}
         /\ pc \in {"fetching", "reading", "sleeping"}
         /\ deadline' = IF pc = "sleeping" THEN Unarmed ELSE 0
         /\ wait' = 0
         /\ lasted' = lasted + d
         /\ elapsed' = elapsed + d
         /\ penalty' = IF penalty <= d THEN 0 ELSE penalty - d
<1> USE DEF TypeInv, Clocks, Timers
<1> DEFINE d == IF pc = "sleeping" THEN wait ELSE deadline
           timers == {deadline, wait} \ {Unarmed, 0}
<1>1. /\ pc \in {"fetching", "reading", "sleeping"} /\ timers # {}
      /\ deadline # 0
      /\ deadline' = IF deadline = Unarmed THEN Unarmed ELSE deadline - Min(timers)
      /\ wait' = IF pc = "sleeping" THEN wait - Min(timers) ELSE wait
      /\ lasted' = lasted + Min(timers) /\ elapsed' = elapsed + Min(timers)
      /\ penalty' = Max({0, penalty - Min(timers)})
  BY DEF Advance
<1>2. timers = {d} /\ d \in Nat \ {0}
  BY <1>1 DEF Unarmed
<1>3. Min({d}) = d
  BY <1>2 DEF Min
<1>4. Min(timers) = d
  BY <1>2, <1>3
<1>5. penalty' = IF penalty <= d THEN 0 ELSE penalty - d
  <2> HIDE DEF d, timers
  <2>1. penalty' = Max({0, penalty - d}) /\ penalty - d \in Int
    BY <1>1, <1>2, <1>4
  <2>2. penalty \in Int /\ d \in Int /\ penalty - d \in Int
    BY <1>2, <2>1
  <2>3. ASSUME NEW z \in Int PROVE Max({0, z}) = IF 0 <= z THEN z ELSE 0
    BY MinMaxOfTwo, 0 \in Int, SMTT(60)
  <2>4. Max({0, penalty - d}) = IF 0 <= penalty - d THEN penalty - d ELSE 0
    BY ONLY <2>2, <2>3, SMTT(60)
  <2> QED BY ONLY <2>1, <2>2, <2>4, SMTT(60)
<1>6. (pc = "sleeping" => d = wait /\ deadline = Unarmed) /\ (pc # "sleeping" => d = deadline /\ wait = 0)
  OBVIOUS
<1> HIDE DEF d, timers
<1>7. /\ deadline' = IF pc = "sleeping" THEN Unarmed ELSE 0
      /\ wait' = 0
  BY <1>1, <1>2, <1>4, <1>6 DEF Unarmed
<1> QED BY <1>1, <1>2, <1>4, <1>5, <1>7 DEF d

LEMMA InitTypes == Init => TypeInv
<1> SUFFICES ASSUME Init
             PROVE  TypeInv
  OBVIOUS
<1> USE ConstantsAssumption DEF Init
<1>1. CallInv
  BY InitCall
<1>2. Clocks /\ Timers /\ expired \in BOOLEAN
  BY DEF Clocks, Timers, Unarmed
<1> QED BY <1>1, <1>2 DEF TypeInv

LEMMA NextTypes ==
  ASSUME TypeInv, [Next]_vars
  PROVE  TypeInv'
<1>0. CallInv'
  BY NextCall DEF TypeInv
<1> USE <1>0, ConstantsAssumption DEF TypeInv, Clocks, Timers, ghostVars
<1>a. ASSUME NEW n, BeginAttempt(n), n \in 0..MaxRetries,
             UNCHANGED <<wait, elapsed, penalty>>, wait = 0
      PROVE  TypeInv'
  <2>1. call.timeoutMs \in Int
    BY ZenonT(60) DEF CallInv, Call
  <2>2. deadline' \in Nat \cup {Unarmed}
    BY <1>a, <2>1 DEF BeginAttempt, DeadlineDelay
  <2> QED BY <1>a, <2>2 DEF BeginAttempt
<1>1. CASE Send
  BY <1>a, <1>1 DEF Send
<1>2. CASE Headers
  BY <1>2 DEF Headers
<1>3. CASE BodyRead
  <2>1. /\ pc = "reading" /\ deadline' = Unarmed
        /\ UNCHANGED <<attempt, expired, response, lasted, elapsed, penalty>>
    BY <1>3 DEF BodyRead, ClearDeadline
  <2>2. \/ pc' = "sleeping" /\ \E d \in RetryDelays(attempt, response.retryAfter) : wait' = d
        \/ pc' = "done" /\ wait' = wait
    BY <1>3 DEF BodyRead
  <2>3. response.retryAfter \in RetryAfters \cup {NoHeader} /\ attempt \in Nat
    BY DEF Response, NoResponse
  <2>4. wait' \in Nat
    <3> DEFINE ra == response.retryAfter
    <3>1. ra \in RetryAfters \cup {NoHeader} /\ attempt \in Nat
      BY <2>3
    <3> HIDE DEF ra
    <3>2. \A d \in RetryDelays(attempt, ra) : d \in Nat
      BY <3>1, DelayOfRetry
    <3> QED BY <2>2, <3>2 DEF ra
  <2> QED BY <2>1, <2>2, <2>4
<1>4. CASE Retry
  <2>1. attempt + 1 \in 0..MaxRetries
    BY <1>4 DEF Retry, CallInv
  <2> QED BY <1>a, <1>4, <2>1 DEF Retry
<1>5. CASE DeadlineFires
  BY <1>5 DEF DeadlineFires
<1>6. CASE TimesOut
  BY <1>6 DEF TimesOut, ClearDeadline
<1>7. CASE NetworkFails
  BY <1>7 DEF NetworkFails, ClearDeadline
<1>8. ASSUME NEW n \in net, Throttle(n)
      PROVE  TypeInv'
  <2>1. UNCHANGED <<pc, attempt, deadline, expired, wait, lasted, elapsed>>
    BY <1>8 DEF Throttle
  <2>2. penalty' \in Nat /\ response' \in Response \cup {NoResponse}
    <3>1. PICK ra \in RetryAfters \cup {NoHeader}, b \in RateLimitBodies :
            \/ /\ response' = [status |-> "throttled", body |-> b, retryAfter |-> ra]
               /\ penalty' = IF ra = NoHeader THEN 0 ELSE ra * 1000
            \/ UNCHANGED <<response, penalty>>
      BY <1>8 DEF Throttle
    <3>2. b \in Bodies
      BY DEF RateLimitBodies, Bodies, PlainBodies
    <3>3. [status |-> "throttled", body |-> b, retryAfter |-> ra] \in Response
      BY <3>2 DEF Response, Statuses
    <3> QED BY <3>1, <3>3
  <2> QED BY <2>1, <2>2
<1>9. ASSUME NEW n \in net, Execute(n)
      PROVE  TypeInv'
  <2>1. UNCHANGED <<pc, attempt, deadline, expired, wait, lasted, elapsed, penalty>>
    BY <1>9 DEF Execute
  <2>2. response' \in Response \cup {NoResponse}
    <3>1. PICK s \in {"ok", "error", "redirect"}, b \in Bodies :
            response' = IF pc = "fetching" /\ attempt = n
                        THEN [status |-> s, body |-> b, retryAfter |-> NoHeader]
                        ELSE response
      BY <1>9 DEF Execute
    <3>2. [status |-> s, body |-> b, retryAfter |-> NoHeader] \in Response
      BY DEF Response, Statuses
    <3> QED BY <3>1, <3>2
  <2> QED BY <2>1, <2>2
<1>10. CASE Advance
  <2>1. UNCHANGED <<pc, attempt, expired, response>>
    BY <1>10 DEF Advance
  <2> QED BY <1>10, <2>1, AdvanceOneTimer DEF Unarmed
<1>11. CASE UNCHANGED vars
  BY <1>11 DEF vars
<1> QED
  BY <1>1, <1>2, <1>3, <1>4, <1>5, <1>6, <1>7, <1>8, <1>9, <1>10, <1>11
  DEF Next, ClientStep

LEMMA TypeInvariant == Spec => []TypeInv
BY InitTypes, NextTypes, PTL DEF Spec

\* Without an answer there is no exception of the API's.
NothingThrown == outcome \in Unanswered => thrown = NoError

LEMMA NextThrown ==
  ASSUME CallInv, NothingThrown, [Next]_vars
  PROVE  NothingThrown'
<1> USE DEF NothingThrown, ghostVars
<1>1. CASE BodyRead
  <2>1. ~MayRetry => outcome' \notin Unanswered
    BY <1>1, DecodeAnswers DEF BodyRead, CallInv, Call
  <2> QED BY <1>1, <2>1 DEF BodyRead
<1>2. CASE TimesOut \/ NetworkFails
  <2>1. outcome = "pending" /\ thrown' = thrown
    BY <1>2 DEF TimesOut, NetworkFails, CallInv
  <2> QED BY <2>1 DEF Unanswered
<1>3. CASE UNCHANGED <<outcome, thrown>>
  BY <1>3
<1> QED
  BY <1>1, <1>2, <1>3
  DEF Next, ClientStep, Send, Headers, Retry, DeadlineFires, Throttle, Execute,
      Advance, vars

LEMMA NothingIsThrown == Spec => []NothingThrown
<1>1. Init => NothingThrown
  BY DEF Init, NothingThrown
<1> QED BY <1>1, CallInvariant, NextThrown, PTL DEF Spec

\* What Decode and Thrown return.
LEMMA OutcomeTypes ==
  ASSUME NEW q \in Requests, NEW r \in Response
  PROVE  /\ Decode(q, r) \in Outcome
         /\ Thrown(Decode(q, r), r).status \in Nat \cup {NaN}
<1>1. Decode(q, r) \in Outcome
  BY SendersFitAnswers DEF Decode, Outcome
<1>2. HttpStatus(r.status) \in Nat
  BY DEF HttpStatus
<1>3. ApiErrorFromResponseBody(HttpStatus(r.status), r.body).status \in Nat \cup {NaN}
  <2>1. CASE ParsesAsErrors(r.body) /\ r.body.errors # <<>>
    <3>1. r.body \in ErrorBodies
      BY <2>1 DEF Response, Bodies, PlainBodies, PlainBody, ParsesAsErrors
    <3>2. PICK S : r.body.errors \in Seq(S)
      BY <3>1, DocumentParts
    <3>3. 1 \in DOMAIN r.body.errors
      BY <2>1, <3>2
    <3>4. IsErrorObject(r.body.errors[1])
      BY <3>1, <3>3, DocumentParts
    <3>5. r.body.errors[1].status \in Nat \cup {NaN}
      BY <3>4 DEF IsErrorObject
    <3> QED BY <2>1, <3>5 DEF ApiErrorFromResponseBody, ErrorFromApiError
  <2>2. CASE ~(ParsesAsErrors(r.body) /\ r.body.errors # <<>>)
    BY <1>2, <2>2 DEF ApiErrorFromResponseBody, UnknownError
  <2> QED BY <2>1, <2>2
<1> QED BY <1>1, <1>3 DEF Thrown, NoError

\* Type correctness of Transport, for every call and every answer.
THEOREM TypeCorrect == Spec => []TypeOK
<1>1. TypeInv /\ NothingThrown => TypeOK
  <2> SUFFICES ASSUME TypeInv, NothingThrown
               PROVE  TypeOK
    OBVIOUS
  <2> USE ConstantsAssumption DEF TypeInv, CallInv, NothingThrown
  <2>1. net \subseteq 0..MaxRetries /\ executed \subseteq 0..MaxRetries
    BY DEF AttemptInv
  <2>2. CASE outcome \in Unanswered
    BY <2>1, <2>2 DEF TypeOK, Clocks, Timers, Unanswered, Outcome, NoError
  <2>3. CASE outcome \notin Unanswered
    <3>1. response \in Response /\ call.request \in Requests
      BY <2>3 DEF NoResponse, Call
    <3>2. outcome = Decode(call.request, response) /\ thrown = Thrown(outcome, response)
      BY <2>3
    <3>3. outcome \in Outcome /\ thrown.status \in Nat \cup {NaN}
      BY <3>1, <3>2, OutcomeTypes
    <3> QED BY <2>1, <3>3 DEF TypeOK, Clocks, Timers
  <2> QED BY <2>2, <2>3
<1> QED BY <1>1, TypeInvariant, NothingIsThrown, PTL

-----------------------------------------------------------------------------
(* The pause the server asked for.                                         *)

\* What is left of the server's demand is no more than what is left of the
\* pause, apart from the part above the cap.
Excess(ra) == IF ra <= MaxRetryAfter THEN 0 ELSE (ra - MaxRetryAfter) * 1000

PenaltyInv ==
  /\ TypeInv
  /\ response.status = "throttled" /\ response.retryAfter # NoHeader =>
       penalty <= response.retryAfter * 1000
  /\ pc = "sleeping" /\ response.retryAfter # NoHeader =>
       penalty <= wait + Excess(response.retryAfter)

LEMMA NextPenalty ==
  ASSUME PenaltyInv, [Next]_vars
  PROVE  PenaltyInv'
<1>0. TypeInv'
  BY NextTypes DEF PenaltyInv
<1>r. response.retryAfter \in RetryAfters \cup {NoHeader}
  BY DEF PenaltyInv, TypeInv, Response, NoResponse
<1>n. response.retryAfter # NoHeader => response.retryAfter \in Nat
  BY <1>r, ConstantsAssumption, ZenonT(60)
<1> USE <1>0, <1>n DEF PenaltyInv, ghostVars
<1>a. ASSUME NEW n, BeginAttempt(n)
      PROVE  PenaltyInv'
  BY <1>a DEF BeginAttempt, NoResponse
<1>1. CASE Send
  BY <1>a, <1>1 DEF Send
<1>2. CASE Headers
  BY <1>2 DEF Headers
<1>3. CASE BodyRead
  <2>1. UNCHANGED <<response, penalty>> /\ pc = "reading"
    BY <1>3 DEF BodyRead
  <2>2. CASE MayRetry /\ \E d \in RetryDelays(attempt, response.retryAfter) : wait' = d
    <3>1. CASE response.retryAfter = NoHeader
      BY <2>1, <3>1, <1>3 DEF BodyRead
    <3>2. CASE response.retryAfter # NoHeader
      <4>1. PICK d \in RetryDelays(attempt, response.retryAfter) : wait' = d
        BY <2>2
      <4> DEFINE ra == response.retryAfter
      <4>2. /\ ra \in Nat
            /\ wait' = (IF ra <= MaxRetryAfter THEN ra ELSE MaxRetryAfter) * 1000
        BY <3>2, <4>1, <1>r, DelayOfRetry DEF TypeInv
      <4>3. penalty \in Nat /\ penalty <= ra * 1000 /\ MaxRetryAfter \in Nat
        BY <2>2, <3>2, ConstantsAssumption DEF MayRetry, TypeInv, Clocks
      <4>4. penalty <= wait' + Excess(ra)
        <5> HIDE DEF ra
        <5> QED BY <4>2, <4>3 DEF Excess
      <4> QED BY <2>1, <3>2, <4>3, <4>4
    <3> QED BY <3>1, <3>2
  <2>3. CASE pc' = "done"
    BY <2>1, <2>3
  <2> QED BY <1>3, <2>2, <2>3 DEF BodyRead
<1>4. CASE Retry
  BY <1>a, <1>4 DEF Retry
<1>5. CASE DeadlineFires
  BY <1>5 DEF DeadlineFires
<1>6. CASE TimesOut
  BY <1>6 DEF TimesOut
<1>7. CASE NetworkFails
  BY <1>7 DEF NetworkFails
<1>8. ASSUME NEW n \in net, Throttle(n)
      PROVE  PenaltyInv'
  <2>1. pc' = pc /\ wait' = wait
    BY <1>8 DEF Throttle
  <2>2. PICK ra \in RetryAfters \cup {NoHeader}, b \in RateLimitBodies :
          IF pc = "fetching" /\ attempt = n
          THEN /\ response' = [status |-> "throttled", body |-> b, retryAfter |-> ra]
               /\ penalty' = IF ra = NoHeader THEN 0 ELSE ra * 1000
          ELSE UNCHANGED <<response, penalty>>
    BY <1>8 DEF Throttle
  <2>3. CASE pc = "fetching" /\ attempt = n
    <3>1. ra # NoHeader => ra \in Nat
      BY ConstantsAssumption
    <3> QED BY <2>1, <2>2, <2>3, <3>1
  <2> QED BY <2>1, <2>2, <2>3
<1>9. ASSUME NEW n \in net, Execute(n)
      PROVE  PenaltyInv'
  <2>1. /\ UNCHANGED <<pc, wait, penalty>>
        /\ \/ pc = "fetching" /\ response'.status # "throttled"
           \/ UNCHANGED response
    BY <1>9 DEF Execute
  <2> QED BY <2>1
<1>10. CASE Advance
  <2> DEFINE d == IF pc = "sleeping" THEN wait ELSE deadline
  <2>1. UNCHANGED <<pc, response>>
    BY <1>10 DEF Advance
  <2>2. /\ d \in Nat \ {0} /\ penalty \in Nat /\ wait \in Nat
        /\ wait' = 0
        /\ penalty' = IF penalty <= d THEN 0 ELSE penalty - d
        /\ pc = "sleeping" => d = wait
    BY <1>10, AdvanceOneTimer DEF TypeInv, Clocks
  <2>3. response.retryAfter # NoHeader => Excess(response.retryAfter) \in Nat
    BY <1>n, ConstantsAssumption DEF Excess
  <2> HIDE DEF d
  <2>4. ASSUME response.retryAfter # NoHeader, response.status = "throttled"
        PROVE  penalty' <= response.retryAfter * 1000
    BY <2>2, <2>4
  <2>5. ASSUME response.retryAfter # NoHeader, pc = "sleeping"
        PROVE  penalty' <= wait' + Excess(response.retryAfter)
    BY <2>2, <2>3, <2>5
  <2> QED BY <2>1, <2>4, <2>5
<1>11. CASE UNCHANGED vars
  BY <1>11 DEF vars
<1> QED
  BY <1>1, <1>2, <1>3, <1>4, <1>5, <1>6, <1>7, <1>8, <1>9, <1>10, <1>11
  DEF Next, ClientStep

\* No retry leaves before the time the server asked for, capped, has passed.
THEOREM RetriesWait == Spec => RetryAfterHonoured
<1>1. Init => PenaltyInv
  BY InitTypes DEF PenaltyInv, Init, NoResponse
<1>2. PenaltyInv /\ [Next]_vars =>
        [attempt' > attempt /\ response.retryAfter # NoHeader =>
           penalty <= Max({0, response.retryAfter - MaxRetryAfter}) * 1000]_vars
  <2> SUFFICES ASSUME PenaltyInv, [Next]_vars, attempt' > attempt,
                      response.retryAfter # NoHeader
               PROVE  penalty <= Max({0, response.retryAfter - MaxRetryAfter}) * 1000
    OBVIOUS
  <2> DEFINE ra == response.retryAfter
  <2>1. attempt \in Nat /\ ra \in Nat /\ MaxRetryAfter \in Nat
    <3>1. ra \in RetryAfters \cup {NoHeader}
      BY DEF PenaltyInv, TypeInv, Response, NoResponse
    <3>2. attempt \in Nat
      BY DEF PenaltyInv, TypeInv, CallInv, AttemptInv
    <3> HIDE DEF ra
    <3>3. ra # NoHeader
      BY DEF ra
    <3> QED BY <3>1, <3>2, <3>3, ConstantsAssumption
  <2>2. Retry \/ attempt' = 0 \/ attempt' = attempt
    BY DEF Next, ClientStep, Send, BeginAttempt, Headers, BodyRead, DeadlineFires,
           TimesOut, NetworkFails, Throttle, Execute, Advance, vars
  <2>3. Retry
    BY <2>1, <2>2
  <2>4. penalty <= Excess(ra)
    BY <2>1, <2>3 DEF Retry, PenaltyInv, TypeInv, Clocks, Excess
  <2> HIDE DEF ra
  <2>5. Max({0, ra - MaxRetryAfter}) = IF 0 <= ra - MaxRetryAfter
                                      THEN ra - MaxRetryAfter ELSE 0
    <3> DEFINE x == ra - MaxRetryAfter
    <3>1. x \in Int
      BY <2>1
    <3> HIDE DEF x
    <3>2. Max({0, x}) = IF 0 <= x THEN x ELSE 0
      BY <3>1, MinMaxOfTwo
    <3> QED BY <3>2 DEF x
  <2>6. Excess(ra) = Max({0, ra - MaxRetryAfter}) * 1000
    BY <2>1, <2>5 DEF Excess
  <2> QED BY <2>4, <2>6 DEF ra
<1>3. PenaltyInv /\ [Next]_vars => PenaltyInv'
  BY NextPenalty
<1> QED BY <1>1, <1>2, <1>3, PTL DEF Spec, RetryAfterHonoured

-----------------------------------------------------------------------------
(* The whole call.                                                         *)

\* The cap is above the longest backoff of the client's own.
CapCoversBackoff == MaxRetryAfter >= 33

\* What `n` attempts and `k` pauses can take.
Allowed(n, k) == n * call.timeoutMs + k * LongestPause

\* The time spent and the time left of the running timer fit what the
\* attempts and pauses so far may take.
BoundInv ==
  call.timeoutMs > 0 =>
    /\ pc = "idle" => elapsed = 0
    /\ pc \in {"fetching", "reading"} =>
         /\ deadline \in Nat
         /\ elapsed + deadline <= Allowed(attempt + 1, attempt)
    /\ pc = "sleeping" => elapsed + wait <= Allowed(attempt + 1, attempt + 1)
    /\ pc = "done" => elapsed <= Allowed(attempt + 1, attempt)

\* One more attempt, one more pause, and no fewer of both.
LEMMA MoreAllowed ==
  ASSUME call.timeoutMs \in Nat, NEW n \in Nat, NEW k \in Nat
  PROVE  /\ Allowed(n, k) \in Nat
         /\ LongestPause \in Nat
         /\ Allowed(n + 1, k) = Allowed(n, k) + call.timeoutMs
         /\ Allowed(n, k + 1) = Allowed(n, k) + LongestPause
         /\ \A m \in Nat, l \in Nat : n <= m /\ k <= l => Allowed(n, k) <= Allowed(m, l)
<1> DEFINE T == call.timeoutMs
           W == LongestPause
<1>1. T \in Nat /\ W \in Nat
  BY ConstantsAssumption DEF LongestPause
<1>2. \A x, y : Allowed(x, y) = x * T + y * W
  BY DEF Allowed
<1> HIDE DEF T, W
<1>3. n * T \in Nat /\ k * W \in Nat
  BY <1>1
<1>4. (n + 1) * T = n * T + T /\ (k + 1) * W = k * W + W
  BY <1>1
<1>5. ASSUME NEW m \in Nat, n <= m
      PROVE  n * T <= m * T /\ m * T \in Nat
  <2>1. PICK i \in Nat : m = n + i
    <3>1. m - n \in Nat /\ m = n + (m - n)
      BY <1>5
    <3> QED BY <3>1
  <2>2. m * T = n * T + i * T /\ i * T \in Nat
    BY <1>1, <2>1
  <2> QED BY <1>3, <2>2
<1>6. ASSUME NEW l \in Nat, k <= l
      PROVE  k * W <= l * W /\ l * W \in Nat
  <2>1. PICK i \in Nat : l = k + i
    <3>1. l - k \in Nat /\ l = k + (l - k)
      BY <1>6
    <3> QED BY <3>1
  <2>2. l * W = k * W + i * W /\ i * W \in Nat
    BY <1>1, <2>1
  <2> QED BY <1>3, <2>2
<1>7. ASSUME NEW m \in Nat, NEW l \in Nat, n <= m, k <= l
      PROVE  Allowed(n, k) <= Allowed(m, l)
  BY <1>2, <1>3, <1>5, <1>6, <1>7
<1>8. /\ Allowed(n, k) \in Nat
      /\ Allowed(n + 1, k) = Allowed(n, k) + T
      /\ Allowed(n, k + 1) = Allowed(n, k) + W
  BY <1>1, <1>2, <1>3, <1>4
<1> QED BY <1>1, <1>7, <1>8 DEF T, W

LEMMA NextBound ==
  ASSUME CapCoversBackoff, TypeInv, BoundInv, [Next]_vars
  PROVE  BoundInv'
<1> SUFFICES ASSUME call'.timeoutMs > 0
             PROVE  BoundInv'
  BY DEF BoundInv
<1> DEFINE T == call.timeoutMs
           W == LongestPause
           n == attempt
<1>0. /\ call' = call
      /\ T \in Nat /\ T > 0 /\ n \in Nat
      /\ pc' \in {"idle", "fetching", "reading", "sleeping", "done"}
  <2>1. call' = call
    BY DEF Next, ClientStep, Send, Headers, BodyRead, Retry, DeadlineFires, TimesOut,
           NetworkFails, Throttle, Execute, Advance, vars
  <2>2. T \in Int
    BY ConstantsAssumption, ZenonT(60) DEF TypeInv, CallInv, Call
  <2>3. Timers'
    BY NextTypes DEF TypeInv
  <2> QED BY <2>1, <2>2, <2>3 DEF Timers, TypeInv, CallInv, AttemptInv
<1>b. /\ W \in Nat
      /\ Allowed(n + 1, n) \in Nat /\ Allowed(1, 0) = T
      /\ Allowed(n + 1, n + 1) = Allowed(n + 1, n) + W
      /\ Allowed(n + 2, n + 1) = Allowed(n + 1, n + 1) + T
  <2>1. \A i \in Nat, k \in Nat : /\ Allowed(i, k) \in Nat /\ W \in Nat
                                 /\ Allowed(i + 1, k) = Allowed(i, k) + T
                                 /\ Allowed(i, k + 1) = Allowed(i, k) + W
    BY <1>0, MoreAllowed
  <2>2. Allowed(1, 0) = T
    <3>1. Allowed(1, 0) = 1 * T + 0 * W
      BY DEF Allowed
    <3>2. W \in Nat
      BY <2>1
    <3> HIDE DEF T, W
    <3> QED BY <1>0, <3>1, <3>2
  <2>3. (n + 1) + 1 = n + 2 /\ n + 1 \in Nat
    BY <1>0
  <2> HIDE DEF T, W, n
  <2>4. /\ Allowed(n + 1, n) \in Nat /\ W \in Nat
        /\ Allowed(n + 1, n + 1) = Allowed(n + 1, n) + W
    BY <1>0, <2>1, <2>3
  <2>5. Allowed((n + 1) + 1, n + 1) = Allowed(n + 1, n + 1) + T
    BY <2>1, <2>3
  <2> QED BY <2>2, <2>3, <2>4, <2>5
<1>c. \A i, k : Allowed(i, k)' = Allowed(i, k)
  BY <1>0 DEF Allowed, LongestPause
<1>t. /\ elapsed \in Nat /\ wait \in Nat /\ deadline \in Nat \cup {-1}
      /\ pc \in {"idle", "fetching", "reading", "sleeping", "done"}
      /\ pc \in {"fetching", "reading"} =>
           deadline \in Nat /\ elapsed + deadline <= Allowed(n + 1, n)
      /\ pc = "idle" => elapsed = 0
      /\ pc = "sleeping" => elapsed + wait <= Allowed(n + 1, n + 1)
      /\ pc = "done" => elapsed <= Allowed(n + 1, n)
  BY <1>0 DEF TypeInv, Clocks, Timers, Unarmed, BoundInv
<1>d. BoundInv' <=>
        /\ pc' = "idle" => elapsed' = 0
        /\ pc' \in {"fetching", "reading"} =>
             deadline' \in Nat /\ elapsed' + deadline' <= Allowed(attempt' + 1, attempt')
        /\ pc' = "sleeping" => elapsed' + wait' <= Allowed(attempt' + 1, attempt' + 1)
        /\ pc' = "done" => elapsed' <= Allowed(attempt' + 1, attempt')
  BY <1>c DEF BoundInv
<1>1. CASE Send
  <2>1. attempt' = 0 /\ elapsed' = elapsed /\ pc' = "fetching" /\ pc = "idle"
        /\ deadline' \in Nat /\ deadline' <= T
    BY <1>0, <1>1, ConstantsAssumption DEF Send, BeginAttempt, DeadlineDelay
  <2> HIDE DEF T, W, n
  <2>2. Allowed(attempt' + 1, attempt') = T
    BY <1>b, <2>1
  <2> QED BY <1>0, <1>d, <1>t, <2>1, <2>2
<1>4. CASE Retry
  <2>1. attempt' = n + 1 /\ elapsed' = elapsed /\ pc' = "fetching" /\ pc = "sleeping"
        /\ wait = 0 /\ deadline' \in Nat /\ deadline' <= T
    BY <1>0, <1>4, ConstantsAssumption DEF Retry, BeginAttempt, DeadlineDelay
  <2> HIDE DEF T, W, n
  <2>2. Allowed(attempt' + 1, attempt') = Allowed(n + 1, n + 1) + T
    <3>1. (n + 1) + 1 = n + 2
      BY <1>0
    <3> QED BY <1>b, <2>1, <3>1
  <2> QED BY <1>0, <1>b, <1>d, <1>t, <2>1, <2>2
<1>3. CASE BodyRead
  <2>1. attempt' = n /\ elapsed' = elapsed /\ pc = "reading"
    BY <1>3 DEF BodyRead, ghostVars
  <2>2. CASE pc' = "sleeping" /\ \E d \in RetryDelays(attempt, response.retryAfter) : wait' = d
    <3> DEFINE ra == response.retryAfter
    <3>1. ra \in RetryAfters \cup {NoHeader}
      BY DEF TypeInv, Response, NoResponse
    <3> HIDE DEF ra
    <3>2. \A d \in RetryDelays(attempt, ra) : d \in Nat /\ d <= W
      BY <1>0, <3>1, DelayOfRetry DEF CapCoversBackoff
    <3>3. wait' \in Nat /\ wait' <= W
      BY <2>2, <3>2 DEF ra
    <3> HIDE DEF T, W, n
    <3> QED BY <1>b, <1>d, <1>t, <2>1, <2>2, <3>3
  <2>3. CASE pc' = "done"
    <3> HIDE DEF T, W, n
    <3> QED BY <1>b, <1>d, <1>t, <2>1, <2>3
  <2> QED BY <1>3, <2>2, <2>3 DEF BodyRead
<1>6. CASE TimesOut \/ NetworkFails
  <2>1. attempt' = n /\ elapsed' = elapsed /\ pc \in {"fetching", "reading"} /\ pc' = "done"
    BY <1>6 DEF TimesOut, NetworkFails, ghostVars
  <2> HIDE DEF T, W, n
  <2> QED BY <1>b, <1>d, <1>t, <2>1
<1>10. CASE Advance
  <2> DEFINE d == IF pc = "sleeping" THEN wait ELSE deadline
  <2>1. /\ d \in Nat
        /\ pc \in {"fetching", "reading", "sleeping"}
        /\ deadline' = IF pc = "sleeping" THEN Unarmed ELSE 0
        /\ wait' = 0 /\ elapsed' = elapsed + d
    BY <1>10, AdvanceOneTimer
  <2>2. attempt' = n /\ pc' = pc
    BY <1>10 DEF Advance
  <2> HIDE DEF T, W, n
  <2> QED BY <1>b, <1>d, <1>t, <2>1, <2>2
<1>11. CASE /\ UNCHANGED <<attempt, elapsed, deadline, wait>>
            /\ \/ pc' = pc
               \/ pc = "fetching" /\ pc' = "reading"
  <2> HIDE DEF T, W, n
  <2> QED BY <1>b, <1>d, <1>t, <1>11 DEF n
<1> QED
  BY <1>1, <1>3, <1>4, <1>6, <1>10, <1>11
  DEF Next, ClientStep, Headers, DeadlineFires, Throttle, Execute, vars, ghostVars

\* Whoever sets a deadline waits no longer than all attempts and all capped
\* pauses take.
THEOREM CallsAreBounded ==
  ASSUME CapCoversBackoff
  PROVE  Spec => []CallBounded
<1>1. TypeInv /\ BoundInv => CallBounded
  <2> SUFFICES ASSUME TypeInv, BoundInv, call.timeoutMs > 0
               PROVE  elapsed <= (MaxRetries + 1) * call.timeoutMs
                                   + MaxRetries * MaxRetryAfter * 1000
    BY DEF CallBounded
  <2> DEFINE Most == Allowed(MaxRetries + 1, MaxRetries)
  <2>1. /\ call.timeoutMs \in Nat /\ attempt \in Nat /\ attempt <= MaxRetries
        /\ MaxRetries \in Nat /\ elapsed \in Nat /\ wait \in Nat
        /\ pc \in {"idle", "fetching", "reading", "sleeping", "done"}
    <3>1. call.timeoutMs \in Int
      BY ConstantsAssumption, ZenonT(60) DEF TypeInv, CallInv, Call
    <3>2. attempt \in Nat /\ attempt <= MaxRetries
      BY DEF TypeInv, CallInv, AttemptInv
    <3> QED BY <3>1, <3>2, ConstantsAssumption DEF TypeInv, Clocks, Timers
  <2>a. attempt + 1 \in Nat /\ MaxRetries + 1 \in Nat /\ attempt + 1 <= MaxRetries + 1
    BY <2>1
  <2>b. \A n \in Nat, k \in Nat :
          /\ Allowed(n, k) \in Nat
          /\ \A m \in Nat, l \in Nat : n <= m /\ k <= l => Allowed(n, k) <= Allowed(m, l)
    BY <2>1, MoreAllowed
  <2>2. /\ Allowed(attempt + 1, attempt) <= Most
        /\ Allowed(attempt + 1, attempt) \in Nat /\ Most \in Nat
    BY <2>1, <2>a, <2>b
  <2>3. pc = "sleeping" => Allowed(attempt + 1, attempt + 1) <= Most
    <3>1. pc = "sleeping" => attempt + 1 <= MaxRetries
      BY <2>1 DEF TypeInv, CallInv
    <3> QED BY <2>1, <2>a, <2>b, <3>1
  <2>4. Allowed(attempt + 1, attempt + 1) \in Nat
    BY <2>a, <2>b
  <2>5. Most = (MaxRetries + 1) * call.timeoutMs + MaxRetries * MaxRetryAfter * 1000
    BY <2>1, ConstantsAssumption DEF Allowed, LongestPause
  <2> HIDE DEF Most
  <2>6. elapsed <= Most
    BY <2>1, <2>2, <2>3, <2>4 DEF BoundInv
  <2> QED BY <2>5, <2>6
<1>2. Init => BoundInv
  BY DEF Init, BoundInv
<1>3. TypeInv /\ BoundInv /\ [Next]_vars => BoundInv'
  BY NextBound
<1> QED BY <1>1, <1>2, <1>3, TypeInvariant, PTL DEF Spec
=============================================================================
