------------------------------ MODULE Transport ------------------------------
(***************************************************************************)
(* One call through the transport (src/transport.ts): doFetch with its     *)
(* per-attempt deadline and its 429 retries, then the send* function that  *)
(* decodes the answer, errors as ApiErrors says.  Calls share no state, so *)
(* one is enough.  Time is in milliseconds and jumps from event to event.  *)
(***************************************************************************)
EXTENDS Integers, Sequences, FiniteSets, FiniteSetsExt, ApiErrors, Endpoints

CONSTANTS
  Timeouts,      \* values of config.timeoutMs
  RetryAfters,   \* Retry-After values a 429 can carry, in seconds
  NoHeader,      \* a 429 without a (readable) Retry-After
  TimerMax,      \* longest delay setTimeout honours
  MaxRetries,    \* DEFAULT_MAX_RETRIES
  MaxRetryAfter, \* MAX_RETRY_AFTER_SECONDS
  Jitters,       \* bound: the values tried for Math.random() * 1000
  ErrorBodies    \* bound: the error documents a server can answer

RetryablePostSuffixes ==
  {"/actions/validate", "/actions/validate-key", "/actions/check-in",
   "/actions/check-out", "/actions/ping", "/actions/ping-heartbeat",
   "/actions/reset-heartbeat"}

Strict  == {"sendJsonApi", "sendJsonApiWithMeta", "sendFlat"}
Lenient == {"sendJsonApiOptional", "sendRaw"}

Statuses == {"ok", "throttled", "error", "redirect"}
\* `envelope` is what the route answers, `partial` an envelope that lacks a
\* member in it, `otherJson` a JSON value without it, `null` being as good as
\* `empty`.
PlainBodies ==
  {PlainBody(k) : k \in {"empty", "envelope", "partial", "otherJson", "notJson"}}
Bodies == PlainBodies \cup ErrorBodies

\* What answers a 429: the rate limiter's own error, or a proxy's page.
RateLimitBodies ==
  {PlainBody("notJson")}
    \cup {b \in ErrorBodies : [i \in DOMAIN b.errors |-> b.errors[i].code] = <<"TOO_MANY_REQUESTS">>}

\* An error document: a list of error objects.
IsErrorDocument(b) ==
  /\ b = ErrorBody(b.errors)
  /\ b.errors \in Seq({b.errors[i] : i \in DOMAIN b.errors})
  /\ \A i \in DOMAIN b.errors : IsErrorObject(b.errors[i])

ASSUME ConstantsAssumption ==
  /\ Timeouts # {}
  /\ Timeouts \subseteq Int
  /\ RetryAfters \subseteq Nat
  /\ NoHeader \notin Int
  /\ TimerMax \in Nat \ {0}
  /\ MaxRetries \in Nat
  /\ MaxRetryAfter \in Nat
  /\ Jitters \subseteq 0..999
  /\ Jitters # {}
  /\ \A b \in ErrorBodies : IsErrorDocument(b)

VARIABLES
  pc,        \* where the call is
  call,      \* its request and timeoutMs
  attempt,   \* doFetch's loop counter
  deadline,  \* time until the attempt's deadline timer fires
  expired,   \* `deadline.expired`
  wait,      \* time left of the pause before a retry
  net,       \* attempts sent and not yet handled by the server
  response,  \* what the attempt was answered, once headers arrived
  outcome,   \* what the call returned or threw
  thrown,    \* the API error it threw, if any
  executed,  \* ghost: attempts the server carried out
  lasted,    \* ghost: how long the current attempt has been going on
  elapsed,   \* ghost: how long the call has been going on
  penalty    \* ghost: time for which the server asked not to be retried

ghostVars == <<executed, lasted, elapsed, penalty>>
vars == <<pc, call, attempt, deadline, expired, wait, net, response, outcome,
          thrown, executed, lasted, elapsed, penalty>>

Call == [request: Requests, timeoutMs: Timeouts]

Unarmed == -1
NoResponse == [status |-> "none", body |-> PlainBody("empty"), retryAfter |-> NoHeader]
Response == [status: Statuses, body: Bodies, retryAfter: RetryAfters \cup {NoHeader}]

Outcome == {"pending", "timeout", "network_error", "redirect_error",
            "parse_error", "type_error", "api_error", "value", "undefined"}

Init ==
  /\ pc = "idle"
  /\ call \in Call
  /\ attempt = 0
  /\ deadline = Unarmed
  /\ expired = FALSE
  /\ wait = 0
  /\ net = {}
  /\ response = NoResponse
  /\ outcome = "pending"
  /\ thrown = NoError
  /\ executed = {}
  /\ lasted = 0
  /\ elapsed = 0
  /\ penalty = 0

-----------------------------------------------------------------------------
IsRetryable(q) ==
  \/ q.method = "GET"
  \/ q.method = "POST" /\ q.suffix \in RetryablePostSuffixes

\* Mutant: the client's own backoff, whatever the server asked for.
RetryDelaysOwn(n, retryAfter) == {2 ^ Min({n, 5}) * 1000 + j : j \in Jitters}

\* Mutant: the header is honoured however long it is.
RetryDelaysUncapped(n, retryAfter) ==
  IF retryAfter = NoHeader THEN {2 ^ Min({n, 5}) * 1000 + j : j \in Jitters}
  ELSE {retryAfter * 1000}

\* The delays retryDelayMs can return.
RetryDelays(n, retryAfter) ==
  IF retryAfter = NoHeader THEN {2 ^ Min({n, 5}) * 1000 + j : j \in Jitters}
  ELSE {Min({retryAfter, MaxRetryAfter}) * 1000}

\* Mutant: an opt-out is passed to setTimeout.
DeadlineAlways(ms) == IF ms \in 1..TimerMax THEN ms ELSE 1

\* Mutant: no attempt has a deadline.
DeadlineNever(ms) == Unarmed

\* startDeadline: the delay of its timer, or Unarmed.  setTimeout rewrites a
\* delay above its ceiling to one millisecond.
DeadlineDelay(ms) ==
  IF ms <= 0 THEN Unarmed ELSE IF ms > TimerMax THEN 1 ELSE ms

\* The top of doFetch's loop: arm the deadline, call fetch.
BeginAttempt(n) ==
  /\ attempt' = n
  /\ deadline' = DeadlineDelay(call.timeoutMs)
  /\ expired' = FALSE
  /\ net' = net \cup {n}
  /\ pc' = "fetching"
  /\ response' = NoResponse
  /\ lasted' = 0

Send ==
  /\ pc = "idle"
  /\ BeginAttempt(0)
  /\ UNCHANGED <<call, wait, outcome, thrown, executed, elapsed, penalty>>

\* fetch resolves on the headers; the body is still to be read.
Headers ==
  /\ pc = "fetching"
  /\ response.status # "none"
  /\ ~expired
  /\ pc' = "reading"
  /\ UNCHANGED <<call, attempt, deadline, expired, wait, net, response, outcome,
                 thrown, ghostVars>>

\* `deadline.clear()` in the finally block.
ClearDeadline == deadline' = Unarmed

\* One HTTP status of each kind.
HttpStatus(status) ==
  CASE status = "ok" -> 200
    [] status = "redirect" -> 303
    [] status = "throttled" -> 429
    [] OTHER -> 500

\* What the call's send* function and its method make of the answer.
Decode(q, r) ==
  IF q.manual /\ r.status = "redirect" THEN "redirect_error"
  ELSE IF r.status # "ok"
       THEN IF q.sender \in Strict /\ r.body.kind = "notJson" THEN "parse_error"
            ELSE "api_error"
  ELSE IF q.sender = "sendRaw" THEN "value"
  ELSE IF r.body.kind = "notJson" THEN "parse_error"
  ELSE IF r.body.kind = "envelope" THEN "value"
  ELSE IF r.body.kind = "partial" THEN q.partial
  ELSE IF r.body.kind # "empty" THEN q.lacking
  ELSE IF q.sender \in {"sendFlat", "sendJsonApiOptional"} THEN "undefined"
  ELSE "type_error"

\* A body that does not parse reaches apiErrorFromResponseBody as undefined.
Thrown(result, r) ==
  IF result = "api_error"
  THEN ApiErrorFromResponseBody(HttpStatus(r.status), r.body)
  ELSE NoError

\* Mutant: a server error is retried like a 429.
MayRetryErrors ==
  /\ response.status \in {"throttled", "error"}
  /\ IsRetryable(call.request)
  /\ attempt < MaxRetries

\* Mutant: one attempt too many.
MayRetryOnceMore ==
  /\ response.status = "throttled"
  /\ IsRetryable(call.request)
  /\ attempt <= MaxRetries

MayRetry ==
  /\ response.status = "throttled"
  /\ IsRetryable(call.request)
  /\ attempt < MaxRetries

\* The body has been read: retry or decode.
BodyRead ==
  /\ pc = "reading"
  /\ ~expired
  /\ ClearDeadline
  /\ \/ /\ MayRetry
        /\ \E d \in RetryDelays(attempt, response.retryAfter) : wait' = d
        /\ pc' = "sleeping"
        /\ UNCHANGED <<outcome, thrown>>
     \/ /\ ~MayRetry
        /\ pc' = "done"
        /\ outcome' = Decode(call.request, response)
        /\ thrown' = Thrown(outcome', response)
        /\ UNCHANGED wait
  /\ UNCHANGED <<call, attempt, expired, net, response, ghostVars>>

Retry ==
  /\ pc = "sleeping"
  /\ wait = 0
  /\ BeginAttempt(attempt + 1)
  /\ UNCHANGED <<call, wait, outcome, thrown, executed, elapsed, penalty>>

\* The deadline's timer aborts the request, headers read or not.
DeadlineFires ==
  /\ pc \in {"fetching", "reading"}
  /\ deadline = 0
  /\ ~expired
  /\ expired' = TRUE
  /\ UNCHANGED <<pc, call, attempt, deadline, wait, net, response, outcome,
                 thrown, ghostVars>>

\* Mutant: an attempt that timed out is sent again.
TimesOutRetries ==
  /\ pc \in {"fetching", "reading"}
  /\ expired
  /\ attempt < MaxRetries
  /\ BeginAttempt(attempt + 1)
  /\ UNCHANGED <<call, wait, outcome, thrown, executed, elapsed, penalty>>

\* fetch or the body read rejects because the deadline aborted it ...
TimesOut ==
  /\ pc \in {"fetching", "reading"}
  /\ expired
  /\ ClearDeadline
  /\ pc' = "done"
  /\ outcome' = "timeout"
  /\ UNCHANGED <<call, attempt, expired, wait, net, response, thrown, ghostVars>>

\* ... or because the connection failed.
NetworkFails ==
  /\ pc \in {"fetching", "reading"}
  /\ ~expired
  /\ ClearDeadline
  /\ pc' = "done"
  /\ outcome' = "network_error"
  /\ UNCHANGED <<call, attempt, expired, wait, net, response, thrown, ghostVars>>

-----------------------------------------------------------------------------
(* The server and the clock.                                               *)

\* A rate limiter in front of the handlers refuses the request.
Throttle(n) ==
  /\ n \in net
  /\ net' = net \ {n}
  /\ \E ra \in RetryAfters \cup {NoHeader}, b \in RateLimitBodies :
       IF pc = "fetching" /\ attempt = n
       THEN /\ response' = [status |-> "throttled", body |-> b, retryAfter |-> ra]
            /\ penalty' = IF ra = NoHeader THEN 0 ELSE ra * 1000
       ELSE UNCHANGED <<response, penalty>>
  /\ UNCHANGED <<pc, call, attempt, deadline, expired, wait, outcome, thrown,
                 executed, lasted, elapsed>>

\* A handler carries the request out, in time for its caller or too late.
Execute(n) ==
  /\ n \in net
  /\ net' = net \ {n}
  /\ executed' = executed \cup {n}
  /\ \E s \in {"ok", "error"} \cup {x \in {"redirect"} : call.request.manual}, b \in Bodies :
       /\ b \in ErrorBodies => s = "error"
       /\ response' = IF pc = "fetching" /\ attempt = n
                      THEN [status |-> s, body |-> b, retryAfter |-> NoHeader]
                      ELSE response
  /\ UNCHANGED <<pc, call, attempt, deadline, expired, wait, outcome, thrown,
                 lasted, elapsed, penalty>>

\* Time passes up to the next timer.
Advance ==
  LET d == Min({deadline, wait} \ {Unarmed, 0}) IN
  /\ {deadline, wait} \ {Unarmed, 0} # {}
  /\ deadline # 0
  /\ pc \in {"fetching", "reading", "sleeping"}
  /\ deadline' = IF deadline = Unarmed THEN Unarmed ELSE deadline - d
  /\ wait' = IF pc = "sleeping" THEN wait - d ELSE wait
  /\ lasted' = lasted + d
  /\ elapsed' = elapsed + d
  /\ penalty' = Max({0, penalty - d})
  /\ UNCHANGED <<pc, call, attempt, expired, net, response, outcome,
                 thrown, executed>>

ClientStep ==
  Send \/ Headers \/ BodyRead \/ Retry \/ DeadlineFires \/ TimesOut \/ NetworkFails

Next ==
  \/ ClientStep
  \/ \E n \in net : Throttle(n) \/ Execute(n)
  \/ Advance

Spec == Init /\ [][Next]_vars

\* The runtime delivers timers and settled promises.  Neither the server's
\* answer nor a broken connection is promised, nor that the call is made.
Fairness ==
  /\ WF_vars(Headers)
  /\ WF_vars(BodyRead)
  /\ WF_vars(Retry)
  /\ WF_vars(DeadlineFires)
  /\ WF_vars(TimesOut)
  /\ WF_vars(Advance)

FairSpec == Spec /\ Fairness

-----------------------------------------------------------------------------
TypeOK ==
  /\ pc \in {"idle", "fetching", "reading", "sleeping", "done"}
  /\ call \in Call
  /\ attempt \in 0..MaxRetries
  /\ deadline \in Nat \cup {Unarmed}
  /\ expired \in BOOLEAN
  /\ wait \in Nat
  /\ net \subseteq 0..MaxRetries
  /\ response \in Response \cup {NoResponse}
  /\ outcome \in Outcome
  /\ thrown.status \in Nat \cup {NaN}
  /\ executed \subseteq 0..MaxRetries
  /\ lasted \in Nat
  /\ elapsed \in Nat
  /\ penalty \in Nat

\* Whatever the route, the server carries out at most one attempt of a call:
\* only what a 429 refused is sent again, never what timed out or failed
\* (doFetch; a second activation would burn a second seat).
ExecutedAtMostOnce == Cardinality(executed) <= 1

\* No retry leaves before the time the server asked for, capped, has passed
\* (retryDelayMs).
RetryAfterHonoured ==
  [][attempt' > attempt /\ response.retryAfter # NoHeader =>
       penalty <= Max({0, response.retryAfter - MaxRetryAfter}) * 1000]_vars

\* A 429 reaches the caller only when repeating it is unsafe or its retries
\* are spent (isRetryable, DEFAULT_MAX_RETRIES).
GivesUpOnlyWhenSpent ==
  outcome = "api_error" /\ response.status = "throttled"
    => ~IsRetryable(call.request) \/ attempt = MaxRetries

\* Whoever sets a deadline waits no longer than all attempts and all capped
\* pauses take, whatever the server sends (timeoutMs, MAX_RETRY_AFTER_SECONDS).
CallBounded ==
  call.timeoutMs > 0 =>
    elapsed <= (MaxRetries + 1) * call.timeoutMs + MaxRetries * MaxRetryAfter * 1000

\* No deadline timer outlives its attempt, on any way out of it (doFetch's
\* finally block).
DeadlineOutlivesNothing ==
  pc \in {"idle", "sleeping", "done"} => deadline = Unarmed

\* timeoutMs is the "per-attempt request deadline in milliseconds", and a
\* non-positive one disables it: an attempt reported as timed out has had
\* all of its time (transport.ts, TransportConfig.timeoutMs).
TimeoutIsHonest ==
  outcome = "timeout" => call.timeoutMs > 0 /\ lasted >= call.timeoutMs

Answered == pc = "done" /\ outcome \notin {"timeout", "network_error"}

\* Whatever method made the call, its caller learns of the answer as what it
\* was.  An HTTP error is an API error, a page that is no JSON included on the
\* routes that decode defensively; on the others that page is a parse error,
\* which tells the failure but not its status.  A success in a form in which
\* the method's route answers is its result, and nothing else is (the send*
\* functions and the methods of client.ts that use them).
AnswersSurface ==
  Answered =>
    /\ response.status \in {"error", "throttled"} =>
         IF call.request.sender \in Strict /\ response.body.kind = "notJson"
         THEN outcome = "parse_error"
         ELSE outcome = "api_error"
    /\ response.status = "ok" /\ response.body.kind \in call.request.answers
         => outcome \in {"value", "undefined"}
    /\ outcome \in {"value", "undefined"} => response.status = "ok"

\* Every error of the document has what parseApiErrors asks for.
SpelledOut(errors) ==
  /\ errors # <<>>
  /\ \A i \in DOMAIN errors :
       /\ errors[i].statusForm # "absent"
       /\ NotText \notin {errors[i].code, errors[i].detail}

\* An error the server spelled out keeps its code, its status and the class
\* a caller catches it by, in whatever form the status came and however many
\* errors follow it; activateMachine's adoption and limits hang on these
\* codes.  Without one, or with a malformed error anywhere in the document,
\* the caller still gets the response's own status, under no code it could
\* branch on (parseApiErrors, errorFromApiError, apiErrorFromResponseBody).
ErrorsKeepTheirCode ==
  outcome = "api_error" =>
    IF SpelledOut(response.body.errors)
    THEN LET first == response.body.errors[1] IN
         /\ thrown.code = first.code
         /\ thrown.status = first.status
         /\ thrown.class = IF first.code \in TypedCodes THEN first.code ELSE "ApiError"
         /\ NamesMachine(thrown) <=>
              first.code = "FINGERPRINT_TAKEN" /\ first.meta = "machineId"
    ELSE /\ thrown.code \notin TypedCodes
         /\ thrown.status = HttpStatus(response.status)

\* What the caller knows of its call once it has returned or thrown: a 429
\* that reached it is a refusal, whatever was made of its body.
Verdict ==
  IF outcome = "pending" THEN "pending"
  ELSE IF outcome \in {"timeout", "network_error"} THEN "unknown"
  ELSE IF response.status = "throttled" THEN "refused"
  ELSE "answered"

Remote == INSTANCE RemoteCall WITH
  effects <- Cardinality(executed),
  verdict <- Verdict

\* The retries, deadlines and late executions of a call amount to the one
\* remote call its caller made (doFetch).
ImplementsRemoteCall == Remote!Spec

\* A call with a deadline always ends (TransportConfig.timeoutMs).
Settles ==
  (pc # "idle" /\ call.timeoutMs > 0) ~> (pc = "done")
=============================================================================
