------------------------------ MODULE ApiErrors ------------------------------
(***************************************************************************)
(* The error model (src/errors.ts): from the body of a response that is    *)
(* not 2xx to the exception the caller catches.  Pure.  An exception class *)
(* is named by its static CODE.                                            *)
(***************************************************************************)
LOCAL INSTANCE Naturals
LOCAL INSTANCE Sequences

CONSTANTS
  NotText, \* a member that is missing or not a string
  NaN      \* what parseInt makes of a text that starts with no number

\* 401 and 403: the credential, or what it may do.
CredentialCodes ==
  {"UNAUTHORIZED", "FORBIDDEN", "LICENSE_SUSPENDED", "LICENSE_EXPIRED",
   "LICENSE_NOT_ALLOWED"}

\* 409: something of that name exists.
ConflictCodes == {"KEY_TAKEN", "FINGERPRINT_TAKEN", "PID_TAKEN"}

\* 422: the request makes no sense for this license or account.
RequestCodes ==
  {"CHECK_IN_NOT_REQUIRED", "TTL_INVALID", "LICENSE_NOT_ENCRYPTED",
   "LICENSE_KEY_MISSING", "SCHEME_NOT_SUPPORTED", "DATASET_INVALID"}

\* 422: a limit of the policy.
LimitCodes ==
  {"MACHINE_LIMIT_EXCEEDED", "CORE_LIMIT_EXCEEDED", "MEMORY_LIMIT_EXCEEDED",
   "DISK_LIMIT_EXCEEDED", "METER_LIMIT_EXCEEDED", "TOO_MANY_PROCESSES"}

AccountCodes == {"SIGNING_KEY_MISSING", "SECRET_KEY_MISSING"}

GeneralCodes == {"NOT_FOUND", "INTERNAL_SERVER_ERROR"}

TypedCodes ==
  CredentialCodes \cup ConflictCodes \cup RequestCodes \cup LimitCodes
    \cup AccountCodes \cup GeneralCodes

\* How the status is written; of a text, `status` is what parseInt reads.
StatusForms == {"text", "number", "absent"}

\* What `meta` can be: a plain object naming a machine or an entitlement, one
\* that names neither, or no plain object.
Metas == {"machineId", "entitlement_id", "other", "notObject"}

\* One element of an `errors` array, as it is on the wire.
IsErrorObject(e) ==
  /\ DOMAIN e = {"statusForm", "status", "code", "detail", "meta"}
  /\ e.statusForm \in StatusForms
  /\ e.status \in Nat \cup {NaN}
  /\ e.status = NaN => e.statusForm = "text"
  /\ e.meta \in Metas

\* The body of a response: nothing, text that is not JSON, the envelope or
\* the bare object the route answers, JSON of another shape, or an `errors`
\* array.
PlainBody(kind) == [kind |-> kind, errors |-> <<>>]
ErrorBody(errors) == [kind |-> "errors", errors |-> errors]

NoError == [class |-> "none", code |-> "none", status |-> 0, meta |-> "notObject"]

\* errorFromApiError: every typed code has its class, all others share one.
ClassOf(code) == IF code \in TypedCodes THEN code ELSE "ApiError"

\* Mutant: a status sent as a JSON number is refused.
IsParsableNoNumbers(e) ==
  e.statusForm = "text" /\ e.code # NotText /\ e.detail # NotText

IsParsable(e) ==
  e.statusForm # "absent" /\ e.code # NotText /\ e.detail # NotText

\* parseApiErrors: one malformed element fails the whole document.
ParsesAsErrors(body) ==
  /\ body.kind = "errors"
  /\ \A i \in DOMAIN body.errors : IsParsable(body.errors[i])

\* The exception for one parsed error: its status is a number whatever its
\* form was, and a meta that is no plain object is dropped.
ErrorFromApiError(e) ==
  [class |-> ClassOf(e.code), code |-> e.code, status |-> e.status, meta |-> e.meta]

UnknownError(status) ==
  [class |-> "ApiError", code |-> "UNKNOWN", status |-> status, meta |-> "notObject"]

\* Mutant: the last error of the document wins.
ApiErrorFromLast(status, body) ==
  IF ParsesAsErrors(body) /\ body.errors # <<>>
  THEN ErrorFromApiError(body.errors[Len(body.errors)])
  ELSE UnknownError(status)

\* apiErrorFromResponseBody
ApiErrorFromResponseBody(status, body) ==
  IF ParsesAsErrors(body) /\ body.errors # <<>>
  THEN ErrorFromApiError(body.errors[1])
  ELSE UnknownError(status)

\* FingerprintTakenError.existingMachineId and
\* MeterLimitExceededError.entitlementId: is there one to read?
NamesMachine(error) ==
  error.class = "FINGERPRINT_TAKEN" /\ error.meta = "machineId"
NamesEntitlement(error) ==
  error.class = "METER_LIMIT_EXCEEDED" /\ error.meta = "entitlement_id"
=============================================================================
