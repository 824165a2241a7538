# TLA+ models of the Tamga JavaScript SDK

`tamga-js` is the TypeScript client of a software-licensing server: it activates
machines on licenses, keeps them alive with heartbeats, validates, checks out
signed files for offline use and verifies them. This directory holds TLA+
specifications of the parts of it that keep state or run concurrently, TLC
configurations that model-check them, and TLAPS proofs. Every definition is
translated from the TypeScript source; `PROJECT.json` names the lines.

## The system

| Component | State | Operations | Interacts with |
|---|---|---|---|
| Machine activation (`client.ts`: `activateMachine`, `adoptConflictingMachine`) | the locals of each call, which live across awaits: `machine`, `createdMachine`, `createLimit` | create, adopt on conflict (GET, then search), validate, roll back | the server, other activations of the same license in any process, the operator |
| Machine lookup and listings (`findMachineByFingerprint`, `listComponents`, `listMachineProcesses`, `hasEntitlement`, `models/page.ts`) | the page number or the cursor of a walk | one page request after another | rows created and deleted between the requests; activation and sweeps use them |
| Heartbeat timers (`startHeartbeat`, `startProcessHeartbeat`, `startHeartbeatFromPolicy`, `dispose`) | the client's set `timers`, the runtime's intervals, pings in flight | start, tick, stop, dispose | the policy endpoint, the server's cull job, the transport's retries |
| Process seats (`createProcess`, `pingProcess`, `deleteProcess`, `listMachineProcesses`) | the process row each application was given | register, ping, leave, sweep what others left behind | the server's process rows, which nothing reaps; other applications on the machine |
| HTTP transport (`transport.ts`) | the retry loop and the deadline of each call; nothing is shared | fetch under a deadline, retry a 429, decode | every method of the client |
| Endpoint methods (`client.ts`) | none | one request each: verb, path, decoder | transport |
| Error model (`errors.ts`) | none | maps a body to an exception | transport, activation |
| License and machine files (`checkout/licenseFile.ts`, `checkout/machineFile.ts`) | none | parse, gate on alg, verify, decrypt, check claims and time | key sets, crypto |
| Signing key sets (`checkout/keySet.ts`, `crypto/keyId.ts`) | the cached set | pick and try keys, label a failure | `getSigningKeySet`, offline files |
| Offline proof (`proof.ts`), fingerprint, canonical JSON, base64, RSA key framing | none | mint (the server), rebuild the payload, verify | one another; activation takes the fingerprint |
| Entitlements and usage counters, licenses, releases, artifacts, health | none in the client | one request each | transport |

A `TamgaClient` is single-threaded, but nothing in it is serialized: any number
of calls are suspended at their requests at once, other processes use the same
license, timers tick meanwhile, and the server executes a request whether or not
its caller still waits. The behaviours that are hard to test here are the
interleavings of several activations of one license; requests executed after
their caller gave up; state read before an `await` and used after it (the policy
read of `startHeartbeatFromPolicy`, the id in a 409, the cursor of a walk, the
age of a row listed a moment ago); applications killed while they hold a seat;
key sets that are older than the file they are to verify; timer delays at the
edges of what the runtime honours; how many lost pings the interval arithmetic
really tolerates; and two serializers that must agree byte for byte. `PROJECT.json`
lists these hazards at their lines with the properties that would catch each one
going wrong.

What makes each component correct:

- activation: a rollback deletes only what its own call created; a call resolves
  only to a machine of its license and fingerprint; every seat taken is reported;
  callers told VALID fit the limit; reuse is idempotent; every call ends;
- listings: what stays is found within the pages walked, and absence is only
  reported where it is true;
- heartbeat: a timer runs from start to stop, cannot flood the server, and
  survives lost pings; `dispose` is final;
- process seats: no sweep costs a live application its seat, and no leaked seat is
  lost for ever;
- transport: at most one execution per call, bounded time, honest timeouts, answers
  and errors reported as what they were, on every route;
- offline files and key sets: only what the server issued is accepted, no rotation
  strands a file, and what a refusal says about the file, the key set and the key
  material is true;
- offline proof: one machine has one fingerprint, a genuine proof verifies over what
  it was minted for, and over nothing else.

## Modules

`Activation.tla` has any number of calls of `activateMachine` against one server.
A call is its program counter `pc` (the request it awaits), its locals, and the
answer that reached it; each resumption after an `await` is one action
(`OnCreated`, `OnTaken`, `OnLimit`, `OnGot`, `OnFound`, `OnVerdict`, `OnDeleted`),
because nothing else runs in the process until the next `await`. Requests wait in
`net` until the server executes them; `Fail` ends the await without taking the
request back, so it may still be executed later, and the late answer is dropped.
The server's actions are external: they are as the client's code and its comments
treat the server (409 before limits, an unverified id in `meta.machineId`, a
create-time limit whose count differs from validate's, an unscoped GET). `Cull`
removes a row at any time. Ghosts: the creator of a row, rows ever issued, calls
with a failed request, calls disturbed by a removal, ids removed by rollbacks.
`SeatLedger.tla` is the abstract specification of activation, without requests, answers
or a network: a call takes at most one seat, and never beside one of the same fingerprint
on its license; it hands back none but its own, if its caller wanted that; it reports the
seat it took, or another's if it took none and may reuse, or why it has none. A call with
a failed request promises less: it may take its seat after it gave up. The ledger does not
say that a reused seat stays, because the code does not keep that (`ActivationReuseRace`).
`Activation` implements it under the mapping at its end (`Ledger`): requests, answers and
locals disappear, and a call's report is pending until it ends.

`Listings.tla` has the three ways the client reads a list: the offset pages of
`findMachineByFingerprint` (`FetchPage`), the keyset pages of components,
processes and artifacts walked by a caller who takes a short page for the last
(`FetchAfter`), and the one page behind `hasEntitlement`. Only the wanted row
is told apart, by its place in the order; `Insert` and `Remove` run between the
requests. An answer's page meta may be unreadable, in which case
`readOffsetPageMeta` reports one page. `Activation` uses the offset walk as one step
(`ServerSearch`) for licenses of one page.

`Heartbeat.tla` has any number of start calls of one client. `Arm` is everything
from `setInterval` to `trackTimer`, which no await interrupts; the policy variant
is split at its await (`StartHeartbeatFromPolicy`, then `PolicyRead` or
`PolicyFails`). `running` is the runtime's view and `timers` the client's.
`SetIntervalDelay` is what the runtime does to a degenerate delay. `Advance` lets
time pass up to the next tick or the latest end of a ping. `Cullable` and
`ReadsDead` are the two ways the server judges a heartbeat, as documented at
`startHeartbeatFromPolicy`: exact for the cull job, truncated to seconds for
reads. Intervals, windows and divisors are integers.

`ProcessSeats.tla` has the process rows of one machine under `max_processes`,
applications that register, ping once an interval, leave or are killed, and
someone who sweeps. A `POST /processes` waits in `posts`; an application that gave up
on it leaves the request behind, which then makes a row nobody holds. The server
reaps nothing. A sweep is what the documentation of `deleteProcess` leaves to the caller:
walk `listMachineProcesses`, delete every row whose last ping is older than the window.
It deletes by the age it read (`doomed`), from the very list whose cursor it
follows. Ghosts: how long a row has not heard from its running application
(`quiet`), and what a sweep owes (`owed`).

`Transport.tla` is one call: `doFetch`'s loop with its deadline, its pauses, and the five
`send*` decoders (`Decode`). `fetch` resolves on headers, so `Headers` and `BodyRead` are
two steps and the deadline can fire between them or stay pending behind them. Calls share no
state in the client, so one is enough. `Throttle` refuses an attempt unexecuted (a rate
limiter in front of the handlers); `Execute` carries it out, in time or too late.
`Endpoints.tla` says which calls there are: one definition per request-making method of
`TamgaClient`, by what the transport tells apart (verb, action, decoder, the forms its route
answers a success in, and what follows if the answer lacks what the method reads).
`ApiErrors.tla` is the error model: `parseApiErrors`, `apiErrorFromResponseBody` and the
table from codes to classes; a status that comes as text may be read as NaN.
`RemoteCall.tla` is the abstract specification of all this: at most one effect, and a
verdict that is true of it. `Transport` implements it under the mapping at its end
(`Remote`): attempts, timers, bodies and retries disappear.

`CheckoutFiles.tla` has no state: it says what each stage of verifying a license or
machine file answers. `Gate` is everything before the signature (markers, base64,
JSON, alg, the scheme), `Trusted` the signature under one key or under any key of a
set, `Decode` opens the payload, `Finish` reads the claims and compares the times,
and `Label` is `labelKeySetFailure`. `Begin` is what a call does before its first
await and `Conclude` what it does after it. Strings are what the code finds out
about them: an alg is the sequence of its segments, a signature is its signer, a
key id is the key it is computed from. An id is `SigningKeyId` where the client
computes it, and `ServedId` where the server serves it; the two differ for the keys in
`Drifted`, because the code allows for it (`fromResources` takes the served id,
`fromPublicKeys` the computed one). Signatures are unforgeable and AES-GCM opens
nothing altered: these two properties of cryptography are assumed.

`SigningKeys.tla` is an application that uses these operators over time. The server
checks files out (`CheckOut`), rotates its key (`Rotate`), starts as an account
whose key in use was never published and is repaired later (`Repair`), and publishes keys of
other algorithms. The application fetches its key set (`Refresh`) or builds it from
shipped keys (`Pin`), and verifies a file it received, as issued or in one of the
`Conditions` (damaged or rewritten in one respect), with the set or with one key. A
verification suspends at its await; `held`, the server and the clock may change
meanwhile, the set it was given does not. `known` and `pinned` are ghosts: the keys
the set was made from, and whether they were shipped.

`OfflineProof.tla` is the life of a proof: an application activates a machine by the
fingerprint of what it reads of it (`Activate`), a backend has a proof minted
(`GenerateOfflineProof`), and the application verifies the proof over what it reads
then (`VerifyOfflineProof`), with a proof string and a key that may be damaged. It rests
on pure modules: `Texts` (strings as code points, and their UTF-8 and UTF-16 orders),
`Fingerprint` (`canonicalFingerprintString`), `CanonicalJson` (JavaScript's
`canonicalize`, with the engine's order of enumeration, beside the server's serializer; a
number's text is how it is spelled, by the length and the place of its shortest decimal),
and `RsaKeys` (the PKCS#1 and SPKI framing, byte by byte, beside a reader that stands
for WebCrypto). SHA-256 is taken to be injective, and a signature verifies over the
payload it was made for alone.

`ActivationProofs`, `HeartbeatProofs`, `TransportProofs`, `ListingsProofs`,
`ProcessSeatsProofs`, `SigningKeysProofs` and `OfflineProofProofs` hold the theorems about
the modules they are named after; `TextsProofs` holds what `OfflineProofProofs` needs to know
about strings, UTF-8, lexicographic order and sorting.
`MCActivation`, `MCHeartbeat`, `MCTransport`, `MCProcessSeats`, `MCSigningKeys` and
`MCOfflineProof` give the argument sets of the instances.

Operators whose comment says "Mutant" are plausible bugs that no specification
uses. Putting one in the place of the operator after it makes TLC find a property
violated; `PROJECT.json` says which.

## What the runs check

Passing runs:

| Run | Instance | Shows |
|---|---|---|
| `ActivationSeats` | 3 calls, 3 machine ids, 2 licenses, uniqueness spanning them, 2 fingerprints (one of them asked for on either license), limit 1, a second machine may be created, all roll back, reuse or not; about 1.7 million states | `DeletesOnlyOwn`, `MachineMatchesRequest`, `SeatsAccountedFor`, `ValidSeatsWithinLimit`, `ReuseIsIdempotent` |
| `ActivationTwoLicenses` | 2 calls, all flag combinations, 2 licenses, uniqueness spanning them, creates refused at the limit, for memory and disk; fair, no symmetry | `TypeOK`, `Settles`, the refinement `ImplementsSeatLedger` |
| `HeartbeatTimers` | 2 start calls of either kind; window, floor and ceiling scaled down, a latency of two intervals of the floor, so that the pings of the fastest timers overlap; about 2.6 million states | `TypeOK`, `RunsUntilStopped`, `PingsBounded`, `OneLossTolerated`, `TwoLossesReadAlive` |
| `ProcessSeats` | 2 applications (one changes its pid, one never does), 2 seats, a window of 2 intervals, pages of 2, 1 or the caller's own | `TypeOK`, `PingingKeepsTheSeat`, `SweepFreesAll`, `LeaksAreFreed` |
| `TransportCalls` | every method; all bodies, five error documents; deadline 45 s or none; Retry-After 0, 2, 120 s or none; about 1.3 million states | nine properties, among them `Settles` and the refinement `ImplementsRemoteCall` |
| `Listings` | pages of 2, 3 pages, up to 8 rows, limits below, at and above the server's cap | `TypeOK`, `FindsWhatStays`, `NotFoundIsAuthoritative` |
| `SigningKeysRotation` | 3 keys (one undecodable, one served under an id of its own), 2 rows, 1 file of either format and any of three schemes, plain or sealed, right, wrong or no key material; about 0.4 million states | `TypeOK`, `GenuineAccepted`, `AcceptedIsIssued`, `StaleMeansNotHeld`, `SignatureMeansAltered`, `DecryptionNamesMaterial` |
| `OfflineProof` | 11 readings of machines, 9 datasets, 3 key sizes, 2 machine ids, 2 accounts | `TypeOK`, `OneSeatPerMachine`, `OrdersAgree`, `GenuineProofVerifies`, `AcceptedProofBinds` |

Runs that show a disagreement between the code and its documentation, one
counterexample each:

- `ActivationReuseRace`: "a reused machine is never rolled back" does not hold
  across calls. One call creates a machine; a second call adopts it; a third one
  creates another machine before the first has validated, so the first is over the
  limit and its rollback deletes the machine. That frees the seat, and the
  adopter is told VALID about a machine that is gone.
- `HeartbeatDispose`: `dispose` does not stop a `startHeartbeatFromPolicy` whose
  policy read is pending; its timer starts afterwards, out of dispose's reach
  until it is called again.
- `TransportLongTimeout`: a `timeoutMs` above 2147483647 fires after 1 ms and is
  reported as a timeout after `timeoutMs`; the interval clamp exists for exactly
  this, the deadline has none.
- `OfflineProofExactTuple`: a dataset with keys that look like array indices (`"9"`,
  `"10"`) is sorted, then inserted into an object that enumerates such keys by
  number: the rebuilt payload is not the signed one, and the genuine proof is
  reported as false. So is the proof over a dataset with a number that
  `JSON.stringify` and the server's serializer spell differently, such as 0.000001
  (`1e-6` there), 100000000000000000000 (`1e20`) or 1e21 (`1e+21` here). The instance
  has datasets of both kinds; `Datasets <- IndexedDatasets` or `NumberDatasets` shows one
  kind alone.

Limits that the properties state openly. `FindsWhatStays` excludes walks during which a
removal shifted the wanted row onto a page already read: then `undefined` is returned for a
machine that is there. `NotFoundIsAuthoritative` excludes limits above the server's cap: the
server clamps them, and the caller takes a full page for a short one. `AnswersSurface` lets
an error page that is not JSON surface as a parse error where the route reads JSON, and
nowhere else: there the client parses before it looks at the status, although
`errors.ts:932` says that such a page "must not throw an unrelated parse error or silently
swallow the failure"; `ErrorsKeepTheirCode` lets a document with one malformed error lose its code,
but not its status. `ReuseIsIdempotent` excludes a fingerprint that another license in the
same uniqueness scope has, or had, a machine with. `GenuineProofVerifies` sets apart the
datasets that the last counterexample is about, with index keys up to 4294967294 and
with numbers between 1e-6 and 1e-5 or whole and beyond 64 bits. `OneLossTolerated` speaks of
one loss: with the default divisor the third ping falls on the window's very end, so after
two losses the exact cull query can claim the machine before that ping lands.
`SignatureMeansAltered` speaks of callers with the right key material: with a stale key set
and a wrong license key, the label cannot read the `kid` of a sealed file and is `signature`
for a genuine one.

Remarks a reader of the code may want, which no run is about: `ListOptions.after` says
"Honoured by listComponents only", and `listMachineProcesses` and
`listReleaseArtifacts` send it too. `models/machine.ts:205` says of a dead process row
that it is deleted immediately, `deleteProcess` that nothing reaps it. Lone
surrogates become U+FFFD in a fingerprint, so that two values can share one. A `Date`
or another class instance in a dataset canonicalizes to `{}`. The third kind of
`ProofError`, a failed verification, is never thrown.

Bounds. Three activations are what the deepest hazards need (a creator, an
adopter, and one whose machine makes the license full), with one machine id each;
two fingerprints let calls conflict and not conflict. Liveness is checked with two,
without symmetry. Machine ids are never given twice, as with UUIDs. `CreateCap` is one
above the limit where an over-limit create must be possible, and equal to it where it
must be refused. In `Heartbeat` the window default and the ceiling are scaled to a few
seconds (`DefaultWindow`, `MaxInterval`) and the floor to a quarter of one, which keeps
their order. The latency (`MaxLatency`) lies between the floor and the interval of a
three-second window: a timer at the floor has up to three pings in flight, landing and
lost in any order, and the timers `KeptFromPolicy` speaks of have one; `MaxLost` allows
the two losses the properties speak of, and `MaxAge` lies above every window compared
with it. In `Transport` the timer ceiling is scaled (`TimerMax`) above every sum of
timeouts that is to be honoured, one Retry-After is above the cap, and `Jitters` has the
two ends of the random range; an error document has up to two errors, since the code
reads the first and checks all. `MaxRows` in `Listings` exceeds what the pages
walked can hold, `Limits` lie on both sides of the cap, and `DefaultPage` differs from it.
In `ProcessSeats` the two applications can fill the seats, `Launches` lets one of them
come back beside a row it left, and ages stop counting at the window, where nothing
distinguishes them any more; `MaxId` allows both seats to be taken once. In
`OfflineProof` the readings collide or differ exactly where a rule of `fingerprint.ts`
makes the difference, values nest `MaxDepth` deep (the payload, a dataset, an array in it and
an object in that), `KeySizes` lie at the lengths where DER changes form, and the model's
signature is short. In `SigningKeys` two rows are the key a file was signed
with and a newer or an older one, the third key is one no row has; verifications share
nothing, so one file and one verification are enough. Time counts from the first
checkout, the skew is scaled to one second, and `MaxClock` lies behind expiry and skew
together. `NotEnded` cuts behaviours where the one verification has ended, since its
record does not change any more. `OneOrder` takes independent steps in one order:
rotations and refreshes do not read the clock and come before it moves; a refresh
replaces the whole set, so one is as good as several; the server is read no more once
there is a file and a set; a suspended verification reads nothing but the clock, and not
even that if it was given the time; one with a single key reads no key set. The proofs
use neither.

Symmetry is used only in runs of invariants. Deadlock is not checked where the
system may stop: calls end, walks end, applications and sweeps stop coming when
`MaxId` is used up. The runs of `Heartbeat`, `SigningKeysRotation`
and `OfflineProof` check it.

Fairness. `Activation!Fairness`: a call whose answer arrived resumes, and an awaited
request ends with its answer or its failure, because the transport arms a deadline
around every attempt (`Transport!Settles` shows that one call of the transport ends).
`Fail` is weakly fair only as a way out of waiting: together with the resumptions
it is one condition per call. No server step and no start is fair. `Transport!Fairness`:
the runtime delivers due timers and settled promises; neither an answer nor a failed
connection is promised. With `timeoutMs` of zero nothing ends a call, and `Settles`
does not claim it. `ProcessSeats!FairSpec`: time passes, a sweep that began goes on, and
the machine is swept again and again. The first two are the runtime's; the last
is what the documentation asks of whoever operates the machine, and without it
nothing frees a leaked seat, which is what `LeaksAreFreed` is about.

## What is proved

TLAPS checks these for every value of the constants that satisfies the modules'
assumptions (finite or infinite sets of calls, any limits, any numbers):

- `TypeCorrect`: type correctness, one theorem each for `Activation`, `Heartbeat`,
  `Transport`, `Listings`, `ProcessSeats` and `SigningKeys`. The one of `SigningKeys`
  says that a verification ends with one of the documented outcomes, the one of
  `Heartbeat` that no delay leaves the range `setInterval` honours.
- `OnlyOwnMachinesDeleted`, `MachinesMatchRequests`: from `OwnInv`, which follows every
  id through answers, locals and requests back to the row it names and ties rows
  to the one create of a call. `DeletesOnlyOwn` alone is not inductive: it needs that
  `createdMachine` is an own row, which needs that a "created" answer names one.
- `ValidSeatsFit`: the rows vouched for by a VALID verdict, read or still unread, fit
  the limit. At the moment of a verdict all rows of the license fit it, so all the
  vouched ones do; afterwards rows only leave, and ids are never reused (`VouchInv`).
- `NoSilentSeats`: each row of a call without a failed request is at a stage where the
  call still knows it (`Owns`), because such a call has at most the one request
  it awaits in the network (`AwaitedRequests`).
- `NoSeatOnlyOverLimit` (`NoMachineOnlyOverLimit`, which the ledger below contains, so no
  run checks it by itself): a create that was refused for a limit keeps its code until the
  call ends, and a rollback has a code of validate's (`ValidatesSomething`,
  `EmptyResults`).
- `ReactivationSucceeds`: while no row is removed, a call that met a conflict has a
  row to adopt (`Held`) and its search finds it (`ReuseInv`).
- `ActivationsKeepTheLedger`: `Activation` implements `SeatLedger`. Each step calls,
  takes a seat, hands one back, reports, gives up, removes or stutters (`ClientRefines`,
  `ServerRefines`). Beyond the invariants above it needs `LedgerInv`: how far a call has
  come tells where its row is known (`RowStage`), why a call without a row may go on
  (`CallStage`), and who still waits for a create or a rollback that is in the network
  (`RequestStage`).
- `TimersRunUntilStopped`: the running, the tracked and the started-but-not-stopped
  timers are the same set.
- `OneLossIsTolerated`, `TwoLossesStillReadAlive`: the age of the last heartbeat is at
  most one interval more than the pings missing since, less the time to the next
  tick (`AgeInv`). Assumed: a default divisor of at least 3 (`ThreePings`), and for the second
  theorem a default window in whole seconds (`WholeSeconds`); the properties themselves
  speak of timers whose pings land or are lost before the next one leaves (`Prompt`), and
  in the second case within a second. The lemmas about the clamp and the division
  hold for every number a caller can pass.
- `PingsAreFew`: the pings of a timer left at least one floor apart, and the next one
  leaves no sooner after the last (`SpacingInv`); so their ages divided by the floor
  all differ. It assumes nothing of the latency, unlike the two theorems before it.
- `CarriedOutAtMostOnce`: only the current attempt is on its way or was carried out
  (`AttemptInv`).
- `DeadlinesHonoured`: armed time and spent time add up to `timeoutMs`
  (`DeadlineInv`), if no timeout exceeds the timer's ceiling
  (`TimerHonoursTimeouts`); `TransportLongTimeout` shows that the condition is needed.
  It also gives `DeadlineOutlivesNothing`: no timer outlives its attempt.
- `RetriesAreSpent`, `AnswersReachTheCaller`, `CodesReachTheCaller`: the outcome of a
  call that ended is what `Decode` and `Thrown` make of the answer it still has
  (`CallInv`). The second says in both directions what becomes of an error (an API error, or
  a parse error of a page that is not JSON on a route that reads JSON) and of a success. It
  also needs that every method's decoder accepts every form its route answers in
  (`SendersFitAnswers`, over all of `Endpoints`).
- `CallIsOneRemoteCall`: `Transport` implements `RemoteCall`. Each step carries the call
  out, answers, refuses, gives up or stutters (`StepRefines`), by `AttemptInv` and
  `CallInv`: a refused call has no other attempt on its way, and a call that was
  answered has been carried out.
- `RetriesWait`: while a call pauses, what is left of the server's penalty is no more
  than what is left of the pause and what the cap cut off it (`PenaltyInv`).
- `CallsAreBounded`: what has passed, with what is left of the attempt or the pause, is
  no more than the attempts and pauses so far allow (`BoundInv`). It assumes that the
  cap of `Retry-After` is no smaller than the longest backoff (`CapCoversBackoff`: 33 s;
  the code's cap is 60 s).
- `WalkFindsWhatStays`, `AbsenceIsAuthoritative`: from `ListInv`. Until it is found, a row
  that stays lies behind the pages already read (`OffsetInv`, unless shifted), or behind
  the cursor, which moves with the row it names (`KeysetInv`).
- `SweepSparesThePinging`: the row of a running application is there and no older than
  the application's own count says (`RowHeardOf`), and what a sweep is about to delete has
  been silent for a window, although the list it was found in is old by now
  (`DoomedAreSilent`). The second part is what makes the first inductive; it needs that
  no two applications hold or are promised one id (`IdsAreUnique`).
- `SweepFreesTheStale`: every row a sweep still owes is there and stale
  (`OwedAreThere`), and lies behind the cursor or on the page being dealt with
  (`OwedAreAhead`). The step that needs an argument is the listing: a row the page
  leaves out lies behind all it holds, and the page is then as long as the sweep takes
  for full (`PageIsInOrder`), because the server applies the very limit the sweep reckons
  with (`LimitIsApplied`).
- `GenuineAlwaysAccepted`, `AcceptedAlwaysIssued`, `StaleAlwaysMeansNotHeld`,
  `SignatureAlwaysMeansAltered`, `DecryptionAlwaysNamesMaterial`: all from `KeysInv`. A key
  set holds exactly the usable keys it was made from, and under no id of another key
  (`Fits`); this needs that the rows have one row per key under the id it is served
  by (`RowsInv`), and that a repair publishes a key that has none. Every file is as
  the server made it (`Certified`), and a running verification still has what it
  was asked (`Asked`). The properties then follow by the stages of a verdict:
  `GateOfFile` (the gate passes exactly if the alg names the scheme of the call),
  `TrustOfFile` (trusted exactly by those who were given the key), `DecodeOfFile`.

- `FingerprintIsIdentity`: two fingerprints the SDK accepts are equal exactly if the
  named, trimmed values are. A joined text falls apart at its separators in one way
  only, because no part contains one (`MarkedSplit`); a part falls apart at its first
  `=` (`PartSplits`); and a sort of a set depends on nothing but the set
  (`IncreasingOnce`). `SpecOneSeatPerMachine` follows from `SeatsInv`: every row is the
  fingerprint of the one identity that holds it.
- `CompareUtf8IsPointOrder`, `OrdersOfParts`, `SpecOrdersAgree`: comparing UTF-8 bytes is
  comparing code points, for any two strings; comparing UTF-16 units is the same where the
  first difference is ASCII, and two parts of one fingerprint first differ within a label
  or at its `=`, since no part is a prefix of another (`PartsDiffer`). This is what the comment of
  `compareUtf8` calls provable.
- `TextsTellValues`: if the application's text of one value is the server's text of
  another, the server writes both alike; `ServerTellsMembers`: it does so for two objects
  exactly if they have the same members. With these, `SpecAcceptedProofBinds`: the proof
  held is the server's text of the tuple it was minted for (`ProofInv`), so one
  that verifies is about the same account, machine, fingerprint and members.
- `PlainValuesAgree`: where no object has an index key and no number is spelled apart,
  `canonicalJsonStringify` writes what the server writes. Other keys keep their place in an
  object (`EnumeratedPlain`), so what was sorted stays sorted; and `SpellingsAgree` says
  that the numbers set apart are exactly those the two sides spell differently, from where
  `Number::toString` and the server's serializer turn to an exponent. With this and
  `EitherEncodingImports` (the framing `toRsaSpki` puts around a PKCS#1 key is read back,
  and a key that has it already is left alone), `SpecGenuineProofVerifies`.
- The proofs about `OfflineProof` assume that a value nests finitely deep, has text keys
  and no key twice (`NestedAssumption`), that the payloads in play are such values
  (`PayloadsAssumption`), that ids and fingerprints are strings (`StringsAssumption`), that a
  number's shortest decimal has at most 17 digits and every whole number below 10^18 fits 64
  bits (`DecimalAssumption`), and that a modulus has 1 to 8192 bytes (`ConstantsAssumption`):
  65536 bits, where real keys have 2048 to 4096. JSON values come in levels `Nested[n]`, by
  how deep they nest, and the serializers are recursive functions, so that the proofs are
  inductions over the level (`ValueInduction`), by the least level at which a claim would
  fail.

Only model-checked: `Settles` in `Activation` and `Transport` and `LeaksAreFreed`
(liveness and ENABLED are beyond the prover). Every other property of a passing run has
its theorem. That SHA-256 is injective and a signature unforgeable is assumed.

## What is not modelled

- Cryptography (`ecdsa.ts`, `hkdf.ts`, `webcrypto.ts`, and the calls into WebCrypto
  elsewhere): wrappers; a model could only assume them.
- Files nobody issued, and several alterations at once: each condition of a file changes
  one thing.
- URLs, headers, request bodies and queries, the response info read from headers, and the
  attributes of resources: data without control.
- Scopes of a validation, optional machine attributes, entitlement and usage
  counters: they are decided by the server.
- The server's reading of a number: it is taken to read the text that `JSON.stringify` sent
  exactly and to write it as Rust's `ryu` does. A proof minted by another client, which may
  have sent 1.0 where JavaScript writes 1, is outside the model.
- Encoding bytes to base64, message texts, lone surrogates.
- Non-integer intervals and divisors. A caller's divisor below three, or a window of one
  or two seconds under the one-second floor, tolerates fewer losses; the code says so
  and leaves it to the caller, so no property covers it.
- Several clients sharing a rate-limit bucket: that `Retry-After` is used without jitter
  would need them.
- The `__proto__` rule apart, JavaScript's prototype chain; `toJSON`.
- Build scripts, examples and tests.

## Plan

Done, in the order of their weight: activation, transport, heartbeats, listings; license
and machine files and key sets under rotation; the error model and the endpoint methods;
process seats; fingerprint, canonical JSON and the offline proof; the refinements of a
remote call and of a seat ledger.

Left:

1. Request bodies and queries, where a property tells them apart (`CreateMachineOptions`
   against what the server stores).
