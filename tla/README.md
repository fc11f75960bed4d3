# Verification of instagram-aiograpi-experimental

TLA+ specifications of the service in `src/src/`, the TLC runs that check them
on small instances, and TLAPS proofs for every value of the constants.
`PROJECT.json` lists components, runs, mutants, the source lines behind every
definition, findings, hazards and theorems.

## 1. The system

A FastAPI process (one worker, one asyncio event loop, no locks) offers internal
routes for **one** Instagram test account. It keeps little state:

| Part | State | Operations |
| --- | --- | --- |
| `session_store.py` | MongoDB: the session document (`accountKey`), the verification context (`accountKey:verification`, with `attempts`, `expiresAt`), the audit collection with the diagnostics of logins and preflights | save, restore, exists, delete; save, restore, count an attempt on, delete a context; save and find the newest diagnostic; TTL index |
| `instagram_client.py` | `_pending_context` (a second copy of the context, in memory), `_client` (written, never read) | login, verification, validate, list threads, list messages, send text, logout, preflight |
| `routes/instagram_internal.py` | none | the guards (test phase, real connection, confirmation, polling, credentials), the order of calls, the mapping of errors |
| `services/rate_limit.py` | a deque of send times per account, in memory | `assert_send_allowed`, `record_send`, `remaining`; each prunes |
| `services/audit.py` | `memory_events` | `record`, which swallows every failure |
| `services/polling.py`, `app.py`, `config.py` | `started` (always false), the state of the lifespan | startup checks and flags |
| `session_store.py`, the store of the tests | a dict and two lists | the same calls, none of which suspends |
| `auth_diagnostics.py`, `security/`, `models.py` | none | building and sanitising diagnostics, Fernet, token comparison |

Interaction: a route calls the service; the service awaits the store (driver
calls), the provider (`aiograpi`) and the audit log. At each await any other
request may run, the TTL monitor may delete the context, the process may die.

What is hard here:

* **check, await, act**: the send limit is asserted before and recorded after the
  send; an attempt is counted in one call and the context loaded in the next;
  an expired context is found in one call and deleted, by key, in another;
* **stale values**: a refresh writes back the session it loaded before the call;
  the context in memory and the one in the store are written at different moments;
* **partial failure**: a driver call that raises may have had its effect, or may
  have it later; some
  failures are swallowed (`_set_pending_context`, `_clear_pending_context`), some
  are answered 5xx after the provider did what was asked;
* **restarts**: documents stay, `_pending_context` and the rate limiter do not;
* **boundaries**: expiry at the instant, sends exactly an hour apart;
* **order in the audit collection**: a document carries a time read before its
  insert, inserts overtake each other, and the trace of an event lies beside the
  document of the same event;
* **tables written twice**: exceptions are classified in three methods, statuses
  listed in three places, the reason for blocked polling computed in two;
* **starts that tolerate**: a service may come up without the unique index that
  every later upsert relies on;
* **global streams**: `_run_silently` replaces `stdout` and `stderr` across an await.

## 2. Modules

| Module | Models |
| --- | --- |
| `SessionStore` | the two documents of `MongoSessionStore`, one action per driver call, the clock, the TTL monitor |
| `AuthFlow` (extends it) | `InstagramClientService` behind its routes |
| `AuthProperties` | what is stated about `AuthFlow` |
| `SessionSlot` | the abstract promise about the session document |
| `RateLimit` | `RateLimitService` |
| `SendText` (extends it) | `instagram_send_text` and `send_text_future` against the limiter |
| `Classify` | the tables that read an exception, as data |
| `AuditLog` | the audit documents that are looked up again |
| `Diagnostics` (extends both) | what a login or preflight reports, and what the latest-attempt route makes of it |
| `SessionCollection` | the rows under the account key: the unique index, an upsert as a match and an insert |
| `SilentOutput` | `_run_silently` |
| `Startup` (extends `SessionCollection`) | `Settings`, `create_runtime_app`, the lifespan, `PollingService.start` |
| `Process` (extends `Startup`, `SilentOutput`) | one process after another on one database |
| `StoreContract` (extends `SessionStore`, instantiates `AuditLog`) | the abstract promise of `MongoSessionStore` to a caller, effects with answers |
| `MemoryStore` | `MemorySessionStore`, which the tests use, except `ping`, `ensure_indexes`, `close` and `raw_document_for_tests`, which change nothing |
| `MCAuthFlow`, `MCSendText`, `MCDiagnostics`, `MCProcess`, `MCMemoryStore` | symmetry sets for TLC |
| `AuthFlowProofs`, `ServiceProofs`, `SequentialProofs` | theorems about `AuthFlow`: types and attempts; any number of requests in flight; one at a time |
| `RateLimitProofs`, `SendTextProofs`, `DiagnosticsProofs`, `ProcessProofs`, `MemoryStoreProofs` | theorems about the module of the name |

### SessionStore and AuthFlow

`sessionDoc` and `contextDoc` are the documents. A payload is the name of the
login that produced it, so that "whose session is stored" is visible; what
encryption does to it is not modelled. A context keeps its `challenge`,
`attempts` and `expiresAt`.

`pending` is `_pending_context`, `realConnection` the flag of the process (a
restart may bring another one), `swallowed` the history of a write or a deletion
of the context that failed while this process went on. `req[r]` is the local state
of a request: its operation, `pc` (the await it is blocked on), and its local
variables: `held` (the session or context it loaded), `until` (the `expires_at` it
computed before the save), `outcome` (what the provider said), `answer`, and the
history `grant` (the challenge whose counter it consumed). Each action is what
happens from the completion of an await to the next await; the code between two
awaits that touches only local state is merged into its neighbour. Awaits of the
audit log separate steps where shared state is on both sides (`SaveContext` and
`SetPending`, `RecordAttempt` and `FindContext`).

| Action | Code |
| --- | --- |
| `Admit`, `Forbid`, `BlockLogin` | the guards of the routes and `_block_real_connection` |
| `SessionExists`, `ProviderLogin`, `SaveSession`, `SaveDiagnostic` | `login_diagnostic_future` |
| `SaveContext`, `SetPending` | `_set_pending_context` |
| `ClearPending`, `DeleteContext` | `_clear_pending_context` |
| `RecordAttempt`, `FindContext`, `ExpireContext`, `SubmitCode` | `resolve_challenge_future`, `restore_verification_context`, `login_future` |
| `LoadSession`, `ProviderCall`, `SaveRefreshed` | validate, list threads, list messages, send text: one operation `use`, because they treat the session alike |
| `ProviderLogout`, `RemoveSession` | `logout_future`, `DELETE /internal/session` |
| `StoreFake` | `POST /internal/session/test-store` |
| `Preflight`, `SavePreflight` | `account_preflight_future` |
| `Restart`, `Land`, `Clock` | the process; a write performed after its request is gone; time, the TTL monitor |

A driver call raises before its effect (`lost`), after it (`late`), or not; the
provider answers anything. With `Outlive`, a write that raised `lost`, or whose
process died, may still be performed: `req[r].left` keeps it, and `Land` performs it,
with the arguments it was made with, at any later time, once or never. What it
matched is decided then (`record_verification_attempt` takes an attempt of the
document it meets). `AllAnswered` lets the bounded model end: requests are used once.

What the properties need decides where `Outlive` is on. The attempts, the codes they
pay for and the expiry of contexts stand it (`GrantsBounded`, `AttemptsInv`,
`CodesPaid`, `LiveContextsOnly`, and `SlotSpec` without refreshes), and
`auth_concurrent` has it. Every property that needs a request to be alone needs also
that nothing is left of the one before, and is stated without: a refresh, or the save of
a login, performed after a `DELETE` brings the session back; the deletion of an old
context performed late removes a newer one; and so for `CodesBounded`,
`PendingIsBacked`, `SuccessIsStored`, `SuccessClearsContext`, `ReportedIsDone` and
`RemovedStaysRemoved`. The inserts into the audit collection do not outlive their
request in `AuthFlow`; that they overtake each other is the subject of `Diagnostics`.

`login_future` without a verification attempt is not reachable from any route and
is not an operation of the model.

### SessionSlot

One slot. The session of an accepted login enters it once at most; removal
empties it; the fake settings of test-store may come and go; nothing else changes
it. `SlotSpec` instantiates it on `AuthFlow` with `slot <- sessionDoc` and
`spent <-` the accepted logins past their save. It says at once that a refused,
challenged, blocked or dead login leaves the stored session alone, that a session
is never mixed up with another request's, and that a removed session does not
return.

### RateLimit and SendText

`events` is the deque, `recorded` the history of all sends recorded by the
process. Pruning stops at the first young event, as the code does: `Expired(k)`
describes how many go, and is a formula rather than a loop. `record_send` asserts
again before appending. `SendText` runs this between the awaits of the route;
`delivered` is the history of messages Instagram took from this process, `peak`
the most sends it had in flight together; a restart empties both, as it empties
the deque. `max_sends_per_hour` is a natural number: the code accepts a negative
one, which `remaining` turns into 0.

### Classify, AuditLog and Diagnostics

An exception is the set of imported `aiograpi` classes it is an instance of, so
that `isinstance` is an intersection and inheritance in the library needs no
model. Each `isinstance` ladder is a table whose rows are tried in order:
`_diagnostic_for_exception` (the status), `_result_for_exception` (the reason, all that
a verification keeps of the result), `_raise_safe_provider_error`; `LoginCode` and
`OperationCode` are the HTTP codes. `Pending` is the list of statuses for which a login
keeps a context, and nothing else: the lists of the same statuses in the
recommendation and in `auth_status_http_code` are written out again, as in the code.

`AuditLog` keeps the documents of the two events that are read back: those written
`full`, with the diagnostic, and the traces `AuditService.record` writes beside
them. Both carry the time read before the insert.

A request of `Diagnostics` is a login, a login that the guard blocks, a preflight, with
a username or without, or a lookup of the latest attempt. What a login does to the
session and to the context is `AuthFlow`'s, and so is the property that a diagnostic
reports what is done (`ReportedIsDone`); here only the order of the awaits is kept, and
which failures end a login. There is no restart: a request that dies is one that
takes no further step.

The claims made about an account are not modelled: whether a profile exists, and what
`_auth_preflight_correlation` concludes from a pair. No property of the pair would
hold. The lookup calls a profile absent on `ClientNotFoundError` and when the object
found has neither `pk` nor `id` (`instagram_client.py:272`, `:277`), whatever is the
case at Instagram. A login may name an account of its own in its body
(`routes/instagram_internal.py:184`), while the preflight is of the configured one
(`:207`), and the attempt carries nothing by which to tell. The preflight is read in a
call after the attempt's, so the two need never have been current together.
`docs/manual-login-future.md:59-68` describes the pairing as if they were.

### SessionCollection, SilentOutput, Startup and Process

`rows` is the number of documents under the account key, `sent` the call the
server has received and not performed. An upsert finds a row or, in a later step,
inserts one; `indexed` refuses the second. `SilentOutput` keeps what each call has
`found` in the place of the process's streams. `Startup` is one action per await of
the lifespan, over every combination of settings (`SettingsRange` names the
classes of values the code tells apart); the reads and `create_index` may fail.
`Record` keeps the types of the events in this process's `memory_events`; the insert of
an event into the audit collection may be lost, which is swallowed, and nothing the
program does depends on it. `Process` lets a process start, serve calls that save or delete the session, shut
down, or end at any time; calls the server has received are performed all the same.

### StoreContract and MemoryStore

The contract gives each call of the deployed store its effect and the answers it
may return, one call at a time. `MemoryStore` is the dict (a function whose domain
is its keys) and the two lists of `MemorySessionStore`. `ImplementsContract` reads
the documents with `Get` and the log as the set of listed documents.

## 3. Runs

Bounds: requests are named by r1.. and used once, so their number bounds a
behaviour; three requests give every pair of operations racing with a third that
set the stage (a login that left a challenge or a session). Time runs to 1 or 2
with a context TTL of 1, so that a context is fresh, on the boundary and expired.
`MaxTime`, `MaxDocuments`, the number of requests and `MaxInFlight` are bounds of
the model; the rest are parameters of the program. Permuting request names is a
symmetry (they are only compared for equality); the liveness run does not use it.

| Run | Instance | Shows |
| --- | --- | --- |
| `auth_concurrent` | 3 requests in flight, everything but refreshes and the preflight, failed calls, restarts, calls that outlive their requests, `MaxAttempts = 1` | types; `GrantsBounded`, `AttemptsInv`: a challenge gives out no more attempts than allowed; `CodesPaid`: every code that is submitted has taken one, so races may send codes to another challenge but not more codes than attempts; `LiveContextsOnly`: no expired context is used; `SlotSpec` |
| `auth_sequential` | one at a time, refreshes included, failed calls, restarts with either flag, no call outlives its request | `CodesBounded`: codes submitted per challenge; `PendingIsBacked`: between requests the copy in memory is in the store too, or has expired, or a failure was swallowed; `SlotSpec`; `SuccessIsStored`; `RemovedStaysRemoved`; `SuccessClearsContext`; `ReportedIsDone`: when the diagnostic of an accepted login becomes the latest its session is stored and its context gone, when that of a challenge does its context is in memory, and stored too unless a failure was swallowed or it has expired, also where the login then raises; `OfflineWhenDisabled`: with the flag off no operation but the preflight reaches Instagram (the run has no preflight, `auth_preflight_offline` has) |
| `auth_progress` | 2 requests, all operations, failed calls | `Answered` |
| `send_limit` | up to two at a time, failed calls, restarts, 5 sends, limit 1, hour of 2, five instants | types; `OvershootBounded`: with at most `peak` sends in flight together, no hour holds more than `limit * peak + peak - 1` reported deliveries (the limit itself when `peak` is 1; with one less TLC finds a counterexample); `LimitedSendsNothing`; `CountsOnlyDeliveries` |
| `rate_limit` | the limiter, limit 2, window 3, ten ticks | `SlidingWindow`, `RefusalDeserved`, `RateInv` |
| `diagnostics` | 3 requests of any kind in flight, failed calls, two instants, every exception of up to two of the classes, alone or with `ClientError`, and the one of none | `LatestIsCurrent`: a lookup shows an attempt and a preflight, each no older than any answered before it came; `AdviceFits`: the recommendation agrees with the code the login was answered with and with whether a context was kept; `LoginIsStricter`. Three requests are a lookup and two that overtake each other |
| `process` | every combination of settings, three requests over any number of processes, failing calls, ends at any time | `NeverSilentlyUnindexed`, `ReasonsAgree`, `OnlyPollingAborts`, `SilencedAndRestored`. Two upserts that race and a deletion after them are three requests, and so are two calls that cross inside a third |
| `memory_store` | 2 requests, 2 documents per list, 2 attempts, two instants | `ImplementsContract`, `ListsOrdered` |

`LoginIsStricter` compares the three tables, for every exception a login may meet: a
verification names a code as its reason exactly where a login keeps a context for one;
what stops an operation on the session with 409 stops a login with 409, unless it is a
rejection of the credentials as well; a login answered 401 is an operation answered 401
or 409, never 502; a login answered 502 is an operation answered 502. It does not say
that the tables agree, and they do not: the disagreements are listed below. The
exceptions of the run are a sample; the theorem is for all sets of classes.

Fairness: `FairSpec` has weak fairness of `Step(r)` for each admitted request and
of nothing else. Of what it assumes, the event loop resumes a ready task, and a
driver call that finds no server raises after `serverSelectionTimeoutMS=5000`
(`session_store.py:40`). That a call ends once a server was selected, and that a
provider call ends, is an assumption: no timeout in `src/` says so. Arrivals, restarts,
the clock and the TTL monitor are not fair. Restarts are off in that run, since
they answer requests by killing them.

### Disagreements found

Four runs show what a document, a comment or a test denies:

* `auth_codes_race`: with two requests in flight the attempt is taken from one
  challenge and the code submitted on the next one; a third code reaches the
  provider for a challenge that allows two (`instagram_client.py:903`, `:917`).
* `auth_resurrected`: a validate, list or send in flight while the session is
  removed stores it again (`instagram_client.py:958`).
* `auth_preflight_offline`: the public preflight contacts Instagram with the real
  connection disabled (`instagram_client.py:271`).
* `send_race`: two sends in flight exceed the hourly limit (`routes/instagram_internal.py:354`).

Relatives that are reachable in the same models, or were met on the way, and have
no run of their own:

* a refresh overwrites the session of a login that then reports success
  (`SuccessIsStored` with `use` and `login` in flight together);
* a delivery whose session save fails is not counted by the limiter (`WithinLimit`
  with `CallsMayFail = TRUE`, one request at a time);
* a code may be submitted on the context of an earlier challenge after a newer login
  ended in a stop condition, since nothing clears the context then;
* verification attempts write no diagnostic, so the latest-attempt route keeps
  advising on the login that a verification has since resolved;
* the three readings of an exception differ where a login is the stricter one:
  `RateLimitError`, `ClientForbiddenError`, `ClientUnauthorizedError`,
  `LegacyForceSetNewPasswordForm`, the forms, `ChallengeRedirection`,
  `SelectContactPointRecoveryForm` and everything unclassified stop a login with 409 and
  end an operation on the session in 502; a missing login (`LoginRequired`,
  `ClientLoginRequired`) stops a login with 409 and is 401 to an operation;
* a message whose request is answered 429 may have been delivered, since `record_send`
  asserts again after the send (`LimitedSendsNothing` with two sends in flight);
* when a challenge's context could not be saved its diagnostic asks for a code all the
  same, with the context in memory only, where `record_verification_attempt` finds no
  document to take an attempt from, or that of an earlier challenge;
* calls of `_run_silently` that end in another order than they began leave a dead
  buffer in the place of `stdout` until the process ends: `SilencedAndRestored` is
  stated up to the first such crossing;
* without the unique index two racing upserts make two rows, `DELETE` removes one of
  them, and every later `create_index` fails: a process then starts with
  `MONGODB_CONNECTION_FAILED` in its `memory_events`, the only place sure to have it.

## 4. Proofs

The constants are constrained by named assumptions (`ConstantsAssumption`,
`RateLimitAssumption`, `DiagnosticsAssumption`, `ProcessAssumption`,
`MemoryAssumption`), which TLC evaluates in the runs.

* `AuthFlowProofs!TypeCorrect`: `Spec => []TypeOK`, action by action.
* `AuthFlowProofs!AttemptsCounted` and `!AttemptsBounded`: `Spec => []AttemptsInv`
  and `Spec => []GrantsBounded`, any number of requests in flight. `GrantsBounded`
  alone is not inductive: a grant is counted in the document, and saving a context
  resets the counter. `AttemptsInv` adds that the counter of the stored context is
  never behind the grants on its challenge (`CounterCoversGrants`), and that a
  challenge whose context is not saved yet has no grant and is not the one stored
  (`UnsavedIsUnused`), so that the reset forgets nothing. *Unsaved* includes a save left
  behind by its request, which is then that request's only one (`SavesOnce`). All actions
  but three are *quiet* (no grant changes, the context stays or goes, no request returns
  to before its save) and quiet steps keep the invariant by one lemma. A save of a
  context, by `SaveContext` or landing later, uses `UnsavedIsUnused` (`SavingKeepsInv`);
  an attempt that lands later is counted and given to nobody (`LandKeepsInv`);
  `RecordAttempt` adds at most one element to the grants of
  the challenge whose counter it increments.
* `ServiceProofs`, any number of requests in flight. Its decode lemmas are what the
  later proofs read instead of the actions: `StepMoves` says which label a handler
  goes to, which field it fills and what it has found (`FieldsMove`, `Branches`,
  `OkAnswers`); `ArrivalMoves`, `RestartMoves`, `LandMoves` and `ClockMoves` do the same for the
  rest of `Next`. `RequestInv` puts every request on the path of its operation, and says what a request
  may have left behind, and where (`LeftBehind`).
  `CodesOnLiveContexts`: `ContextDated` adds that the stored context expires when the
  login that left it said. `CodesArePaid`: nothing is decided before an attempt has been
  taken (`AttemptFirst`); with `AttemptsBounded` this is what remains of `CodesBounded`
  under races. `OfflineKept`: every operation but the preflight is admitted
  by a guard, and a restart, which alone changes the flag, ends who was admitted
  (`ServedConnected`); its hypothesis is `"preflight" \notin Ops`.
  `SlotImplemented` and `RemovedForGood`: the refinement of `SessionSlot`, step by step,
  under `NoRacingRefresh` (nothing is refreshed, or nothing runs beside a refresh and no
  call outlives its request). The hypothesis cannot go: `auth_resurrected` is what
  happens without it. Under it a
  refresh holds the session that is stored (`HoldsStored`), so that writing it back
  is a stutter (`WritesBackStored`, `NothingStaleWritten`).
* `SequentialProofs`, under `NoOverlap` (`MaxInFlight <= 1`, and no call outlives its
  request, so that nothing ever lands: `NothingLands`), with failed calls and restarts. Two requests
  in flight break each of these without any failure: `CodesBounded` in
  `auth_codes_race`, the other four on the instance of `auth_sequential` with
  `MaxInFlight = 2`. What is left to show is what one request leaves to the next.
  `SuccessStored`, `SuccessCleared`: what a request has done past each await
  (`SuccessInv`) and where a success is answered (`OkFinds`).
  `ReportsDone`: what a login has done by the time it saves its diagnostic, from
  `SuccessInv` for an accepted one and from `ChallengeKept` with `BackedInv` for a
  challenge.
  `PendingBacked`: `PendingIsBacked` speaks of idle states only; `BackedInv` says what
  holds between the two writes of a context and once a document has been seen to
  have expired, and that the context in memory is one whose saving is over
  (`Unsettled`). A document only goes without being replaced once it has expired,
  or while the memory is empty.
  `CodesAreBounded`: attempts are counted per document and codes go to what is found
  later, so a code may be a *stray*: submitted to the context in memory by a request
  that took the attempt of a document which had expired meanwhile. `CodesInv` shows
  that a challenge has codes of its own attempts, at most `MaxAttempts`, or one stray
  and nothing else (`StraysAlone`): after a stray no document is left to take
  another attempt from (`NoSecondStray`), and a context is in the store or gone for
  good when it has given attempts (`CopiesAgree`, `CodesInTime`). One stray is within
  the limit, because its own attempt shows `MaxAttempts` to be positive. TLC checked
  these invariants on `auth_sequential`'s instance, and on one of five requests, before
  they were proved.
* `RateLimitProofs!RateInvariant`, `!WindowHolds` and `!RefusalsHold`: the deque is a
  suffix of the history, in order, and what was dropped is an hour old
  (`DequeIsRecent`); the proof shows that pruning k events and appending one keep it,
  and that the event `max_sends_per_hour` places before a new one has been dropped,
  hence is old.
* `SendTextProofs`. `UsesLimiter`: `Spec => RateSpec`, so every theorem about the limiter
  holds under the route (`RecordedWithinLimit`). `LimitedCorrect`: a request alone in
  the process finds the room it was promised (`RoomKept`). `CountsCorrect`: every
  recorded send, and each still to be recorded, was made before (`CountInv`,
  `CountsNow`). `OvershootCorrect` is the deepest: the bound `limit * peak + peak - 1`
  is not inductive, and says nothing of why a send that is not counted is rare.
  The invariant charges each request that has delivered to a recorded send
  (`Attribution(seen)`, where `seen` is the number of sends recorded when the request
  was admitted or, once answered, when it was answered). A recorded send takes the
  charge of at most `peak` requests, those in flight with it; a request answered 429
  after its delivery was overtaken by one; a request admitted since the last
  recorded send found room that is still there. The window then holds at most what
  is charged to `limit` recorded sends, and what straddles its start.
* `DiagnosticsProofs`. `Stricter`: in a finite table some row comes first, and the first
  row that names a class decides (`VerdictIs`, `LeastRow`, `VerdictCases`); each table
  is then reduced to the few facts the others are compared on (`LoginCases`,
  `VerificationCases`, `OperationCases`). `Fits`: `ReportInv` says what a request may
  hold at each await (`Local`) and that a document in the log, or an attempt that was
  read, belongs to a request whose status stays. `Current`: `FileInv` adds that an answered writer has its document in the
  log, that no request writes two in full, and that what a lookup has read is no
  older than what the requests it saw answered have written (`Outcome`). Answered
  requests write no more, so a step of any other request leaves an outcome alone
  (`OutcomeStands`): this is why it does not matter that inserts overtake each other.
* `ProcessProofs`. `Indexed`, `Agree`, `Tolerant`: `StartInv` carries what each
  await has established to the next (`Chosen`, `IndexKnown`, `ReadHolds`).
  `Restored`: as long as no call has crossed another, the silenced calls form a stack
  (`OutputInv`): the bottom has found the process's streams, every other call the
  buffer below, and output goes to the top. A beginning pushes, an end that does not
  cross pops (`Push`, `PopTop`).
* `MemoryStoreProofs`. `InOrder`: appending with the current time keeps a list ordered
  (`StoreInv` adds the types). `Implements`: `Spec => ImplementsContract`, the refinement
  itself. `PutGets` and `PopGets` say what a dict answers after an update; each call of
  the session, of the context and of the lists then maps to a step of the call group
  of the contract (`SessionCallsRefine`, `ContextCallsRefine`, `AuditCallsRefine`), the
  last from `LatestIsNewest`: the end of an ordered list is a newest document.

Every property of a passing run is stated by a theorem, except `Answered`: liveness
and ENABLED are out of the prover's reach, and TLC checks it on two requests with
all operations. The theorems hold for every value of the constants, in particular
for any number of requests, which are used once, and any `MaxTime`. They assume the
named assumptions and, where stated, `NoRacingRefresh`, `NoOverlap` or the
absence of the preflight: `auth_resurrected`, `auth_codes_race` and
`auth_preflight_offline` are the other side of these hypotheses, and the `peak` of
`OvershootBounded` is the other side of `send_race`.

## 5. Not modelled, and the plan

Left out for good: payload contents and Fernet itself (a document holds the name of
its payload, a failing decryption is a failing call); the sanitising of diagnostics
and the redaction of audit metadata, which are text; token comparison, a stateless
check in front of the routes; Pydantic models and the health route; wording of
messages; a wall clock that steps back; `_client` and `memory_events`, which nothing
reads; truncation of stored times to milliseconds; `status` and `test-restore`, which
only read.

`MemoryStore` agrees with the contract for calls that do not overlap and a clock that
does not step back. That is what the tests do with it; it says nothing of
interleavings, which `AuthFlow` models on the deployed store.

`docs/infrastructure-separation.md:24` lists among the guarantees that are implemented
that `INSTAGRAM_PASSWORD` must stay empty, and `docs/security-checklist.md:12` that a
password is rejected during phase 1. The code does neither: `from_env` reads the
password (`config.py:83`), `validate` does not look at it, and the login route uses it.
The settings of `Startup` leave it out, since no property of the model depends on it.

That a process that is up has a usable key, a token outside of the tests and no polling
without the connection is what the guard of `Launch` tests, and is not stated again as
a property.

What is left:

1. A document that never decrypts, so that logout fails each time and only the
   removal ends it.
2. `AuthFlow` with the verdicts of `Classify` in the place of its four classes of
   outcomes.

To run: `tlc -config X.cfg M` with the module and configuration of `PROJECT.json`;
`tlapm M.tla` for a proof module.
