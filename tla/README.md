# TLA+ models of the partner integrations

This directory models the protocol code of the ARMA partner sandbox: what the
programs under `src/` do when requests are lost, repeated, late or
interleaved, when a process restarts, when one write of several fails, and
when mappings change in the middle. Modules are checked with TLC on small
instances, and theorems about them are proved with TLAPS for every instance.

Run TLC with `tlc -config X.cfg M` and the proofs with `tlapm M.tla` for each
module whose name ends in `_proofs`. `PROJECT.json` lists the runs, the line
of source behind every definition, the hazards, and for every property a bug
that would break it.

## The system

| Component | State | Operations | Talks to |
|---|---|---|---|
| ARMA transfer service (`law-shield/arma`) | transfers with a status, keys used, authorizations, reconciliation records, ARMA's mappings | createDraft, authorize, ready, send, reject, resolveReconciliation | the gateway, by one fetch per send |
| Law Shield gateway (`arma-integration.js`, `_integrationSecurity.js`) | the replay guard, in memory | one handler: verify, remember the nonce, fetch, sign the receipt | the processor, by one fetch per request |
| Law Shield processor (`durable/`) | nonces, idempotency bindings, transfers, receipts, audit, replicated directory | one handler, a status endpoint, directory updates | its store, in transactions |
| PATCHES partner server (`patches/lib`) | activations, nonces, idempotency, receipts, events, audit | create, deactivate, revoke, status, health | a downstream, awaited by create |
| ARMA activation service (`patches/arma`) | activations with a status, attempts, reconciliation records | activate, resume, syncStatus, deactivate, revoke, reconcile | the partner server, through a client that retries |
| webhooks (`shared/webhooks`) | delivered events, dead letters; the receiver's nonces, event ids and stream sequences | deliver; verifyWebhook with its guard | one another, through a transport |
| shared SDK (`shared/sdk`) | idempotency registry, replay guard, circuit breaker | resolve/record, check/prune, check/recordSuccess/recordFailure, buildRequest, verifyReceipt, planRetry | its callers |
| partner registry (`shared/registry`) | partners, organisations | register, resolve | its callers |
| simulators (`simulators`) | a synthetic platform made of the shared modules, partners, a catalog of failure modes | receive, execute, emitAndDeliver, the contract runner and its verdict | the shared modules |
| AI governance (`ai-governance`) | engines, envelopes, rulings, reviews, audit | register, create, verify, record a review, decide a protected action | its callers |
| certification (`certification`, `scripts`) | lanes, rows, the report | run lanes, parse, collapse, resolve duplicates, assemble, verify, write | test runners, files |
| observability | spans, counters | | |

What is hard in each, and what makes it correct:

- **Processor.** Nonce, binding, transfer, receipt and audit are five writes
  of one decision, each of which may fail. Correct means that they never
  diverge, that a decision is final, that a repeated request is answered from
  the record, and that a transfer is accepted only for the tenant that the
  directory names at that moment.
- **Gateway.** The handler is suspended in a fetch whose failure says little
  about what the processor did; the guard against replays is lost at a
  restart. Correct means that a signed receipt is true, and that no request is
  decided twice.
- **Transfer service.** A send is suspended between the stored SENT and the
  answer. Correct means that an open outcome is never sent again blindly, that
  a human sees it, and that what Law Shield takes is what a human authorised.
- **Partner server and activation service.** Both sides suspend in the middle
  of an operation, and both keep a state of the same activation. Correct
  means at most one active activation per intent, that revocation is final,
  and that an open outcome is resolved eventually.
- **Webhooks.** Attempts of unknown fate arrive late, twice or never, and two
  clocks differ. Correct means that a partner applies each stream without gap
  or repetition, and that an outcome the service reports is true.
- **Shared SDK and simulators.** Windows, lifetimes and thresholds meet at
  their limits; faults are combined. Correct means that nothing runs twice
  within its protection, that a broken downstream is left alone, and that a
  failure mode passes for the reason it declares.
- **AI governance.** Evidence is kept by callers, altered, and outlives the
  store that issued it. Correct means that only an eligible human who has
  reviewed the very output acts on it, and that everything is audited.
- **Certification.** A runner may die at any line. Correct means that nothing
  passes that was not tested, and that no failure disappears.

## The modules

| Module | Models |
|---|---|
| `LawShieldProcessor` | `durable/processor.js` and `durable/store.js` |
| `LawShieldGateway` | the gateway in front of the processor (extends it) |
| `LawShieldGateway_proofs` | the theorems of the processor, and those of the gateway, which rest on them |
| `Disclosure` | what the lane promises: authorise, disclose at most once, confirm only what was disclosed |
| `LawShieldLane` | the transfer service in front of the gateway (extends it), and the refinement of `Disclosure` |
| `LawShieldLane_proofs` | its theorems, the refinement among them |
| `PartnerServer` | `patches/lib/server.ts` over `store.ts`, with the checks of `policy.ts` and `security.ts` |
| `PartnerServer_proofs` | its theorems |
| `ActivationService` | `patches/arma/activationService.ts` over `armaStore.ts`, and the retry loop of `patchesPartnerClient.ts`, in front of the partner server (extends it) |
| `ActivationService_proofs` | its theorems, which rest on those of the server |
| `EventStream` | what a partner may rely on when it consumes webhooks |
| `WebhookDelivery` | `shared/webhooks/delivery.ts` against the verification and the guard of `events.ts`, and the refinement of `EventStream` |
| `WebhookDelivery_proofs` | its theorems, the refinement among them |
| `PartnerRegistry` | `shared/registry/partnerRegistry.ts`, a pure module |
| `SyntheticPlatform` | `receive` of `syntheticPlatform.ts` over the modules of `shared/sdk` (extends the registry) |
| `SyntheticPlatform_proofs` | the theorems of the shared guards, of the span and of the catalog |
| `FailureModes` | the scenarios of `behaviors.ts` and the catalog of `failureModes.ts` |
| `ContractRunner` | `partnerSimulator.ts`, the webhook phase and the span of the platform, and `contractRunner.ts` (extends the two) |
| `Governance` | `ai-governance/` |
| `Governance_proofs` | its theorems |
| `Certification` | `certify.ts` and the driver `generate-certification-report.mjs` |
| `Certification_proofs` | its theorems |
| `MC...` | constants of the instances that TLC checks |

### LawShieldProcessor

`processTransferRequest` is synchronous once its body is read, so a delivery
is one step. `Deliver(e, n)` is one disjunct per path through the handler, in
the order of its guards: kill switch, envelope, timestamps, nonce, idempotency
resolution, business checks. `FailTransaction` is every way a transaction can
throw: a fail point at one of its writes, or a guard of the store; `RolledBack`
restores the snapshot. A payload stands for its hash, the policy is a constant
function of it, and error codes are kept where callers treat them differently.
The audit trail is the set of decisions. `transfers` has, besides the transfer
ids, the synthetic ids under which conflicting deliveries are quarantined. The
directory starts as any element of `Seeds`.

Not kept: the status endpoint, which only reads, and diagnostic audit events.

### LawShieldGateway

`signed` is every request ever signed; the network may deliver any of them at
any time and any number of times, so loss, delay, reordering and repetition
need no action of their own. `HandleRequest(r)` has the handler's steps: the
perimeter (`RefuseRequest`, `RefuseReplay`, `RefuseUnconfigured`), `Forward` up
to the await, and after it `Respond`, `BodyLost` or `FetchFails`. A request
given up may still arrive at the processor (`orphans`). The unit of time is
the skew the gateway tolerates, minutes, while a fetch is given up after ten
seconds: the clock waits for requests under way (`GatewayTick`).

### LawShieldLane

One action per operation of the transfer service; `send` is `Send` up to its
await and `Conclude` after it. `Conclude` follows `classifyGatewayFailure` and
`computeBackoff`. The answer of the gateway and the step of send that consumes
it are one step; an answer that is lost or late is `SendThrows`. `RestartArma`
drops the suspended sends and keeps the store. `ReuseIds` says whether a caller
names the id of an existing transfer, which `createTransfer` does not check.

### PartnerServer

A handler runs without a break, so that a request is one step, `Deliver(r, c)`,
where `c` numbers the copies the network may make of it. `Arrive` has one
disjunct per way through the handler, in the order of its guards. Only a create
under a fresh key is split: `Suspend` is the handler up to `awaitDownstream`,
`Resume(h)` what follows it, with a downstream that agrees, refuses or throws and a
transaction that commits or is rolled back. What the handler does not look at
again after the await, the model does not look at either; the nonce in
particular is looked up before the await and registered after it.
`RestartServer` loses the suspended handlers and keeps the store.

A partner has one client, signatures are genuine, and all that authentication
reads of a partner is one bit, its `standing`. A body is an intent and a key and
stands for its hash. `activatable` and `entitled` are the outcome of the
authorization checks for a create and for a change. Receipts, events and audit
are sets with one entry per operation. Any admitted request may be refused by
the rate limiter. Time is counted in units of the skew.

### ActivationService

An operation runs without a break up to its request, and is then an entry of
`calls` until the request is answered or given up. `Operate(w, a)` has the
operations (`activate` as `ActivateNew` and `ActivateAgain`, `reconcile`,
`resume`, `syncStatus`, `deactivate` and `revoke`), `Continue(w)` what happens
to a suspended one: `RetryCreate` is a turn of the client's loop, `GiveUp` a
timeout or a lost or unverifiable answer, `Conclude...` the rest of the
operation. An answer of the server reaches whoever waits for it in the same
step (`ServerStep`); that it is lost is `GiveUp`, which is possible after the
answer too. The process may stop between the transactions of one operation
(`ProcessStops` in `SendCreate`, `ConcludeCreate` and `ResumeSent`) or in an await
(`RestartService`).

An ARMA-ACT id is named after the call of `activate` that may create it, and an
attempt of the client after the record, the attempt's number and its kind, as
the code draws a fresh request id and nonce for each. What the model leaves out
is listed at the head of the module; the clock stands still, so that the server
finds no request of ARMA's too old.

### WebhookDelivery

`deliver` makes one attempt after another and is split at each: `Deliver`
starts a call, and of the attempt under way `Acknowledged`, `RefusedByPartner`,
`TimeOut` and `FailCleanly` are what the transport may report. A message that
has left stays on the `wire` and may arrive late and again (`ArriveLate`).
`Accept` and `Refuse` are `verifyWebhook` with `check` and its pruning. Only
differences of times matter, so that the clocks are replaced by ages, which
stop at the first value past their limit; `Offsets` is by how much the sender's
clock is ahead or behind. `Stream` maps the guard to `EventStream`.

### SyntheticPlatform, FailureModes, ContractRunner

`receive` is synchronous, so `Receive(r)` is one step with one disjunct per
stage that stops a request, in the order of the code. The shared modules are
modelled where the platform calls them: `Replayed`, `Burn` (`ReplayGuard`),
`IdempotencyKind`, `RecordConflict` (`IdempotencyRegistry`), `Allowed`,
`AfterSuccess`, `AfterFailure` (`CircuitBreaker`), `Resolution` (registry). A
scenario fixes world and faults. In `PlatformSpec` a free network presents
signed requests whenever and as often as it likes; in `Spec` of
`ContractRunner` a driver executes a scenario, `drive` being where it stands
and `phase` the webhook phase that follows. The transport of this phase is
scripted, so that a call of `deliver` is one step there; its concurrency is the
matter of `WebhookDelivery`.

`FailureModes` states every mode of the catalog as the scenario it builds from a
well-behaved one and the code and surface it declares. `CatalogPasses` compares
these declarations with what the run of the scenario shows.

### Governance

Every operation is one step, as the code is synchronous: `RegisterEngine`,
`GuardAiOutput`, `GuardExternalData`, `AttemptMutation`, `CreateProvenance`,
`CreateRuling`, `RecordHumanReview` and `Evaluate`. Each writes its audit record
first and names it. `ReasonCode`, `HumanCode` and `RulingCode` are the early
returns of `evaluateProtectedAction`. `RestartStore` begins an empty store under
the same integrity key; `held` is what callers keep from it, and `Altered` what
they may make of it. An integrity tag is the record of the values it binds, so
that altering a value breaks it and replaying an envelope does not.

### Certification

A runner prints line by line and may be cut off at any line (`Exits`);
`Output` is what it prints of a suite, two lines for each of its `Points` after
whatever the tests print themselves.
`Outcomes`, `Summary` and `WellFormed` are `parseTapStream`, `Collect` is
`collectLane` with its problems, its collapse and the passes it withholds,
`Settled` what becomes of the rows of one id, `Resolved` the entries that remain
and `Assembled` the report. `Verifies`
is `verifyReport`; a sum over lanes or categories is the number of units it adds up
(`SumOver`). The driver may stop at every step (`Stop`). A name stands for the
`testId` after its cap of 256 characters (`certify.ts:428`), which the model
leaves out: two tests whose names agree that far share a name here.

## The runs

| Run | Checks | Bounds and why they are enough |
|---|---|---|
| `gateway` | `TypeOK`, `RecordsAgree`, `DecisionsFinal`, `AnswersStable`, `TenantIsolation`, `GatewayTypeOK`, `ReceiptsTrue`, `ForgetsOnlyStale` | the processor alone while the gateway is shut (`Direct`): two keys and two payloads for the same transfer ids and two nonces, so every pair of first and later delivery in every order with refusals, conflicts and failures between; or two tenants and an incident with its case, with every change of the directory. Behind an open gateway (`Relayed`): two requests that share a transfer but neither key nor payload, two nonces, dates one and three skews ahead, a gateway with and without its secrets, a clock that runs past the nonce window. `DirectOrRelayed` does not mix the three, which the theorems do |
| `lane` | `LaneTypeOK`, `AmbiguityRecorded`, `KeepsPromise`, `NeverResentBlindly`, `FollowsStateMachine` | one incident-scoped transfer, two nonces (a send and a retry), one retry, one step of the clock, an authorizer and an AI with the same role, restarts of both ends, a gateway with and without its receipt secret; the constraint `Attended` leaves cases and authorizers of the processor alone, which `gateway` varies |
| `lane_perimeter` | `PerimeterRejectionNeverLeft`, violated | the same, with a clock that stands still |
| `server` | `TypeOK`, `RegistriesConsistent`, `AnswersMatchIntent`, `CleanMeansNothing`, `ProcessedNeverReplayed`, `RevocationSettles` | three creates under one key, two of them with the same body, a deactivation and a revocation of what the first creates; `RepeatedOrOnce` allows four deliveries of different requests, or the first create twice with both changes; requests dated one and two skews ahead and a clock that runs past the nonce window; a directory that lapses, suspends or closes in any order |
| `server_revoked` | `RevocationSticks`, violated | the same requests, a directory that does not change |
| `activation` | `ServiceTypeOK`, `IdentityTrue`, `EndedMeansEnded`, `RejectionMeansNothing`, `ResendsJustified`, `IntentsSettle` | one intent with two creates, one deactivation and one revocation; two attempts of the client, two status queries; one operation in flight at a time, with restarts at every await and between transactions; kill switch, suspension and lapse of the partner; each request delivered once |
| `activation_revoked` | `RevokedForGood`, violated | one intent, a directory that does not change |
| `activation_resent` | `NoBlindResend`, violated | one intent, called for with a key and without one, a directory that does not change |
| `webhooks` | `NonceOutlivesTimestamp`, `OutcomesTrue`, `ImplementsEventStream`, `GapIsFinal` | three events of one stream, enough for one to be lost with a successor on either side; the second delivered twice; a sender's clock at each end of the skew, ages one past every limit; two attempts |
| `governance` | `AllowedMeansReviewed`, `AdvisoryTrue`, `RecordsAudited` | four audit records in one life of the store, which is what an action allowed on an advisory takes, or two lives of two and three; reviewers of two organisations, one unauthenticated, one no human; two versions of an engine; requests of every class |
| `governance_freshness` | `AdvisoryFresh`, violated | one life, one step of the clock, no skew |
| `certification` | `ProcessedOnce`, `NoSecondExecution`, `BreakerHolds`, `CatalogPasses`, `SpanTrue`, `PassMeansTested`, `FailuresVisible`, `ReportVerifies` | one of the two drivers of the partner tests at a time. The contract runner: three requests under one key and two bodies, at all times up to one past the replay window, breakers that open at the first and at the second failure, an entitlement that runs out on the way; all failure modes of all simulators; 3456 combinations of the fault plans, driven to their end. The driver of the report: two files of up to two tests with every fate, also of the same name, one that prints what reads like a counter, cut off at every line; a matrix with duplicates, conflicts, foreign rows or an exception; a missing and an undeclared file |

Two runs ask about two systems, and each of their behaviours is one of either
(`MCSpec`): in `gateway` the processor alone or the processor behind the gateway,
in `certification` the contract runner or the driver of the report. The theorems
are about the specification of each system by itself.

What they show:

- `RecordsAgree`: the five writes of a decision never diverge, whichever of them
  fails: a binding has its transfer, a receipt its acceptance, a nonce its
  decision, and a transfer and its key report one outcome.
- `DecisionsFinal`, `AnswersStable`: no later request rewrites a decision, and
  a known key is answered from the record.
- `TenantIsolation`: acceptance is decided on the directory of that moment.
- `ReceiptsTrue`: a signed receipt is true however the fetch fails, and the
  integrity check of the gateway is never what saves it.
- `ForgetsOnlyStale`: the nonce window is wide enough for post-dated requests,
  although the gateway forgets everything at a restart.
- `KeepsPromise`: the whole lane implements `Disclosure` under the mapping in
  `LawShieldLane!D`. `NeverResentBlindly`, `AmbiguityRecorded` and
  `FollowsStateMachine` are the rules of the transfer service for open outcomes:
  no transfer is sent while another send of it is out, nor before a human has
  resolved an ambiguous outcome of it. (Once it is resolved the property forbids
  nothing, and the code sends nothing either; see below.)
- `RegistriesConsistent`: the partner's five registries agree whichever write
  fails and however creates overlap in the await, and no activation leaves ACTIVE
  without an operation of its own on record.
- `AnswersMatchIntent`, `CleanMeansNothing`: what the client concludes from an
  answer is so: a success is about its own body and key, and a failure that it
  retries under fresh ids left nothing behind; what there is of the request was
  left by another delivery of it.
- `RevocationSettles`: once an activation is on record and no delivery of its
  create waits for the downstream any more, none ever will, and what is revoked
  then stays revoked. `ProcessedNeverReplayed`: late registration of nonces opens
  no way back for what was processed, however often the network repeats it.
- `IdentityTrue`, `EndedMeansEnded`, `RejectionMeansNothing`: what ARMA takes
  for final is so at the server. A rejection is excepted if reconciliation, or a
  call with another key, had the intent sent anew.
- `ResendsJustified`: a create is sent only if no earlier one of the record left
  anything at the server, or after `reconcile` has made its bounded number of
  status queries, or if the intent has a second record. The code counts every
  query: one that timed out, was lost or was refused moves
  `statusQueryAttempt` on as a 404 does, so that a single 404 after failed
  queries is enough for the fresh create.
- `IntentsSettle`: an operator who repeats `resume` and `reconcile` brings
  every intent to ACTIVE or to a final state.
- `ImplementsEventStream`, `GapIsFinal`: a partner applies each stream from some
  first event on, one by one; and what it has passed over stays out, so that an
  event given up shuts its stream for good once it is too old to be verified.
- `OutcomesTrue`: no call sends a second message while the fate of one is open,
  and DELIVERED, RETRY_EXHAUSTED and the collapse of a duplicate are true.
- `NonceOutlivesTimestamp`: window and skew fit, whenever the guard prunes.
- `ProcessedOnce`, `NoSecondExecution`, `BreakerHolds`: the three shared guards
  hold at their limits: the last instant of a window, of a record's life and of
  a reset timeout.
- `CatalogPasses`: every failure mode ends with the declared code on the
  declared surface, and not merely somewhere. `SpanTrue`: under any combination
  of faults the span says what was executed and handed over.
- `AllowedMeansReviewed`, `AdvisoryTrue`, `RecordsAudited`: the promise of the
  governance layer, with evidence that is altered, mixed up, or of an earlier
  life of the store.
- `PassMeansTested`, `FailuresVisible`, `ReportVerifies`: the promise of the
  report, however its runners end.

Five runs end in a violation, each a disagreement of the code with its own
comments or documentation, described under `findings` in `PROJECT.json`:

- `lane_perimeter`: a transfer rejected because it "never left ARMA" may have
  been accepted: the gateway fails after the processor has committed.
- `server_revoked`: a create that arrives twice within its await passes the nonce
  check twice, and the later copy makes ACTIVE again what was revoked between
  the two commits, although "a REVOKED activation cannot be reactivated"
  (`server.ts:257`).
- `activation_revoked`: an intent revoked locally while its create is in flight
  gets another status when the create concludes.
- `activation_resent`: with a PENDING record of the same intent under a caller's
  key, `activate` without a key sends again a create whose fate is unknown,
  although "NO re-send of the activation create happens until reconciliation
  resolves" (`activationService.ts:18-19`).
- `governance_freshness`: verification of an advisory is documented to look at
  its freshness; only its creation does.

Further facts the models show, which no property states because the code
promises nothing else:

- Two creates under one key that overlap in the await become two ACTIVE
  activations; the second binding replaces the first.
- A transfer whose reconciliation a human has RESOLVED is never sent again.
  `reconciliationReopenApproval` (`reconciliation.js:48-57`) is "Used by
  transferService when a resolver marks RESOLVED and requests re-send" and
  answers `mayResend: true`, but nothing calls it: the transfer stays in
  RECONCILIATION_REQUIRED, which only `reject` leaves. The re-send that the
  comment describes does not exist, so that there is no step to model.
- The identity that `reconcile` asks for is the id of the first attempt; a
  create that persisted under the second is not found.
- A call without a key sends a create of its own for an intent that another
  record tracks as PENDING under a caller's key, so that one intent may have two
  activations. This is why `ResendsJustified` and `RejectionMeansNothing` except
  an intent with a second record.
- The idempotency registry lets an operation run under an expired key and then
  refuses to record it if the request is another one: the operation has been
  executed and the caller gets an exception.
- A span is RESOLVED although the event that says so was dead-lettered.
- A review is not used up: it authorises the same action on the same output as
  often as its reviewer asks.
- Two failing tests of one name in one file become one NOT-TESTED row.

Three bounds matter for what the passing runs say. `lane` has `ReuseIds = FALSE`:
`createTransfer` does not check that the id is new, and with reused ids
`FollowsStateMachine` fails, as the answer to a send then moves the draft
that has replaced its transfer. `activation` has `Workers = {1}`: with two
operations in flight, `EndedMeansEnded` fails, since an operation stores its
conclusion over what another has concluded meanwhile, and the comments of the
code do not say that operations may overlap; what does hold then is `EndedWitnessed`,
which is proved. `activation` has `Locals = {a1}` and `Copies = {1}` to keep the
run small: `ResendsJustified` and `RejectionMeansNothing` are proved for any number of
records, operations and deliveries, and TLC finds no violation of them with two
records or with two copies either. A second record and a second delivery are
excepted in these properties by name, because there the code does something
else: the runs `activation_resent` and `server_revoked` show what.

### Fairness

Only `activation` assumes fairness, in `Persistence`, and only `IntentsSettle`
rests on it. A suspended operation goes on when it is answered or when its time
is up: the client has a timer on every request. The operator repeats `resume`
and `reconcile` on what is open (strong fairness, since the operation is possible
whenever no other is in flight); of infinitely many queries some are answered,
and of these some run to their end before the process stops. Nothing else is
fair: the server may stop, refuse and lose, and creates need never arrive. The
premise `<>[]LetIn` says that in the end the kill switch is off and the server
lets ARMA in. Two ends are excepted in `Settled`: an activation that the server
has deactivated or revoked leaves the record in RECONCILIATION_REQUIRED for
ever, as `reconcile` handles no such answer, and the bound on creates may be
used up. The lane has no progress to promise: a transfer whose process stopped in
SENT, or whose outcome is open, has no way on in the code.

Every run checks for deadlock. In the lanes it cannot occur while a process may
restart or an operator may change a directory or throw a switch; what does get
stuck there is an intent or a transfer, which is what `IntentsSettle` and
`AmbiguityRecorded` are about. A contract run and a certification come to an end,
and the bounded log of `Governance` fills up: `Done`, `Rest` and `Full` are the
steps that do nothing then, so that every other stop would be reported.

## The proofs

The first part of `LawShieldGateway_proofs` proves, for every choice of the constants that
satisfies the assumptions named in `LawShieldProcessor`, type correctness and
every property of it in the run `gateway`. The
assumptions say that the requests are envelopes, that the policy and the
directories have their types, that the ids of quarantined conflicts differ
from transfer ids, and that `None` is no record.

The invariants are not inductive one by one: that a binding is backed by a
receipt after an acceptance needs that an accepted transfer has one already
(the store does not create it twice), which needs that a transfer record was
written with its binding. `IInv` is `TypeOK` and the parts of `RecordsAgree`,
which together are inductive. The proof has one lemma per action group: deliveries
that write nothing, deliveries that record a conflict, a duplicate, a refusal
or an acceptance, and the steps outside the registries. The action properties
follow from the same invariant.

Its second part first shows that a step of the gateway is a step of
the processor or leaves it alone (`GatewayRefinesProcessor`), so that `IInv`
holds behind the gateway. What the gateway needs beside it comes in three
parts, each with its own lemma per step:

- `Pending`, for the types: a handler that waits has just had its nonce
  remembered, so the same request is not forwarded a second time, and an
  answer belongs to a fetch that is over.
- `Truthful`, for `ReceiptsTrue`: an answer under way
  that carries a receipt names the transfer and the payload of its request, and
  the processor holds that receipt. It stays true because decisions are final
  (`Finality` of the processor, step by step).
- `NoncesTimely`, for `ForgetsOnlyStale`: a nonce was registered at most one
  skew before the date of its request. With `WindowAssumption`, which is the
  definition of NONCE_VALIDITY_WINDOW_MS, a nonce that is pruned belongs to a
  request more than one skew old.

`LawShieldLane_proofs` proves every property of the run `lane`, the refinement of
`Disclosure` among them, for any number of transfers, drafts, retries and restarts
and for callers that name every transfer with an id of its own (the premise
`~ReuseIds`; with reused ids the theorems are false, as told above). A step of the
lane is a step of the gateway or leaves it alone (`LaneStepRefines`), so the
invariants of gateway and processor carry over (`Lower`); for that, `SenderAssumption`
says that the envelopes ARMA can build are among the requests the gateway may see.
`Upper` is what ARMA adds: the authorisation on record is the one in the transfer
(`RecordsSound`), every signed request still matches the record it was made from
(`SignedFromRecord`), a suspended send is alone and its transfer SENT (`SendsAlone`),
and a reconciliation record belongs to a transfer that is not sent again
(`ReconciledStays`). Two parts tie the ends together: Law Shield holds nothing that was
not signed (`TakenFromSigned`), and what is ACCEPTED was taken (`AcceptedIsTaken`),
which rests on `ReceiptTrue` of the gateway. Each operation has a lemma that it makes a
`GoodStep`; the refinement then reads off the step whether it authorises, discloses,
confirms or stutters.

`PartnerServer_proofs` proves type correctness and every property of the run
`server`. The assumptions are that requests, directories and records have
their types, that every request has an id and a nonce of its own, and
`WindowAssumption`, the definition of NONCE_VALIDITY_WINDOW_MS. There are three
inductive invariants:

- `RegistryInv`, for `RegistriesConsistent`: the registries agree
  and an activation is what the create with its id asked for (`Attributed`).
  Without the latter, a second commit of one create could not be told from an
  overwriting of another's activation. `AnswersMatchIntent` follows step by
  step.
- `NonceInv`, for `ProcessedNeverReplayed`: a nonce was dated at most one skew
  before its request (`Dated`), so was the arrival of a create that is suspended
  (`Patient`), and what was processed is held or out of date (`Held`). It needs
  no bound on repetitions.
- `DeliveryInv`, for `CleanMeansNothing`: what is suspended has arrived, each
  delivery has one handler, and what is on record is the work of a delivery that
  is over. A clean answer comes at the end of a delivery, so that an entry of the
  same request needs another one. With `KeysBound`, that an activation on record
  has its key bound, it yields `RevocationSettles`: a create under a bound key is
  answered from the record, so that none is suspended anew, and nothing but a
  suspended create writes ACTIVE. Neither has a premise about the network.

`ActivationService_proofs` first shows that to the server the service is a
client that behaves (`ServiceRefinesServer`): a step of the service alone is a
visit to the directory that changes nothing. All theorems about the server
therefore hold for the two together. `ServiceInv` is what the service adds: the
identity stored by a create is the id of an attempt of its own record, a known
identity is an activation with the record's intent and key, and a reply in flight
reports a success or an activation only if it is there. The last part is what
makes the invariant inductive, since a reply is read after other steps; it stays
true because the server forgets no activation (`ActivationsStay`). It yields
`IdentitiesTrue` and `ServiceTypeCorrect` for any number of intents, operations
in flight, attempts and repeated deliveries, where the run has one of each.
The assumptions name the client's way to draw ids (`PoolAssumption`) and the
types of the parameters.

On top of it rest three theorems about the outcome of an intent. None has a
premise beyond the assumptions: records, operations and deliveries of a request
may be any number, and operations may overlap.

- `CarefulInv`, for `ResendsJustified` and `RejectionMeansNothing`: unless
  reconciliation has asked as often as it must or the intent has a second record
  (`Asked`, which is for good), an intent whose record is fresh, prepared or
  rejected is quiet, that is, every create of it has had a delivery that left
  nothing; and a create whose answer is awaited is in one pair of hands and the
  only one of its intent that can be processed (`Careful`). `Listed` says that the
  service goes through the records in the order of their creation and misses
  none. That a delivery which left nothing stays so rests on `DeliveryInv` and
  `RegistryInv` of the server (`DeadStays`).
- `EndingInv`, for `EndedOnRecord`: a record that is REVOKED or DEACTIVATED under
  an identity has a receipt of just that operation at the server, for an
  activation of its own intent and key, and so has an answer in flight that says
  so. This is what is left of `EndedMeansEnded` when operations overlap: with two
  in flight, TLC finds a deactivation on its way while a resend gives the record
  another identity; the answer then marks the record DEACTIVATED, truly as to the
  old identity, while the new one is active.

`WebhookDelivery_proofs` proves every property of the run `webhooks`, for any
events, streams, clocks, schedules and numbers of calls, and every window of at
least two skews. `IInv` has a part per actor: `CallInv` (one call under way, for an
event that was built, with an attempt that has sent nothing yet), `NonceInv` (the
age of a nonce is at most one skew beyond the age of its envelope, and what is
not past the window is held) and `StreamInv` (the number of the guard is the last
one applied). `NonceInv` is the argument for the width of the window: an envelope
that still verifies is at most one skew old, so its nonce is at most two. `Gapless` is the
refinement: every step of delivery maps to a step of the stream or a stutter.

`SyntheticPlatform_proofs` proves the three guards of the shared SDK, first for
`PlatformSpec`, that is before any network, then for `Spec` of `ContractRunner`,
which the run `certification` follows while the driver of the report rests, and
with it `SpanTrue`; for any
scenarios, lifetimes, thresholds and windows of at least two skews. `SignedInv` says that a nonce names
one request; `ReplayInv` that a nonce was burned within a skew of its request's
date, from which it follows that a request in date whose nonce was burned is
still remembered; `RecordInv` that an operation on record is outlived by its record;
`BreakerInv` that the breaker has counted every failure in a row and is open since
the last of them.
`RunInv` adds what the driver does (`DrivenInv`): an operation executes at most once
in all the presentations of a scenario (`AcceptedOnce`), each of which takes the
next nonce (`WithinNonces`); nothing is handed over before the phase of the events
opens, and while it is open exactly the events before the one in hand were handed
over, once each (`HandedOverInTurn`). From the last two follows what the span says
when it is written. `DrivenAssumption` names what a scenario of the code
is: enough nonces for its presentations, a transport that always answers, flaws and
faults from the catalog. TLC evaluates it on the run.

`CatalogHolds` proves the catalog itself. It goes in three parts. `CatalogSorted`
computes every mode of `FailureModes` from its injector and finds it of one of a
few kinds (`Sorted`): its request is stopped with a code that `StopCode` reads
off the scenario (switch, signature, then the ladder of the registry, by
`LadderTells`), it is answered at once, it is retried, or what matters is its
webhooks. `VerdictInv`, with `RunInv`, is inductive for each kind: `StoppedInv`, `HealthyInv`,
`UnavailableInv`, `FailsOnceInv` and `TrippingInv` follow the operation through its
presentations, `DeliveringInv`, `ExhaustingInv` and `ReconcilingInv` the webhook
phase through transport, guard and reconciliation. `VerdictTells` reads the verdict off
it when the driver is done. A single invariant would not do, as what a mode must show
at the end depends on all it was given at the start. `CatalogAssumption` is what the
catalog takes for granted of the modules it tests: ten minutes of injected
drift are beyond the skew of five (`failureModes.ts:187`, `canonical.ts:20`), and the
five presentations of `retry-exhaustion-schedule-bound` reach the end of
`RETRY_SCHEDULE_MS` while a first failure does not. With a longer schedule
that mode would fail, which is the mutant of the property.

`Governance_proofs` proves every property of the run `governance`, for any
actions, policies, engines, reviewers and evidence. What is inductive is about the
store: what callers hold is sealed (`HeldSealed`), a review on record was made by
an eligible reviewer and names an earlier audit record (`ReviewsEligible`), every
record has its audit entry (`StoreAudited`). A decision is then judged in the step
that makes it: `AllowedEvidence` reads off the early returns what an allowed
request must have come with, and `NotAltered` that an envelope whose tag fits its
values is one that was given out.

`Certification_proofs` proves every property of the report in the run `certification`, for any
manifest, files on disk, tests, printed counters and place where an output is cut
off. The lanes are not explained by the last step but by all of them, so the
inductive invariant `IInv` keeps, for every lane, what made it (`LaneTrue`): the suite
and the cut behind a file, the rows the matrix handed over, or the file that was
missing or undeclared; and that no two lanes have one id (`LanesApart`). The rest is
about values. `OutputIs` and `LineIs` say where each line of an output is; from
them, a lane that is not collapsed comes of a run that was seen as far as its plan
(`CleanRun`), whose count fits the declared one only if no file died, whatever a
test printed among the counters; and no detail after a failed test is taken for its own
unless it is (`FailedLine`). `SettledIs` says what settling leaves of an id, and
`SumOfSizes` that sums over lanes or categories count every row once, since every
row has one lane and one category. The assumptions: a file is declared once, with at
least one test; a test may print counters but no results, and has not the name of the row
that stands for its file.

Only model-checked: `IntentsSettle`, since liveness under fairness is beyond the
prover, and `EndedMeansEnded`, which holds of one operation at a time only; without
that bound its theorem is `EndedOnRecord`. Every other property of a run that
passes is proved, those of `lane` for callers that reuse no id.
The runs that expect a violation are counterexamples and need no proof.

## Not modelled

- Redaction, envelope validation rules that depend on the text of a payload,
  header parsing, HMAC and SHA-256: a request verifies or it does not.
- The event hash chain and the audit trail of ARMA: no operation reads them.
- Of the partner server: the reading routes but the status of an activation,
  rotation of credentials, the rate limiter's arithmetic, signing of receipts.
- Of the activation service: ARMA's organization mappings and preflight
  references, whose refusals leave only an audit entry; discovery.
- Of the webhooks: signing and the sanitizing of data. Of the shared SDK: version
  negotiation, health documents, correlation headers, the delays of a schedule.
- The circuit breaker under callers that overlap: every caller in `src/` checks,
  calls and records in one synchronous step, so HALF_OPEN never outlives it.
- Observability but for the status of a span; the rendering of evidence, of the
  report and of the OpenAPI documents: text without a state.
- Of the governance layer: the scans of its two guards, which are constants of
  the model, and the checks of the form of fields.
- Redaction of ARMA, the readiness and health answers, table declarations: pure
  functions and constants.

## Plan

1. Done: the Law Shield lane, from the durable processor outwards, with the
   theorems of the processor and the gateway.
2. Done: `PartnerServer` and `ActivationService`, with the theorems of the
   server, the refinement and the safety properties of the service.
3. Done: `WebhookDelivery` with `EventStream`, the shared SDK behind the
   synthetic platform, the contract runner with the whole catalog, `Governance`
   and `Certification`, with the theorems of each, the catalog included.
4. Done: the theorems of the lane, with its refinement of `Disclosure`.
5. Done: the theorems of the server and the service without premises on the
   network, and counterexamples for what the comments promise beyond them.
6. Open: a run of `ActivationService` with two operations in flight, once the
   code says which of two outcomes wins.
