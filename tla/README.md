# Verification of byods-webhook-server

This directory holds TLA+ models of the server, the TLC runs that check them on
small instances and the theorems TLAPS proves about them for every value of
their constants. Source paths below are relative to the repository's root.

## 1. The system

The server is a FastAPI process, run as several ECS tasks behind a load
balancer. It keeps its durable state in one DynamoDB table and talks to the
Webex API through the `webex-byova` SDK. Everything runs on asyncio: between two
`await`s nothing else of the process runs, at an `await` anything may.

| Component | State it keeps | Operations | Talks to |
|---|---|---|---|
| Webhook handler (`src/webhooks/routes.py`) | none of its own | `POST /webhooks/webex` | SDK, token storage, auto-registration, audit |
| Token storage and org profile (`src/persistence/token_storage.py`, `org_repository.py`) | `ORG#o / CREDS`, `ORG#o / PROFILE`, `INTEGRATION / CREDS` | set, get, delete of tokens | table |
| Data source auto-registration (`src/webhooks/datasource_register.py`, `src/byods/service.py`) | Webex: an org's data sources | check the URL, create | Webex |
| Data source CLI (`scripts/manage_datasources.py`) | same | list, get, create, update, delete | Webex |
| Rate limiter (`src/common/middleware.py`) | `_hits` per client, in memory | admit or refuse | handler |
| Catalog repository and CLI (`src/persistence/catalog_repository.py`, `scripts/manage_virtual_agents.py`) | `CATALOG / AGENT#…`, `CATALOG / META` | seed, list, replace, add, update, remove, set-default | table |
| Discovery (`src/byova/server.py`, `sdk_patch.py`) | cached catalog of an instance | load at startup, refresh on `ListVirtualAgents` | catalog |
| Media stream (`sdk_patch.py`, `handlers.py`) | session and turn of a call, in the SDK | `ProcessCallerInput`, event handlers | SDK |
| Integration OAuth (`src/webhooks/integration_bootstrap.py`, `oauth_callback.py`) | `INTEGRATION / CREDS`; Webex: webhooks | bootstrap, callback, ensure webhooks; the SDK's refresh of expired tokens | SDK, table |
| Startup and readiness (`main.py`) | `app.state.integration_ready`, `persistence_ready` | `lifespan`, `GET /ready` | all of the above |
| Audit log (`src/persistence/audit_repository.py`, `scripts/audit_webhooks.py`) | `ORG#o / AUDIT#…` | append, list | table |
| Release pipeline and service (`infra/pipeline_stack.py`, `stack.py`, the buildspecs) | CodePipeline's runs, CloudFormation's template, the ECS service and its tasks, the tag `latest`, `deploy-meta/env` | Infra, Build, Deploy, Verify with rollback | AWS |
| Encryption, settings, factories, logging | none | pure helpers | |

What is hard here: no table operation is conditional or transactional, so every
logical write of more than one item can be seen half done, cut short by a crash
and mixed with another instance's; a value read before an `await` is used after
it; Webex repeats and reorders deliveries; check-then-create against Webex runs
in several processes at once; flags computed at startup outlive what they
describe; releases overlap stage by stage over one service and one image tag.
`PROJECT.json` lists these hazards at their lines.

What makes each component correct:

- *authorization*: the table ends with the consent in force, CREDS and PROFILE
  agree, a delivery is acknowledged only when it was applied, an org gets one
  data source per URL;
- *rate limiter*: no 60 seconds see more than the limit pass, and pruning loses
  nothing;
- *catalog*: discovery sees valid catalogs only, rewrites repair, concurrent
  seeding is harmless, seeding survives crashes;
- *integration*: ready and success mean that tokens and webhooks are there, a
  re-authorization is not undone, a start comes to serve, and to be ready with a
  grant in force and a table that answers;
- *data sources*: a command takes effect once and its exit code says what
  happened, whatever others do meanwhile;
- *audit and scan*: what an operator reads of an org is what the table holds;
- *releases*: a green run has verified what it released, nothing older comes
  back, production is up again after every run that gets as far as its rollout;
- *media*: one stream at a time serves a call, a stream that is over frees it,
  nothing that was put is lost and no side waits for the other for good.

## 2. Modules

| Module | Models | State and actions |
|---|---|---|
| `OrgAuthorization` | `webex_webhook` and everything it calls | A `Task` is one request; `pc` names the `await` it is at. `PutCreds`/`PutAuthorized` are the two puts of `set_service_app_tokens`, `DeleteCreds`/`PutDeauthorized` the two calls of `delete_service_app_tokens`, `CheckUrl`/`CreateSource`/`RegisterFailed` are `register_datasource_for_org`, `ServerError`, `NotAuthenticated`/`AuditFailure` its error paths, `RecordAudit`/`Acknowledge` its end. Webex's side (consent, retries, giving up) is external. |
| `ConsentRegister` | what authorization promises for deliveries in turn | abstract: an org's row is one register that a change replaces as a whole or visibly tears, and a change is answered only while the row shows it. |
| `RateLimiter` | `WebhookRateLimitMiddleware` | `Admit`, `Reject`, the clock and a restart. |
| `SlidingWindow` | what a limiter promises | abstract: counts over everything ever admitted. |
| `VirtualAgentCatalog` | `DynamoDBCatalogRepository`, the CLI, startup load and discovery | A writer runs `QueryExisting`, `DeleteAgent`*, `PutAgent`*, `PutMeta` (`_write_entries`); `EnsureSeeded`, `LoadCatalog`, `ListAgents`, `StoreCatalog` are an instance's; `Add`, `Rename`, `SetDefault`, `Remove` the CLI's. `Interrupt` is a call that raises or a process that dies. |
| `CatalogRegister` | what the catalog promises | abstract: a register that a write running alone replaces exactly, and that a cut or overlapped one spoils until the next; readers get the content, or of a spoiled one some valid catalog. |
| `IntegrationOAuth` | `lifespan` up to the table check, `bootstrap_integration`, `handle_oauth_callback`, the webhook ensure, `GET /ready` | A process is an instance, starting or serving, or a callback task. `Renew`, `StoreRenewed` and `RenewalLost` are a serving instance's SDK refreshing expired tokens; `Ready(i)` is what `/ready` answers. |
| `TokenCell` | what startups, refreshes and callbacks promise together | abstract: one cell of tokens that is never emptied; a start or a refresh puts back the grant it found, a callback the one it redeemed; ready and success are told of a full cell with its webhooks. |
| `MediaStream` | `ProcessCallerInput` and the session handlers | A stream is its `reader` (`request_reader`) and its `responder` (the generator), with `queue` between them. `Start`, `Input`, `Other`, `HangUp` are the kinds of request, `Refused`, `AuthFails`, `Fails` the exceptions, `Finish` the `finally`, `Cancelled` what `reader_task.cancel()` does at the await the reader is at, `Deliver`, `SeeEnd`, `Close` the generator. `EndTurn` (the SDK) and `CallerLeaves` (gRPC) are external. |
| `CallLine` | what the media server promises a call | abstract: one line per call, held by one live stream at a time; the step that ends a stream frees it, and answers of a stream nobody cuts are delivered before it closes. |
| `ReleasePipeline` | the release pipeline of `infra/` and the ECS service | A run is a commit; `at` names its stage or the gate before one. `Push`, `Arrive`, `Enter` are CodePipeline (one run per stage, a newer run replaces one that waits); `InfraUnchanged`/`InfraDeploy`/`InfraGoesBack`, `BuildImage`, `Capture`/`UpdateService`/`Deployed`/`DeployTimesOut`, `StageFails`, `VerifyPasses`/`VerifyFails`/`RolledBack` are the buildspecs; `StartTask`, `TakeOver`, `Replace`, `TaskDies` ECS as `stack.py` configures it. |
| `ReleaseLine` | what the pipeline promises | abstract: releases are published, served and turn green in the order of their commits, each green while its own image or a later one serves. |
| `DataSources` | `manage_datasources.py`, `byods/service.py`, `register_datasource_for_org` | A `Caller` is a command or a registration. `List`, `Look`, `Refuse`, `ItemGone` are `url_exists`, item by item; `Call` the command's own call (`Create`, `Update`, `Delete`, `Read`), `Missing`, `Fail`, `AnswerLost` how it ends otherwise. |
| `DataSourceRegistry` | what a command promises | abstract: every command takes effect, and reports, in one step. |
| `StateTable` (EXTENDS `OrgAuthorization`) | the audit log and `list_registered_orgs` over the table the deliveries write | Every step of a delivery, `RecordSuccess`, `RecordFailure`, `RejectPayload` with a record `Write`n or `Swallow`ed; `Expire`; `Listed` is `list_events`; `StartScan`, `NextPage` the paged scan. |
| `MC…` | instances for TLC | symmetry sets, seed, host of a callback. |
| `…_proofs` | theorems | one module per component. |

How the detailed modules map to the abstract ones (the `INSTANCE … WITH` in each):

| Implements | Abstract state | What it is in the detailed state |
|---|---|---|
| `OrgAuthorization` → `ConsentRegister` | `token`, `torn`, `serving` | CREDS while it agrees with PROFILE; their disagreement; the epochs of the running deliveries |
| `RateLimiter` → `SlidingWindow` | the count of a window | the length of the pruned list |
| `VirtualAgentCatalog` → `CatalogRegister` | `whole`, `content`, `planned`, `writing`, `solo` | the last finished write ran alone; the items then; writers at the query, between it and META, and those not overlapped |
| `IntegrationOAuth` → `TokenCell` | `carried`, `put`, `ready`, `succeeded` | what a process would store, by its place; callbacks that have saved; what `/ready` and the callback's page say |
| `MediaStream` → `CallLine` | `stage`, `waiting`, `line` | where the reader is; responses in the queue of a stream nobody cut; the SDK's registration |
| `ReleasePipeline` → `ReleaseLine` | `published`, `trial`, `serving`, `green` | the tag `latest`; the images of the task that starts and the one in service; the runs that succeeded |
| `DataSources` → `DataSourceRegistry` | what a command will report | the items its duplicate check has met |

An abstract module says what it does *not* promise in its heading; those are the
weaknesses of section 4, not gaps of the mapping.

Conventions. A token is abstracted to what the properties tell apart: the
consent or grant it was issued under. A variable marked *history* exists for a
property and guards nothing. An operator introduced as *fault form* is not part
of a specification: it is a plausible bug in the definition that follows it,
kept to show that the properties notice it.

Abstractions worth knowing: the table's reads see the last acknowledged write
(DynamoDB's default reads may lag, see the plan); deletes and puts of one
catalog rewrite happen in any order, where the code has the order of the query
and of the list; a malformed webhook payload, a callback without a code and a
refused CLI command change nothing and are not actions (the malformed payload is
one in `StateTable`, where it leaves an audit record); media is off in
`IntegrationOAuth` and the integration is left out of `VirtualAgentCatalog`; in
`MediaStream` the SDK's conversation store is in memory, so a call to it neither
suspends nor fails, a registration for the same stream is repeated without
effect and one for another stream raises `DuplicateTurnStreamError`, and a stream
carries one call. These are read off how `sdk_patch.py` uses the SDK, which is
not part of the repository.

The refresh of expired tokens in a serving instance is the SDK's too: no line of
`src/` calls it, but `token_storage.py:106` is where it stores them, and
`specs/006-webex-oauth-callback/spec.md:53` and `:103` (FR-008), `data-model.md:99`
describe it. In the model it reads the stored tokens, has Webex renew them and
puts the result, with anything in between, one refresh per instance at a time,
and fails when the table does not answer. A refresh that Webex refuses changes nothing.

`ReleasePipeline` reduces an image to the commit it was built from and a template
to a revision of `infra/`, which never decreases along `main`. Some things of AWS
are assumed: a V2 pipeline in SUPERSEDED mode works on one run per stage and
drops a waiting run for a newer one; CloudFormation does nothing when the
template, its parameters included, is the one it deployed last, and otherwise
sets `DesiredCount`; an update that fails midway goes back to the template
before, which after the first pipeline run has `DesiredCount` 0 (`InfraGoesBack`;
one that fails before it has touched the service is `StageFails`, and one that
fails to go back is left out); `wait services-stable` asks for one deployment with
as many RUNNING tasks as desired, not for healthy ones. The stack starts as
`deploy.sh all` leaves it. The smoke test's other blocking check cannot fail:
for no answer curl prints `000`, which `|| echo 0` turns into `0000`, and
`buildspec-verify.yml:48` only refuses `0`. When the rollback cannot be started
(`deploy-meta/env` missing, or `update-service` failing, `buildspec-verify.yml:81`)
the run fails with the service as it is: `StageFails` in Verify.

`DataSources` reduces a payload to its URL; `update` without `--url` keeps it. The
URL and the id of a listed item are undeclared fields of the SDK's list model
(`__pydantic_extra__`), so each may be there or not: `hits` is any subset of the items
that have the URL, and `List` passes over any subset of those it is not shown of
(`service.py:30`, an item with neither is not asked for). `OrgAuthorization`'s
`CheckUrl` takes the answer of `url_exists` as exact. A command that argparse
refuses (`manage_datasources.py:229`, `:246`) exits with 2 as well and is no caller.
A `NotFoundError` in the duplicate check is not among what `cmd_create` catches
(exit 1 by the traceback) and is logged by the registration; both are `error`.
An audit record is the consent epoch of its delivery, `0` for a failure.

In `StateTable` a page is any set of whole partitions, since at most one item of a
partition passes the filter. The expiry of records is DynamoDB's and may be
late, but takes an org's older records first.

## 3. Runs

| Run | Question | Instance |
|---|---|---|
| `org_overlap` | What survives deliveries repeated, overlapping and out of order? | 1 org, 3 tasks, grant and revoke, 1 fault |
| `org_serial` | Is the row one register if Webex sends one delivery of an org at a time? | 1 org, 2 tasks, 4 consent changes, 2 faults, fair |
| `org_revoke` | Does deauthorization revoke? (violated) | 1 org, 2 tasks, no fault |
| `rate_limiter` | Does the pruned list decide as an unpruned one? | 2 clients, limit 2, window 2, 5 ticks, 5 requests |
| `catalog_overlap` | What survives overlapping rewrites, one cut short? | 2 agents, 2 instances, 1 operator, 1 command, 1 fault |
| `catalog_recovery` | Does seeding recover from crashes? | 3 agents, 1 instance, 3 faults, fair |
| `media_stream` | Is a call one line, whatever its streams do, and do they always end? | 2 streams, 2 calls, 2 queued items, fair |
| `integration_shared` | What do ready and success mean, and what fills the token cell? | 2 instances, 1 callback task, 2 grants, 2 faults, fair |
| `release_pipeline` | What do overlapping releases release, and in what order? | 3 runs, 1 broken image, 2 changes of `infra/`, no `.git`, 1 fault, fair |
| `release_rollback` | Does a rollback restore what was refused? (violated) | 1 run, its image broken, no fault |
| `data_sources` | Do commands report what they did? | 3 callers, 2 data sources at first, 2 URLs, 1 fault, fair |
| `state_table` | Do the audit list and the scan tell what is there? | 1 org, 2 tasks, 3 consent changes, 4 records, limit 2, 1 fault |

Bounds. Three tasks are needed because whether a write pair ran alone depends
on a second pair that a third may overlap in turn; two consent changes are the
shortest history with a stale delivery, four add a re-authorization and its
revocation. One cut write and a later complete one are what repair is about;
three cuts visit every prefix of a seeding of three agents. A limit and a window
of two put several hits of one instant, the boundary hit and a refused request
within five requests. Two faults let a failure meet the recovery from another.
Two streams meet on one call or serve two; a queue of two, which the reader's own
end marker may exceed, holds a response before and after an end marker.
Three releases are the fewest with one that waits behind one that runs and a
third that supersedes it, while the first is verified under what the second
built. Three callers put a second change between the list and the look of a
first; five ids leave room for each to create. Four records overrun a list of
two with a failure on top. `state_table` keeps deliveries in turn (`Serial`),
without which no audit trail could agree with the table: see
`DeauthorizationRevokes`. Its scan does not need that, and `ScanFair` is proved without it.
The theorems remove these bounds for the safety properties. `MaxEpoch`,
`MaxFaults`, `MaxTime`, `MaxRequests`, `MaxCommands`, `MaxReads`, `MaxGrants`,
`MaxQueue`, `MaxRun`, `MaxId`, `Initial`, `Requests`, `Caller` and `MaxRecords` are the only
bounds that are not in the code. Deadlock is off where a run of
the bounded model comes to rest when consents, commands or faults are used up.

Fairness. `OrgAuthorization`: a request that runs goes on (asyncio, and the SDK
calls have timeouts), Webex retries what is due, and drops what a newer event
of the org supersedes; nobody has to change a consent. Webex giving up on the
newest delivery is allowed, and `Reconciles` says so. `VirtualAgentCatalog`: a
write that runs goes on, ECS starts an instance that is down, an operator keeps
editing (used only to show that even then an empty catalog stays empty).
`IntegrationOAuth`: ECS starts what is down, running tasks go on, an outage
ends; nobody has to consent or restart an instance that is up, so that
`StoredMakesReady` speaks of starts only, and no token has to expire. `MediaStream`: a handler returns (this repository's
only log, or play audio), gRPC takes what the generator yields, a cancellation
arrives; no caller has to send or to close anything, and no turn has to end.
`ReleasePipeline`: a stage's commands return (the waits give up after ten minutes)
and ECS goes on with its deployments; nobody has to push, no task has to live
or die. `DataSources`: a command that runs goes on; nobody has to start one.
Fairness is weak throughout.

## 4. What the checks show

Holding: see the properties' comments in the modules. In words: a single
unoverlapped pair of writes always repairs an org, so a retried serial delivery
stream converges; concurrency adds at most one data source (or webhook) per
overlapping task; the limiter is exact; an instance never serves an invalid
catalog, whatever the table holds; seeders agree; readiness is never reported
without tokens and webhooks; a call is never blocked by a stream that has ended,
and a stream that is over on one side is closed on the other; a green release
has seen its own commit or a later one answer, although a task runs whatever
`latest` is; a command's exit code is true, although the duplicate check may
refuse or fail for a data source that is gone by then.

The refinements say this of whole behaviours. With deliveries in turn an org's row
is a register, so a half-written row is never taken for a state the org was in
(`ImplementsConsentRegister`); a rewrite of the catalog that runs alone is one
write, and what cuts and overlaps leave is repaired by it
(`ImplementsCatalogRegister`); the tokens, written by every start, refresh and callback,
are one cell (`ImplementsTokenCell`); a call is one line although reader,
`finally`, queue, responder and cancellation share the work of freeing it
(`ImplementsCallLine`); and runs that overlap, fail, are superseded and roll back
still publish, serve and turn green in the order of their commits
(`ImplementsReleaseLine`). The last one means that a rollback never takes
production back, which is also why it does not restore (`RollbackRestores`).

Five invariants and action properties are consequences of, or steps to, these
refinements: `AcknowledgedIsApplied`, `ServedIsValid`, `HolderIsLive`,
`SuccessIsComplete`, `NeverGoesBack`. The runs check the refinement in their
place; each keeps its definition and its theorem.

Three properties mark how far a weakness reaches rather than that there is none:
`WedgedStays` (a catalog with META and no agents is never filled again, by no start
and no command), `ReauthorizationStays` (only a start or an SDK refresh that had
older tokens in its hands can overwrite those of a callback) and `DownUntilDeploy` (only a run
short of its rollout leaves production at zero tasks; it may end there).

Violated, each by the code's own behaviour against a statement in its documents
(quoted in `PROJECT.json`, `findings`): `DeauthorizationRevokes`, `RollbackRestores`.

Other disagreements with the documents that need no run to see, or that follow
from a property that does hold:

- `specs/001-byods-byova-spec/data-model.md:137` forbids a second data source
  for one URL, and `specs/006-webex-oauth-callback/spec.md:42` duplicate webhook
  registrations: `SourcesBounded` and `HooksBounded` are the bounds that hold,
  and both are reached by two tasks that check before either creates;
- `specs/005-persistent-app-state/spec.md:72` and `:97` ask of concurrent catalog
  updates last-write-wins or rejection, and at most one default: two
  `set-default` commands that overlap item by item can leave two defaults, which
  `list_agents` then refuses (`SettledIsExact` needs a write that ran alone);
- `specs/005-persistent-app-state/research.md:59` says an empty catalog is seeded at
  startup: `ensure_seeded` asks for META, so one cut between its deletes and its
  puts is not (`WedgedStays`);
- `specs/006-webex-oauth-callback/research.md:101` says readiness passes after the
  first successful callback: `integration_ready` is assigned in `lifespan` only
  (`main.py:45`), so `/ready` stays 503 until a restart;
- `specs/006-webex-oauth-callback/spec.md:118` says tokens are replaced on
  re-authorization: a startup, or a serving instance whose tokens expire, that read the
  old ones stores their refresh over the new (`token_storage.py:106` has no condition);
- `specs/005-persistent-app-state/spec.md:95` asks for at least one catalog
  entry at all times: between the deletes and the puts of a rewrite there is
  none. `NeverLeftEmpty` is what holds;
- `src/persistence/catalog_repository.py:119` sends the operator of an unseeded
  table to a script none of whose commands works on an empty catalog;
- two instances seeding together, one of them cut after its deletes, wedge the
  catalog like an interrupted command does, so `SeedingCompletes` holds for one
  instance at a time only;
- `specs/006-webex-oauth-callback/contracts/oauth-callback.md:74` says a failed
  callback leaves CREDS unchanged; a failed webhook ensure comes after the put;
- `specs/001-byods-byova-spec/spec.md:61` asks for the release of the session when
  the call ends or is closed. `ProcessCallerInput` releases it on `SESSION_END`
  only, and not when that event's handler raises or is cancelled: `RequestsEnd`,
  `CallerLeaves`, `Fails` and `Cancelled` leave `bound` alone. The next stream of
  the call takes the session over; without one it stays until the SDK drops it;
- `contracts/oauth-callback.md:20` says the limiter covers the callback route;
  it covers `POST /webhooks/webex` only;
- `specs/005-persistent-app-state/contracts/persistence-storage.md:124` says
  `/ready` is 503 while the table is unreachable; the flag is set at startup, so an
  instance stays ready through an outage, and one whose check met an outage answers
  503 long after it (`Unready`, an outcome `StoredMakesReady` has to allow);
- `specs/004-aws-cicd-pipeline/spec.md:94` and `:113` (FR-016) say a newer run supersedes,
  that is cancels, the one in progress: SUPERSEDED mode (`pipeline_stack.py:235`) only
  drops a run that waits before a stage, and one inside a stage goes on to its end
  and to the next gate, so several runs deploy and turn green (`Enter`, `Arrive`);
- `specs/004-aws-cicd-pipeline/contracts/cicd-pipeline.md:103` and `plan.md:158` deploy
  with `desiredCount=1`: `buildspec-infra.yml:53` asks for 0, so every change of
  `infra/` takes production down until Deploy, and for good when the run fails
  or is superseded before, where `specs/004-aws-cicd-pipeline/spec.md:114` (FR-017)
  has the last stable deployment keep serving;
- `infra/AWS_DEPLOYMENT.md:365` says Infra is skipped without changes in `infra/**`:
  with no `.git` in the source artifact CDK always runs (`GitMetadata` FALSE). With
  it, a superseded commit's change of `infra/` would be skipped by the next run,
  whose diff does not contain it; `VerifiesTemplate` then fails, hence `Clean`;
- `specs/004-aws-cicd-pipeline/research.md:42` says that superseding prevents
  overlapping rollouts: a run that verifies rolls back while the next one rolls out;
- a task that dies between a later run's Build and its Deploy comes back with the
  later image, before that run has decided to deploy it;
- `update` has no duplicate check, and `url_exists` passes over an item whose list entry
  shows neither URL nor id (`service.py:30`), so two data sources can share a URL
  without any race (`NoBlindDuplicate` is about the items that show one); a lost answer to a create is reported as a failure and not retried;
- `list_events` applies `since` after the limit and as a comparison of text, so
  older events within the bound are missing from the list;
- `specs/005-persistent-app-state/contracts/persistence-storage.md:46` has
  `list_registered_orgs` query; it scans, and the server never calls it.

## 5. What is proved

Each theorem is `Spec => []P` (or the refinement) for any finite sets and any
bounds that satisfy the modules' named assumptions: the sets of processes are
finite and disjoint, the bounds are naturals, the seed catalog is valid, the
limit is positive. The assumptions are those of the code's configuration.
`ConsentRefinement` alone assumes `Serial`, Webex's discipline that its run sets; the
other theorems under `Serial` have it in the property.

- `OrgAuthorization_proofs`. `SettledPairAgrees` is not inductive: that a pair
  just closed ran alone says nothing unless the pair's first write is still in
  the table. `PairInv` adds that while a task whose pair is alone is between its
  writes, CREDS holds what it wrote, and that two tasks cannot both be alone on
  one org. The three properties under `Serial` come from one invariant,
  `SerialInv`: at most one task per org runs, it handles the org's oldest
  outstanding delivery, and the table, the org's sources and the task's token
  are related at each place it can be. `SourcesBounded` counts: a create takes
  one task from those that may still create. `ConsentRefinement` maps a delivery's
  steps to the register's: the first write of a pair tears the row or leaves it
  whole, the second makes it whole with a token that shows the change served, a
  crash or an error leaves. `SerialInv` speaks of the newest event only;
  `FreshInv` adds, for every delivery at work, that the token it carries or has
  stored is of its own change or of a later grant.
- `RateLimiter_proofs`. The strengthening relates the pruned list to the history:
  the list holds every admitted request a window ending now could contain. The
  refinement maps each decision to the abstract one through that equality.
- `VirtualAgentCatalog_proofs`. `WriteInv` says what a write may still have to
  do. `SettledInv` adds that a writer that is alone finds the table as its own
  writes so far left it; `EmptyInv` that, with no fault, an empty table was never
  seeded or has a writer with every entry still to put; `SeedInv` that with no
  command and no fault every item is the seed's or still to be put.
  `WedgeIsFinal` needs only the types: no step from a wedged catalog with no
  write under way puts an agent. `CatalogRefinement` combines `ServeInv`,
  `WriteInv` and `SettledInv` with `RestInv`, that who is not up shows nothing and
  who is not writing means nothing: deletes and puts are stutters (`UnseenStep`),
  the META item of a writer that was alone is the one write of the register
  (`SoloDone`), of any other it spoils it.
- `IntegrationOAuth_proofs`. `ReadyInv` relates each place of a startup or a
  callback to what is stored and registered; it rests on `NothingLost`, that
  stored tokens and webhooks are never removed. `HooksBounded` counts the
  processes that may still create. `KeptInv` adds to `ReauthorizationStays` that no
  instance, starting or serving, is about to store anything but the tokens in the table;
  `OthersCarry` that a step of one process leaves alone what the others carry.
  `TokenCellRefinement` needs only the types and `ReadyInv`: what a process carries is
  a function of its place (`Carried`), so a step of one process carries nothing for
  another (`CarriedFrame`), a failure loses what was carried and no more
  (`FailLoses`), and what `ReadyInv` says of an answer is the cell's `Complete`.
- `MediaStream_proofs`. `HolderIsLive` is inductive with the types.
  `TurnIsBound` is not: a stream that ends a call it never started has no turn,
  yet releases the session, which is safe only because it holds the
  registration. `ServiceInv` adds that every stream that handles an event does,
  and the rest is that a step of one stream leaves the registrations of the others
  alone (`Apart`). `QueueInv` says where the one end marker of a stream nobody cut
  can be; `AnswersDelivered` is its last case. `CallLineRefinement` rests on the same
  two invariants. What a stream owes is a count of a part of its queue, which a
  proof cannot follow step by step; `OwingKnown` gives it by the queue's length,
  from `QueueInv` before and after the step. `FinishEnds` is the reader's
  `finally`, the one step that frees a line, and `ServesInSession` that a stream
  whose turn is active holds its line and its session.
- `ReleasePipeline_proofs`. `Flow` is CodePipeline's: a stage has one run, and
  later commits are behind earlier ones. From it `Service` follows the image and
  template that a run's rollout may meet, stage by stage: `latest` is never
  older than a run that was built, so a task started after its rollout began
  is not either; `Down` names the run that scaled to zero last.
  `ReleaseLineRefinement` uses all of it: a push is of a later commit than `latest`
  (`LatestBefore`), what takes over is no older than what has served (`Newer`), and a
  run turns green behind no later green run (`Order`) while its own image or a
  later one serves (`DeployedFits`); infra deploys, rollouts, rollbacks and dying
  tasks only stop a trial or the service (`Stops`).
- `DataSources_proofs`. `Unchecked` says that what the list showed and has kept the URL
  since is still to be looked at, which makes a create with none left safe;
  `Recorded` ties what the abstract registry may answer (`held`, `removed`) to the items
  a scan has still to meet. With them every step maps to a step of
  `DataSourceRegistry` or leaves it alone.
- `StateTable_proofs`. The deliveries of `StateTable` are those of `OrgAuthorization`
  (`Projects`), so its invariants carry over. `ScanInv` says that while
  the scan runs every org that has kept its tokens is listed or still to come,
  and that what is stored or listed has been there since it began; `AuditInv` that the
  newest record of an org tells of the newest delivery that has been handled
  (`NewestTells`), unless it was swallowed or has expired; `Timed` that
  records are told apart by their times, which makes the list's cut well defined.

Only model-checked: the liveness properties (`Reconciles`, `SeedingCompletes`,
`StoredMakesReady`, `StreamEnds`, `RunsEnd`,
`CommandsFinish`), since fairness and ENABLED are out of the prover's reach,
and the violated properties.

## 6. Not modelled, and the plan

Not modelled: encryption, settings, factories, logging, request ids (no state a
property is about); the discovery probe and the registration script (clients);
the pull request pipeline (it deploys nothing), networking, IAM and the image
lifecycle of the stacks, `deploy.sh` run by hand beside the pipeline, a manual
run with `FORCE_INFRA`; tooling; the in-memory backends of local runs; key rotation; clocks
that run backwards; the `since` filter; schemas as objects of their own.

Done: `OrgAuthorization`, `RateLimiter` with `SlidingWindow`, `VirtualAgentCatalog`,
`IntegrationOAuth`, `MediaStream`, `ReleasePipeline`, `DataSources` with
`DataSourceRegistry`, `StateTable`, in that order, each with its proofs; then
`ConsentRegister`, `CatalogRegister`, `TokenCell`, `CallLine` and `ReleaseLine`, each
with its refinement checked and proved.

Next, in order:

1. `Server`: the composition of `IntegrationOAuth`'s startup with the catalog's,
   sharing the instance's life, so that `/ready` and discovery are related.
2. An abstract specification of the audit trail, the last component without one:
   a log that loses only what was swallowed or has expired, which `StateTable`
   implements, with `AuditTellsState` as a consequence.
3. `ReleasePipeline` with `IntegrationOAuth`: two instances of different images
   starting and stopping over one table while a rollout replaces one by the other.
4. Stale reads in `VirtualAgentCatalog` and `StateTable`.
