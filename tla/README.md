# ADR Gateway in TLA+

The ADR Gateway is what an accredited data recipient of the Consumer Data
Right runs between its software products and the data holders (banks).  It
asks data holders for consents, keeps the tokens of these consents fresh,
forwards data requests, lets consents be revoked from either side, keeps its
client registrations at the data holders, and proves to data holders who it is.
This directory holds TLA+ modules translated from its source, the TLC runs that
check them and TLAPS proofs about them.

    tlc -config MCConsentLog.cfg MCConsentLog     # any run of the table below
    tlapm ConsentLogProofs.tla                    # any module of proofs

`PROJECT.json` names, for every definition, the lines it was translated from.
Paths below are relative to `src/src/`.

## 1. Inventory

| part | state | operations | talks to |
|---|---|---|---|
| **Backend**, `AdrGateway/Server` | none of its own; works on rows of the consent table | `POST /cdr/consents` (request), `PATCH /cdr/consents/:id` (confirm), `DELETE /cdr/consents/:id`, consumer data and user info, listings | consent table, data holder, through the dependency evaluator |
| **Frontend**, `AdrServer/Server` | the log of JWT ids | `POST /revoke`, `POST /arrangements/revoke`, JWKS | consent table, `jti_log` table |
| **Housekeeper**, `AdrGateway/Housekeeper` | cursor and broken data holders of a round, in memory | `PropagateConsents` (5 min), `UpdateDataholderMeta`, `DynamicClientRegistration` (6 h), each by `OnInterval` | consent table, registrations, data holder |
| **Consent log**, `Common/Entities/ConsentRequestLog.ts` | one row per consent: tokens and their expiry, the end of sharing, the three columns of a revocation | `LogAuthRequest`, `UpdateTokens`, `RevokeConsent`, `MarkRevoked`, queries | the database |
| **Dependency evaluator**, `Common/Connectivity/CommsDependencyEvaluator.ts`, `DependencyGraph.generated.ts` (from `Dependencies.yml`) | results of one evaluation; caches shared by evaluations, in memory or on disk (`Cache/*`), some of them for ever | `get` with healing iterations, `evaluate` | all evaluators |
| **Evaluators**, `Common/Connectivity/Evaluators` | none | token requests, introspection, revocation, registration, register queries | data holder, register, entities |
| **Client registrations**, `Common/Entities/DataHolderRegistration.ts` | rows CURRENT or DELETED per product and brand | `NewRegistration`, `UpdateRegistration`, `DeleteRegistration`, `GetActiveRegistrationByIds` | data holder |
| **JWT id log**, `Common/Entities/JtiLog.ts` | `jti_log` rows | `IsJtiUnique` | bearer JWT verification |
| **PKCE state**, `Common/SecurityProfile/Util.ts` | code verifiers by state, in memory, until replaced or the process ends | set by every iteration of a request, read by a confirmation | backend |
| **Server middleware**, `Common/Server/Middleware`, `AdrGateway/Server/Helpers` | none | pages and links of a list; forwarding of a data request with its token; link rewriting; checks of headers and tokens | backend, data holder |
| **Migrations**, `Common/Entities/Migrations` | `migration_log` rows, the schema | `PerformMigrations` | the database |
| **Data holder** (mock), `MockServices/DhServer` | consents, client registrations | authorise, token, introspection, revocations, registration, resources | gateway |
| **Register, software product** (mocks), JWKS server, proxy, middleware | none that changes | | |

What makes these hard:

- *Interleaving.*  Any number of requests, in any number of processes, share
  the tables.  Between two awaits of one handler any other may run; nothing is
  locked and no statement runs in a transaction.
- *Stale copies.*  A handler loads an entity, decides on it, awaits calls to a
  data holder and saves the entity.  A save is itself two steps: TypeORM selects the
  row, outside of the transaction that it then opens, and updates the columns in
  which the entity differed from what it selected.
- *Rotating tokens.*  A refresh token is good for one use at the data holder.  A
  lost answer leaves the gateway with a dead token.
- *Healing.*  A failed evaluation is repeated with fewer caches, with the same
  entity, as the failed iteration left it, and whatever it did stays done: a
  state has a new verifier, a code is consumed, a refresh token is used up, a
  request has been forwarded.
- *Layered caches.*  A result is made from results that were cached before it and
  is cached again, so that ages add up; some caches have no maximum age.
- *Lists that change while they are read.*  A backend follows the links of a
  page to the next one; meanwhile a transaction leaves the list.
- *Partial failure.*  The data holder has acted and the row is not saved; one row
  of several is saved; a process stops after it has answered and before it has
  done what it answered.
- *Time.*  Expiries come from three places (`expires_in`, claims, a default) and
  are compared with two clocks.

What each component owes:

- the consent table: a revocation that every handler at work knows of stays, its
  three columns agree while saves do not overlap, a row says "propagated" only of
  what the data holder has been told, a token is never believed to live longer
  than it does;
- confirmation: a code finalises its consent once;
- the housekeeper: every revocation is told to the data holder in the end;
- the evaluator: a status that was cached does not hide for ever that a token is
  dead or a data holder inactive; no stale copy makes the last iteration fail;
- authorisation: a code is presented with the verifier that belongs to it, and the
  tokens it brings are saved in its row, under its arrangement;
- the end of an arrangement: a report that is answered has revoked all of the rows it
  found current (not those that a confirmation under way saves after it);
- data requests: a list is read completely and once, a request reaches the handler it
  is meant for, and transient faults do not reach the backend;
- the JWT id log: an assertion is accepted once, and a fresh one is accepted;
- registrations: one CURRENT row, and the data holder knows its client.

`PROJECT.json` lists the hazards, each at the line where it bites, with the
properties that would notice.

## 2. The modules

| module | models | EXTENDS / INSTANCE |
|---|---|---|
| `JtiLog` | `IsJtiUnique`, as the insert and the search of concurrent requests | |
| `ConsentRow` | a row of the consent table, the entity's decisions on it and the manager's assignments to it (operators) | |
| `DhConsent` | a consent at the data holder (operators) | |
| `ConsentLog` | the table, the handlers of backend and frontend, the housekeeper, the evaluations they wait for, the data holder, failures and time | EXTENDS `ConsentRow`, `DhConsent` |
| `Arrangements` | the way of a consent from the request to its tokens, with code verifiers, pushed requests, healing and amendments, and the report that ends an arrangement | |
| `ClientRegistration` | the registrations of a product at a brand, the evaluations that create and update them, the caches of their processes, the data holder's side | |
| `DependencyGraph` | the graph of dependencies, the ages of their caches, the cache trail of each (functions) | |
| `DependencyEvaluator` | `get` and `evaluate` over any graph, by clients that share the caches, in a world that changes | |
| `Pagination` | the page of a list and its links (operators) | |
| `ResourceRoutes` | the routes of gateway and data holder (data and operators) | |
| `ListReader` | what one who reads a list through its pages is promised (abstract) | |
| `DataRequest` | a data request on its way, with the tokens it needs, and the walk over the pages of a list | EXTENDS `Pagination`, `ResourceRoutes`; INSTANCE `ListReader` |
| `MCJtiLog`, `MCConsentLog`, `MCArrangements`, `MCClientRegistration`, `MCDependencyEvaluator`, `MCDataRequest` | the instances for TLC; `MCDependencyEvaluator` joins the evaluator with `DependencyGraph` | EXTENDS the module |
| `JtiLogProofs`, `ConsentLogProofs`, `ConsentLineageProofs`, `ConsentTokenProofs`, `ArrangementsProofs`, `ClientRegistrationProofs`, `DependencyEvaluatorProofs`, `DataRequestProofs` | theorems | EXTENDS the module, `TLAPS` |

Each module that a run checks has its own state.  They meet where one uses a result of
the other: `ConsentLog`, `Arrangements`, `ClientRegistration` and `DataRequest` take
from the evaluator how iterations follow each other and which of them may use a
cache, `DependencyEvaluator` takes from the others that their nodes answer or fail.

### JtiLog

`IsJtiUnique` saves a row and then searches for *other* rows with the same
`(jti, iss, sub)`.  `rows` is the table, `id[r]` the key of the row a request has
inserted, `claim[r]` the triple it presents.  Actions: `Verify` (the checks of
`verifyClientId` that come first), `Insert`, `Find`, `Fail` (the database throws).

### ConsentLog

`row[c]` is the row of consent `c`, `dh[c]` the same consent at its data holder,
`h[a]` what handler `a` holds: its place `pc`, its operation, the entity it was
called with (`copy`), the entity `UpdateTokens` has loaded (`work`), the token
reply it carries, its healing iteration, and the columns that its save is about to
update.  One step is what a handler does between two awaits at which another can run.

| step | code |
|---|---|
| `RequestConsent` | `GetAuthorizationRequest`, which ends with `LogAuthRequest` |
| `DhGrant`, `DhWithdraw` | the consumer at the data holder |
| `ConfirmStart` | `ConsentConfirmation`, with the checks of `ValidateAuthorizeResponse` |
| `AccessStart` | `ConsumerDataAccess`, `UserInfo` |
| `DeleteStart`, `SaveRevoked` | `ConsentDeletion`, `RevokeConsent` |
| `WithdrawStart`, `SaveRevoked` | `AdrServer` `Revoke`, `DeleteArrangement` |
| `Credentials` | which token the evaluation has and what it evaluates next |
| `Sync`, `SaveSync` | `SyncRefreshTokenStatus`, its introspection, its save and its cache |
| `Select`, `Update` | the two statements of `save`: `Select` is the first step of each save below, `Update` a part of the second, `SaveRevoked`, `SaveSync`, `SaveTokens` or `SaveMarked` |
| `Request`, `Load`, `SaveTokens` | `FetchTokens`, `UpdateClaims`, `UpdateTokens`, and the validator |
| `Forward` | `ForwardRequest`, which is the validator of the last node |
| `Propagate`, `SaveMarked` | `PropagateRevokedConsent`, `MarkRevoked` |
| `TakeRevocation`, `EndRound` | `PropagateConsents`, `OnInterval` |
| `CallFails`, `AnswerLost`, `SaveFails`, `ProcessRestart`, `Tick` | failures and time |

Abstractions, and why they keep what the properties tell apart:

- A save of an entity that was loaded whole is a SELECT of the row and then an
  UPDATE of the columns that differ from it (`Differing`, `Updated`), and other
  handlers may save between the two.  `mixed` has the rows in which an UPDATE has
  met columns that another save wrote since its SELECT, so that the row is what
  neither meant to save; it is for the properties only.  The other modules keep
  a save as one step.  In `ClientRegistration` the only column that is ever updated
  is `status`, and in `Arrangements` there are two kinds of writers, of tokens and of
  revocations, which write different columns.
- A token is the number of its issue, 0 a null column; the five columns that
  `UpdateTokens` sets first and nothing unsets are the one `finalised`.
- A consent is an arrangement of its own.  Amendments (several rows with one
  arrangement id) are the subject of `Arrangements`; what the end of an arrangement
  does to the other rows by way of their refused tokens is in neither module.
- A code that the data holder does not accept is answered with an error, as other
  data holders do.  The repository's own never answers (`ClientAccessToken.ts:109`);
  `Arrangements` has both.
- Scopes, payloads, signatures, headers, logging and error texts are left out.
- A handler of the data holder is one step, and its code and token requests are
  answered as `MockServices/DhServer/Entities/Consent.ts` answers them.  The
  consumer's request and confirmation there are one step, `DhGrant`.  The
  claims of the id token come with every token reply, so that the default of 27
  days in `RefreshTokenExpiry` is in the model and never used.
- The caches of the other dependencies are left out: their results (keys,
  endpoints, registration) do not change in this module.  A call that fails
  because of them is a `CallFails`.
- The cache of `SyncRefreshTokenStatus` is the one whose content the properties
  depend on.  It is kept per consent, is shared by all handlers and is lost in a
  restart.  `SyncRefreshTokenStatus` is the last cached node of every trail of a
  consent (`DependencyGraph` computes them), so that an iteration after the first
  never uses it.

### Arrangements

`rq[r]` is the POST of consent request `r`: its place, state, the arrangement it
amends, its iteration.  `auth[s]` is the verifier kept for state `s`, `row[r]`
the row, `parked` the pushed requests at the data holder, `dh[d]` a consent there
with its code, `conf[a]` a confirmation, `rep` the report of a withdrawn arrangement.
What an iteration generates (nonce, verifier, challenge, request URI) is the pair
`<<r, i>>` of request and iteration.

| step | code |
|---|---|
| `RequestConsent` | `GetAuthorizationRequest` and `setAuthState`, which come before any call |
| `Push` | `FetchRequestUri`, and `StoreRequest` at the data holder |
| `LogAuthRequest` | the row, and the answer with the URL |
| `Authorize`, `Withdraw` | the consumer at the data holder, who may follow a URL again |
| `ConfirmStart` | `ConsentConfirmation`, with the nonce of the id token compared |
| `FetchTokens` | `getAuthState` and the token request; refused, lost, or never answered |
| `LoadRow`, `SaveTokens` | `UpdateTokens`, with its check of the arrangement id |
| `ReportStart`, `RevokeNext` | `DeleteArrangement` and its loop |
| `BackendRestart`, `DhRestart` | verifiers, pushed requests and what was under way are gone |

Abstractions: there is no clock and tokens do not rotate (that is `ConsentLog`); a
state is chosen by the backend and may be used twice; `failed` and `rep.seen` record
what has happened, for the properties only.

### ClientRegistration

`row[c]` is the row of client `c` in the table of registrations, `holder` the
client that is active at the data holder with the version of its registration,
`issued` how many clients it has issued, `wanted` the version the gateway is
configured for, `cache[p]` what process `p` has cached, and `ev[e]` what evaluation
`e` holds: its place, its iteration, the version it has read, the client it works
on, the rows it has loaded and still has to mark, the client its token is for.
An evaluation is a request of the backend or the housekeeper's task.

| step | code |
|---|---|
| `Start`, `Check` | a request or `DynamicClientRegistration`; the cached result of `CheckAndUpdateClientRegistration`, or its dependencies anew |
| `Find` | `GetActiveRegistrationByIds`, which throws on a second CURRENT row; `BootstrapClientRegistration` |
| `NewRegistrationAtDataholder` | `DhNewClientRegistration` and `registerNewClient` of the data holder |
| `Load`, `MarkDeleted`, `Insert` | `NewRegistration`: the query, one save for each row, the save of the new one |
| `GetToken` | `DhRegAccessToken` with its cache |
| `CurrentRegistrationAtDataholder` | the GET, and `DhRegistrationMatchesExpectation` |
| `UpdateRegistrationAtDataholder` | the PUT |
| `FindUpdated`, `SaveUpdated` | `UpdateRegistration`: the query and the save |
| `Use` | the call that the request is for |
| `WantAnother`, `AgeRegistration`, `AgeToken` | configuration and time |
| `StepFails`, `AnswerLost`, `ProcessStops` | failures |

Abstractions:

- One product at one brand.  Rows of others are never read together with these.
- A client is the number of its issue.  What a registration contains (redirect
  URIs, algorithms, software statement) is a version; the comparison of
  `DhRegistrationMatchesExpectation` is the equality of versions.
- The dependencies from which the wanted version is computed, and their caches,
  are left out: an evaluation reads `wanted` when it begins.
- A handler of the data holder is one step.
- An entry of a cache is *fresh* below `minAge`, *usable* below `maxAge`, and then
  gone.  Both entries are in the last third of every cache trail, so that an
  iteration after the first is served only what is fresh.  The housekeeper asks
  to ignore all caches, which leaves it one iteration and, again, only what is
  fresh.
- Two bootstraps can go on deleting each other's rows, so that the next evaluation
  registers again.  Beyond `MaxClients` the data holder refuses; a refusal is a
  failed call, which the code may meet at any time.
- `DeleteClientRegistration` is called by the tests only and is left out.

### DependencyGraph and DependencyEvaluator

`DependencyGraph` writes down the nodes of `DependencyGraph.generated.ts` with their
dependencies and ages, and *computes* the `cacheTrail` of each as the generator
does.  `CacheTrail` has been compared with the trails in the generated file, for all
of its 39 nodes, and agrees.

`DependencyEvaluator` is about any graph.  `cache[n]` is the stored result of
node `n`, `ev[c]` the `CommsDependencyEvaluator` of client `c`: its target and
iteration, the `evaluationCache` (`done`, `about`), and the stack of the recursion.
The world consists of *facts*: statuses, good in their even versions, and
addresses, good in the current version.  A result says of some facts in which
version it knows them.

| step | code |
|---|---|
| `Start` | `Get`, `GetWithHealing`, `GetPreemptive` |
| `Descend` | `evaluate` of the next preassertion or dependency |
| `Lookup` | `evaluationCache`, then `FetchCache`: too fresh to update, enabled in this iteration and not expired, or neither |
| `Throw`, `Call`, `CallFails` | the evaluator of the node: throws on what it got, returns, or its call fails |
| `Store`, `StoreFails` | the update of the cache, whose failure is only logged |
| `Valid`, `Invalid`, `ForwardFails` | the validator of the last node, which forwards the request |
| `Change`, `Tick` | the world and time |

`Kept` is the formula for how much of the trail an iteration may use;
`IgnoreCache` the option that takes the target, or everything, out of it.

Abstractions:

- An evaluation ends within a tick: ages are minutes and hours.  Ages are mapped
  to ticks that keep their order (300 s to 2, 14400 s to 3).
- A cache has one entry for each node: the facts are about one data holder.  (In
  `DiskCache.ts:27` the names of two entries may collide, see findings.)
- The run looks at the eight nodes between the register's entry of a data holder
  and the two nodes that contact it, with the trails of the whole graph; the
  other nodes are taken to succeed.  Conditional dependencies are evaluated.
- The result of an evaluator is what it reads of the world when it returns, and
  what its dependencies told it otherwise.  What a node reads, carries, judges and
  calls is given to TLC by `MCDependencyEvaluator` and read off the evaluators.
- `Delay` and `Unnoticed` are no part of the program: they say how old what a node
  tells of a status may be, and how long a bad status may go unnoticed by one that
  vouches for it.  `DelayAssumption` and `UnnoticedAssumption` say which numbers the
  maximum ages along the dependencies allow, and TLC evaluates both on the graph.

### DataRequest, Pagination and ResourceRoutes

`Pagination` has the arithmetic of `Paginate`, `ResourceRoutes` both tables of routes
in the order of their declaration with the first-match rule of Express.
`DataRequest` follows one request at a time: `step` is its place, `attempt` the
evaluation for it (for the tokens only or for the data), its iteration and the faults
it has met, `row` the consent in the table, `entity` the one that the evaluation was
given, `answer` what the data holder has sent, `walk` how often each record has been
read.

| step | code |
|---|---|
| `Open`, `Follow`, `FollowLast`, `Close` | the backend, as `DepaginateRequest` of the end-to-end tests follows links |
| `Authorise`, `Forbid` | the Responder looks at the tokens: which evaluation comes first, or 403 |
| `WithAccessToken`, `Refresh`, `RefreshDenied`, `NoToken` | `ConsentCurrentAccessToken` of the entity: its own token; new tokens, into the row; refused, with the revocation that the introspection brings, or without while its result is cached; none |
| `EvaluationFails`, `RefreshLost` | a dependency fails; the reply to the token request, or its save, is lost |
| `Serves`, `Refuses`, `Hangs` | the data holder: token, scope, version, account, page |
| `AnswerLost` | the answer is |
| `Heal`, `GiveUp` | the next iteration, with the same entity, and the last one's error, 500 |
| `Deliver` | the answer with rewritten links |
| `Ages`, `TokenExpires`, `Withdraw` | time and the consumer |

Every iteration begins with the entity that the evaluation was given, while
`UpdateTokens` saves one that it has loaded itself.  An iteration that refreshes the
tokens and then fails leaves the next ones with a refresh token that is used up: if the
access token of the entity has expired too, they are refused, and the first that is
not served from the cache revokes the consent.  `OutOfTokens` says when this
is so, and `HealsTransientFaults` that nothing less is.

Abstractions:

- A record is its position in the list; the records are those of one list at a time.
- A query is page, size and the one filter whose conversion matters: `oldest-time`,
  which may have the offset of a time zone, and the rewriting of links garbles it.
- There are no dates: an access token is current or not, a refresh token is the
  current one, the one this evaluation has used, or lost.  Other requests of the
  same consent are left to `ConsentLog`.
- Tokens and consent change only while a request is under way, and a list that changes
  is whole again when a walk begins: what happens in between may as well happen at the
  beginning of the next request.
- No step hangs the gateway itself.  The TODO at `AdrGateway/Server/server.ts:194`
  ("promise rejections to return 400 or something else, not hang forever") is out of
  date: every await of `Responder` is in a `try` that answers.

`ListReader` is the promise to the reader of a list.  It has the records that are still
to come, takes the next ones in one direction, as many as a page brings, and is done
only when nothing is left.  `Reader` maps a walk to it: what is to be read and has not
been is `rest`, `walk.times` is `got`, and the places of a request are the phases of the
reader.  Losses, refreshes, healing and refusals are its stuttering or its giving up.

## 3. The runs

| run | what it asks | bounds | result |
|---|---|---|---|
| `jti` | at most one request per assertion; a fresh assertion is accepted | 4 requests, 2 assertions | holds |
| `consent_safety` | revocation columns, expiry, truthful propagation, settled revocations, one finalisation | 1 consent, 2 handlers, housekeeper, 3 ticks, 1 failure, 2 iterations | holds |
| `consent_liveness` | revocations reach the data holder; a refused refresh is recorded | 2 consents of one data holder, 1 handler, housekeeper, 2 failures | holds |
| `arrangements` | own verifier, no tokens lost, arrangement ids agree, complete reports, grants are confirmed | 2 requests, 2 consents, 2 states, 2 confirmations, 1 failure, 2 iterations | holds |
| `dcr` | a settled registration stays settled and comes up to date | 1 request, housekeeper, a process each, 2 clients, 2 versions, 1 failure, 2 iterations | holds |
| `dcr_alone` | the table never names a client the data holder has dropped | housekeeper alone, 4 clients, 3 failures | holds |
| `evaluator_shared` | a bad status is noticed as soon as no cache may hide it | 8 nodes, request and housekeeper, 1 change, 4 ticks of age | holds |
| `evaluator_heals` | a failure has a reason; requests are answered again | 8 nodes, request, 1 change, 1 failure | holds |
| `data_request` | lists are read once, completely and in order (a walk implements `ListReader`), routes, healing, answers | all routes, lists of 0, 3 and 4, pages of 1 to 3, 2 healing iterations, 3 faults | holds |
| `consent_overwrite` | a revocation is recorded once (the comment) | as `consent_safety`, sharing for 3 too | violated |
| `consent_false_revocation` | the sync revokes only what has ended (the comment) | as `consent_safety`, sharing for 3 too | violated |
| `dcr_two` | at most one CURRENT row (the assertion) | 1 request, housekeeper, 3 clients, no failure | violated |

Why the bounds are enough for the questions:

- *jti*: a violation needs two requests of one assertion; four requests over two
  assertions give every pattern of sharing, a rejected third and a bystander.
- *consent_safety*: every property speaks of one consent, and consents share
  nothing but the housekeeper.  Two handlers and the housekeeper are three copies
  of one row, enough for a reader, a writer and a writer that undoes the first.
  Three ticks with an access token of one, a refresh token of two and sharing
  for two, or access once, let every expiry pass before, between and after the others.
  `PropagationWindow = 2` passes within the run.  One failure is one lost answer.
  Handlers are interchangeable (`SYMMETRY`), and all of its properties are safety.
- *consent_liveness*: two consents of one data holder are needed for one to be
  skipped as broken because of the other.  `LastTime` lets the clock run for the
  first and stop early for the second (2 ticks and 1), so that the end of the
  window does not always end the obligation instead.  A cached status must be
  there before the consent is withdrawn, which takes one earlier use of the token.
- *arrangements*: two requests are a request and its amendment, two requests with
  one state, or one whose URL is followed twice; two confirmations race.  The
  data holder has a PAR endpoint that the configuration does not ask for, so that
  amendments are pushed and first requests are not: both ways in one run.  With two
  failures it also holds (768,880 states), with one it is quick.
- *dcr*: two clients are two racing registrations, or one and its successor
  with a token of the first still cached.  Two versions are one update, by either
  evaluation or both.  One failure is one lost answer or one stopped process, at
  any step.  Two processes, because evaluations that share a cache see less.
- *dcr_alone*: four clients are up to three registrations that are lost, by an
  answer, a failed save or a stopped process, before one is saved.  Alone, an
  evaluation never finds rows to mark as DELETED; those are the matter of `dcr`.
  The property does not hold with two evaluations: a slow bootstrap may insert the
  row of a client that the data holder has replaced meanwhile.
- *evaluator_shared*: the housekeeper renews `DataHolderBrands` while requests
  evaluate; one change is one status that turns bad or one address that moves.
  The limits of `NoticedWithinMaxAges` (`MCUnnoticed`) are the sums of the layered
  maximum ages that `UnnoticedAssumption` asks for at least, and they are reached:
  with one tick less the assumption fails, and without it TLC finds a counterexample.
- *evaluator_heals*: the clients do not help each other, one is enough.  One change
  and one failure hit each iteration in turn.  `MaxHealing = 3` is the code's.
- *data_request*: page size 2 for 25; lists that are empty, end within a page and
  end with one.  Walks start anywhere, also beyond the end, in each direction.
  Two healing iterations instead of the code's three are enough for one that
  begins with a used refresh token and is healed no more; three faults are one more
  than they can heal.  The proofs are for any number of both.
- *dcr_two*: no failure is needed.

`jti`, `consent_*`, `arrangements` and `data_request` say `CHECK_DEADLOCK FALSE`: every
request of a bounded number ends, the clock stops at `LastTime`, a request the data
holder never answers hangs.  The runs of `ClientRegistration` and
`DependencyEvaluator` check for deadlock, since someone can always start again.

### Fairness

- `JtiLog`: weak fairness of `Insert` and `Find`, the event loop.
- `ConsentLog`: weak fairness of `Work(a)` for each actor: the event loop resumes every
  handler, and calls are answered or time out (a failure is a step of its own).  A
  data holder that never answers is thereby assumed away: it would stop its caller,
  the housekeeper too, because `REQUEST_TIMEOUT` is 0 unless it is configured.
  Strong fairness of `TakeRevocation(c)` for each consent: the query of
  `NextRevocationToPropagate` has no ORDER BY, so that one round may pass
  over a consent; it is assumed not to pass over it for ever, which is an assumption
  on the database and not on the code.  Weak fairness would
  not do, because a consent is not in reach while the cursor is behind it.
  Weak fairness of `EndRound`: `OnInterval` begins a round after each round.
  None of arrivals, of the consumer, of failures and of the clock.
- `Arrangements`: weak fairness of a confirmation's steps; strong fairness of
  `ConfirmStart` for each consent: the backend repeats a confirmation until
  it is told that it has succeeded, which is what `GrantedIsConfirmed` is about.
  Strong, because a handler may be busy with another whenever it would start.
- `ClientRegistration`: weak fairness of `Work(e)` for each evaluation,
  of `Start(Housekeeper)` (`OnInterval`), and of the ageing of what is cached; none
  of requests, of configuration changes and of failures.  `EventuallyUpToDate`
  therefore rests on the housekeeper alone, whose interval of six hours is longer
  than any `minAge`.
- `DependencyEvaluator`: weak fairness of each client, which asks again and again, and
  strong fairness of `Tick`: evaluations cannot fill a tick for ever.
- `DataRequest`: weak fairness of the gateway and of the data holder, none of the
  backend.  A request that hangs at the data holder is exempt: `REQUEST_TIMEOUT` of
  the HTTP client is 0, no timeout, unless it is configured.

## 4. The proofs

TLC checks an instance; TLAPS proves for every set of consents, handlers and
requests, every bound and every life of tokens.  From the named assumptions on
constants only (consents are positive keys, the housekeeper is no handler, every
consent has a data holder, numbers are numbers).

**JtiLogProofs.** `TypeCorrect`, `ReplayImpossible` and `FreshAccepted`.  `NoReplay` is
not inductive.  The invariant adds that the row of every request past its insert is in
the table with its claim (`OwnRow`) and that no two of these have the same key
(`DistinctIds`): the request that searches last finds the row of any that was accepted
before.  `FreshAccepted` needs the converse, that every row of the table was inserted
by a request that still holds its key, also one that failed afterwards
(`RowsHaveRequests`).

**ConsentLogProofs.**  `TypeCorrect`, and `RevocationColumns` from the inductive
invariant `IInv`: besides the columns themselves, in rows (`RowsGood`) *and in every
copy under way* (`ActorsGood`), a handler at a step that saves must hold a row that was
logged and is (`RowsExist`), and a handler at `propagate` or `saveMarked` must hold a
copy that the data recipient has revoked.  Without the last, `MarkRevoked` could mark a
revocation of the data holder.  All of it is asked only of rows that are not in
`mixed`: an UPDATE either makes the row what the handler holds, which is good, or puts
it there.  Of mixed rows one fact is still needed, that no UPDATE takes the tokens out
of a row that has them (`RowsStayFinal`).  One step per action, one lemma per operator
of `ConsentRow` and `DhConsent`.

**ConsentLineageProofs.**  The lemma `Lineage`: every row and every copy after a
step descends from a row or copy of the same consent before it, by one of four
assignments (as it was, revoked, marked, new tokens), or is the row of a new
request, or none; or it is what an UPDATE makes of a row and a copy, each of its
columns being one of theirs (`Blend`).  Each of these keeps a revocation.  From this
follow `RevocationIsFinal` (once every copy knows of a revocation it is never undone,
which is `RevocationSettles`) and `PropagationIsTruthful` (with the
arrangement endpoint, what is marked propagated has been withdrawn at the data
holder).  Neither excepts mixed rows.

**ConsentTokenProofs.**  `ExpiryIsBacked` (`ExpiryNotOverestimated`) and
`CodeFinalisesOnce` (`FinalisedOnce`).  The first needs four facts beside `IInv`
(`TokenInv`): the data holder issues access and refresh tokens in one order
(`HoldersOrderly`), a row or copy speaks of tokens that were issued and gives the
last ones no more than their life (`CopiesBacked`, column by column, so that it holds
of mixed rows too), no token request was sent in
the future (`RequestsSent`), and a reply in hand promises no more than the data
holder has granted (`RepliesPromised`).  The second says that while a code is unused
nobody holds a reply to it (`UnusedCodes`), and that a confirmation that does is the
only one and its row not yet finalised (`ConfirmsAlone`).

**ArrangementsProofs.**  `TypeCorrect`, `VerifierIsOwn`, `TokensAreSaved`,
`ArrangementsStayTogether` and `ReportIsComplete`, from one inductive invariant.
Its core is *faithfulness*: each row (`RowsFaithful`), each consent at the data
holder (`ConsentsFaithful`), each confirmation with its loaded row
(`WorkFaithful`) and each copy of a report (`CopiesFaithful`) agrees with the
request it was logged for and with the consent whose tokens it has.
`VerifierKept` says that the cache has the verifier of a request's last iteration,
as long as nobody else uses its state and the process lives, and
`ReportComplete` that what a report has seen is revoked or still to be done.  The four
properties are conjuncts or follow in a line.

**ClientRegistrationProofs.**  `TypeCorrect` and `SettledForGood`, which is
`RegistrationSettles`: once the table has one CURRENT row, the data holder knows
its client and nobody is registering or has another client in hand, no
step of anyone undoes that.  The inductive invariant adds to the types that an
evaluation past `Find` has a client and past `GetToken` a token.  The argument
then is about one evaluation `e` at a time: the step is *harmless* if `e` comes out
of it neither bootstrapping nor about to save another client than the one of
the table.  Every step of an evaluation is harmless from a settled state, also
with a cached token of an earlier client, because the data holder refuses that
token; and a row can only be saved as CURRENT by `Insert` and `SaveUpdated`.
`AloneIsActive` is `CurrentIsActive` where no request evaluates (`Handlers = {}`):
the housekeeper's evaluation then knows what the table says, so that
it registers only when there is no CURRENT row.

**DependencyEvaluatorProofs.**  `TypeCorrect` and `StaleCopiesHeal`
(`FailureHasReason`), for every graph, trail, client and history of the world.  The
assumptions are that names, ages and options are what they should be and that an
evaluator judges and calls only what its dependencies tell it
(`InformedAssumption`).  Nothing is assumed of the graph's shape or of its trails,
not even that it has no cycles.  The invariant: the frames of a stack have done all
dependencies before their place (`Sound`), and in the last iteration, unless it is
excused, every result so far tells the world as it is (`Trusts`).  The key lemmas
are `LastKeepsNone` (the formula of `Kept` leaves nothing of the trail to the last
iteration, for all lengths and limits) and from it that such an iteration is
served from no cache but by what is too fresh; `KnownIsWorld` (what a node is told is the
world) and `RefusedHasReason` (who refuses then, refuses because of the world).
`CachesBoundIgnorance` is `NoticedWithinMaxAges`: for every graph and all ages, no
evaluation gets as far as the call of its target while a status has been bad for longer
than `Unnoticed` allows.  Its invariant (`NInv`) says of every result in a cache, in a
frame or about to be stored for how long it may still be served: a status that it calls
good has been bad for at most `Delay` less the time that is left (`Recent`), and one
that it vouches for for at most `Unnoticed` less that time (`VouchesOn`,
`CacheDated`).  A copy that gets older loses as much time as the
world gains (`TickNotices`), and a node that stores a result adds its own maximum age to
those of its dependencies (`ResultRecent`, `ResultVouches`).  A status that a
preassertion has looked at is the exception: it is looked at anew in every walk.

**DataRequestProofs.**  `EnoughIterations` (`HealsTransientFaults`): every iteration
that has failed has met a fault of its own, unless the request cannot be served or the
tokens have gone (`EachHasItsFault`), so that one that gives up has met more than
`LastIteration` faults or is `OutOfTokens`.  The invariant `HealInv` adds what an entity
can be (`EntityGood`): it has the access token that the row has, or it has none; its
refresh token is used up only by a refresh whose iteration failed after it, which took
a fault, and needed again only after the access token was lost, which took another; and
an active consent is revoked only when its tokens were lost before (`RowGood`).

`ResourcesReached` (`ReachesItsResource`) is about concrete tables.  The lemmas of
the rows take them apart; `Meant` shows for each path the gateway offers that the route
of this path matches it and none before does, and the same for what is forwarded, at
the data holder (`Takes`); `TakesFirst` says that such a route is the one that Express
takes.

`NoRecordTwice` (`ReadOnce`), `WalksAreComplete` (`WalksReadEverything`),
`WalksImplementReader` (`ReadsTheList`) and, with `HealInv`, `TypesKept` (`TypeOK`)
follow from one invariant (`WalkInv`).  The assumption is that
the first requests are requests, and no walk begins as one from the end.  The
invariant ties the links in hand to the page that was asked for (`LinksLead`) and says
how far the walk has come: what a walk forwards has read lies before its page
(`Onwards`, which also holds while transactions drop out, since the positions of the
others only get smaller: `CountShrinks`), and of a steady list it has read exactly what
lies between the page it began with and the one it has come to (`NoGap`).  The lemmas
below them are the arithmetic of `Paginate`: two pages that a link joins leave no gap
(`LinkFollowed`), and where there is no link the list has ended (`NoLinkLeft`,
`LastFacts`), for every page size and every length.  The refinement takes from `WalkInv`
that what is unread lies ahead of the walk (`UnreadAhead`) and is empty at its end
(`NothingUnread`), and from the order of positions that a page has the next of it
(`PositionsGrow`); then there is one lemma for each kind of step, to a step of the
reader or to none (`ReaderBegins` .. `ReaderCloses`).

Only model-checked:

- liveness (`RevocationsPropagate`, `DenialIsRecorded`, `EventuallyUpToDate`,
  `GrantedIsConfirmed`, `Recovers`, `EveryRequestIsAnswered`), which the prover does
  not treat.

## 5. Findings

1. `ConsentRequestLog.ts:273`: a revocation decided on a stale copy replaces the
   recorded one.  If the second is by the data holder, the first, which awaited
   propagation, is never propagated (`consent_overwrite`).
2. `FetchTokens.ts:54`: after the answer to a token request is lost, the next
   iteration finds its token rotated and records a revocation by the data holder
   that has not happened (`consent_false_revocation`).  The same comes of an answer that
   is not lost: an iteration that refreshes the tokens, and then fails, leaves the next
   one with the refresh token it has used.  `DataRequest` shows it within one request.
3. `DataHolderRegistration.ts:98`: two evaluations that find no registration both
   insert a CURRENT row.  From then on `GetActiveRegistrationByIds` throws in
   every evaluation, and nothing repairs the table (`dcr_two`).  The assertion at
   line 148 expects exactly one.

Also noted while reading, where the models follow the code and no run is needed:

- `ConsentRequestLog.ts:306`: when two saves of a row overlap, the row can end with
  columns of both: revoked by the data holder and marked as propagated by the
  housekeeper, or with a place and no date.  Nothing in the repository says that the
  columns agree, and `RevocationColumnsAgree` excepts such rows.
- `AdrGateway/Server/server.ts:194`: the TODO says that rejections of the data handlers
  hang; they do not, `Responder` answers all of them.
- `JtiLog.ts:20` says earlier entries are looked for; the code looks for any other
  row, so that two concurrent requests with one assertion reject each other.
- `Dependencies.yml:335` says that evaluation does not proceed without a current
  refresh token; `FetchTokens` goes on whatever `SyncRefreshTokenStatus` returns.
- `Dependencies.yml:299`: the data holder must not be contacted if the cache of the
  register is older than one hour, which the expiry of the brands is to ensure; their
  `maxAge` is 14400, four hours.
- `Util.ts:12` gives verifiers 10 minutes by an option the installed `lru-cache` does
  not know: they stay until they are replaced.
- `CommsDependencyEvaluator.ts:260`: an option of 0 healing iterations is read as absent
  and becomes 3.
- `DiskCache.ts:27`: the name of a cache file is made from its key in a way that two
  keys may share.

## 6. Plan

In the order in which it was carried out:

1. `JtiLog`; proofs.  *Done.*
2. `ConsentRow`, `DhConsent`, `ConsentLog`; safety, liveness, proofs.  *Done.*
3. `ClientRegistration`: concurrent bootstraps, updates, cached tokens; runs, proofs.
   *Done.*
4. `Arrangements`: verifiers, pushed requests, amendments, reports; run, proofs.
   *Done.*
5. `DependencyGraph`, `DependencyEvaluator`; runs, proof of `FailureHasReason`.  *Done.*
6. `Pagination`, `ResourceRoutes`, `DataRequest`; run, proof of
   `HealsTransientFaults`.  *Done.*
7. Proofs of `FinalisedOnce`, `ExpiryNotOverestimated`, `CurrentIsActive`.  *Done.*
8. Proofs of `NoticedWithinMaxAges` and of the walks and routes.  *Done.*
9. Saves of the consent log as SELECT and UPDATE; the tokens of a data request over its
   iterations; run and proofs.  *Done.*
10. `ListReader`, implemented by the walks of `DataRequest`; run, proof.  *Done.*

Left:

- `ConsentLifeCycle`: the abstract life of a consent (requested, current, revoked;
  who revoked it), implemented by `ConsentLog` where revocations do not race.
- The mock data holder's validation of request objects.

## 7. Not modelled

- *Migrations.*  A command that is run once, by hand, before the servers
  start.  Its steps are statements of TypeORM whose atomicity depends on the
  database, and no `Rollback` does more than throw.
- Handlers that only read the consent table, and the optional headers of the backend
  (`x-adrgw-backend-base`, the interaction id, save that a wrong one is a fault).
- What becomes of a link whose filter has been garbled: `Decoded` models that it is,
  no property is stated, since the data holder then lists everything.
- What the gateway's own DELETE of one row means for other rows of its arrangement.
- The mock register and software product, the JWKS server, the TLS proxy, the
  HTTP client, configuration, logging and start-up keep no state that changes.
- Cryptography is taken as given: a signature is valid or the request has been
  turned away before the modelled steps.
