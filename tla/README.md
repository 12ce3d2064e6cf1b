# A verification project for the AML platform

TLA+ models of the parts of the platform where state is shared between
requests, processes and services, the TLC runs that check them on small
instances, and TLAPS proofs of the properties that matter most for every
instance. Paths are relative to the repository's root, which is `src/` here.

Contents: 1 the system, 2 the modules, 3 the runs, 4 fairness, 5 the proofs,
6 what the models showed about the code, 7 what is not modelled, 8 the plan.

## 1. The system

A FastAPI application (`main.py`, `routers/`, `services/`) runs in several
pods. State is in PostgreSQL (row level security per tenant, default isolation
READ COMMITTED, one read replica), Redis (locks, idempotency keys, caches,
rate limits, pub/sub), Kafka/Redpanda (fed from an outbox table), Neo4j (the
account graph, fed from Kafka) and Elasticsearch (watchlists). Handlers are
coroutines: between two awaits anything of another request may happen, in the
same pod or in another.

### Inventory

For each component: its state, its operations, with what it interacts, what is
hard about it, and what makes it correct.

**Transactional outbox** (`database/outbox.py`, `services/redpanda.py`).
State: rows of `transactional_outbox` with status, retry count and lease; in
each relay the batch in hand. Operations: record (inside a business
transaction), fetch a batch with `FOR UPDATE SKIP LOCKED`, publish, write the
outcomes back, prune. Interacts with every service that records events and
with the broker. Hard: several relays, leases that expire while a batch is
still being sent, write-backs by id only, lost acknowledgements, a relay that
dies half-way, row level security. Correct if no event is lost, duplicates have
a cause, retries are bounded and every event is settled.

**Resource locks** (`services/locking.py`, `routers/locks.py`).
State: a Redis key and a row of `resource_locks` for each resource.
Operations: acquire, refresh, release, force release, status. Hard: two tiers
that can disagree, read-then-write on either tier, tokens, failures of one
tier, a holder's own second tab, a TTL that each request chooses. Correct if two
users never hold one lock and the status endpoint names the holder.

**Alert handling** (`routers/alerts.py`, `services/state_machine.py`).
State: alert status and officer, transaction status, audit log. Operations:
claim, assign, escalate, resolve, bulk resolve. Hard: each handler validates a
state it read and updates another; several alerts on one transaction. Correct
if statuses follow the transition table, claims take nothing away, a
transaction is settled by a verdict and the audit log agrees.

**Case management** (`routers/cases.py`). State: case row, notes, closing
reason. Operations: create, patch, annotate, close. Hard: PATCH and close
validate before they write. Correct if the closing reason stands, is on the
timeline, and closed cases stay closed.

**SAR drafting and filing** (`routers/fincen.py`, `services/fincen_efiling.py`,
`services/idempotency.py`). State: drafts, filing status and tracking id of an
alert, idempotency keys; outside, what the gateway took. Operations: draft,
edit, review, submit. Hard: an external call between two database
transactions, retries, keys that expire or go, segregation of duties. Correct
if only what a second person approved is filed, once, and its receipt kept.

**Transaction ingestion** (`routers/transactions.py`,
`services/idempotency.py`). State: transactions, cash filings, outbox rows,
idempotency keys, account row locks. Operations: the synchronous route
(validate on the replica, score, lock, insert, aggregate cash, record an event,
commit) and the asynchronous one (buffer an event). Hard: retries against
keys, stale reads, errors swallowed inside a transaction, a lost answer to a
COMMIT, crashes. Correct if a key makes one transaction, answers are those of
the key and payload, keys do not lock clients out, cash that adds up is
reported and frozen accounts do not transact.

**Account status and EDD** (`routers/accounts.py`,
`services/watchlist_sync.py`). State: account status, frozen_at, EDD requests.
Operations: identify, freeze, unfreeze, request and decide EDD, rescreen. Hard:
all of them overwrite one column without looking at it, while ingestion reads
it. Correct if a freeze stands until it is lifted.

**Stream workers** (`scripts/sync_worker.py`, `workers/scoring_worker.py`).
State: consumer offsets, Neo4j edges, the `neo4j_synced` marks, dead letters,
transaction rows and alerts written by scoring. Operations: consume, retry,
dead-letter, commit offsets, poll the table when the broker is away; score and
persist. Hard: rebalances inside a batch, answers that get lost, an offset that
is committed automatically before its message is persisted, a worker that returns
when it starts. Correct if an offset vouches only for what is settled and what is
published or polled gets to the graph.

**Rules engine and configuration** (`services/rules.py`, `routers/rules.py`).
State: sorted sets in Redis, the transactions table, the rules file and its
cache in each process, `rule_configs` with its history. Operations: evaluate,
PUT, PATCH, reload. Hard: evaluations of one customer that overlap, edges of
windows, timestamps that come out of order, look-ups that fail quietly, a file
that the processes of a container share, read while it is written.
Correct if a pattern is flagged exactly when it is there and a change of the
rules takes effect.

**Whitelisting cache** (`services/whitelisting.py`). State: a dictionary in
each process, Redis, the table and its replica. Operations: add a disposition,
check a name. Hard: lost messages, replica lag, evictions, expiry. Correct if an
added disposition is seen by every later check.

**Authentication and sessions** (`services/auth.py`, `routers/auth.py`,
`services/mfa.py`, `services/api_keys.py`, `services/iam/`). State: the token
version in the row and in Redis, refresh tokens and their denylist, role,
pending setups, consumed codes, recovery codes, lockout counter. Operations:
login, second factor, exchange, logout, change of password or role,
provisioning of a second factor. Hard: two stores written one after the other,
look-ups before writes, keys that expire or are evicted, checks that let everybody
in when Redis is away. Correct if a revoked session stays out, a fresh login gets
in, roles are current, and no code serves twice.

**Rate limiter** (`services/rate_limiter.py`). State: a sorted set in Redis, a
list in each process. Hard: Redis coming and going inside a window.

**Watchlists and screening** (`services/watchlist_sync.py`, `routers/screening.py`,
`routers/watchlist.py`). State: two Elasticsearch indices (sanctions, politically
exposed persons), cached answers, account status. Operations: synchronise, re-screen
accounts, search. Hard: a search and a synchronisation that overlap, indices that have
not been refreshed, sources that fail one by one. Correct if a listed name is found
and its account escalated.

**Customers and onboarding** (`routers/onboarding.py`, `routers/customers.py`). State:
accounts in Postgres, companies and owners in Neo4j. Hard: two stores without a common
transaction, compensation, a COMMIT without an answer. Correct if onboarding leaves
all or nothing and the dossier names every owner.

**STR batches** (`services/str_batch_engine.py`, `routers/str_batch.py`).
State: packages, stamps on alerts, status of a filing; outside, what the gateway
accepted. Hard: two operators, an external call, a broadcast inside the
transaction. Correct if a report is in one package and an accepted package is
recorded as accepted.

**Live metrics** (`routers/metrics.py`). State: sockets in each process, a
pub/sub channel. Hard: sockets that come and go while a message is sent; process
ids that tell senders apart.

**Network analysis** (`services/network_analysis.py`, `database/neo4j_db.py`).
Algorithms over the graph of transfers, twice: in Cypher and in memory.

**Risk scoring and feedback** (`services/feedback_loop.py`,
`services/isolation_forest.py`, `services/ml_model.py`). State: labelled
samples, the model each process has. Operations: record a sample, train, install.
Hard: a training that is set off by a count, reads before its sample is
committed, and ends in any order.

**Audit trail** (`services/audit.py`), **evidence vault**
(`routers/evidence.py`), **privacy and legal holds** (`routers/privacy.py`),
**secrets, encryption, TLS, masking**, **SIEM forwarding**, **narratives and
XML**, **message formats** and **bootstrap and observability**: see section 7
and `PROJECT.json`.

### How the components interact

Ingestion inserts transactions, alerts and outbox rows in one database
transaction; relays carry the rows to Kafka; the workers consume them. Officers
lock alerts and cases while they work on them, but no handler of alerts or
cases asks for the lock: it is a convention between consoles, so the lock and
the handlers are modelled apart. A resolved alert settles its transaction and
may lead to a report; filing reads and writes the alert. Freezing and EDD write
the status that ingestion reads, first on a replica, then under a row lock:
`TransactionIngest` extends `AccountStatus` for that reason. Ingestion and
filing share `services/idempotency.py` and each models it with its own callers.
Every handler that changes something tells the dashboards; only the one that
transmits a package depends on the outcome, since it broadcasts before its
transaction commits: `StrBatch` extends `LiveFeed`. The workers take what the
background tasks of ingestion and the outbox publish; `GraphSync!Send` may happen
several times or never, since the outbox gives up on some events and, under row
level security, never sees others.

## 2. The modules

| Module | Models | Extends |
|---|---|---|
| `Outbox` | `database/outbox.py`, `services/redpanda.py` as its relay uses it | |
| `EventDelivery` | the abstract promise of the outbox | |
| `OutboxDelivery` | the refinement mapping `Outbox` -> `EventDelivery` | `Outbox` |
| `ResourceLock` | `services/locking.py`, `routers/locks.py` | |
| `AlertLifecycle` | `routers/alerts.py`, `ALERT_TRANSITIONS` | |
| `CaseLifecycle` | `routers/cases.py`, `CASE_TRANSITIONS` | |
| `SarFiling` | `routers/fincen.py`, `services/fincen_efiling.py`, `services/idempotency.py` | |
| `AccountStatus` | `routers/accounts.py`, the rescreening of `services/watchlist_sync.py` | |
| `TransactionIngest` | `routers/transactions.py`, `services/idempotency.py` | `AccountStatus` |
| `GraphSync` | `scripts/sync_worker.py` | |
| `ScoringWorker` | `workers/scoring_worker.py` | |
| `DetectionRules` | the rules of `services/rules.py` over several transactions | |
| `RuleConfig` | `routers/rules.py`, the configuration in `services/rules.py` | |
| `WhitelistCache` | `services/whitelisting.py` | |
| `NetworkAnalysis` | components and circles: `services/network_analysis.py`, its queries in `database/neo4j_db.py` | |
| `Betweenness` | the intermediaries in the same graph: `services/network_analysis.py` | `NetworkAnalysis` |
| `Sessions` | tokens and roles: `routers/auth.py`, `services/auth.py` | |
| `TwoFactor` | `/mfa` of `routers/auth.py`, `services/mfa.py` | |
| `Lockout` | failed logins: `services/auth.py` | |
| `RateLimit` | `services/rate_limiter.py` | |
| `Screening` | `services/watchlist_sync.py`, `routers/screening.py`, `routers/watchlist.py` | |
| `Onboarding` | `routers/onboarding.py`, the dossier in `routers/customers.py` | |
| `LiveFeed` | `routers/metrics.py` | |
| `StrBatch` | `services/str_batch_engine.py`, `routers/str_batch.py` | `LiveFeed` |
| `FeedbackLoop` | `services/feedback_loop.py`, `routers/ml_feedback.py`, `services/isolation_forest.py` | |
| `MCStream` | instance of the detection side: the seven from `GraphSync` to `Betweenness` | those |
| `MCOffice` | instance of the office side: `CaseLifecycle`, those from `Sessions` to `RateLimit`, `Onboarding`, `FeedbackLoop` | those |
| `MCDesk` | instance of what desks share: `ResourceLock`, `StrBatch` with `LiveFeed`, `Screening` | those |
| `GuessLimits` | `TwoFactor`, `Lockout` and `RateLimit` as one specification | those |
| other `MC*` | instances for TLC | the module they name |
| `AlertProofs`, `SarProofs`, `IngestProofs` | theorems and proofs | the module they name (`AlertLifecycle`, `SarFiling`, `TransactionIngest`), TLAPS |
| `DeskProofs` | theorems about what desks share: the lock, the live feed, the batches | `ResourceLock`, `StrBatch`, TLAPS |
| `StreamProofs` | theorems about the outbox relay and the detection side | `OutboxDelivery`, `GraphSync`, `ScoringWorker`, `DetectionRules`, `RuleConfig`, `WhitelistCache`, `Sums` |
| `NetworkProofs` | theorems about the analysis of networks | `Betweenness`, `Sums` |
| `OfficeProofs` | theorems about the office side | `Sessions`, `CaseLifecycle`, `FeedbackLoop`, `Onboarding`, `Screening`, `GuessLimits`, `Sums` |
| `Sums` | lemmas on sums over finite sets, for the four that add up | TLAPS |

`PROJECT.json` ("map") gives the source lines of every definition. Definitions
called "Variant of X" are forms of X with a plausible bug; no specification
uses them: they are there to show that the properties notice it.

**Atomicity.** A step is what no other request can come between: a Redis
command; a SQL statement together with the statements that run under the row
locks it took, up to the commit; a network call. A handler that reads, decides
in the process, and then updates is two steps, and what it read is kept in its
request record (`req`, `pc`, `call`). A statement that raises inside a
transaction aborts it; where the handler swallows the exception, the COMMIT
that follows rolls everything back (`CommitAborted`).

**Outbox.** `row[e]` is a table row; its `age` stands for the timestamps
(`leased_at` beyond 300 s, `published_at` beyond 24 h), so that no clock is
needed: `TimePasses` ages a row at any moment. `todo`, `ok` and `failed` are
the local lists of a relay's cycle. `copies` is the broker's side. `takenOver`
and `ackLost` are history variables that name the two causes of duplicates.
`LoseCycle` stands for a crash, a cancelled task and a failed write-back alike:
all three leave rows PROCESSING and lose the lists.

**ResourceLock.** `redis` is the key, `db` the row; `left` counts the ticks to
expiry. `req[s]` has the next step of a tab's request, the TTL it asks for (any up to
`MaxTTL`) and the token its GET returned; `lease[s]` is what the last 200 answer
still promises. `causes` is a history variable: "lost" (Redis dropped its keys),
"fallback" (the table decided because Redis failed), "raced" (an unconditional
SET or DELETE hit a key that had changed hands since it was read), "shortened" (a
tab wrote the key with a TTL below what another tab of its user was promised, or
is about to be). A tab that asks for less than it had itself gives up the rest.

**AlertLifecycle, CaseLifecycle.** `...Read` actions read and validate;
`...Commit` actions (for cases `UpdateCase`, `CloseCase`, `AddCaseNote`)
perform the guarded UPDATE and everything that commits with it. Transition
tables are those of `services/state_machine.py`, all rows included.

**SarFiling.** `req[o].at` runs through the steps of a submission: reserve the
key, read the alert, check the draft, mark FILING_PENDING, call the gateway,
persist the receipt, settle the key. `filed[a]` is what the gateway took; the
gateway is external and may accept, reject, fail, or take the report and lose
its answer.

**AccountStatus, TransactionIngest.** `pc[r]` is the step of a request:
`Arrive` (SET NX), `Lookup` (GET), `Check` (replica), `Lock` (SELECT ... FOR
UPDATE), `Record` (the INSERTs and the aggregation), `Commit`, `Save`;
`Clear`/`Delete` are the GET and DEL of `clear_idempotency_key`. A request
names the transaction it makes. Scoring decides neither whether a transaction
is recorded nor its accounts and is left out, except that it takes time.
`Record` is one step for several statements: they run under the row locks taken
by `Lock`, and what they read of other accounts may only become newer until the
COMMIT, which is a step of its own. `lapsed` and `unsettled` are history
variables: keys that failed to hold off a second request, and keys a request
left behind. `Imported` accounts start CIP_PENDING or EDD_REQUIRED, since no
handler sets CIP_PENDING.

**GraphSync, ScoringWorker.** One partition of a topic is a sequence; an offset
is a position in it. A graph worker's `mode` is what it found at start-up: it
consumes, or polls the table until it is restarted; without a driver for Neo4j it
returns, and comes back (`Revive`) only if it is `Supervised`: the Kubernetes
Deployment starts it again, compose and the API that embeds a worker do not.
`Attempt` is one MERGE with
its answer, which may be lost; `CommitOffset` vouches for everything before it,
also when the partition has changed hands (`CommitRefused`). The scoring worker
commits by position (`AutoCommit` at any moment), keeps one message in hand, and
a kill restarts it at `vouched`.

**DetectionRules, RuleConfig.** A request evaluates (the 24-hour rule against
sorted sets it extends in the same pipeline, the others against the table) and
stores its transaction later; timestamps may lag. What a test of a rule writes
to the sets counts as trouble (`bad`). A request keeps the `entity` and the tier
(`high`) it has found: when the look-up of the owner fails, the name on the account
stands for the entity, and a baseline that cannot be read is STANDARD. Names are
taken to differ between accounts, so that a failed look-up finds no other account
(the seven-day query would also match accounts of an equal name), and an account's
baseline has one tier. Properties compare the flags with a definition of each
pattern over sets of transactions. `RuleConfig` has a file for each container,
shared by its processes (`Dockerfile:50` starts four), which a PUT truncates and
writes in a thread, or fails to; a cache for each process; and the table and
history that PATCH writes. Three history variables name what keeps a PUT from
taking effect: `mixed` (PUTs of one container overlapped), `spoilt` (the last one
was not written to the end: its error is swallowed, or its process died), `unaware`
(processes its message did not reach).

**WhitelistCache.** `Keys` are the keys a disposition is stored under, `check`
the three tiers a look-up goes through; time counts in days.

**NetworkAnalysis, Betweenness.** Each initial state is a graph; steps are those of
the algorithms in memory: Tarjan's calls one by one (`frames` are the calls under
way), and Brandes' loops, source by source: an account is taken from the queue
(`TakeNext`), each of its neighbours is looked at (`LookAt`), and the stack is
emptied (`Accumulate`). `met` is the stack up to `taken` and the queue after it,
since what leaves the queue goes to the stack. `NetworkExact` has three parts.
`ComponentsExact` compares with reachability, stated by the sets that no transfer
leaves; `CirclesExact` says what the circles of the search in memory and of the
query have to do with the components; `CentralityExact` compares with the shortest
paths of the definition. Centralities are fractions of `Unit`, a number that the
numbers of shortest paths divide, so that they stay integers where the code has
floats, and are taken before they are scaled and rounded.

**Sessions, TwoFactor, Lockout, RateLimit.** One user, or one client. `version` is the
row, `cached` is Redis; a revocation writes one and then the other. A check that Redis
does not answer lets everybody in (`Accepted`), and Redis may drop any of its keys
(`Evict`: the version, a revoked token, a family). Tokens are numbered and belong to
families. Time is counted where it matters: steps of 30 seconds for codes, minutes for
lockouts, slots for the limiter.

**Screening.** A job goes through `Steps`; each feed that fails is replaced by its
own data set. A document is a name in one of two indices, in `docs` when indexed
and `visible` after a refresh. The endpoint searches both indices, the re-screening
only that of sanctions (`Finds`). `Scan` is Redis SCAN, which need not see keys set
while it runs. A query is look-up, search and SETEX; an entry remembers whether
it was computed while lists were being synchronised (`overlapped`).

**Onboarding.** A form is a request with its account; each statement to Neo4j is a
step, the compensation a second transaction to Postgres. `InsertFails` answers 500,
with the account committed if it was the COMMIT whose answer got lost. Merging a
company by its registration number renames the node of earlier ones.

**LiveFeed, StrBatch.** A broadcast is a loop over the sockets of a process
with one await each, then a publication for the others, whose listeners drop what
bears their own `pid`: any numbering of the processes, so that processes of
different containers may have the same (`Namesake`). The dictionary may
change size in the loop, which raises. A request that transmits is: read,
submit, update, tell, commit.

**FeedbackLoop.** A model is the number of samples it has seen. Counting sees
the request's own row and the committed ones; the training is a task of its own.

**Composed instances.** The modules that `MCStream`, `MCOffice` and `MCDesk` extend share
no state in the code, or share it only through what each leaves
nondeterministic. Each initial state picks a part and the others stay as they
are, so the state spaces add up and one run checks all the parts.

## 3. The runs

| Run | Instance | What it checks |
|---|---|---|
| `outbox_relay` | 2 events, 2 relays, batches of 2, 2 retries, 1 lost cycle, fair | nothing lost, causes of duplicates, the refinement, every event settled |
| `outbox_rls` | the same with row level security in force | *violated*: every event is eventually published |
| `desk` | lock: an analyst with two tabs and an MLRO, TTLs of 1 and 2, every fault, 2 requests at once; batches: 1 alert, 2 packages, 2 processes (of one container, or of two that number them alike), 2 dashboards; watchlists: 2 jobs, 1 search, 2 feeds, 1 name, which is politically exposed and may be sanctioned, 1 mishap | two holders, a wrong holder reported, or a holder refused, only after a named cause; packages stand, feeds arrive, listed names found and escalated |
| `alert_races` | 2 alerts on 1 transaction, 3 officers, one alert NEW | transition table, settlement, audit |
| `sar_races` | 1 alert, 1 draft, 2 officers, 2 keys, at most 2 filings, 1 kind of fault out of 5 | four eyes, one filing per key, receipts, approvals |
| `sar_filed_twice` | the same without faults | *violated*: an alert is filed once |
| `ingest_races` | 3 requests, 1 key, 2 accounts of one customer, 4 kinds of call, 1 status write, 1 fault | once per key, answers, lockout, cash reports, open accounts |
| `ingest_frozen` | 1 request, 2 status writes | *violated*: no transaction between a freeze and its unfreeze |
| `stream` | graph workers: 2 transactions, 2 workers, 3 faults; scoring: 2 transactions, 2 kills; rules: 3 transactions, 3 accounts of 2 customers; configuration: 2 processes of a container, 2 changes; whitelist: 2 processes, 2 dispositions; network: every graph on 4 accounts with up to 5 transfers | offsets vouch, what is published or polled reaches the graph, at most one lost per kill, patterns flagged, changes in force, dispositions seen, algorithms exact |
| `rules_patched` | the configuration alone, 3 processes in 2 containers | *violated*: a PATCH takes effect |
| `accepted_scored` | scoring without faults, fair | *violated*: what /ingest accepts is scored |
| `office` | cases: 1 case, 2 roles; sessions: 2 calls, 2 roles, 2 tokens, 1 lost write or evicted key; second factor: 2 requests, 2 setups; limiter: 2 processes, limit 2; lockout: 2 logins, threshold 3; onboarding: 2 forms of 1 company, 2 mishaps; feedback: 2 recorders, 2 processes, 2 trainings, 4 samples | closing reasons, tokens and roles, one successor, limits, all or nothing, samples learned |

Every property of a passing run is broken by a mutant of the code's model
(`PROJECT.json`, "mutants"), under the run's own bounds: the bounds are large
enough for each property to be able to fail.

**Bounds, and why they suffice.** A race between handlers needs two requests; a race
that uses up a protection needs a third: `alert_races` and `ingest_races` have three
actors, and the counterexamples found have two or three. *Outbox*: two relays are
needed for a take-over, two events for a batch that is half sent; MaxRetries 2 lets a
row fail, be leased again and be dead-lettered; MaxFaults counts lost cycles. *Locks*:
two TTLs tell a fresh lease from one about to expire and a long one from a short one;
a tab that cuts the other's lease takes the two of one user, and the third is the
other user's. The constraint `Undisturbed` stops at the first cause, after which the
properties say nothing, and `TwoAtOnce` keeps two requests in progress while a third
may have begun: no cause takes more than two, and the theorems have no such
bound. *Cases*: handlers touch one case, so one is enough. *Filing*: MaxFilings 2 is
one more than there should be; MaxFaults 1 bounds the kinds of fault in a behaviour,
not how often one occurs. `MaxDraft = 2` was also checked by hand (14.25 million
states, no violation), which is too slow for the regular runs. *Ingestion*: the calls
are two cash transactions that together, not singly, reach the threshold ($5,000 and
$4,500 in units of $500 are below 20 units; two of the first reach it), in both
directions between the accounts, with the same key and different payloads, without a
key, and by the asynchronous route. MaxActs 1 lets one status change race three
requests; `ingest_frozen` has 2 for a freeze and what undoes it. MaxFaults 1 lets
Redis, an answer to COMMIT, a process or a key fail once. *Workers*: two transactions
and two workers give a batch of which one half is settled when the partition moves;
three faults let a write fail on both attempts and its dead letter too. One worker is
supervised and the other is not. *Rules*: three transactions are the fewest of the
seven-day rule (its `min_count`); amounts of 3 and 5 units reach the threshold in some
sums and not in others; a day, a week and the loop's window are 1, 2 and 1 ticks with
a clock of 2 instants and lags of 1, so that timestamps fall on either side of the
edges. *Network*: on four accounts two circles can share an account, a component can
hang on another, and a pair of accounts can have two shortest paths; Unit 720720 is
divisible by all numbers up to 16. *Configuration*: the passing run has the two
processes in one container, since containers share only the table and the message; the
run with the counterexample, and the proof, have several. *Sessions*: three versions
are two revocations after the first; one lost write or dropped key, and any check may
go unanswered. *Limiter and lockout*: the clock runs for two windows. *Screening*: two
jobs overlap each other and one search; the one name is in the vendors' lists of
politically exposed persons and may come to either of two feeds' sanctions, so that it
can be in one index, the other or both, and feeds can differ in whether they fall
back; longer clocks repeat the hour in which an entry expires. The constraint
`Telling` stops at failures after which neither half of `ListedIsTreated` says
anything. *Batches*: two packages of one alert, two dashboards of which one comes or
goes. *Feedback*: a training is due at every second sample instead of every fifth,
four samples are two of them.

Deadlock is checked where the system can always go on. It is switched off
for the locks (all leases expired and tabs closed), the relays (everything
published and pruned), ingestion (all requests answered) and the composed
instances, whose parts may stop.

Symmetry is used for officers (`alert_races`), keys (`sar_races`), requests
(`ingest_*`), the tabs of the analyst, the feeds and the processes of `desk`, and the
actors of `office`, which no definition tells apart, and in no run with a liveness
property.

## 4. Fairness

*Outbox* (`FairSpec`). A relay's loop (`OutboxRelayEngine`, started in
`main.py`) never ends while its pod is up and sleeps for a bounded time: weak
fairness of its fetch, publish and write-back steps. A lease is a timestamp and
does expire: weak fairness of `TimePasses` on PROCESSING rows. Nothing is
assumed of the broker (it may refuse every send), of faults, of the pruner, of
business transactions or of officers.

*Graph workers* (`SyncFairness`, in `MCStream` for the states in which they are
the part that runs). A worker that has been started gets as far as its loop, or
returns: weak fairness of `Probe`. Kubernetes restarts a container that has ended:
of `Revive`, for workers in `Supervised` only. The group assigns a free
partition: of `Assign` while nobody has it. The loops go on while the worker lives,
and `main` calls the consumer again when it has crashed: of `Consume` and `Poll`.
Nothing is assumed of publication: the outbox dead-letters events and, under row
level security, never sees those of a tenant, so `EventuallyInGraph` speaks of
transactions that were published or that somebody polls the table for, and promises
nothing once every worker has ended for good. Faults are bounded and never required.

*Scoring worker* (`ScoreFairness`, for `accepted_scored`): its loop and its
client's commit timer go on.

The other modules state no liveness: their handlers end by themselves, and a
client that never retries is a client's choice.

## 5. The proofs

58 theorems, all checked by TLAPS, for every value of the constants that
satisfies the module's `ASSUME` (finite or not, where it does not ask for a
finite set). Each is proved from an inductive invariant, as an ordinary
invariance argument: initial states have it, every step keeps it, it implies
the property. The temporal step is PTL. Every invariant and every action
property that a passing run checks is a theorem; only the liveness of two workers
is not (see the end).

**Outbox** (`StreamProofs`). `IInv` conjoins the type invariant, `NothingLost`
and `SoleHolder` with what they rest on: `ListsOK` (what a relay still has to
send is in neither outcome list; what it lists as published the broker has),
`CleanOK` (`CleanEventsOnce` strengthened to rows and batches: an undisturbed
event that is pending, given up, still to be sent or refused has no copy yet),
`BudgetOK` (the retry budget, with rows not yet recorded) and `RecordedOK`
(what a relay has in hand was recorded). `CleanEventsOnce` alone is not
inductive: it says nothing of a batch that is half sent.
`OutboxKeepsThePromise` is the refinement: `Init` maps to `Init`, each action
to `Record`, `Take`, `WriteBack` or a stutter.

**Locks** (`DeskProofs`). `Backed`: while nothing undermined Redis, a lease that
is promised, and one whose SET has succeeded and whose answer is still to come,
is backed by a key of the same user that lives at least as long, whatever TTLs were
asked for: a key written for less is the cause "shortened", unless nobody else was
promised more. `Exclusive` and `HolderIsReported` follow. `Asking`: a tab that asks
the table holds no lock yet. So, however many tabs a user has, Redis refuses none of
them while one holds the lock, and the table none that holds it itself
(`LockHolderNotRefused`). The property says no more of the table, since more is not
true: if a second tab gets its lease by the key while the first, which found the key
free, is about to read the table, the row of the holder before may still be live and
the first tab is refused. Every fault is allowed.

**Alerts** (`AlertProofs`). `Inv` adds to the settlement properties
`RequestsValidated`: what a handler relies on between its read and its update
(the alerts of a verdict had left NEW, and none returns). Without it a guarded
UPDATE of an arbitrary alert would break the table.

**Filing** (`SarProofs`). `Inv` = types, `Approvals` (an approved draft has an
independent approval; only drafts that exist were approved), `FourEyes`, and
`Established(o)`: what the request of an officer has established by the step it
is at, in particular that a submission past its checks relies on a draft with an
independent approval. An edit may have undone the approval since; that it was
`signed` cannot be undone. `Tracked`: a filed alert has its tracking id or its
request is about to write it. `KeysGuard`: unless a fault frees it, a key is taken
from the reservation until its request ends without filing, and for good once it
has filed, and nobody else has it meanwhile. The filings of an alert then inject
into the keys used for it, which is `OneFilingPerKey`.

**Ingestion** (`IngestProofs`). `TypeInv` adds `Keyed` (a request that looks up
or clears has a key). `LockInv`: a replica that does not show CIP_PENDING is
behind an account that no longer is (`Behind`), and a request between `Lock` and
`Commit` holds accounts that are neither frozen nor unidentified (`Secured`);
`OpenAccounts` follows. `KeyInv`: a key that has not lapsed engages at most one
request, is present while it does, and is cleared only for a request that
recorded nothing; `OncePerKey` follows. The proof splits the steps by what they
do to the engagement (leave, stay, join) rather than by action. `AnswerInv`:
stored and named answers are those of requests that carry the same key and no
longer change. `NoLockout` is inductive with the types. `ReportInv`: a request
about to commit decided on every earlier row that will be before its own,
because whoever else sends from the account waits for its row;
`AggregateReported` follows with the lemmas of `Sums`.

**Workers** (`StreamProofs`). `Progress`, for `SyncSettled`: everything before the
committed offset, and everything before the message a worker has in hand, is in the
graph, dead-lettered or logged as unwritten; what the owner of the partition has
fetched is so or in its batch; what a poll has written is in the graph. Workers that
return and come back hold nothing. `OnePerKill`: the messages behind the position that
are neither persisted, dropped nor in hand are no more than the kills, by counting the
set step by step.

**Detection rules** (`StreamProofs`). `DetectInv` has the two theorems in one
induction. For `StructuringExact`: `WindowSound` (an entry of a sorted set is a
counted request under a key of its owner, or a test), `ArrivalsKept` (where nothing
failed, a counted request is in its owner's set or the set has an entry a day younger,
so that whoever is less than a day behind finds it there). The request that completes
a pattern maps the others injectively into the entries it finds, so that their number
and their sum are enough (`SmurfsCaught`); backwards, the entries that made it flag
are the images of requests (`FlagFounded`). For `PatternsCaught`: `RowsJudged` says of
each request, in terms of the rows it saw, that it missed nothing, by the owner and
the tier it had found; the last of a week's requests saw the others, and of a set of
credits the rule compares with the latest, which is at most their sum.

**Rule configuration, whitelist** (`StreamProofs`). `Steady`: a container in which no
two PUTs overlapped has at most one in progress; unless its write was cut short, the
file is empty until that one has written it and is what was put last from then on;
without one, so is what the processes evaluate with that have heard of the last PUT
and have no message waiting. `Findable`: while nothing went wrong, a valid disposition
that Redis was given is found there or in the replica, its row is written before the
keys, and what a look-up still owes has reached the tier it asks next.

**Sessions** (`OfficeProofs`). `OnePublication`: without a failed write, one
publication of a version at a time, of one no lower than any answered, under a row no
lower, and a cache no lower unless Redis has dropped it. `RolesBound`: whatever
carries a role, or will be exchanged for a token that does, has the user's role or a
stale version; `Stale` are the versions below what was answered or is about to be, and
all of them until a change of role has raised the row's. What Redis lets in is not
stale. `Succession`: in a family no token of which was exchanged twice at once or
dropped from the denylist, whoever rotates holds the only token that works.

**Cases** (`OfficeProofs`). `CaseTypeOK` and `DispositionRecorded` are inductive
together. The two action properties follow from a lemma on what each step does to
a closed case.

**Guesses** (`OfficeProofs`, over `GuessLimits`). `FactorInv`: until two
verifications race, what one has read still stands, a setup that waits is
unspent, and a used code is remembered until its step is over. `LockoutInv`:
between INCR and what follows it the counter is past the threshold only by logins
about to lock, and ends no later than the lock. `RateInv`: what was admitted in an
open window is in the sorted set, in the lists of the processes, or was forgotten
by a restart, each part within the limit.

**Screening, onboarding, feedback** (`OfficeProofs`). `IndexedWell`: what a job has
fetched is in its hands or in its index, and found from its refresh on;
`RescreensWell`: a re-screening has the sanctioned among the rows it looked at in
hand; `AnswersWell`: a request about to answer "clean" began before the name was
synchronised into either index (`Since`), and if it was synchronised since, it saw the
synchronisation. `Whole`: what a form has written by the step it is at is there, under
the name it gave unless that was changed, and one that has ended without a company has
no account unless a compensation or a COMMIT is to blame. `Taught`: up to each
multiple of `Every` some server has learned or some training will (`Every` of 2 or
more, as the code's 5: the sample that sets a training off is not yet committed when
it is read).

**Live feed, batches** (`DeskProofs`). `FeedInv`: a message is on its way to a process
once, is sent by a process either before it is passed on or after it was heard, and
whoever got it meets no other iteration of it; so nobody gets it twice. `StillComing`:
a client that stayed has it or has it coming, or is in a namesake of the sender, whose
listener drops what bears its own number (`routers/metrics.py:136`) and where it is
never sent (`NamesakesDeaf`). `EveryoneHears` is therefore proved for any numbering of
processes. `StrInv`: what is being sealed is in no package but those compiled at the
same time; stamps and packages agree; after the gateway has answered, the request has
the receipt the row should have.

`Sums` proves that the folds of the community modules do not depend on the order
in which they take the elements, from a smallest counterexample among the subsets
of a finite set; that is why modules that add up assume finite sets of requests,
times and transactions.

The theorems on types, and `OutboxSoleHolder` (an event never taken over is in one
relay's hands), `OutboxRetryBudget` and `OutboxConfirmed`, mostly state no
property of a run: proved for every instance, they need none.

**Network analysis** (`NetworkProofs`). `TarjanInv`, for any graph: accounts are
numbered as they are met and stacked in that order (`Numbered`); a call waits for
the neighbour the call above it is about (`Nested`); an account on the stack
reaches those above it and goes back to one a call is about, at or below it
(`OnePath`). The low link of a call is the number of an account on the stack that
can be reached (`LowFounded`), and for any transfer looked at from above between
accounts on the stack, this call or one above it has a low link that takes account
of it (`LowEnough`). Money does not leave what was claimed (`Explores`), and the
components found are those of the claimed accounts (`Components`). When a call ends
with its low link equal to its number, the part of the stack from its account
upwards sends money to itself and to claimed accounts only, by `LowEnough`, and
each of its members goes back to that account, by `OnePath` and `LowFounded`: it is
a component. That is `ComponentsFound`. For `CirclesReported`, the accounts a
component's simple paths end at are closed under transfers within it, so that each
account of a component of up to six ends one, also the one that closes a circle;
and a trail that comes back to its beginning lies in one component. Reachability is
stated by closed sets (no set holds `v`, holds where its members send money to, and
leaves `w` out): that says the same as a path of any length, needs no induction, and
a proof has only to name the set.

`CentralityExact` rests on `RankInv`. The queue and the stack hold the accounts met
by their levels (`Queued`, `Rooted`); no transfer looked at leads more than one level
down (`Widening`), so that levels are distances once the queue is empty, and the
shortest paths are the paths along the transfers that lead one level down
(`Followed`). An account has as many of these as were counted (`Tallied`): a transfer
that is looked at adds, to the paths of its receiver, those of its sender, each with
one more account (`WaysGrow`). The stack is emptied from the deepest level
(`Emptied`), and what an account owes (`delta`) is the sum over all others of what
the paths there through accounts already popped are worth (`Owed`); popping an
account adds its paths to its predecessors' (`WorthGrow`, Brandes' recurrence, as a
disjoint union of sets of paths). The share of an account in the shortest paths
between two others is the number of its ways there, times the number of ways on from
it, over the number of all (`ThroughIs`, a bijection with pairs of paths). And a
centrality is the sum over the sources that have had their turn (`Gathered`).
`NetworkAnalysed` puts the three parts together, for the two searches interleaved
over one graph. `UnitAssumption` asks that `Unit` can be divided by any number of
shortest paths there can be; it stands for exact division, which floats only
approach.

**Only model-checked.** Liveness: `EventuallySettled`, `EventuallyInGraph` and the
violated `EventuallyPublished` and `AcceptedIsScored`; fairness and ENABLED are
out of the prover's reach.

## 6. What the models showed about the code

Each with a run whose counterexample is the scenario:

- **Tenant events are not relayed under row level security** (`outbox_rls`).
  The relay sets no tenant, so an event recorded with one stays PENDING.
- **An alert can be filed twice** (`sar_filed_twice`) by two submissions with
  different keys: FILING_PENDING is written and never read.
- **A freeze can be undone without an unfreeze** (`ingest_frozen`), by
  identification, EDD or rescreening.
- **A PATCH of a rule never takes effect** (`rules_patched`): it writes a table
  that evaluation does not read.
- **Transactions accepted for asynchronous scoring are never scored**
  (`accepted_scored`): their events lack the account ids the worker reads.

Met while modelling, without a run of their own (the models reach these states;
where a property would forbid them, it names the exception):

*Locks, alerts, cases, filing, ingestion*

- Bulk resolution audits verdicts that did not take effect, and settles the
  transactions, when a single resolution commits between its read and its update.
- An idempotency key can let two requests through without any fault: a rejected
  request deletes the key between the SET NX and the GET of a second one, which
  goes on although it reserved nothing (`lapsed` in `OncePerKey`).
- A lock key that goes between the SET NX that failed and the GET that asks who
  has it leaves the decision to the table alone, which grants a lock Redis does
  not know (the cause "fallback" of `Exclusive`). An acquire that the table
  refuses leaves the key it has just set. Under row level security release,
  refresh and status see no row of the table: a released lock answers 409 until
  its lease ends.
- Each acquire and refresh brings its own TTL (`routers/locks.py:27, 32, 54, 112`). A
  second tab of the holder that asks for less cuts the key and the row: another user
  is let in while the first tab relies on a lease it was granted ("shortened").
- A PATCH that read a case before it was closed reopens it; `ClosedForGood`
  states what is left of "closed is terminal". PATCH with status CLOSED closes
  without reason or note.
- A refused submission keeps its idempotency key in flight: the corrected
  retry gets 409 for a day.
- A NACK of the gateway is persisted together with a tracking id, and no later
  filing is possible.
- `Record` of a transaction, a freeze, an escalation: where the INSERT of the
  outbox event, audit entry or escalation fails, the exception is swallowed in
  an aborted transaction and the client is told of a success that was rolled
  back.
- The 24-hour cash sum spans a customer's accounts, the row locks do not: two
  accounts used at once can both stay below the threshold.
  `AggregateReported` therefore speaks of one account. A transaction with an
  earlier timestamp that is recorded later is not seen by the later one either.
- CLOSED and HELD_FOR_REVIEW accounts still transact; an EDD request may be
  decided again.
- The asynchronous route compares no payload hash.

*Workers, rules, whitelist, network*

- A redelivered event overwrites the status an investigator has set since, and
  inserts its alert again: no unique index backs the ON CONFLICT.
- A graph worker that gets no Neo4j driver when it starts logs that it cannot start
  and returns (`sync_worker.py:449-451`). Embedded in the API or under compose nothing
  starts it again; if it was the last one (`Deserted`), the graph falls behind.
- The polling fallback reads the table without a tenant: under row level
  security it sees nothing. Dead letters that cannot be written are logged and
  their offsets committed.
- `/rules/test` adds its made-up transaction to the customer's 24-hour sets. The
  seven-day rule misses its pattern where timestamps come out of order.
- The 24-hour and the seven-day rule look at a customer's other accounts only if the
  look-up of the owner answers, and at the lower thresholds of a high tier only if the
  baseline does: either failure is logged and the transaction judged without.
- Two PATCHes at once produce one version twice. A PUT changes the file of one
  container only, and a new one starts from the image's. While it is written, the
  other processes of the container read it as no JSON, and a write that fails is
  logged and answered SUCCESS (`routers/rules.py:351-352`): the caches are emptied
  and filled again from what was there.
- A whitelisted row found by the customer's id is cached under the name that was
  asked, where it also holds for other customers.
- The cycle query may pass an account twice and is cut off at its LIMITs; the
  search in memory returns one circle for each component.

*Sign-in*

- INCR on a version key that is missing yields 1 while the row goes to 2: the
  revocation it was meant for does not happen. Tokens issued after the second
  factor or by an exchange carry version 1 whatever the row says; a logout
  during an exchange leaves the successor valid. So the first login by second factor
  after two revocations is refused by the version check, on its first use.
- The version check lets every token in when Redis does not answer
  (`services/auth.py:247-248`) or has dropped the key: `docker-compose.yml:85` runs it
  with allkeys-lru, so a revocation holds only as long as memory lasts. The denylist
  of refresh tokens is kept in the same store.
- One refresh token exchanged twice at once has two successors, and the family
  is not revoked.
- Two verifications at once may both accept a code: whether it is consumed is
  looked up before it is recorded, so `UsedOnce` speaks of requests that do not
  overlap.
- After a kill between INCR and EXPIRE the counter of failed logins never
  expires.

*Screening, onboarding, batches, live feed, feedback*

- A search that overlaps a synchronisation, or one while the indices cannot be
  asked, leaves a "clean" answer in the cache for up to an hour. A feed that
  fails is replaced by the data set in the code and the status is SYNCED. Names
  that leave the lists stay in the indices.
- Re-screening asks only the index of sanctions. A customer who is only in that of
  politically exposed persons is read and never escalated, although the docstring
  (`watchlist_sync.py:517-519`) and `routers/watchlist.py:59-60` speak of the
  watchlists as such; the screening endpoint, which asks both, reports the person.
- The nightly re-screening names no tenant and, under row level security, reads
  no account; it takes 500 without an order; it overwrites FROZEN; one SQL error
  undoes all escalations of the run while they are reported as done.
- An account whose COMMIT is not acknowledged is answered 500 and stays live, without
  owners in the graph; the retry is told that its number is taken.
- A company's account is live before its owners are recorded; a failed
  compensation leaves it; what was written to the graph before a failure stays;
  registering the company again renames its node, and the dossier, which looks
  for the name, no longer finds the owners; a changed percentage adds a second
  ownership edge. HELD_FOR_REVIEW is answered and not stored.
- Two operators who generate at once put a report in two packages. A broadcast
  that raises undoes the record of an accepted filing. Reports whose receiver
  belongs to another tenant are never batched. Compliance reports count the
  status SUBMITTED, which no code writes.
- Broadcasts between processes use the process id to recognise their own messages
  (`metrics.py:109, 136`), although `metrics.py:34-35, 95-96` mean the channel for the
  processes of other pods. Replicas of one image with four workers each
  (`Dockerfile:50`, `deployments/kubernetes/fastapi-app.yaml:9, 106-107`) number their
  processes alike, and a listener in a
  process numbered like the sender drops what it should send.
- `record_feedback` names no tenant and finds no alert under row level security;
  each process has its own model, and a training for scoring that ends late
  replaces a model that has learned more.
- A legal hold is stored and shown, and no operation looks at it;
  `verify-chain` computes the chain it verifies.

## 7. What is not modelled

Per component in `PROJECT.json`. In modelled components: read endpoints, exports,
broadcasts (other than those of `StrBatch`), background publishing next to the outbox,
formatting; tenants other than one (except where row level security hides rows); row
locks taken one at a time and the deadlocks PostgreSQL would resolve by an error (a
failing statement covers the outcome); statements that fail at every place where a
handler would not notice. Of the rules, those that look at the transaction at hand
alone, velocity (a z-score) and dormant or new accounts. Of authentication, the
Supabase branches, signup and provisioning, API keys, key rotation, CSRF and proxies.
Of the network analysis, degrees, taint, the SQL search for circles, and transfers
repeated between the same two accounts, which Brandes' counts would take for different
paths. Dashboards get messages of one tenant.

Out of reach or without shared state: floating-point models (their verdicts
are inputs), cryptography, XML and narrative text, how similar two names are,
message formats, SIEM forwarding, logging, start-up order, deployment files,
browser code; the evidence vault, legal holds and the audit chain, whose
operations are single statements that nothing else depends on.

## 8. The plan

Modules were written in this order, most important behaviour first: outbox
(every other component's events), locks, alerts, cases, filing, ingestion with
accounts, workers, rules and caches, sign-in, screening and onboarding, batches
with the live feed, network analysis, feedback. Runs are few and each costs
minutes, so the later components share two composed instances, and runs that
showed a violation gave way once their story was told in section 6.

What is left, in order of worth:

1. `AggregateReported` for the accounts of one customer, with the overlaps that break
   it as the exception.
2. The outbox and the graph workers composed, with the events the outbox withholds, so
   that the two liveness runs become one statement.
