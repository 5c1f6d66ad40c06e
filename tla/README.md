# template-axum: a verification project

TLA+ modules of the core of `template-axum` (an axum service with one CRUD
resource, Hero), TLC configurations that check them on small instances, and TLAPS
proofs of what matters most. `PROJECT.json` ties every definition to the lines it
models and every hazard of the code to the properties that would catch it.

    tlc -workers 2 -config MCHeroWrites.cfg MCHeroWrites.tla     # a run
    tlapm HeroWritesProofs.tla                                   # a proof module

Paths below are relative to the repository (`src/` is its Rust source tree).

## 1. The system

One process serves HTTP. Five routers reach one `heroes` table: JSON and XML,
each in a v1 and a v2 representation, and a web form. Beside PostgreSQL it uses
Redis (rate limits, cached aggregates), an MQTT broker (CRUD events) and an OIDC
issuer; several replicas share all four. Under `MODE=mock` each of them is
replaced by an in-process fake.

| component (files) | state | operations | interacts with | correct when |
|---|---|---|---|---|
| write handlers (`hero/controllers/*.rs`, `hero_sea_orm.rs`) | the table; each request's place | create, update, delete; by id or by filter | limiter, verifier, repository, event bus | nothing unauthorised is written, refusals change nothing, tags name versions, events tell the truth |
| the store of mock mode (`hero_memory.rs`) | a map, an id counter, a lock for each | the same writes | handlers | it keeps the promises PostgreSQL's statements keep |
| repositories, reading (`hero_sea_orm.rs`, `hero_memory.rs`) | the rows | filter, scope, sort, page, count | list handlers, aggregates | mock mode answers as PostgreSQL may |
| views, form and its script (`hero/views/*.rs`, `heroes_web*.rs`, `.js`) | an open page | convert, validate, fill in, submit | write handlers | what is shown can be written back; two readers of one input agree |
| aggregates and cache (`heroes.rs`, `cache.rs`) | cached bodies, one invalidation task per replica | `/stats`, `/predict`, invalidate on event | event bus, Redis, shutdown token | stale entries are dropped; a body answers its own question and its parts agree |
| rate limiter (`rate_limit.rs`) | a counter per scope and address | check | Redis or a map | a fixed window per client |
| OIDC verifier and answers (`oidc/*.rs`, `problem_details.rs`, `http_headers.rs`) | one cached key set | verify, fetch on a miss, explain | the issuer, every router | answers lag by at most the TTL, and say why |
| configuration (`config.rs`, `db.rs`) | environment variables | parse and validate | lifecycle | what is accepted is what is used |
| process lifecycle (`main.rs`, `lib.rs`, `db.rs`) | pool, shutdown token, task, requests | startup, serve, shutdown | everything above | resources are released in an order their users survive; the process ends |
| event streams (`heroes.rs`, `craftainer-crud`) | subscriptions | publish, subscribe, stream until shutdown | handlers, cache task | streams end at shutdown |
| health, audit, discovery, manifest (`lib.rs`, `generic/`, `well_known.rs`) | none | static answers, what a caller may read | verifier | the manifest says what the routes do |
| migrations, load tests, scripts | none | | | |

What is hard here:

* **interleaving**: each `.await` of a handler is a boundary. An If-Match is
  checked by one statement and the write done by another; a bulk is counted and
  then written; `/stats` reads two counts and a list; two key fetches overlap; a
  creation of mock mode takes two locks, one after the other.
* **failure**: a statement can run and its answer be lost; a handler's future is
  dropped when its client leaves; events vanish with a connection or a full
  buffer; Redis is optional for reads and required for writes; the issuer may be
  down, which is neither a bad token nor none.
* **ordering**: version stamps are read before their statements are sent;
  invalidation races the reads that fill the cache; the shutdown takes resources
  down while requests that outlived the timeout still run.
* **time**: two TTLs, a window, a pool timeout, a shutdown timeout, a
  `security.txt` that expires.
* **two texts of one rule**: two repositories; the form handler and its script;
  validators and the manifest's schemas; role lists of routes and manifest; the
  sslmode that is validated and the one that is used; a cache key and the
  parameters it stands for.

The crates `craftainer-crud` and `craftainer-observability` are not in the
repository. What they do (`resolve_update`, `resolve_delete`, `check_if_match`,
`publish`, `subscribe_transient`, the analytics queue, buckets and forecasts) is
modelled from how the code and its tests use them and marked external in the map.

## 2. The modules

| module | models | kind |
|---|---|---|
| `HeroStore` | what the resource promises: creation, change of one owner's live records, truthful announcements | abstract |
| `HeroWrites` | the write handlers, await by await, over one table | detailed; implements `HeroStore` |
| `HeroViews` | v1, v2, XML and form: conversions and validators | pure operators |
| `HeroMemory` | the in-memory repository, lock by lock | detailed; implements `HeroStore` |
| `HeroEditors` | tabs of the form and clients of the routes over `HeroMemory` and `HeroViews` | composition |
| `HeroQueries` | list queries in both repositories | algorithm |
| `HeroStats` | requests, cache keys and bodies of `/stats` and `/predict` | algorithm |
| `StatsCache` | cached reads, the shared cache, the invalidation tasks | detailed |
| `FixedWindow` | a fixed-window budget per client | abstract |
| `RateLimit` | `RateLimiter::check` over both backends | detailed; implements `FixedWindow` |
| `Jwks` | the key cache of `OidcVerifier` | detailed |
| `Answers` | what a caller is told of the verifier's verdict, on every route | pure operators over `Jwks` |
| `Settings` | the environment: what is refused, and what the accepted ones connect to | pure operators |
| `Lifecycle` | `main`, from configuration to exit, with requests, streams and the pool | detailed |
| `*Proofs` | theorems of the module they are named after; `JwksProofs` also of `Answers`, `HeroMemoryProofs` of `HeroEditors`, `HeroQueriesProofs` of `HeroStats` | proofs |
| `RecursionLemmas` | induction, recursion, flattening and sums, for the proofs | lemmas |
| `MC*` | instances for TLC | |

The components meet through small interfaces, and each module takes the other
side's outcomes as given: `HeroWrites` lets the limiter allow, refuse or fail (as
`RateLimit` decides) and the issuer be unreachable (as in `Jwks`); `StatsCache`
sees writes and events as `HeroWrites` produces them, and bodies as counts, of
which `HeroStats` has the contents; `Lifecycle` sees a request as the things it
waits for and the cache task as the states of `StatsCache` that matter for
stopping. That keeps each instance small enough to explore fully. `HeroWrites` and
`HeroMemory` are tied together by implementing the same `HeroStore`.

### HeroWrites

`pc[s]` is the await the request in slot `s` stands at. `Receive` is a handler
up to its first table access: extractors (503 when the keys cannot be fetched,
401, or axum's 400/415/422), rate limiter (429, 500), role (403), content (422),
subject (401), in the code's order. `EnforceIfMatch` is the read of
`enforce_if_match`; `CountMatched` the size check of a bulk; `TakeStamp` reads the
clock; `Execute` is the single `UPDATE ... RETURNING` (or `INSERT`) with its
owner and `archived_at IS NULL` clauses; `ExecuteFails` a failure, whether or not
the statement ran; `Publish` the event and the response. `Drop` abandons a
handler at any await and `OrphanExecute` lets a statement already sent run all
the same. `log`, `seen` and `events` are history variables for the properties.

Abstractions: one filterable, writable field stands for all; a statement is atomic
(PostgreSQL re-checks the row under READ COMMITTED, and a deadlock is
`ExecuteFails`); two clock readings differ; ids an aborted insert burns are not
modelled; a missing token on the web form (a 200 bootstrap page) counts as 401; a
303 is "ok"; `UpdateMany`/`DeleteMany` are told apart from the single forms by
their set of ids only; a 415 or 400 stands for what axum's extractors answer.

### HeroViews, HeroMemory, HeroEditors

A text is the sequence of its comma-separated pieces, since commas, blanks and
length are all that the conversions and validators look at. `HeroMemory` has the
steps of a write between the locks: `ReadClock`, `TakeId` (which keeps the
counter's lock), `Insert`, and `Write`, an update or deletion in one critical
section. A thread that has a call can be overtaken by any other. `HeroEditors`
adds who calls: a tab that loaded a form, filled in with what was true then, in
which a person types and which is sent by the browser or by the script, and a
client that sends v1 or v2 bodies by id and by filter. What `HeroWrites` has
between a request and its repository call (limits, roles, If-Match) is left out
here. A level is any integer where it is typed or sent (`Fields`, `Body`, `BodyV1`)
and an `Option<i32>` where it has been read (`Levels`): the page's conversion and
the extractors refuse the others, so `AcceptsCreate` and its siblings are the
deserialization and the validator together. `quick_xml` is external, and nothing in
the repository says what it does with blanks at the ends of a text: `ToXml` and
`FromXml` take it to read back what it wrote. `apply_update` is the same in both repositories,
which is why what is found here holds over PostgreSQL too.

### HeroQueries, HeroStats

Both interpreters of a list request side by side: `SqlRows`/`SqlLists` for what
SeaORM sends and PostgreSQL answers (all orders it may choose among ties),
`MemoryRows`/`MemoryList` for the mock repository. `AsColumn` is the cast
`*v as i32`. Left out: dates, `ne`/`lt`/`gt` (as `lte`/`gte`), sorting by text
(a collation), and LIKE's escape character. `HeroStats` builds on the same rows:
which requests are refused, which share a cached body (`KeyOf`, `AnswersTo`), and
what a body says of the table. Its statements see one table; `StatsCache` has
what happens between them. `Cap` is `MAX_HISTORY_RECORDS`.

### StatsCache

`reader` follows `get_or_build`: GET, the counts, the list, SET. `task`, `todo`,
`queue` and `up` follow `run_invalidation`: subscribe, one SCAN/UNLINK pass,
listen, sleep and retry. `Entry.missed` records which tasks can no longer be
expected to drop an entry (lost event, failed command, a build that raced the
write), so that `StaleWillBeDropped` says what the code promises and no more. A
cache that is off behaves as Redis that never answers (`Miss`, `GiveUp`), and the
in-process cache of mock mode as one replica.

### RateLimit

`backend` is chosen in `Init`. The Lua script is one step; the mock's map is
guarded by a mutex and looks at an entry's age on the next check. Counts saturate
at `MaxHits`, which lies above every limit. The verdict is taken when the count
is; how long the reply travels is not modelled. The map never evicts.

### Jwks, Answers

Several requests may be between the read lock and the write lock. The entry is
dated when it is written, not when its keys were fetched: `Latency` bounds the
time in between. `Answers` takes each verdict further: the extractors of the API,
the page and the manifest, the checks of the handlers, `AppError`'s rendering and
the layers every response passes. A response is its status, its headers (the
parts of the challenge among them) and what the manifest lists. In mock mode
every token decodes, and `mint_token` has a route.

### Settings, Lifecycle

An environment is a record of the variables that can stop the start or decide a
connection, with the values their rules tell apart; `env::var(..).ok()` makes
bytes that are no UTF-8 as good as unset, except for `SUBSCRIBER_SECRET`.
`Lifecycle` runs `main` on it: `CheckConfiguration` on one reading of the clock,
`ConnectDatabase` and migrations, then the wiring (`BuildHealth`, `ConnectRedis`,
`Wire`), which reads the environment again on a later one and panics on what it
no longer accepts, then serving and shutdown. A request waits for its body, a
connection, a statement, the broker or an open stream, and goes on after `main`
stopped waiting for it. Signal handlers exist only once the server is polled, so
an earlier SIGTERM kills the process.

## 3. The runs

Each passing run checks its properties and, between them, every action fires.

| run | instance | states | shows |
|---|---|---|---|
| `hero_writes` | 2 overlapping requests out of 33, 3 ids, 2 owners, cap 1, 2 tables | 324 136 | authorisation, refusals, tags, conditional writes, events; `HeroWrites` implements `HeroStore` |
| `hero_editors` | a tab of one person and a client of two, 2 ids, names, powers with commas and blanks, levels empty, the largest i32, one beyond it and `1e1`, 6 v2 and 4 v1 bodies (some refused, for a length, a field or a width), a bulk filter, 2 clock readings to begin at | 792 405 | ids without gaps, stamps in order; what is shown can be written back; form and script agree; the manifest's schemas are what the routes accept, but for the width of a level; `HeroMemory` implements `HeroStore` |
| `hero_queries` | 2 tables of 3 rows, pairs of 28 clauses, 3 scopes, 7 sorts, 2 pages; 12 requests to `/stats`, 96 to `/predict`, cap 2 | 34 188 | both repositories filter, sort and page alike within stated limits; a body answers its own request and its parts fit |
| `stats_cache` | 2 replicas of 2 versions, 1 read, 2 writes, buffer of 1 | 1 504 894 | a stale entry is always about to be dropped, or was missed for a stated reason |
| `stats_read` | 1 replica, `/stats`, 2 writes, TTL 2 | 36 131 | the difference of the counts cannot wrap; freshness returns; the task stops |
| `rate_limit` | 2 addresses, limits 1 and 2, window of 3 ticks, 1 loss | 33 418 | both backends implement `FixedWindow`; two windows per span; the budget returns |
| `jwks` | 2 fetches, 2 keys, TTL 2, latency 1; 14 routes, 5 credentials, 5 claim sets, 7 faults | 127 030 | the lag of answers; convergence; challenges, outages and the manifest say what the verifier said |
| `lifecycle` | 3 environments with any two variables changed, a clock of 3 readings; 2 requests, pool of 1 | 247 454 | what is accepted is used; only time invalidates it; the pool outlives its users; a clean drain flushes last; the shutdown ends |

`Answers`' properties speak of every call that may come with the verdict just
given, `HeroStats`' of every request to the table at hand: their runs visit each
verdict and table, and evaluate all calls there.

Four runs show where the code and its documents disagree (`findings` quotes
them): `bulk_cap` (the cap is checked by a separate count), `archived_412` (the
If-Match check sees archived records the write does not), `equality_filter` (a
64-bit value is cut to 32) and `form_clears` (emptying the form's power level
keeps it).

Why the bounds are enough: every race of the write path is between two statements
of one request and one other request; a third slot repeats the pairs. Three ids
give a live record, one of another owner or an archived one, and a new one. Cap 1
is exceeded by two matches. Over the in-memory store two ids make a gap possible
and two threads fill both sides of a lock; the theorems of `HeroMemory` cover the
rest. The texts have one, two and no pieces, a blank one, one to trim and one that
is too long. Two replicas are the fewest whose SCANs overlap, two versions the
fewest of which one is not its own. A window of 3 ticks has a beginning, a middle
and an end. `Half = 4` keeps the edges of a 32-bit column and the wrap-around of a
wider request value; among the editors it is 16, above the 10 that `1e1` stands for.
Most rules of the configuration relate one or two
variables and the mode, and the three environments that are changed in two differ
in the mode; `ProductionConnections` and `ConfigurationHolds` are proved for every
environment. A clock of three readings lets `security.txt` expire before, while
and after the process starts.

Fairness, and what in the code justifies it: time passes (`Tick`); an
invalidation ends because every Redis command has a timeout, and a `select!` that
keeps finding the token cancelled takes that branch in the end (strong fairness
of `Stop`, `EndTask`); a lock held for an assignment is obtained (`WriteCache`);
statements end, the pool's wait has a timeout and a handler runs finitely many
statements (`EndLast`). Nothing is assumed of clients, of the broker or of the
issuer: where `ShutdownEnds` needs them not to hang, it says so. `HeroWrites` and
`HeroEditors` state no liveness: a request waits for services without a timeout.

`CHECK_DEADLOCK FALSE` is set where the system may stop: after the last request
of `hero_writes`, and after the process has ended in `lifecycle`.

## 4. What is proved

Each theorem holds for every value of the constants its module's assumptions
allow. Every invariant and every action property of the passing runs is one of
them, as are the refinements; the type invariants are included.

**`HeroWritesProofs`** proves, for any slots, ids, subjects, inputs and tables:

* `TypeCorrect`: inductive with `Carried`, which says that a slot that is not idle
  carries a request and that a conditional one has an id.
* `AuthorisedWrites` and `NoTraceOfRefused`: `ChecksInv` adds that a request past
  its checks passed them (`Cleared`), that a request has no commit before its
  statement (`Untouched`), and that a record with commits exists.
* `TagsAreVersions`: stamps commit in any order, so "increasing along the log" is
  false. `TagsInv` says instead that a stamp is pending in one slot or committed by
  one request and never exceeds the clock.
* `Refinement`: `Spec => Store!Spec`. A statement maps to `Create` or `Change`,
  `Publish` to `Announce`, everything else to a stutter. It needs that the ids a
  request is about to announce were committed by it and, for a delete, are archived
  and stay so.

Its last part is about what a statement appends to the log:

* `EventsAreTrue`: the property speaks of events already published, so
  `EventsInv` adds that a slot about to publish holds exactly what it committed,
  and that an event's slot is done and writes no more.
* `ConditionalWrites`: `TagChecked` carries the If-Match read to the statement. A
  request on its way saw no record, or addresses one archived by now (which the
  statement's `archived_at IS NULL` skips), or saw a version its header accepts,
  and that version stays in the log. A bulk has no id and is never conditional.

**`HeroMemoryProofs`** first lets any thread make any call (`MemorySpec`):

* `NoGaps`: `Gapless` says that the records are those with an id below the
  counter, save the one of the thread that holds its lock, which exactly that
  thread is about to insert.
* `StampsAdvance`: `Past`: every stamp there is was read before now, pending ones
  included; so a write under the lock is newer than what it replaces.
* `Refinement`: `Insert` maps to `Create`, `Write` to `Change`, the rest to a
  stutter.

Then it takes the tabs and clients of `HeroEditors`, for any bodies they may send
and anything that may be typed:

* `EditorsUseTheStore`: `Spec => MemorySpec`, so that the three theorems above hold
  of the composition too (`EditorsKeepThePromises`).
* The inductive invariant is `Edited`: an open page belongs to a tab whose thread
  rests (`PagesMatch`), a call on its way is a valid content, or the nonempty part
  of one, and of a page one whose powers are words without commas (`CallsFit`), and
  every record has a name and powers that its validator accepts (`RecordsWhole`).
  `TypeCorrect` adds `Room`, which counts the creations under way: with them the
  counter stays within its bound.
* `ViewsWriteBack`, `FormsSettle`, `ScriptIsTheForm` and `SchemasDescribeBodies` follow
  from `Edited` and lemmas about the conversions: that parsing the joined powers of
  a page gives them back, that an XML or v1 body of a whole record is accepted, and
  that a schema, together with the width of a level, is what its route accepts
  (`SchemaV2`, `SchemaV1`). The width is in the property because the schemas lack it.

**`StatsCacheProofs`**: `CountsNeverWrap` rests on `CountsKeepUp`, which compares
the visible count in hand with what a later count of all can still find.
`NothingStaleIsForgotten` shows that the property is inductive over the types: one
lemma per group of actions shows why a task that loses one reason to come to a
stale key has another, or has missed the key.

**`RateLimitProofs`**: `Refinement` maps a key's remaining life, or an entry's age,
to the window left, and an expired entry that still lies in the map to no window;
callers do not share keys. `NoSpanAdmitsMore` needs `SpansFit`: a span as long as a
window admits no more than its open window has, one budget for the window before
and one for each loss; since the open window began, no more than its own and the
losses'; and without one, the present tick no more than the losses'. Sums over the
ticks of a span are shifted and split at the window's first tick.

**`JwksProofs`**: `AnswersAreRecent` from `Lag`, which dates what cached and
fetched sets differ from the issuer in: a fetched set by how long it has been
held, a cached one by its age and the time its fetch held it. What `Answers` makes
of a verdict is proved for every route, credential, set of claims and fault:
`EveryAnswerExplains` and `ManifestIsHonest` from the types of the verdict alone,
`NoGoodTokenIsRejected` from `AnswersAreRecent`, which says when the verifier has
no ground to reject a good token.

**`HeroQueriesProofs`**, for any tables, clauses, sorts, pages and requests; the
invariant `Asked` only says that a client asks of a table what it may ask, and the
work is in the operators:

* `FiltersAlike`: LIKE between two `%` of a text without wildcards looks for it as
  it stands, and a number that fits the column survives the cast.
* `OneOrderById`: `ORDER BY` is lexicographic in its keys; with the id among them it
  is a strict total order of the records, and a finite set has one arrangement by
  such an order.
* `MockPagesAreSqlPages`: after each stable pass the list is arranged by the keys
  passed so far, ties by the places before; so after the first key it is by ORDER
  BY, with ties by id.
* `BodiesAddUp`: a cached body was built for the same parsed question; the records
  are the first by id, as many as there are up to the cap (`FirstCounted`, by
  induction over the table); a total lies between its extremes times its count
  (`AggregateFits`); a series, and the history of a field, sum over their buckets
  to the count and the total (`PartsAddUp`).

**`RecursionLemmas`** is what these rest on. Induction is stated for a set of
numbers, or of subsets of a finite set, that is closed under one more element, and
derived from the facts about cardinality; so recursive functions, `FlattenSeq` and
the sums of the community modules can be reasoned about although theorems with an
operator for a parameter cannot be used.

**`LifecycleProofs`**: `WasAccepted` (the checks passed at some reading of the
clock no later than now, and the pool opens only where sqlx reads an sslmode)
gives `ProductionConnections`, by the two rules that compute an sslmode, and
`ConfigurationHolds`, since of all rules only the expiry looks at the clock.
`Ordered` (the task is over before the pool closes, no statement outlasts it, a
clean drain leaves no request) gives `PoolIsClosedLast` and `FlushMissesNothing`.

The assumptions on constants are named in the modules that declare them and
evaluated by the runs: bounds are numbers; a value that stands for "none" is not
one of the values it is told apart from (`Absent` is no row, `NoEntry` no entry,
`NoCounter` no counter, `Unset` no setting, `Nobody` no thread, `Null` no number, no
text and no bucket; `Blank` and `Exponent` are no numbers); callers are their scope
and address; requests of a process are finite in number; the inputs of `HeroWrites`
are requests, and a create carries a value; what is typed fills a field, and bodies
have the fields of their version; `Half` is above the 10 that `1e1` stands for; the tables of `HeroQueries` are finite, of rows with an id each, its
`contains` clauses are of text, and its sorts of integer fields.

Model-checked only: liveness (`EventuallyFresh`, `TaskStops`, `BudgetComesBack`,
`EventuallyCurrent`, `ShutdownEnds`), since the provers know neither fairness nor
ENABLED. In `HeroQueries`, an order of text is not among the sorts and dates are no
fields of the model, so nothing is proved of them.

## 5. What the models say of the code

Facts that came out while modelling and that a reader of the code may want to
know. Those with a run are findings; the others are stated within a property, or
lie beside the models.

* `/stats` reports a record created between its two counts as archived until the
  next event (`ArchivedNeverUndercounts` shows the other direction impossible).
* FR-0023 calls the limit rolling; a span of one window can meet two budgets.
* Beyond `MAX_HISTORY_RECORDS` records the aggregates of `/stats` are those of the
  records with the smallest ids, beside totals of all.
* A web page answers a rejected token, and an issuer that is down, with the same
  401, without `error="invalid_token"`. A token without `sub` gets the bare
  challenge.
* The problem details of v1 routes carry no `Sunset` headers; NFR-0026 says every
  route. v1's manifest entry announces the event stream only v2 serves.
* A `security.txt` that expires between the check of `main` and the wiring ends the
  start in a panic, which a comment in `lib.rs` calls a programming error.
* The manifest announces `power_level` as any integer (`lib.rs:278`), as
  `hero.rs:3-4` calls it unconstrained; the routes read an `Option<i32>` and answer
  422 to 3000000000. `ManifestDescribesBodies` says that this is where schemas and
  routes differ, and that they differ nowhere else.
* `DB_POOL_MIN_SIZE` alone may exceed sqlx's default maximum of 10.
* A power with a comma, written through JSON, is two after the page is saved; a
  level of `1e1` is a number to the script and refused by the form.

## 6. Not modelled

* **Resumable event subscriptions** live in `craftainer-crud`; the repository only
  passes ids through. Publishing, the cache's transient subscription and the end
  of streams are modelled.
* **Dates and sorting by text** in the queries: a date clause is compared as the
  level is, and a collation is PostgreSQL's.
* **Health probes** call services outside; who may ask is modelled.
* **Analytics consent** is read by an external crate; which requests track and the
  last flush are modelled.
* **Migrations**: one `CREATE TABLE`. What a half-run one leaves is PostgreSQL's.
* **Load tests, scripts and CI** are tooling.
* Within modelled parts: one `sslmode` in `DATABASE_URL`; averages and forecasts as
  numbers; the wording of errors; months as buckets.

The two hazards without a property are the missing timeout of the issuer's client
(`Jwks` assumes nothing of how long a fetch takes, and promises nothing) and the
SIGTERM before the server is polled (`KilledEarly` has the step; what it
interrupts is outside).

## 7. Plan

Done: everything the first plan named that the repository's source decides, in
the order of the table in section 2. What is left would need the source of the
two crates (resumable subscriptions, analytics), or a composition of `HeroWrites`
with `StatsCache` in one instance, whose states multiply; the interface between
them, commits and events, is the same in both, and `EventsAreTrue` with
`NothingStaleIsForgotten` holds on its two sides.
