# wyrd-core: specifications

TLA+ specifications of wyrd-core, the Rust foundation workspace of Wyrd: what its
concurrent and algorithmic parts do, what they guarantee, which of those guarantees are
proved for every configuration, and where the code and its own comments disagree. Paths
below are relative to `crates/` of the repository, lines are those of the commit beside
which these modules are kept.

    tlc -config MCProducer_buffer.cfg MCProducer      model-check one run
    tlapm ProducerProofs.tla                          check the proofs of one module

## 1. The system

wyrd-core is a library workspace of 20 crates; it has no `main`. Its processes are those
of its users: application threads that write records and send requests, tokio tasks the
crates spawn, and the server, provider and database at the other end. About 42 of its
75 thousand lines of Rust are the wire types of `wyrd-spec`, which have no behaviour; the
behaviour is in the parts below.

### 1.1 Components

**wyrd-queue producer** (`producer.rs`, `queue.rs`).
*State:* a bounded channel of rows, an unbounded control channel, a staging buffer, a
retry buffer of sealed chunks, an atomic lifecycle state, atomic counters
(`accepted`, `dropped`, `channel_depth`), one background task.
*Operations:* `enqueue` (from any thread), `flush`, `shutdown`, dropping the handle,
`metrics`; in the task `ingest`, `seal_and_send`, `drain_channel`,
`drain_to_completion`.
*Interactions:* callers block on a reply slot; the task awaits `BatchSink::send`, whose
server deduplicates by batch id.
*Hard:* caller threads race the task on the channel, the counters and the state; sends
fail, time out and are stored later; a pass may stop at any chunk.
*Correct when:* no accepted row is lost, duplicated or reordered while the task lives, a
batch id always denotes the same rows, `Ok` means delivered, every call returns.

**wyrd-queue batch builder and schema** (`batch_builder.rs`, `schema.rs`). JSON rows to
Arrow columns; stateless. *Correct when:* columns have one length and a bad row is an
error. Not modelled, except for its effect on the producer.

**wyrd-auth-oidc JWKS cache** (`jwks.rs`).
*State:* one cached key set per provider URI, at most one fetch under way per URI.
*Operations:* `key(kid)`: look up, on a miss join or lead the fetch, on an unknown kid
invalidate and look up once more.
*Interactions:* calls coalesce inside `moka::try_get_with`; the provider rotates keys.
*Hard:* a call may be given a fetch that another call began earlier; a leader may be
dropped; invalidations of one call hit the others.
*Correct when:* a key the provider publishes throughout the call is found; calls return.

**wyrd-auth-oidc discovery, registry, claims.** One-shot lookups and mappings.

**wyrd-client token cache** (`auth.rs`).
*State:* a cached token behind an async mutex, optionally a record on disk.
*Operations:* `bearer`, `force_refresh`, `exchange_and_store`, load at start.
*Hard:* the mutex is held across the exchange; tokens expire and are revoked meanwhile;
the holder may be dropped; the record may be torn by a crash.
*Correct when:* requests never wait for ever, a refused token leaves the cache, tokens do
not go backwards.

**wyrd-client HTTP transport** (`transport/http.rs`).
*State:* per request: retry budget, "already renewed", the bearer in hand.
*Operations:* `send_with_retry` behind all JSON, Arrow and idempotent helpers; one-shot
sends behind the streaming ones.
*Hard:* a timeout or 5xx says nothing about whether the server acted; 401 handling is
outside the budget and shares the token cache.
*Correct when:* what is not safe to replay takes effect at most once; attempts are
bounded; requests return.

**wyrd-client gRPC dial, credential chain, configuration, facade.** A bounded loop and
first-match lookups.

**wyrd-spec submission graph** (`graph/mod.rs`, `topo.rs`, `root.rs`).
*State:* the nodes, the sibling edges, Kahn's counters and ready list.
*Operations:* `build`, `topo_sort`, `pick_root`, `root_last`.
*Hard:* determinism although the ready list is reshuffled; exact blame for cycles; moving
the root without breaking the order.
*Correct when:* every card follows what it refers to, the order depends on the set of
cards only, cycle errors name exactly the cards on or above a cycle.

**wyrd-spec evaluation plan** (`vala/eval/plan.rs`).
*State:* in-degrees, the ready tasks, the stages.
*Operations:* `validate_dag`, `smallest_cycle`.
*Hard:* lists with repeated entries, hash maps under a result that must not depend on their
order, a witness that really is a cycle.
*Correct when:* every task stands right behind the last of its dependencies; an error names
a cycle exactly when there is one, and always the same.

**wyrd-spec query language** (`query/ast.rs`, `display.rs`, `parse.rs`). A boolean tree, its
canonical printer and a recursive-descent parser, each with its own idea of precedence,
quoting and depth. *Correct when:* what a valid query prints to is read back as that query.

**wyrd-spec composition, canonical form, workflow.** Validators over trees.

**wyrd-spec cards, ids, envelopes, errors, storage and registry types; skald-spec.**
Data definitions and conversions.

**wyrd-semver ranges** (`range.rs`, `spec.rs`).
*Operations:* `parse`, `parse_loose`, `VersionSpec::parse`, `matches`, `to_bounds`,
`is_loose_partial`. *Hard:* three dialects of the same text, two independent meanings of a
stored range (`matches` in the client, bounds in SQL), words at their limit.
*Correct when:* both meanings select the same versions.

**wyrd-semver blocks, bumps; wyrd-version.** Arithmetic on one version.

**wyrd-tonic frame codec** (`frame_codec.rs`).
*State:* prefix bytes, expected length, payload bytes.
*Operations:* `push(chunk)`, `finish`, `encode`.
*Hard:* chunk boundaries anywhere; overlong and overflowing prefixes; state left behind by
an error.
*Correct when:* what comes out encodes to what went in, whatever the cuts, and memory
stays within the ceiling.

**wyrd-tonic health sentinel** (`server/mod.rs`).
*State:* the readiness snapshot, what the reporter says, the baseline of the change detection.
*Operations:* `publish_initial_health`, then the task of `drive_health_status`.
*Hard:* probes swap the snapshot between any two reads of it; cancellation races the poll.
*Correct when:* SERVING is never said before readiness was seen, a snapshot that stays is
reported, and the end is NOT SERVING.

**wyrd-tonic conversions.** Field by field.

**wyrd-sql-core migrations** (`migration.rs`).
*State:* sessions of several pools, the advisory lock the server keeps per session, schemas
and the ledger of applied migrations.
*Operations:* `run_migrations`: validate, acquire, lock, create schemas, set the search path,
migrate, unlock, close.
*Hard:* several processes; any statement may fail, or work and lose its answer; connections
break; a future is dropped between lock and unlock and its session goes back to the pool.
*Correct when:* one caller at a time works on the database, errors come from faults only,
`Ok` means migrated, and no waiting caller is left behind by a fault.

**wyrd-sql-core pools, tenant connections; wyrd-dev-fixtures.** Set-up of pools, one
statement per connection, a database per test.

**wyrd-auth-issue, wyrd-auth-verify, wyrd-auth-check, wyrd-runtime, wyrd-utils,
wyrd-crypt, wyrd-tls, wyrd-telemetry, wyrd-error-derive, wyrd-test-contract-macros.**
Signing and verification by libraries, decisions over a few fields, set-up code, macros.

### 1.2 How they interact

The HTTP transport asks the token cache for a bearer before every attempt and for a
refresh after a 401; these two are one specification (`HttpTransport` EXTENDS
`AuthMiddleware`). The producer's sink is, in practice, a transport, but the crates do not
depend on each other: the producer only relies on the trait's contract (an error or a
deadline leaves it open whether the batch was stored; the server deduplicates by batch
id), and that contract is what the producer's model contains. A registration parses its
version with `wyrd-semver` and orders its cards with the submission graph; both are pure
calls. The remaining components interact through values only; those that share no state
are checked together in one run, one component to a behaviour (section 3).

### 1.3 What is modelled

| component | modules | status |
|---|---|---|
| wyrd-queue producer | RowLedger, Producer, ProducerProperties, MCProducer, ProducerProofs, ProducerDeliveryProofs | modelled, refinement checked and proved, eight theorems |
| JWKS cache | JwksCache, MCJwksCache, JwksCacheProofs | modelled, two theorems |
| token cache | AuthMiddleware | modelled |
| HTTP transport | HttpTransport, MCHttpTransport, HttpTransportProofs | modelled, five theorems |
| migrations | MigrationLock, ComponentProofs, MCComponents | modelled, five theorems |
| health sentinel | HealthConsumer, ComponentProofs, MCComponents | modelled, two theorems |
| submission graph | SubmissionGraph, SubmissionGraphProperties, GraphProofs, MCComponents | ordering modelled, five theorems; rendering not |
| evaluation plan | EvalPlan, EvalPlanProperties, GraphProofs, MCComponents | modelled, three theorems |
| query language | MetadataQuery, QueryProofs, MCComponents | trees, printer and parser over tokens, with all caps, two theorems; the lexing of values not |
| frame codec | FrameDecoder, FrameDecoderProperties, ComponentProofs, MCComponents | modelled, five theorems |
| version ranges | VersionRange, ComponentProofs, MCComponents | release versions modelled, three theorems |
| batch builder, schema, oidc discovery, gRPC dial, configuration, composition, workflow, fixtures | none | not modelled (section 6) |
| auth-issue, auth-verify, auth-check, runtime, utils, crypt, tls, telemetry, macros, wire types, skald-spec, scripts | none | not modelled (section 6) |

## 2. The modules

In all of them a step is what the code does between two awaits or two accesses of shared
memory: an atomic operation, a channel operation, a turn of a loop that may fail. A drop
of a future at an await is an action of its own where it can happen. Modules named
`MC...` only give constants their small values; modules named `...Properties` hold
properties that need definitions of their own; modules named `...Proofs` hold theorems.
Operators named `...Mutant` are deliberately wrong variants of the operator that
follows, kept to show that a property notices the difference; no specification uses them.

### 2.1 RowLedger: what a producer promises

The abstract specification. For one row: it is refused, or buffered; a buffered row is
stored once or dropped with a count; only the end of the task may abandon what is left,
and an abandoned row may still be stored by a request nobody waits for any more. All
rows that move in one step make the same move.

### 2.2 Producer

| state | code |
|---|---|
| `chan`, `ctrl` | the row and control channels |
| `staging`, `retry` | `RecordQueue.staging`, `RecordQueue.retry` |
| `state`, `handle` | the atomic lifecycle state; whether the `Producer` still exists |
| `call`, `tries` | where each call of `enqueue` is, and its attempts at a full channel |
| `accepted`, `dropped`, `depth` | the atomic counters; `depth` wraps at `DepthModulus` |
| `ctl`, `due`, `reported` | each flush or shutdown, the rows it was asked for, the ids in its reply |
| `phase`, `job`, `held`, `pending`, `outcome` | where the task is: the select arm it serves, the row in hand, the chunks of the pass and its result |
| `sent`, `stored` | requests ever sent, and the batches the server has stored |
| `admitted`, `discarded` | history: rows `try_send` took, rows dropped while sealing |

Callers: `Enqueue` (read the state), `TrySend`, `CountAccepted` and `CountDepth` (the two
counter updates that come after the row is visible), `Request`, `Closed`, `DropHandle`. Task:
`TakeCtrl`, `HandleGone`, `TakeRow` with `SizeTrigger`, `Tick` (the arms of the select),
`PullRow`/`PullDone` (`drain_channel`); both arms that take a row pop it (`Pop`), decrement the
depth (`Uncount`) and stage it (`Ingest`) in three steps, between which callers, and anybody
who reads the metrics, may run. `BeginPass`, `DropChunk`, `SplitChunk`, `Send`, `SendOk`, `SendFails`,
`PassDone` (`seal_and_send`, one chunk at a time), `Finish`, `Exit` and the returns. The
server: `ServerStores` may happen at any time after a request was sent, also after its
deadline, and stores an id once.

A call of `enqueue` is identified with its row. `Bytes`, `Poison` and `Refused` say which
rows make a batch too large, unbuildable, or rejected for good; they are what is left of
the Arrow conversion and of the server's judgement.

### 2.3 JwksCache

`cache`, `leader` (the call whose fetch is under way), `response`, and per call `pc` and
`round`; `document` is what the provider publishes. `FetchCached` is `try_get_with`: a
hit, a wait, or the lead. `Invalidate`, `Cancel` (the future is dropped, a leader hands
over), `Answer`, `FetchOk`, `FetchFails`, `Expire`; `Publish` and `Retire` are the
rotation. The coalescing map is external and modelled from its contract. The request is
answered with the document at the moment of `Answer`, not of its arrival: in between a
rotation makes the answer old.

### 2.4 AuthMiddleware and HttpTransport

Tokens are numbered in the order the server mints them. `gate` is the mutex, held from
`BearerMiss` or `ForceRefresh` until `ExchangeOk` or `ExchangeFails`; `reply` is the token
on its way. `Reject` and `GrowStale` are the two clocks: the server may refuse a token
before the client considers it stale. `RestartAuth` reloads the disk record, which may be
torn.

Per request, `attempt` is the retry budget, `renewed` is `auth_retried`, `copy` is the copy
of the request at the server and `late` counts the copies given up on that may still be
acted on. `Unavailable` is 408, 429 or 5xx from before or after the act; `TimesOut`
abandons a copy; `ConnectFails` reaches nothing and is retried for every kind of request,
as in the code. `Kind` separates requests safe to replay (idempotent methods or an
idempotency key), unsafe ones, and the streaming helpers, which neither retry nor renew.
`Drop` takes effect at once: a request dropped while it waits for the mutex is never granted
it. In the code the grant may reach a waiter just before its future is dropped, and is then
passed on to the next one; no property tells the two apart.

### 2.5 SubmissionGraph

A card is its identity, numbered in the order of the sort key (kind, space, name,
version). `Build` with its four ways to refuse a request (nothing in it or an identity that is
not resolved, a card twice, a spec that does not parse; `Unpinned` and `Malformed` say which
requests have such cards), then one `Pop` per turn of Kahn's loop, `Sorted`, then `RootLast`.
`refs` is any relation between cards, also to cards outside the request. The properties
compare the result with definitions that do not follow the algorithm: the least set that no
reference leaves, for cycles, and the least of all leaves-first permutations for the order.

### 2.6 FrameDecoder

`push` consumes a byte per step (`PrefixByte`, `PayloadByte`) and may return at any point
(`PushReturns`), so every cut of every body is a behaviour. A byte is its continuation
flag and its group of bits; `Base`, `MaxBytes` and `Top` are 128, 10 and 1 in the code.
`FrameDecoderProperties` states what the encoder writes (`Frame`, `Varint`) and compares.

### 2.7 VersionRange

One call of a parser, then `to_bounds`. An expression is an operator and one to four
parts; `chain` stands for comparator lists and `>=`-like comparators. `Matches` is the
`semver` crate's meaning of one comparator (external), `Selected` the meaning of bounds
as an SQL predicate. `Largest` is `u64::MAX`.

### 2.8 MigrationLock

| state | code |
|---|---|
| `home`, `stage`, `conn`, `opts` | each call of `run_migrations`: its process, the await it is at or what it returned, the connection it holds, its `MigrateOptions` |
| `step`, `primary` | the next schema or migration, and the result of the migration block |
| `slot`, `up`, `open` | the pools: a connection is closed, idle or used; it still works; the pool is open |
| `held` | the server: how often a session has the advisory lock |
| `schemas`, `applied` | the database |
| `fault` | history: something failed under the call |

One action per await of `run_migrations` and one for its failure, which leaves it open
whether the statement took effect; `Combine` is `combine_migration_outcome`. `Drop` is the
caller dropping the future: up to the unlock the connection goes back to its pool, lock and
all; while it is being closed it is gone. Postgres, the pool and the migrator are external:
the lock is counted per session and given up with the session, which the server may end late
(`Reap`); a pool hands an idle session out untested (`test_before_acquire` is off for
migrations) before it opens another. That sqlx's migrator may take a lock of its own is not
relied on.

### 2.9 HealthConsumer

Every load of the snapshot and every await of the reporter is a step, and `Probe` swaps the
snapshot between any two. `drifted` remembers that the baseline read differs from what was
published.

### 2.10 EvalPlan

`Scan` finds self-loops and unknown tasks in the order of the code, `EmitStage` is one turn of
the layer loop, `EndPlan` the verdict with the witness of `smallest_cycle`: strongly
connected components (petgraph, external), the smallest of them by size and then by its least
task, a breadth-first search from that task. An entry of the search's queue is a task with the
parents' links that lead to it, written as the walk they spell (`Walks`); `Visit` is one turn of
its loop. The code leaves the loop at the first edge back, the model empties the queue and takes
the first walk with such an edge (`Closing`), which is the same one, for nothing that is queued
later stands before it. Lists keep repeated entries.
Without a component the code returns no task at all (plan.rs:215-217), and so does
`SmallestCycle`. `EvalPlanProperties` compares the witness with all closed walks and finds that
it is never empty.

### 2.11 MetadataQuery

`Render` is `validate` and the printer with its precedences, `Reparse` the parser. A text is
its tokens and a key its dotted segments; of the words only what the lexer tells apart is
kept: plain (`Words`), a keyword, a keyword in capitals, one that must be quoted. Reserved
fields are plain words, "a bare reserved column name" (ast.rs:49), as the parser makes them
(parse.rs:536); validate does not check it. Of the operands only how they are read back is
kept: `ReadOperators` come back, `LostOperators` do not. `Length`, the bytes of a text, may be
any function of its tokens, and `MaxInput` is the parser's cap on it. `Height` bounds the levels
of a tree so that the trees are a set (`Trees`); it may be any number.

The recursive descent is written as tables. What `parse_unary` reads at every place of the
text, at one depth, is a function, made from the same function one level deeper (`Unary`): every
level takes a token, so a text has no more levels than tokens. The loop over a group's operands is a
table of the same kind (`Operands`). An entry is the trees read and the place behind them, or
`SyntaxError`.

### 2.12 MCComponents

The components of 2.5 to 2.11 share no state. `part` is chosen at the start, that component
runs and the others rest in their first state; so one run covers what would otherwise be
seven, with the liveness of two of them. Where the first state is not one of rest (health,
plans, queries), the component rests in one of its last ones, in which no action of it is
enabled and fairness asks for nothing. A state of one component is never combined with
states of another, so the run's states are the sum and not the product of theirs.

## 3. The runs

| run | properties | states | question |
|---|---|---|---|
| buffer | TypeOK, Conservation, OneRequestPerBatch, CountersBalance, DepthLag, HeldRowLands, OkMeansDelivered, KeepsLedger | 1.8M | is any accepted row lost, duplicated, reordered or misreported, and does the producer implement the ledger |
| calls | CallsReturn | 49k | does every enqueue, flush and shutdown return while the sink fails |
| delivery | RowsLeaveBuffer | 128k | does every accepted row leave the buffer when the sink works, unless it is behind a dropped chunk |
| jwks_lookup | TypeOK, PublishedKidFound, CallsReturn | 438k | is a published key ever reported unknown; does every lookup return |
| http_retry | TypeOK, AtMostOnce, SendsBounded, RefusedTokenGone, TokensMoveForward | 1.8M | is a POST acted on twice, or sent without bound; does the cache keep or resurrect a refused token |
| http_returns | RequestsReturn | 65k | does every request return with holders of the lock dropped and a torn record |
| components | ComponentsTypeOK; then per component the rows below | 449k | are the components that share no state right, one to a behaviour |
| | graph: LeavesFirst, CycleNamed, LeastOrder, RootCovers | | is every order leaves first, the same for every order of submission, and every cycle blamed exactly |
| | version: BoundsMatch, LoosePartialKnown | | do both meanings of a stored range select the same versions |
| | frames: BuffersBounded, RoundTrips, AcceptsExactly, SpentStaysSilent | | does the decoder return exactly what was encoded, however the body is cut |
| | migration: OneMigrator, FailsOnlyByFault, OutcomeTells, StrandedOnlyByDrop, MigrationsReturn | | does the lock keep callers apart whatever breaks, are they told the truth, is the lock ever lost |
| | health: ServingConfirmed, StatusFollows | | does the sentinel say what readiness says |
| | plan: PlanLayered, CycleLeast | | are the stages and the witness of a cycle those the definition gives, and is there always one |
| | query: QueryRoundTrips | | is a printed query read back as itself |
| depth, stranded, refusal, partial, drift | QueueDepthInFlight, ShutdownStrandsNoRow, RefusalHoldsUpNoOther, PartialPins, StatusReflectsSnapshot | | five statements of comments that do not hold (section 4) |

Every property of a passing run has at least one wrong variant of a mapped definition
that it rejects.

### Bounds, and why they are enough

*buffer:* three rows, one flush, one shutdown; channel, staging and flush size 2, two
attempts; one row fills a message alone, so a chunk of two is split, and one row makes its
batch unbuildable. A pass can thus have three chunks with a failure, a drop or a split in
any of them, two chunks can wait in the retry buffer, the channel can be full and the
caller give up, and the pass of `ingest` can be reached. `DepthModulus` 8 exceeds every
depth, so a wrapped counter is visible. *calls, delivery:* capacities of one, two or three
rows: liveness is checked on smaller instances because what matters is that each loop and
each reply path is reached with the others in progress. In `calls` the server refuses
one row for good. In `delivery` a row is unbuildable, another is too big for a batch of two, and
batches of two are smaller than the staging buffer of three: a pass can have a second chunk,
which a dropped first one leaves behind.

*jwks_lookup:* three calls are needed for a call to be coalesced, in its second round,
with a fetch a second call began while a third invalidates; two keys let one be rotated in;
a third entry has no kid. *http_retry:* two requests are enough to race on the mutex and
replace each other's tokens, two tokens to go backwards, one restart; three tries per
request are the code's own constants. *http_returns:* one token and one restart, on disk.

*components, graph:* every relation between four cards without self-references, every relation
between two with them; seven requests (two orders of all cards, a part, a repetition, none, one with
a spec that does not parse, one with a version left open);
two cards are Services. Four cards give every shape of cycle with something above and below
it. *version:* words 0 to 2: zero, one other value and the largest, in every position, behind
every operator, with wildcards everywhere. *frames:* bodies of up to six bytes in
groups of three values: every length, two-byte prefixes with a whole payload, overlong,
overflowing and endless prefixes; messages that fail to decode start with a 2.
*migration:* two calls in one process or in two, with one pool of two sessions and one of
one, two migrations, any statement and any connection failing at any time, any future
dropped; a third caller would only wait as the second does. Options that pass, with one schema,
and one set for each reason to refuse them. *health:* one process, any number of probes.
*plan:* every graph of four tasks without self-loops; five tasks of which two make a cycle
beside or behind every graph of the other three, so that there are knots to choose between;
two tasks with every list of up to two ids, their own, unknown and repeated ones included.
*query:* three plain words and trees of up to seven levels (`Height` 6); every tree of four
levels with groups of one or two over one predicate and of three levels over two; every key of up to two segments with every operator, plain and negated,
those that are not read back included; trees beyond each cap. A text is as long as it has tokens,
and texts of up to 43 meet a cap of 30: some valid trees are at it, some beyond.

Counters that grow for ever (`nextId`, `minted`, `crashes`, `sends`) are bounded by the
number of rows, by `MaxTokens`, `MaxCrashes` and by the retry budget the model itself
keeps; `MaxWire` bounds the bytes of a body. `CHECK_DEADLOCK FALSE` stands where the
system ends: calls have returned, the task has left, the body is over. The JWKS provider
never stops rotating, so that run checks deadlock too.
`MaxCrashes`, `MaxTokens` and `DepthModulus` are constants of the modules, not of the code.

### Fairness, and why the code justifies it

*Producer:* weak fairness of each caller thread inside `enqueue` (a thread that runs keeps
running) and of the background task (tokio polls a ready task, and every await of it has a
deadline or a waker). The sink gets strong fairness: a server that is asked again and again
stores a request it does not refuse, and its answer gets through some time. In `calls` one
row is refused for good and any other send may fail before it succeeds; the calls return
all the same, since the terminal drain ends at the first failing pass and every other
pass after one turn. In `delivery` no send fails and the timer is on: without the timer a
staged row waits for the next row by design. No fairness is assumed of callers to begin a
call, or of anybody to drop a handle.

*JwksCache:* weak fairness of each polled call and of the fetch, which a timeout ends.
*HttpTransport:* weak fairness of a request's own steps (each send and each exchange has a
timeout) and strong fairness of its two ways into the lock: tokio's mutex is a fair queue, so
a request that finds the lock free again and again gets it. Dropped futures, rotations,
expiry and restarts have none.
*MigrationLock:* weak fairness of a call that is polled (every await ends, well or with an
error), of the end of a lock request whose connection broke, and of the server noticing a lost
client; strong fairness of the lock, because Postgres grants it in turn. A drop has none, and
`MigrationsReturn` excuses the others once a future was dropped: the lock its session keeps in
the pool is what finding 6 describes.
*HealthConsumer:* weak fairness of the boot sequence and of the task, whose sleep elapses.

## 4. Where code and comments disagree

Each of the first five is a run that ends in a counterexample.

1. **depth.** `queue_depth` is documented as "Rows in flight" (producer.rs:63), but
   `enqueue` increments `channel_depth` after `try_send` made the row visible
   (producer.rs:168-174), and the task decrements when it takes the row. If it is first the
   counter wraps and the metric is near `usize::MAX` for a moment. `DepthLag`
   (run buffer) shows what the counter is off by: one up for a row the task has popped and not
   yet uncounted (producer.rs:280-283, 308-309), one down for each call between its `try_send`
   and its `fetch_add`, and nothing else.
2. **stranded.** `shutdown` is documented as "refusing new rows once draining and flushing
   the buffer to completion before it returns" (producer.rs:14-15). `enqueue` reads the state
   once (producer.rs:159) and sends later; a row that arrives after the task's last
   `try_recv` is answered `Ok`, counted as accepted and dropped with the receiver.
3. **refusal.** "The producer inspects the error to decide re-buffer vs. drop-with-log"
   (sink.rs:52-53): `seal_and_send` re-buffers on every error (queue.rs:252-268), at the
   head. A batch the server refuses for good is retried for ever and everything behind
   it waits.
4. **partial.** `parse_loose("0")` stores `^0`; `to_bounds` fills the missing parts with 0
   and takes the `0.0.Z` rule (range.rs:405-412): `[0.0.0, 0.0.1)`, while `matches` accepts
   0.5.0 and the documented dialect (range.rs:126-127) makes a bare partial its prefix
   line.

5. **drift.** `publish_initial_health` must come first "so the reporter reflects the current
   snapshot before the consumer's change-detection baseline is set" (wyrd-tonic
   server/mod.rs:192-193), but the baseline is a second read of the snapshot
   (server/mod.rs:200): a change between the two reads becomes the baseline and is not reported
   until readiness changes again. `StatusFollows` (run components) shows that this is the only
   way the status stays wrong.

Also seen while modelling, without a run of their own:

6. A dropped `run_migrations` future can leave an idle pooled session that holds the advisory
   lock (migration.rs:79-112); "released unconditionally on all reachable outcomes" is true of
   every outcome the call itself reaches. `StrandedOnlyByDrop` shows there is no other way.
   The next call from the same process takes that session first and is not locked out, another
   process waits until the pool is closed.
7. The witness of an evaluation cycle is described as the "smallest closed walk reachable from
   the offending SCC" (plan.rs:51); it is the shortest closed walk through the least task of
   the smallest component. For 1 -> 2 -> 3 -> 1 with 2 <-> 3 it is the triangle although the
   pair is shorter. `CycleLeast` states what it is.
8. A label key that spells a keyword in capitals, `labels."NOT"`, is printed as
   `labels.NOT` and read back as `labels.not`: the lexer folds keywords (parse.rs:381) before
   the parser knows it reads a key, where the comment says "Keywords are lexically identical to
   identifiers in the dotted-key context" (parse.rs:554-555). Nor is what `validate` accepts always read
   back: an empty list prints as `in []`, which `parse_list` refuses (parse.rs:592); a duration
   below zero is refused (parse.rs:305-312) and a float that is not finite prints as a word; a
   timestamp prints as a string (display.rs:130); and a valid tree may print to more than
   `MAX_QUERY_INPUT_LEN` bytes (parse.rs:16), for `validate` has no cap on the length.
   `QueryRoundTrips` excepts these keys, these operands (`LostOperators`) and these texts, and
   nothing else of what is modelled; a reserved field that is no plain word, which `validate`
   does not look for either, is not. Groups of one child come back as the child.

- A pass that fails in the terminal drain ends it (producer.rs:316-321); what was
  re-buffered is dropped with the task although the state is `Drained`. The ledger's
  `Stop` allows it.
- The result of the pass that `ingest` runs (queue.rs:140) is dropped: ids and errors of
  rows a flush asked for may be missing from its reply. `OkMeansDelivered` is about what
  the reply does say.
- The timer arm looks at staging only (producer.rs:297): what a pass puts back into the retry
  buffer is sent again with the next pass, which without a new row or call never comes. After
  a failure of the sink that is the failed chunk and all behind it, so `RowsLeaveBuffer`
  assumes a sink that does not fail. But a pass also ends when it drops a chunk that cannot be
  built, or a row too big for a message (queue.rs:207-218, 222-230): the good rows behind it are
  left in the same place by a sink that never failed. `RowsLeaveBuffer` names them (`LeftBehind`)
  and shows that there are no others; with `FlushMaxRows` below `StagingCapacity`, as in the run
  `delivery`, it does happen.
- With the default configuration `flush_max_rows` exceeds `staging_capacity`, so the size
  trigger never fires; passes begin in `ingest` or on the timer.
- N requests refused with one token exchange N times, one after the other
  (auth.rs:229-244); the cache still only moves forward.
- `FrameDecoder::push` returns an error without the messages the same chunk completed
  before; what a caller receives of a malformed body depends on the cuts. After an error
  the old prefix stays, so a further push goes on from it; `SpentStaysSilent` states what
  still holds.
- `VersionRange::parse` keeps partial text (`~1`, `^0.0`, `1.2`), which `to_bounds` and
  `matches` then read differently: a plain `1.2` is a caret to `matches` and a prefix line
  to `to_bounds`. `BoundsMatch` therefore speaks of ranges that were normalised or are full
  triples behind an operator. `parse("^1").is_loose_partial()` is true although nothing
  bare was parsed (range.rs:78-84).
- "On failure after database creation, the ephemeral database is dropped" (wyrd-dev-fixtures
  pg.rs:72-73): when the grant behind `CREATE DATABASE` fails (pg.rs:189-198) there is no
  `TestDatabase` yet to drop it.

## 5. What is proved

All theorems hold for every value of the constants under the named assumptions of the
modules: sets of calls disjoint, capacities positive, kinds and bytes well typed, the ceiling of
a message a number that fits the code's word (`LengthAssumption`). None needs the sets of calls,
keys, sessions, cards, bytes or versions to be small.

**Inductions.** The provers cannot instantiate an induction rule for a predicate. A set of
numbers without a least element, however, is empty, and that is a statement about sets: from it
come induction for sets of numbers (`NumbersInduction`) and of sequences (`SequencesInduction`),
the existence of functions given step by step (`StepsExist`), and what the library's folds and
`FlattenSeq` compute (`StayAlike`, `FlattenAppend`, `FlattenConcat`). The other modules use
these for what a recursive function of the model does with every input.

**ProducerProofs.** `TypeCorrect`: every reachable state is well typed; the proof has one
lemma per action. `RequestsUnique`: two requests that share a batch id or a row are the
same request. OneRequestPerBatch is not inductive: a request made now is compared with
those still to be made. `UniqueInv` follows every accepted row through the buffer: it is
loose in one place only (channel, hand, staging; `LooseOnce`) or in the batches of one id
(`BatchOnce`: batches sent, pending or waiting for retry that share an id or a row are the
same batch, ids in use are below `nextId`, no row of a batch is loose, and retry is empty
during a pass). Splitting an oversize chunk keeps its id for the left half; that this does not
contradict an earlier request is why the invariant also says that nothing oversize was sent.

**ProducerDeliveryProofs.** Six theorems on top of `UniqueInv`. `HeldRowLandsAlways`: a pass
seals all of staging and nothing is staged before it has returned (`StageInv`), so the row in
`ingest`'s hand always finds room. `OkMeansDeliveredAlways`: an accepted row is always `Kept`
(stored, counted as dropped, staged or in a batch) or `Outside` (in the channel or in hand), and
what is kept stays kept (`AllPlaced`): halves and slices lose nothing, a failed pass puts
back what it did not send. After the drain of a flush nothing of its rows is outside, so they
are all kept (`DueInv`); when the answer is `Ok` the buffer is empty, so what is kept is stored or
dropped. `StoreInv` ties the ids a reply reports to stored batches, `CallInv` says that a
message waits once and its caller with it. `CountersBalanceAlways` and `DepthLagAlways`: the
counters are compared with the cardinalities of the sets of calls, each step moves one call from
one set to another (`Moves`), and a dropped batch has as many rows as its length because a row is
in it once (`UniqueInv`); `depth` is compared modulo its word with the channel, the row in the
task's hand and the calls not counted yet.

`KeepsLedgerAlways` is the refinement: under the mapping of ProducerProperties the producer
implements RowLedger. `Fates` writes the status of a row as a function of the rows stored, dropped and still here, which no
step lets overlap (`Apart`), so each action is a move of sets: a refusal, a row into the channel,
a chunk dropped, a request stored, the end of the task, or nothing. It needs `SentInv`: a request
that was sent stays queued until it is stored, so what the server stores late comes from the
buffer and was not dropped before.
`ConservationAlways` adds the order of the rows: what is stored, followed by what is on its way
(batches, staging, hand, channel), is what was accepted less what was dropped (`Balanced`), as
sequences, so nothing is lost, doubled or overtaken. Taking a set out of a sequence commutes
with concatenation (`Without...`), which is where induction over sequences enters; each step
moves rows from one of the five stages to the next (`Pipe`). A batch leaves from the middle only
by being dropped; that only the head of the queue is ever stored needs `HeadInv`: no batch
behind the first was ever sent.

**JwksCacheProofs.** `TypeCorrect` and `KeyFound` (PublishedKidFound). `KeyInv` adds
`OneSource` (while a fetch is under way nothing is cached, and an answer belongs to a fetch),
`Steady` (the provider still has every key a call is known to have seen throughout) and
`Renewed`: a set that a call in its second round can still be given, cached or answered, has
every key the provider has had since that call began. The step that matters is the
moment a call finds its set without the key: by `OneSource` no answer is on its way then, so
whatever it can be given after its invalidation was answered after the call began.

**HttpTransportProofs.** `TypeCorrect`; `ActsOnce` (AtMostOnce): for an unsafe request
`OnceInv` adds `OneCopy`: the acts done and the late copies are none until the request is
sent, never more than one together, and none while a copy waits at the server; a copy is at
the server only while the request is in flight. A request that is not replay-safe comes
back to its send only when nothing was or can still be acted on. `CacheMovesForward`
(TokensMoveForward): `GateInv` says that only the holder of the lock has a token on its way,
that it is the newest minted, and that cache and disk hold no newer one.
`SendsBoundedAlways`: `Paid` says that every attempt but the current one was paid for by a retry
of the budget or by the one renewal. `RefusedTokenGoneAlways`: `Renews` says that a token on its
way to a renewal is newer than the one it replaces, and that once a refused request has renewed,
the cache and its own token are newer than the refused one until it is done.

**GraphProofs.** *Submission graph.* `GraphTypeCorrect` (in particular `remaining_children`
never falls below zero) and `SortsLeavesFirst` (LeavesFirst, during the sort and after the root
was moved): `GraphInv` adds `RightlyCounted` (a card waits for exactly as many children as are
not emitted, a cardinality) and `ReadyFree` (a ready card has none missing). Moving the root is
safe because nothing refers to it. `OrderInv` goes on from there: what is ready is all that
could be (`ReadyAll`), each card was the least that could come at its place (`Greedy`), none
comes twice (`Once`), and what a finished or failed sort leaves (`Outcome`). `LeastOrderAlways`:
any other order with leaves first differs from this one at a first place, where `Greedy` makes
its card the larger one. `CycleNamedAlways`: what is left of a failed sort is a set in which
every card has a child, so it is not empty exactly when some card is below itself; the argument
walks down from any card left, which must come back because the cards are finitely many, and
`Below` is the least set no reference leaves. `RootCoversAlways`: the root is nobody's child; when it is
the only such card, Service or not, everything else hangs from it, or there would be a cycle, and
when there are more it is the only Service among them.

*Evaluation plan.* `LayersInOrder` (PlanLayered): a degree is the number of list entries whose
tasks are in no stage yet (`Counted`), so the ready tasks are exactly those that wait for
nothing (`Ready`), and each waited for one of the stage just emitted (`RightBehind`);
`PlanTypeCorrect` follows with it. `CycleLeastAlways`: `Behind` and `Knot` say over all walks
what the search finds in steps. No emitted task is in a knot (`EmittedLoose`: what is behind it
is in later stages), and widening a set of tasks as often as there are tasks reaches a set that
no step leaves (`GrowsShut`), so the components are the knots (`ComponentsAre`). The queue of
the breadth-first search keeps one walk to a task, in the order of length and ids, and whatever
is a step behind a visited task is reached no later than through it (`Searched`, kept by every
visit: `VisitKeeps`). When the queue is empty, each of its walks is the soonest to its task
(`SearchBest`) and one of them has an edge back (`WayBack`): the first of these closes the best
round (`RoundBest`, `WitnessRight`). There is always a component to search: every task the layers
leave waits for another that is left (`LeftWaits`), so one with the most tasks behind it is
behind itself (`KnotLeft`), and the early return of an empty witness is never taken.

**ComponentProofs.** *Migrations.* `MigrationTypeCorrect`; `OneMigratorAlways`: calls use
different sessions (`Exclusive`), one that can still work holds the lock (`Holds`) and one
session at a time does (`OneHeld`), also after broken connections, late answers, drops and
closed pools. `FailsOnlyByFaultAlways`, `OutcomeTellsAlways` and `StrandedOnlyByDropAlways` rest
on it: while a call is inside, nobody else adds to the ledger it has read (`Ledger`), so no
migration collides; an error follows a fault (`Fault`), a call on its way to `Ok` has made all
its schemas and migrations (`Done`), and a session waiting in a pool, or for the lock, has the
lock already only if a call of that process was dropped (`Strand`).

*Frame codec.* `FrameTypeCorrect` and `StaysBounded` (BuffersBounded): `Filling` says that
there is no payload without an expected length and that a payload is shorter than its expected
length between two bytes. `RoundTripsAlways`: `Lossless` says that until the decoder fails the
bytes sent so far are the frames of what it delivered, of what it completed in the push under
way, and the prefix or payload it holds; it needs that the value of a prefix is the
number its groups spell and that the encoder's spelling of it is the only shortest one
(`VarintSpells`). `SpentStaysSilentAlways`: a decoder that failed keeps the evidence in its
buffers (`Spent`), so no later byte makes it deliver. `AcceptsExactlyAlways`: `AcceptInv` adds
that nothing waits behind a push (`Rests`) and that a decoder that failed was sent no beginning
of any body (`Refused`): an oversize or overlong length is spelt by no frame of the encoder, and
frames can be cut from the front of a body in one way only (`OneFirst`, `OneEnd`).

*Health sentinel.* `HealthTypeCorrect` and `ServingConfirmedAlways`: whatever the task or the reporter hold as ok has
been the snapshot, and the last step withdraws the status (`Confirmed`).

*Version ranges.* `BoundsMatchAlways`, `LoosePartialKnownAlways` and `VersionTypeCorrect`, for
every word size: what is stored is what the parser at hand makes of the text (`Parsed`), the
bounds are those of what is stored (`BoundsStored`), and for each operator the interval of
versions between the bounds is compared, part by part, with what `matches` asks
(`WildcardBounds`, `ExactBounds`, `TildeBounds`, `CaretBounds`, `StarBounds`).

**QueryProofs.** `PrintedIsParsed`: the parser reads the text of a tree without empty groups,
keys in capitals and operands that are not read back (`WellFormed`), within the depth cap and with
a text within the length cap, as that tree with its groups of one collapsed, for every height,
all words, all caps and all lengths; `QueriesRoundTrip` (QueryRoundTrips) adds that what is read is valid again,
because collapsing keeps the predicates and makes no tree deeper (`AllKept`, `CollapsedValid`).
The trees, and the functions over them, are recursive: that they exist and what they give for a
tree whose children are known is shown first (`TreesExist`, `TreeInduction`, `ValueRecursion`),
and likewise for the parser's two tables (`UnaryIs`, `OperandsIs`). Texts are compared in place:
`At` says that a text stands in the tokens from a place on. Read at its place, a key gives its
segments back, because a segment is never a dot (`KeyRead`); an operator gives itself, because no
two of them can begin at one place (`OperatorsApart`); so does a predicate (`PredicateRead`).
`OperandsRead` is the loop of a group: if every operand is read, up to a place where the group's
keyword or its end stands, the loop gathers them all and stops at the end. The induction over the
tree then has three statements, one for each level of the grammar a tree can be asked for at:
`UnaryReads` (after `not`, inside `and`), `AndReads` (inside `or`), `OrReads` (the whole, or in
parentheses). Each says how the printer wrote the tree for that level, with or without
parentheses, and which token may not follow. Each also bounds the depth: the levels of the tree
and of the parser's own recursion together stay within `MaxDepth`, with one level to spare for a
group, whose parentheses may just have been counted. Without that the induction does not go through, for
the parser counts parentheses and nots where the validator counts levels. That the parser's
count never exceeds the validator's is what makes a valid query acceptable, once its text is
within the length the parser reads.

*Only model-checked:* the liveness properties CallsReturn (producer and JWKS), RowsLeaveBuffer,
RequestsReturn, MigrationsReturn and StatusFollows, since fairness and ENABLED are outside the
prover; and ComponentsTypeOK as it stands, over the run's composition: each of its conjuncts is
a theorem of its component. Every other invariant and action property of a passing run is a
theorem.

## 6. What is not modelled, and why

- *Conversions* (batch builder, schema mapping, skald-spec, wyrd-tonic conversions, wire
  types, errors): data in, data out, no state; property tests and snapshots reach them.
- *Text* (the lexing of the query language's values, permissions, DSNs, configuration): the
  interesting part is the characters, which a model at this level leaves out.
- *Validators without order or state* (composition, canonical form, the workflow's
  depth-first twin of the evaluation plan).
- *Cryptography and verification* (wyrd-auth-issue, wyrd-auth-verify, wyrd-crypt): results
  of libraries over values, and access decisions. The verifier's key lookup is the modelled JWKS
  cache; its own cache of verified tokens is left out.
- *Decisions over a few fields* (wyrd-auth-check, wyrd-runtime permissions, principals).
- *Set-up, I/O and macros* (wyrd-tls, wyrd-telemetry, wyrd-utils, derive macros, scripts).
- Inside the modelled components: wording, tracing, metrics other than the three counters,
  jitter and the length of delays, headers, request ids, pre-release and build metadata.

Of the implementation's 72 thousand lines about 18 thousand are inside function bodies; the
rest are declarations of wire types, their derives and documentation, and tests inside the
source files. The definitions of these modules stand for the part of those bodies that has
control worth modelling, a few per cent of the whole; most of what is left would be modelled by
the identity.

## 7. Plan

Modelled and checked: `Producer` with `RowLedger`, `JwksCache`, `AuthMiddleware` with
`HttpTransport`, `SubmissionGraph`, `FrameDecoder`, `VersionRange`, `MigrationLock`,
`HealthConsumer`, `EvalPlan`, `MetadataQuery`. What could follow:

1. Safety of `validate_composition`, if that validator gains state.
2. The fixture's create, migrate and drop around `MigrationLock`.
