# A TLA+ model of LeadsNebula

LeadsNebula is a lead-distribution platform in Rust. Publishers submit leads
(`POST /api/v1/leads`); the server auctions each lead among the campaigns of the
publisher's *ping tree*, sells it to a buyer, and persists what happened. This
directory models the parts of it in which the order of events decides about
correctness: who writes a lead's row and when, who wins an auction, what happens at
shutdown, how old the catalogue, the keys and the rules may be by which a lead is let in,
routed and judged, and what is left of an account, a rule set or a deleted instance when
requests and tools run at the same time.

Paths below are relative to `crates/` of the repository.

| Abbreviation | File |
|---|---|
| WBQ | `core/src/services/write_behind_queue.rs` |
| PTR | `core/src/services/ping_tree_router.rs` |
| BR | `core/src/services/buyer_router.rs` |
| leads | `api/src/routes/leads.rs` |
| dashboard | `api/src/routes/dashboard.rs` |
| auth | `api/src/routes/auth.rs` |
| cache | `core/src/cache.rs` |

## 1. The system and its parts

| Part | State it keeps | Operations | Talks to |
|---|---|---|---|
| `create_lead` (leads) | none of its own; the `leads` row | ping, post, fullpost; sync or async | pre-checks via cache, router, queue, database |
| Ping-tree router (PTR) | none; one per request | `route`, `route_ping_auction`, `route_post`, `route_fullpost` | cache, buyers, queue, database |
| Buyer router (BR), Pulsar | none | one call per campaign, with a timeout | buyers over HTTP, or Pulsar in process |
| Write-behind queue (WBQ) | channel, batch, shutdown flag | `enqueue`, batcher loop, `flush_batch`, `flush`, `Drop` | handlers send, one batcher writes to the database |
| Shutdown handler (`api/src/main.rs`) | attempt counter | signal, up to three `flush()` calls | the queue |
| Cache | in-memory level per process, Redis level shared | `get_or_insert_with`, `get_or_insert_with_skip_none` | Redis, and the query passed as closure |
| Cache warm-up (`api/src/cache_warmup.rs`) | none | fills keys at start and every 30 minutes | cache, database |
| Dashboard | the catalogue: ping trees, campaigns, memberships, assignments | create, update, delete, add, remove | database only, never the cache |
| Accounts (auth, dashboard) | `users`, `user_otp_settings`, `webauthn_credentials`, challenges in Redis | login, one-time and backup codes, reset links, set-up of the second factor, passkeys | database, Redis, mail |
| Buyers and rule sets (dashboard) | `buyers`, `buyer_qualification_configs`, ZIP lists | create, update, switch, delete | database only |
| Qualification engine, Pulsar | none | judge a ping, a post, a fullpost | the router, which gives it the cached rule set |
| Publishers and API keys (dashboard, `api/src/middleware/api_auth.rs`) | `publishers` | create, update, delete, rotate key; authenticate a request | database; the middleware reads through the cache |
| Batch writers (WBQ), `persist_failed_lead` (leads) | rows of `leads`, `buyer_responses`, `ping_payloads` | one statement or transaction per task | database |
| Clean-up tool (`utils/src/bin/cleanup-instance-data.rs`) | none; one transaction and a final check | twelve deletions | database, next to running servers |
| Revenue calculator (`core/src/services/revenue_calculator.rs`) | rows of `lead_revenues` | calculate, record | database; nothing calls it yet |
| Metrics, configuration, retry, OpenAPI, health | counters, settings | I/O | - |

What is hard here:

* **One row, many writers.** A `leads` row is written by the queue, by an update the
  handler spawns and forgets, by the router inside the request, and by the claim of a
  post. Nothing orders them. → `LeadLifecycle`, `FullpostRouting`
* **Completion order.** Buyers answer in any order, with errors and timeouts, and the
  answers must stay with their campaigns. → `PingAuction`, `FullpostRouting`
* **Asynchronous persistence and shutdown.** A task that is enqueued is not written; a
  flush may time out, be repeated, or race the end of the runtime. → `WriteBehindQueue`
* **Staleness.** One request reads the catalogue through four cache keys with three
  lifetimes in two levels; edits invalidate nothing. → `RoutingCatalog`. API keys and
  rule sets are cached in the same way. → `PublisherAccess`, `BuyerAdmin`
* **Read, decide, write.** The handlers of the dashboard read, decide and write in
  statements of their own, without transactions or locks, so two requests interleave
  between them. → `AccountSecurity`, `BuyerAdmin`, `PublisherAccess`
* **Several servers and a tool on the same tables.** Tasks of one server refer to rows
  that another one has written, or that the clean-up tool is deleting.
  → `LeadPersistence`

`PROJECT.json` lists every component with its status, every definition with the lines
it models, and every hazard with the properties that would catch it.

## 2. Modules

| Module | Models | Kind |
|---|---|---|
| `TaskDelivery` | what the queue promises its callers | abstract specification |
| `WriteBehindQueue` | WBQ (channel, batcher, flush, Drop) and the shutdown handler | state machine; implements `TaskDelivery` |
| `WriteBehindQueue_proofs` | - | theorems |
| `LeadLifecycle` | one lead: the ping, racing posts, all writers of the row | state machine |
| `LeadLifecycle_proofs` | - | theorems |
| `AuctionRules` | responses, validity, `select_winner`, status mapping | operators shared by `PingAuction` and `FullpostRouting` |
| `AuctionRules_proofs` | - | a theorem about `select_winner`, used by the next two proof modules |
| `PingAuction` | `route_ping_auction` | state machine |
| `PingAuction_proofs` | - | theorems |
| `FullpostRouting` | `route_fullpost`, `route_post`, and what `create_lead` makes of the result | state machine |
| `FullpostRouting_proofs` | - | theorems |
| `CacheService` | the two-level cache | operators over its state |
| `RoutingCatalog` | dashboard edits, pre-checks, `route()`'s lookups, warm-up | state machine over `CacheService` |
| `RoutingCatalog_proofs` | - | theorems |
| `Requests` | handlers as sequences of steps, audit entries | slots shared by the three below |
| `AccountSecurity` | the account handlers of auth and dashboard, the token check | state machine |
| `QualificationEngine` | the decision about a lead by a configuration | operators |
| `BuyerAdmin` | buyers, rule sets and ZIP lists; Pulsar's judgements | state machine over `CacheService` |
| `PublisherAccess` | publishers, API keys, the key middleware | state machine over `CacheService` |
| `Dashboard` | `AccountSecurity`, `BuyerAdmin` and `PublisherAccess`, in one pool of requests with one clock | composition |
| `Dashboard_proofs` | - | theorems |
| `LeadPersistence` | the batch writers of WBQ, `persist_failed_lead`, the clean-up tool | state machine |
| `Server` | `Dashboard` and `LeadPersistence` | composition |
| `Server_proofs` | - | theorems |
| `MC*` | instances for TLC | - |

They fit together as follows. `LeadLifecycle` and `FullpostRouting` use a FIFO for the
tasks of one lead; `WriteBehindQueue` shows this to be sound (`KindOrder`,
`Delivers`). `FullpostRouting` takes the result of a split request's ping auction as any
result that `PingAuction` can produce. `RoutingCatalog` produces the campaigns that both
routers start from. `LeadPersistence` opens up what `WriteBehindQueue` calls writing a
task: the statements, and which rows they find. `Dashboard` runs the handlers in shared
slots, with one `audit_logs`, one cache and one clock.

### WriteBehindQueue

`channel`, `batch`, `flag` are the fields and locals of the same name; `writing` and
`pending` are the drained batch and the join of `flush_batch`; `pc` is the batcher's
place (`select!`, creating leads, join, finished). `Enqueue`, `Recv`, `RecvClosed`,
`Tick`, `CreateLeads`, `WriteGroup`, `FlushDone` are the queue; `Signal`,
`FlushReturns`, `FlushTimesOut`, `RetryFlush` the handler in `main`; `DropQueue` and
`RuntimeShutdown` the end of the process. A task is the number of its `enqueue` call; the
history variables `applied` and `lost` say what became of it.

### LeadLifecycle

`row` is the row, `queue` the tasks of this lead, `half` that the batcher is between
the two statements of `batch_update_leads`, `spawned` the detached update, `post[r]` and
`snap[r]` a post request and the copy of the lead it works on, `cached` the cached lookup
by promise. Every statement that touches the row is an action; `Claim` is the
conditional `UPDATE` that puts the in-progress token into an empty `post_id`. `row.bid` is
that `vertical_data` has the `winning_bid` by which a post is priced: the final update of a
ping merges into that column or replaces it, by status and by writer.

### AuctionRules, PingAuction, FullpostRouting

`select_winner` works on the indices of the results and returns a *set* of them, because
ties without priority are broken at random.
Bids within `Epsilon` count as equal. In `PingAuction` a task waits for a permit, calls,
and ends by answer, error or timeout; `results` is in completion order. An answer that comes
in time may itself carry the status `timeout`, and counts as one. After the decision the
router updates the lead, and when that update fails the whole auction ends in an error. In
`FullpostRouting` campaigns are numbered in launch order, so that the zip of the results
with `campaign_ids` is visible.

### CacheService and RoutingCatalog

An entry has a value, the time at which it ends, and (history) when it was read at the
source. `Lookup` is `get_or_insert_with`, with `skip` the variant that does not cache
`None`. `lost` makes an in-memory entry disappear early (capacity, restart),
`LookupFails` is a failure of Redis on the read or on the write. `RoutingCatalog` has one
action per statement of a dashboard request, because these requests are not
transactions, and one action per lookup of a lead request. `until` is history: when each
fact of the catalogue last ended.

Time is counted in units that are long compared with a request, so no request lasts
across a tick; a lookup is one step. The `SELECT` by which an `add_*` operation first
looks for its tree is folded into the statement that follows, which only removes
interleavings equivalent to another order of the edits.

### Requests, AccountSecurity

A slot of `Requests` is one handler in execution: `at[s]` is the step it takes next and
`held[s]` what it carries over from earlier reads. A step ends at an `await`: one SQL
statement, one Redis command or one mail. `Abandon` ends a handler at any await (an error
returned by `?`, or a client that went away); `CreateAuditLog` is the last step of an
audited change, whose failure changes nothing. `AccountSecurity` has one account. A password is
named by the link that set it, a backup code by its batch; passkeys are counted, because
any number of credentials can be registered for one challenge while Redis still has it (the
error of its deletion is ignored). `verify_otp` takes the secret of the row or, when there is
none, the one of the request (`OtherSecret`), and may then update no row.

History variables say what two handlers or a failed statement have done to each other:
`lost` that one overwrote what another had changed, `spent` which challenges a passkey was
stored for, `peak` how many registrations were open at once (a handler about to store its
challenge, or a challenge that is not spent), `repeats` how many passkeys were stored for a
challenge that was. The
properties say that nothing else breaks the promise, and `PasskeyLimit` by how much.

### QualificationEngine, BuyerAdmin

`QualificationEngine` abstracts the rule for a field to the values it rejects; how the code
compares words decides only which values these are. `BuyerAdmin` has one action per statement: creating an internal buyer
finds or inserts an integration, and saving a rule set deactivates the others, finds or
creates a ZIP list per type, inserts code by code and writes the row; errors in the
middle are logged and passed over, as in the code. `saved` are the ZIP codes of the saves
answered with success, `unstored` those whose own statement failed although the answer was
success and the codes had left the configuration. `RoutePing` is the router's cached
lookup of the rule set with Pulsar's judgement, `RoutePingWithoutRules` the
`unwrap_or_default` after a failure. Rule sets are not renamed in the model.

### PublisherAccess

Keys are numbered as they are generated. `Authenticate` is the middleware with its
lookup; a missing publisher is cached too. `ended` is history: when a key last ceased to
be valid or invalid.

### LeadPersistence

A request has a `uuid` and a short random `lead_id`, which two requests may share
(`AcceptLead` chooses). `job[r]` is how far its tasks are; `ResolveResponse`,
`InsertResponse` and `ResolveAgain` are the two rounds of
`batch_insert_buyer_responses`. The tool runs as one transaction: rows it has deleted
(`doomed`) block other statements until it ends. A behaviour has either failing
statements or a run of the tool.

## 3. Runs

| Run | Bounds | Shows |
|---|---|---|
| `WBQ` | 3 kinds, batches of 2, 2 attempts, 4 tasks | order, accounting, refinement, liveness of the queue |
| `WBQ_shutdown_loss` | 2 kinds, 2 tasks, 3 attempts | *violated*: no data loss on shutdown |
| `LL` | 3 racing posts, sync and async, faults, expiry; a patient publisher | at most one sale and who it goes to, token and promise |
| `LL_double_sell` | 2 posts, an impatient publisher | *violated*: at most one sale |
| `LL_post_price` | 2 posts, sync, a patient publisher, no faults | *violated*: a post uses the bid that won the ping |
| `PA` | 3 campaigns, 1 internal, 1 permit, 2 priorities or none, bids 10, 11, 13 with epsilon 2, answers that say `timeout`, a failing update | winner, ties, storage of answers, outcome, termination |
| `FP` | 2 campaigns, both strategies, both modes, both kinds of buyers, 2 prices, faults | price, storage, record of the sale, termination |
| `FP_winner` | the direct strategy | *violated*: sold to the bidder |
| `FP_rejected_post` | the split strategy, external buyers | *violated*: only accepted leads are sold |
| `RC` | 1 instance, 1 tree, 1 campaign, 2 edits, 3 rounds, 4 units of time, 1 fault | age of cached values, eligibility, refusals |
| `RC_new_assignment` | as `RC` | *violated*: the next request sees an assignment |
| `SV` | 2 requests at a time, in each behaviour one of 11 workloads | accounts, rule sets, ZIP lists, keys, judgements, stored leads |

Why the bounds are enough to meet the interesting cases:

* `WBQ`: four tasks and batches of two give a full batch, a partial one flushed by the
  tick, tasks in the channel while a flush runs, and two flushes in a row. Two attempts
  give a timeout with retry and a final timeout. The other two kinds are written by the
  same join.
* `LL`: three posts are one that holds the claim, one that reset it late, and one that
  comes in between.
* `PA`: three campaigns with one permit make one external task wait for another; the
  bids give a tie, a bid just inside and one outside of epsilon.
* `FP`: two campaigns are enough to complete in the wrong order.
* `RC`: the in-memory lifetime is 2 and the key lifetimes 1, 2 and 1, so an entry can
  be copied from Redis in the last unit of its life and outlive it, and the activity
  check expires before the list. A lost entry stands for a second instance, which also
  finds only the Redis level. With two trees under symmetry (5.6 million states), with and
  without a campaign token (4.4 million) and with four rounds (3.0 million) the same
  properties hold; the proofs cover every size.
* `SV` (1.7 million states): the properties are about races of two handlers, and two
  slots, which are interchangeable, give every interleaving of two. The workloads are the
  sets of operations that touch the same rows (reset links; second factor; passkeys with
  expiring tokens; buyers; rule sets; rule sets and judgements; publishers, with
  and without keys in use; leads), since operations on different rows do not influence
  each other. The maximum of passkeys is 1, so that two registrations exceed it; codes come
  in batches of two; three links, two secrets and two batches make something be replaced
  after it was read. Two saves of a rule set with four inputs (active or not, with codes of
  one type, of both, of none) and one earlier rule set give racing activations and racing
  creations of a ZIP list. In-memory lifetime 1, key and rule lifetime 2, time up to 3 and
  one lost entry or failure let an entry be copied in its last unit and then expire.
  Two queued leads and one failed one, two `lead_id`s and two plans give equal and
  different identifiers, tasks in one batch and in two.

Deadlock is not checked: all these systems may stop (all tasks done, process ended, all
requests answered); that they do not stop too early is what the liveness properties say.

**Fairness.** `WBQ`: strong fairness of `Recv` and `Tick`, because `tokio::select!`
polls its ready branches in random order and neither is passed over for ever; weak
fairness of the writers (the database answers or the statement times out) and of timers. No
fairness of `Enqueue` or `Signal`. `LL`: weak fairness of requests that have started and
of the writer; whether anyone posts is up to the environment. `PA`: every call ends by
answer, error or timeout. `FP`: the same for routing, the queue and the detached update.
`RC` and `SV` state safety only: nobody is promised that a handler ends, since a client may
go away at any await.

## 4. Proofs

Every safety property that a passing run checks is also a theorem: the run shows it on a
small instance, the theorem for all values of the constants that satisfy the named
assumptions, which TLC evaluates in every run. The assumptions say that sizes, lifetimes
and amounts are numbers, that sets of things the program counts or orders are finite, and
that the sentinels of the model (`NoToken`, `NoPriority`, the nil uuid) are no values.

| Module | Theorems |
|---|---|
| `WriteBehindQueue_proofs` | `TypeCorrect`, `BatchIsBounded`, `NothingIsLost`, `EveryTaskIsAccountedFor`, `CreationsGoFirst`, `KindsInOrder`, `FlushWritesAPrefix`, `ReceivedTasksAreWritten`, `QueueDelivers` |
| `LeadLifecycle_proofs` | `LifecycleTypes`, `TokensAreTemporary`, `PromisesStayValid`; for a patient publisher `SoldAtMostOnce`, `SalesAreKept`, `SalesGoToWinner` |
| `AuctionRules_proofs` | `SelectWinnerIsSound` |
| `PingAuction_proofs` | `WinnersBidIsHighest`, `PrioritiesBreakTies`, `EveryAnswerGetsStored`, `OutcomesAreExact` |
| `FullpostRouting_proofs` | `FullpostTypes`, `SoldAtTheHighestPrice`, `AnswersOfSalesGetStored`, `SalesAreRecorded` |
| `RoutingCatalog_proofs` | `CacheAgeBound`, `RoutedLeadsWereEligible`, `RoninRefusalsAreJustified`, `MissingTreeIsFresh` |
| `Dashboard_proofs` | `ResetLinksStaySound`, `EnabledSecretsAreProven`, `BackupCodesStayExact`, `PasskeysAreLimited`, `RuleSetsExclude`, `OnlyFailedZipsAreMissing`, `KeyDecisionsStayRecent`, `RulesStayRecent` |
| `Server_proofs` | `TasksDoReachTheirLead`, `ServerKeepsAccountsAndRules` |

Each rests on an inductive invariant, stronger than the property and checked by TLC on the
run's instance before it was proved.

**WriteBehindQueue_proofs** (`KindsAssumption`, `BoundsAssumption`: kinds are
variants of the enum, sizes are natural numbers, at least one task per batch and one
attempt). `Invariant` proves `Spec => []IInv`, where `IInv` is the conjunction of

* `TypeOK`, `BatchBound`, the shape of a flush (which of `writing`, `pending` may be
  non-empty at which `pc`) and of the shutdown (what the flag, the handler and the
  channel's sender say about each other);
* `PipelineOrder`: drained batch, batch and channel are consecutive numbers. This is what
  makes everything else inductive: it says that the tasks that have left the pipeline
  are an initial segment;
* `NothingLostWhileRunning`, `InFlight` (which of the drained tasks are applied at which
  point of the join), `Accounted`;
* `CreationsFirst` and `KindOrder`, which follow for a step of the join from `InFlight`;
* the prefix property of a batcher that has left its loop by itself.

`ReceivedTasksAreWritten` is an action property. `QueueDelivers` is the refinement:
initial states map to initial states and every step to a step of `TaskDelivery` or a
stutter (`CreateLeads` and `WriteGroup` map to `Apply`; leaving the loop and
`RuntimeShutdown` to `Close`).

**LeadLifecycle_proofs** (`PostsAssumption` and the two assumptions on modes and flags). Two
properties hold however the publisher behaves, from `CreationInv` (the creation is the first
task and stays in the queue until the row is there), `PromiseInv` (the winner's promise is in
the row or in a task on its way) and `TokenInv` (a token in the row has a request that will
replace it or a reset in the queue). The others have the hypothesis `Patient`: the publisher
lets the writes of its ping settle before it posts. It cannot be dropped, as
`LL_double_sell` shows. Under it, `SettledInv` says that from the first post on the queue
holds only the final updates of posts, `HolderInv` that the row names the request that has
claimed the lead and the one that sold it, and `CopyInv` that every copy of the lead, cached
or held, agrees with the row on whom it is promised to.

**AuctionRules_proofs** (`EpsilonAssumption`). `select_winner` is stated over index sets,
without recursion. `SelectWinnerIsSound` says that it returns something whenever there is a
valid entry, and nothing but entries within epsilon of the top that are first by priority
and then by bid. That a first element exists in a finite non-empty set of indices is the
induction of the argument; it is made by a minimal counterexample (`LeastNat`,
`FirstExists`), from the library's theorem that every non-empty set of natural numbers has a
minimum.

**PingAuction_proofs** (`CampaignsAssumption`, `OffersAssumption`). The results collected so
far are exactly the answers of the tasks that are done (`ResultsInv`, `DoneInv`); the latter
counts them, so that as many results as campaigns are the answers of all campaigns.
`DecidedInv` then says that everything was decided from all results.

**FullpostRouting_proofs** (`FullpostAssumption`). `PhaseInv` and `ResultInv` tie the routing
result to what the buyers said, by strategy and phase; `StoredInv` follows the answers into
the queue. `RowInv` is what `SalesAreRecorded` needs: the row is created first and once, and
the final update of a sale is the last task in the queue or has been the last write, whatever
the detached update does in between.

**RoutingCatalog_proofs** (`CacheAssumption`, `CatalogAssumption`: lifetimes
are positive). `CatalogInvariant` proves `Spec => []IInv`, where `IInv` is

* `CacheInv`: an in-memory entry ends at most `ttl - 1 + L1Ttl` after it was read. It
  needs the exact relation for the Redis level (`ends = read + ttl`), since a copy starts
  a new lifetime;
* `HistInv`: recorded moments are in the past;
* `TruthInv`: each cached value was the database's at its read time *or later*. "Or later"
  is what an edit preserves: a fact that ends, ends now (`LastGrows`);
* `ReqInv`: what a request has found so far was true recently enough, by stage.

`MissingTreeIsFresh` is an action property.

**Dashboard_proofs** (the assumptions of the composed modules). Each part has an invariant of
its own over its tables and over what the requests at its steps hold; `Keeps` and `Goes` say
which steps a handler can come to, so that a step of one part keeps the invariants of the
others.

* `ResetInv`: no link that was used, or set the password, is newer than the newest one.
* `SecretInv`: a request about to enable the second factor holds a proven secret, or one that
  no row has. `CodesInv`:
  codes that are stored, used or held by a request are of a batch that was shown.
* `PasskeyInv`: there is room for every registration that is open (`Open`). A new one finds
  the maximum not reached and raises `peak` if need be; storing and taking the challenge
  leave it open; an insertion uses its room, or is counted in `repeats`.
* `ActiveInv`: a request activates a rule set only after it has deactivated the others
  (`Prepared`); until it writes its own, no other request is between these two steps and no
  other rule set is active (`Exclusive`), unless two overlapped.
* `ZipInv`: for each step of a save, which of its codes are loaded already or known to have
  failed (`Known`, `ZipsOf`); lists stay and lose no code (`ListsGrow`), so two lists that a
  race creates do no harm.
* `CacheInv` and `TruthInv` as for the catalogue, over two kinds of keys; `DecisionInv` and
  `JudgedInv` say of a decision that it was true at a time within the largest age.

**Server_proofs** (`PersistenceAssumption`). A step of the server is a step of `Dashboard` or
leaves its variables alone, so the eight properties of the dashboard carry over
(`ServerKeepsAccountsAndRules`, a corollary). For the tables of the leads, `PersistenceInv` follows a lead by the `lead_id` of its
request: every row has the uuid of a request with its `lead_id` (`RowsInv`), every uuid that a
request holds is of a request with the same `lead_id` (`KnownInv`), and until the tool
commits it is the uuid of the row that is there (`KeptInv`); so a response that is resolved
again and again can only be dropped after a failed statement or the commit (`TasksInv`).

Only model-checked: the liveness properties (`EventuallyApplied`, `ShutdownStopsBatcher`,
`RefusalReopens`, `AuctionEnds`, `RequestSettles`), since fairness is beyond the proof system;
and the properties of the runs that TLC refutes (section 5).

## 5. Findings

Each is a run that TLC refutes by what the code does; `PROJECT.json` quotes the lines.

1. `flush()` returns `Ok` although tasks were lost: it drops a *clone* of the sender, so
   the channel stays open and a tick that sees the flag leaves the loop with the channel
   unread (`WBQ_shutdown_loss`).
2. A lead can be sold twice: late writes of the ping bind a missing `post_id` as `''`
   and so erase the claim of a post (`LL_double_sell`).
3. The price a ping was won with does not reach the post: the final update of that ping is
   that of a sold lead, whose writers replace `vertical_data`, `winning_bid` included, although
   it is "Stored so post uses same price" (`LL_post_price`). The internal buyer then prices
   the post at random.
4. A direct fullpost zips answers in completion order with campaigns in launch order
   (`FP_winner`).
5. A split fullpost whose external buyer rejects the post is stored as sold
   (`FP_rejected_post`).
6. A newly assigned publisher is refused by a cached pre-check, for up to an hour
   longer than the 300 s the comment names (`RC_new_assignment`).

Observed while modelling, without a run of their own:

* A routing error after the claim leaves the in-progress token in the row until the
  promise expires (leads 1993), and so does a claim whose answer is lost.
* The asynchronous mode hands out a promise that the auction then replaces (leads 2740).
* An accepted ping is stored as sold by the ping's final status (leads 3484, 3504).
* A request without `campaign_token` of a publisher without campaigns passes the pre-checks
  and panics at "must be present after pre-checks" (leads 2599).
* A fullpost whose calls all failed is reported as a timeout: no result is left, so no
  timeout in none is all of them (PTR 1802).
* A fullpost sale that the router writes before the queue has created the row is only kept by
  the later update of `create_lead`; when that one fails, it is lost.
* A ping tree cannot be paused: `update_ping_tree` with a status builds a malformed
  statement (dashboard 4690-4712).
* Deleting a ping tree is soft and keeps its assignment rows; removing a publisher needs a
  live tree, and `UNIQUE (publisher_id, vertical)` then blocks a new assignment.
* The in-memory level keeps every entry for an hour, also those meant for 300 s.
* The dashboard counts a database error in its membership queries as "in no tree".
* Posts and direct fullposts are not judged by the buyer's rule set: only the ping auction
  gives one to the buyer router (PTR 725; PTR 1366 and 1697 do not), although the engine
  has rules meant for posts. The rules for ZIP codes, the monthly bill, the utility
  provider and the timeframe accept everything.
* A failing cache makes Pulsar accept what the rules reject (PTR 436), for that ping only.
  The same fallback may be the normal case: `timeout_seconds` is `DECIMAL(5, 2)` in
  `migrations/20250105000002_create_buyer_qualification_configs.sql:34`, the row is read by
  `SELECT *` into an `Option<f64>` (`core/src/models/buyer_qualification_config.rs:19`), and
  the dashboard says of this column that it "must be retrieved as rust_decimal::Decimal"
  (dashboard 5604). If the decoding fails, `find_by_buyer_ids` fails for every buyer with a
  rule set in force, and every ping is judged without rules. The model has the failure as
  something that may happen to any lookup.
* A rotated or suspended key is let in, and an old rule set used, for up to two hours: one in
  Redis and, copied at its end, one in memory.
* Two saves that activate rule sets at the same time may leave both active
  (`OneActiveRuleSet` names this as the only way).
* Two logins by backup code, or one racing a new set of codes, write the list back as
  they read it: a used code works again, or new codes are lost (auth 497).
* `verify_otp` enables the secret that the row has when it writes, not the one the code
  was checked against (dashboard 846). Without a row it accepts the secret of the request
  (dashboard 824-827), updates nothing, and shows backup codes that are not stored.
* The maximum of passkeys is checked when a registration begins, not when it ends, so parallel
  registrations exceed it; so does a challenge used again after its deletion in Redis
  failed (dashboard 1485, 1540), one registration after the other.
* ZIP codes whose insertion or extraction fails are only logged (dashboard 5725-5730,
  5967-5972, 6453, 6498): the save is answered with success, and the codes have left the
  configuration (6468-6470).
* Two requests for a reset may both pass the five-minute check; only the newer link works.
  The time of sending is stored before the mail is sent (auth 661, dashboard 545), so after a
  failed mail (auth 707-720) the next request is told that a link was sent.
* A login token, issued before the second factor, decodes as a session in the JWT
  middleware.
* Creating two internal buyers at once may give one an integration id that no row has
  (dashboard 3141-3166).
* The clean-up tool's final check counts leads through publishers it has just deleted, so
  it prints "All data has been successfully cleaned up" (744) although a server has inserted
  leads meanwhile.
* The revenue calculator's comments promise an error when both kinds of share are given or
  a record exists (28, 86); the code takes the percentage, and returns the existing record.
  The shares themselves are checked where they are stored
  (`core/src/models/ping_tree_publisher.rs:40-50`). No migration creates `lead_revenues`.
* A request that failed in routing ends as Processing, over the status the router had
  written (leads 3518).

## 6. Not modelled, and why

Payload building, encryption, HTTP, SSM and mail are I/O whose results enter the models as
inputs, as do password hashes, one-time codes, tokens and WebAuthn signatures. Reports and
lists only read. `core/src/services/retry.rs` (retry, circuit breaker), the async variants
of Pulsar's routes, `api/src/middleware/hmac.rs` and the revenue calculator are not used by
other code, and no code enqueues a Pulsar log. Metrics influence nothing. The OpenAPI document, health checks,
`config.rs` and the migration tool are data or I/O. The clean-up tool's separate pass over
test data deletes by name patterns, which no property here tells apart.
`ping_tree_campaigns.enabled` is never set to false by the program. Priorities of trees do not
matter, since a publisher has at most one row per vertical.

## 7. Plan

Every safety property of the runs is proved. What would say more:

1. The action properties behind the invariants, where a step is what matters: which step may
   replace a `post_id` of a sale, which may take a code from a list.
2. An abstract specification of the sale of one lead (offered, claimed, sold once) that
   `LeadLifecycle` implements for a patient publisher, from `PatientInv`.
3. A common theory of the two-level cache: `CacheInv` and `TruthInv` are proved once for the
   catalogue and once for keys and rule sets.
