# NeatSpace-Core in TLA+

A verification project for NeatSpace-Core (`src/`): a cron-driven pipeline that
finds products in a store, has an LLM moderate them, writes landing pages to
GitHub Pages and pins them on Pinterest, for several accounts, with all state in
MongoDB. Nothing is long-lived: a run starts every four hours, works through the
collections for at most 25 minutes and ends; whatever it leaves half done, the
next run has to pick up.

## The system

| component | state | operations | hard because |
|---|---|---|---|
| registry, validator (`pinner/statemachine`) | none: two state machines as data | queries, `check_invariants` | every guard of the program derives from it |
| engine (`pinner/repo/engine.py`) | documents of `pins` and `products`: `status`, `lease`, `attempt`, `paused_from` | `claim_one`, `transition_doc`, `fail_doc`, `sweep_expired_leases`, `pause_all`, `resume_all`, `requeue_dead` | read, then guarded write; several processes; crashes; leases and backoffs against a clock |
| repositories (`repo/pins.py`, `repo/products.py`) | the same documents | claim order, `upsert_candidate` | finishers go first |
| governor (`governor/quotas.py`) | none: functions of an account and the time | `decide`, `daily_cap`, `should_graduate`, `bump_pin_stats` | UTC midnight, the warm-up curve, counters read and written far apart |
| runner, publication (`runner/main.py`) | `accounts` (status, warm-up, stats, boards cache), one stage in progress | enrich, bridge, pin, verify, token refresh, breakers | calls that fail, are refused, or succeed without an answer; stale caches; the operator in between |
| runner, ingest (`runner/main.py`) | `products`, `niches`, new `pins` | discover, fetch, moderate, enqueue, heal orphans | two collections updated one after the other |
| operator commands (`ops.py`) | the same documents | pause, resume, requeue, reset of dead products | two-part commands racing a run |
| token store (`runner/tokens.py`, `crypto`, `scripts/store_token.py`) | `oauth_tokens` | read, refresh and rotate, store | a refresh is a read, an exchange that ends the old token, and a write; no lock |
| Gemini client (`agents/client.py`) | active key, call counter | generate with key rotation | shared daily budget |
| bridge (`tools/bridge.py`) | files of a GitHub repository | read, compare, write; verify deployment | a second writer between the read and the write; builds that fail or lag |
| Pinterest client (`tools/pinterest.py`) | pins and boards at Pinterest | list, find by link, create, read | paging, lost replies |
| metrics, pivots, analyst (`metrics.py`, `pivots.py`, `scripts/analyze.py`) | `pin_metrics`, `niches` | collect, aggregate, apply pivots | an LLM's proposals written to what later prompts read; several unguarded updates; nothing locks the niches |
| hello pipeline (`pipeline.py`) | one product, one pin | the walk over both machines | it may be killed anywhere and is simply started again |
| domain wiring (`scripts/wire_domains.py`) | `accounts`, `pins` | new domain, reset of bridged documents | writes past the engine, at any point of a run |
| seeds, migrations | accounts, niches, indexes | upserts | overwriting what others wrote |

The runner calls the engine for every change of a document's status and talks to
the outside only between a claim and the transition that ends the stage. The
operator's commands and the runs share the database and nothing else: there are
no messages and no locks but the leases. The workflow's concurrency group lets
one run execute at a time; the lease exists for runs that die and for processes
outside the group (a laptop, the launch workflow before it joined the group).

What makes each part correct, in a sentence:

* engine: a document moves along the registry's rows only, is held by at most one
  worker, and is never lost: not by a crash, a pause or a race of two writers;
* governor and publication: the day's pins stay within the cap, a pin the database
  records is a pin that exists, a retry adopts the pin an interrupted run created,
  every document is finally published or dead;
* ingest: a product is moderated once, its verdict is final, and an approved one
  reaches every active account of its niche although two collections are written
  one after the other;
* Gemini client: the day's count covers the requests it stands for, a key that
  works is found, the enrichments stay within the budget;
* token store: whoever refreshes, in whatever order, the account stays connected;
* bridge: a page is committed once, and no pin leads to one that is not there;
* learning loop: no pivot without evidence, none unrecorded, the seed voice never lost;
* hello pipeline: the walk completes, wherever it is killed, and counts its pin once;
* operator: what was switched off stays off until it is switched on.

## Modules

| module | models | EXTENDS / INSTANCE |
|---|---|---|
| `Registry` | the rows and roles of both machines | |
| `Validator` | `validator.py` over any rows and roles (constants) | |
| `Lifecycle` | the abstract promise of the engine, kept by `Engine`, `Publication`, `Ingest` and `Hello` | `Validator` |
| `Engine` | `repo/engine.py` and the processes that call it | `Validator`, `Lifecycle` |
| `EngineProofs` | theorems about `Engine` | `Engine`, `TLAPS` |
| `Governor` | `governor/quotas.py` | |
| `Publication` | the publication stage, the operator, Pinterest | `Governor`, `Registry`, `Validator`, `Lifecycle` |
| `PublicationProofs` | theorems about `Publication` | `Publication`, `TLAPS` |
| `Ingest` | healing, discovery, fetching, moderation, enqueueing for several accounts | `Registry`, `Validator`, `Lifecycle` |
| `IngestProofs` | theorems about `Ingest` | `Ingest`, `TLAPS` |
| `Gemini` | `agents/client.py` with its fallback keys, the daily count of calls | |
| `GeminiProofs` | theorems about `Gemini` | `Gemini`, `TLAPS` |
| `Tokens` | `runner/tokens.py`, `scripts/store_token.py`, Pinterest's token endpoint | `TokensPromise` |
| `TokensProofs` | theorems about `Tokens` | `Tokens`, `TLAPS` |
| `Bridge` | `tools/bridge.py`, its callers, GitHub and its Pages | `BridgePromise` |
| `BridgeProofs` | theorems about `Bridge` | `Bridge`, `TLAPS` |
| `Learning` | `metrics.py`, `pivots.py`, `scripts/analyze.py`, `seed_niches` | `LearningPromise` |
| `LearningProofs` | theorems about `Learning` | `Learning`, `TLAPS` |
| `Hello` | `pipeline.py`, over both machines | `Registry`, `HelloPromise` (which instantiates `Lifecycle`) |
| `HelloProofs` | theorems about `Hello` | `Hello`, `TLAPS` |
| `TokensPromise`, `BridgePromise`, `LearningPromise`, `HelloPromise` | what each part promises, over the variables it is about: the part, its proofs and the run of all parts extend the same definitions | |
| `MCEngine`, `MCPublication`, `MCIngest`, `MCPivots` | values of the constants for TLC | |
| `MCOverCap` | `Publication` with the count of the pins created in a day | `MCPublication` |
| `MCParts` | the five parts with a state of their own side by side: a behaviour is of one of them | `Gemini`, `Tokens`, `Bridge`, `Learning`, `Hello` |

### Registry and Validator

A machine is a set of rows `[event, source, target, kind]` and a function from
states to roles. A Python query that raises is an operator that returns the set
of rows it resolves to: empty when it raises, a singleton otherwise.
`CheckInvariants` is `check_invariants()` as a predicate.

### Engine

Variables: `now` (the clock), `doc` (the collection), `call` (what each process is
doing). A claim is one `find_one_and_update` and one action. Every other operation
is a read followed by a guarded update and so two actions, `XRead` and `XWrite`,
and any other process can run between the two; the `now` an operation took and the
row it resolved travel in `call`. The guard `{"_id": ..., "status": source}` is
`StillThere`; the sweep's guard has the lease as well (`LeaseStillExpired`).
A worker's stage lies between `Claim` and `TransitionRead` or `FailRead`; a
transition that raises sends the worker to the except branch, whose `fail_doc` may
raise too and end the run (`aborted`). `Crash` forgets the call and leaves the
document with its lease. Times are ticks. The registry is a constant, so the module
is checked with the publication machine and proved for every machine that satisfies
`RegistryAssumption`, which is `Validator`'s `EngineCanDrive`: `check_invariants` plus
three rules that the engine relies on and `check_invariants` does not look at (one kind
per event; `PAUSED` is the only state of its role; RESUME reaches what a pause records).
It is a theorem of both machines (`PublicationIsDrivable`, `IngestIsDrivable`), and TLC
evaluates it for the publication machine (`MCEngine`) and for the ingest machine
(`MCIngest`), so the theorems about `Engine` hold for both.

`Lifecycle` says what is left of it without clock, attempts and calls: a document
is in a state, moves by one row at a time, and is held by one worker exactly
between a claim and the next move. `ImplementsLifecycle` maps `status` and
`lease.owner` onto it.

`Publication` and `Ingest` say the same of each of their documents (`FollowsLifecycle`): one
instance of `Lifecycle` per document, `Promise(d)`, in which the one run is the holder. There
the promise is about the stages and not about the engine: that what a stage does to a document,
with its retries, fallbacks, patches and except branches, amounts to rows. In `Publication` there is one
exception, by name: `IsWiredAnew`, the reset of `wire_domains.py` from BRIDGED to ENRICHED, which
writes past the registry. (`reset_dead_products` writes past it too, but to where a row leads.)
The other conjunct, `IsLetGo`, says who ends a stage: the run that is in it, the sweep of a later run after the
lease is over, or, for pins, the kill switch.

### Governor and Publication

`Publication` is one account with its documents and boards. An operation of the
engine is one step here (its races are `Engine`'s subject), and there is one run at
a time. `run.pc` follows `execute` and `_publication_stage`: `Start` (the sweep),
`EnsureBoards` (the boards a niche declares), `List`, `OpenAccount` (token, graduation), then turns of the loop: `GovernorAllows`,
`ClaimNext`, one stage. `_stage_pin` is split at its calls: `Allocate` (cache and
reallocation), `Reconcile` / `ReconcileDeleted`, `Create` and its failures, `PinOk`;
`_stage_verify` is split before `bump_pin_stats`. `Raise` is the loop's except
branches. Between any two steps the operator may pause, resume or requeue (pause
and resume in two parts, as in `ops.py`) or wire a domain (`WireAccount`, then
`WirePins`), a board may be deleted, a tick may pass and the run may die. `Create` and `CreateUnanswered` are the two ways a pin comes to
exist: with and without the reply.

A run works with the account it has read: `run.cache` is its `boards_cache`, which the
operator, or the run itself, may have replaced in the database since, and `run.domain` the domain
of its site then. A link is named by the domain it is on: `seeded`, the site of the seeds, or `wired`,
the one `wire_domains.py` wrote. `Bridge` builds the link on `run.domain`, as `_stage_bridge` does;
a PINNING or VERIFYING stage keeps the link its document had at the claim (`run.link`), and `pinterest` counts
the pins of each link on each board. So a document that was dead at the wiring, or past its
reset, and is bridged again later, gets another link: `find_pin_by_link` (`Found`) does not see its old
pin, and it is pinned once more, under the new link. The properties are about the link a document has.
A board made again after it was deleted has another id, so `deleted` remembers it, and `Gone` lets
a stage hold either id.

Time is relative: a document carries what is left of its backoff and lease, an
account the age of its warm-up and the time since its last pin. `day` is a history
variable that the guards never read: pins verified since midnight, and whether a run
died before it counted one. `MCOverCap` adds the pins created since midnight.

A launch (`launch.yml`) is a series of runs in the runner's concurrency group, each for one
pin per account and, with `boost`, each with `--daily-cap-override`: `run.boost` replaces the
cap in `Decide`, and `day.boosted` remembers that a boosted run verified a pin that day. The
job's longer timeout is that of the whole series and plays no part here.

`Faults` and `Commands` choose what may happen in an instance: the fault classes are
the code's own (`TRANSIENT`, `PERMANENT`, quota or overload or HTTP 429, HTTP 401,
a board in sandbox state, HTTP 404 for a deleted board), plus a lost reply and a
crash.

### Ingest

`product` and `pin` are the two collections, `active` the accounts a run works for,
`run` the run with the loop it is in. The order is the runner's: `Start` (the sweep),
`HealList` and `HealOne` (`_requeue_orphaned_approvals`), `DiscoverList`, `Upsert`,
`NicheDone` (`_discover`), `ClaimFetch` .. `FetchEnds` (`_fetch_stage`),
`ClaimModerate` .. `ModerationEnds` (`_moderation_stage`) with `EnqueueList` and
`EnqueueOne` (`_enqueue_pins`) inside. A loop over accounts or products reads its list
once (`run.pairs`, `run.niches`) and inserts one pin a step, so the operator can pause
an account, and the run can die, between any two inserts. `ResetDeadProduct` is
`reset_dead_products`, which writes past the engine. A pin is only `none`, `open`
or `closed` here; its life is `Publication`'s. `Tainted` products are those
the word list of `brand_safety.py` refuses; the moderator's own verdict is free.

### Gemini

`client` is the memory of one run (key in use, keys that refused this prompt), `counter`
the document in the database, `quota` Google's side, `day` a history variable. Counting
(`Moderate`, `Enrich`) and sending are steps of their own: a run may die and midnight may
pass between them. `Rotate` is `_rotate`, `GiveUp` its failure at the last key, after
which the client is back at the primary. `QuotaChanges` lets any key gain or lose its
quota at any time.

### Tokens

`stored` is the document of one account, `pinterest.valid` the refresh tokens Pinterest
accepts, `caller` what each run holds. A call (`ReadToken`, `Answered` or `Unauthorized`)
leads, after a 401, to `refresh` in three steps: `ReadRefresh`, `Exchange`, `Save`. An
exchange succeeds with or without the reply, or is refused; whether Pinterest rotates the
refresh token is free, but fixed. `StoreToken` is the script, with or without an access
token; an access token lasts longer than the call after its renewal and expires for each
holder by itself. `orphaned` is a history variable: a pair was lost with a run that died, or
with a reply, since the operator last stored one.

### Bridge

One page: `file` is the file in the repository, `site` what is served and the build under
way, `pin` the status and content of the document whose stage the runner is in, `writer` what
the runner and the smoke test are doing. GitHub's sha of a file is a hash of its content, so it
is the content here, and a PUT is taken if the sha it names is the file's (`Taken`). `Put` and
`PutUnanswered` are a commit with and without the reply, `PutRefused` HTTP 409 or 422, which
`BridgeTool._raise` makes PERMANENT. `Poll` is one turn of `verify_deployed`, which takes any
HTTP 200. `Rewrite` and `Rewire` bring the document back to ENRICHED with another content or
the same. `own` and `changed` are history: the runner's commits of its content since somebody
else's, and whether somebody else committed since a writer's GET.

### Learning

`snapshots` is `pin_metrics`, `niche` the niches: the voice (`tone_guidelines`, a sequence that
begins with the seed voice), whether the style is a pivot's, and the `strategy_pivots`
recorded in the niche. A collector asks Pinterest (`Report`) and upserts one snapshot per pin
and day (`Upsert`: look, then write, with no unique index behind it). `Review` is `aggregate` and
the analyst's proposal; `apply_pivots` then goes item by item: `SkipItem`, or `BeginItem`, which
reads all niches, and for each niche `PushPivot` and `SetVoice`, or `SetStyle`; `StorageFails`
is the `except PyMongoError` of one niche. `Reseed` is `seed_niches`, which sets the voice and
the style and leaves the record. `peak` is history: the most Pinterest reported of each pin.

### Hello

`docs` is the product and the pin, `walk` the run: setup with the two sweeps, the ingest loop,
the governor, the publication loop, the statistics. One `Claim` and one `Complete` serve all
six stages, as both loops do the same thing: claim the row of kind CLAIM that leaves the status
read, work, advance. `Crash` may come between any two writes, a superset of the twelve
checkpoints. `HelloImplementsLifecycle` is two refinements at once: of `Lifecycle` over the
ingest machine by the product, and over the publication machine by the pin.

## Runs

| run | instance | states | asks |
|---|---|---|---|
| `engine_pins` | publication machine, 1 document, 2 workers, 1 operator, clock to 4 | 0.9 M | all engine properties |
| `stale_worker` | as `engine_pins` | violated | `OnlyHolderCompletes` |
| `publication_faults` | 2 documents, 2 boards, every fault of a run, dry runs, launch waves | 4.3 M | `VerifiedWithinCap` |
| `publication_ops` | 1 document, 2 boards of which one is declared, every command of the operator, boards that change, expired tokens, crashes, lost replies | 4.4 M | `TypeOK`, `PinIsReal`, `StageInputsPresent`, `ReconciledBeforeCreate`, `FollowsLifecycle` |
| `publication_live` | 2 documents, 1 board, faults a document survives | 0.2 M | `RunEnds`, `EveryPinSettles` |
| `ingest` | 2 products, 2 accounts, of one niche or of two | 0.35 M | all properties of `Ingest` |
| `parts` | 3 keys, a budget of 2, at most 4 calls a day; 2 runs, 4 refresh tokens; 2 contents of a page and the smoke test's, 2 polls; 1 niche, 2 pins, 2 processes, 3 pivots; the hello walk | 0.46 M | all properties of `Gemini`, `Tokens`, `Bridge`, `Learning` and `Hello` |
| `over_cap` | 2 documents, transient failures | violated | `CreatedWithinCap` |
| `pinned_twice` | 2 documents, crashes | violated | `PinnedOnce` |
| `rewired` | 1 document, pause, resume, a domain wired | violated | `RewiredUnpublished` |
| `unpaused` | 2 documents, the kill switch | violated | `OnlyResumeReactivates` |
| `pivots_lost` | 2 niches, 1 process, a voice of 5 notes | violated | `CarriesLastPivots` |

Why these bounds are enough to be of use:

* Engine properties speak of one document at a time and every step reads and writes
  one document, so one document is the general case but for the claim's choice of
  the oldest, which the theorems cover. Two workers and an operator give every pair
  of racing writes; the clock to 4 with a lease of 1 and backoffs of 1, 2, 3 lets a
  lease expire, a sweep back off, and the document be claimed again. Identical
  workers are a symmetry set; the properties checked with it are safety properties.
* Two documents and two boards are what a reallocation needs, two ticks a day put
  midnight between runs and inside them, and caps of 1 and 2 with a warm-up of one
  or two days make the account reach its caps and graduate. `MAX_ATTEMPTS = 2`
  separates the first failure from the last. `publication_ops` has one document and asks
  nothing of the day's counts, so its day is one tick, and no tick falls inside a run
  (`RUN_TTL = 0`: the timeout may end it at any step, and leases run out between runs); in
  `publication_faults` and `publication_live` time also passes inside runs, and the theorems hold
  for every `RUN_TTL`.
* Two products race for one order of age and one budget; two accounts that share a niche
  give a product several pins, and two that do not keep two niches apart; a budget of one
  fetch makes every run leave work behind.
* Two runs can both hold a refresh token the document no longer has; four numbers are
  what two runs and the document hold, and a new one.
* Three keys have a first, a middle and a last; four calls a day are two more than
  the budget, as moderation may spend.
* The page has two contents of the document and one of the other writer: what was written
  before, what is written now, and what came between. Two polls are a first and a last.
* Two processes give every pair of racing pivots and snapshots, two days and two pins every sum
  that could be counted twice. Niches are updated one by one and no property relates two, so one
  is enough in `parts`; its voice has room for two notes, so that two can be in order or not, and the
  third is cut. `pivots_lost` has
  the proportions of the code: a seed voice and five notes of 400 characters are more than
  `MAX_GUIDELINES_TOTAL`, the sixth has no room at all.
* The hello walk has one product and one account in the code, and its state space is finite.
* Counts are cut where nothing tells them apart: attempts at `MAX_ATTEMPTS`, ages at
  the end of the warm-up, pins with one link on one board at 2, the day's counts one
  above the highest cap.

Deadlock is checked in the publication and ingest runs; in the engine's runs it is off because
the clock stops at `MaxTime`, in `parts` and `pivots_lost` because tokens, days and pivots run
out at their bounds.

### What the runs show

The engine loses no document and revives none: a lease exists exactly while a
document is WORKING, so whatever a crash leaves is found by the sweep; a sweep never
takes a document from a live lease, nor reverts it twice; a late write never undoes
the kill switch; a backoff survives a pause; a worker that fails a document it still holds
charges it one attempt, although the write does not look at the count it was computed from.

Publication, a domain wired in the middle of a stage, crashes and lost replies included, never
creates a second pin with one link on one board unless a deleted or sandboxed board forced it
onto a fallback it does not reconcile; a recorded pin exists; every document moves along its
machine's rows but for the reset of a wired domain, and only the run that holds it, a later sweep or
the kill switch ends its stage; a stage never misses what an earlier stage wrote; the verified pins of a day
stay within the cap, or, on the day of a launch wave, within the override.

Ingest queues no product the brand-safety scan would have stopped, or for an account
of another niche; a verdict is final; the healing pass makes good every death between an
approval and its pins, an account that was paused at the time, and a pin that was removed.

The Gemini client finds a key that keeps its quota, and the second of two prompts that
give up in a row has been refused by every key. The first need not have been: a client
that moved on to a fallback starts there and, refused by the last key, raises without
having asked the primary again (`client.py`, `_rotate`), so `SecondGivesUpFairly` is the
strongest statement of this kind that holds. The count of calls is an upper bound of each
key's requests up to one, but not of their sum: a prompt counts once and may go to every key.

Runs that refresh one token pair at once, an operator who stores another meanwhile, and late
writes never lock an account out: a run that loses the race of two exchanges is refused, fails
its pin, and finds the winner's pair the next time. Only a run that dies, or misses the
reply, between Pinterest's rotation and the write does. An operator who then stores a refresh
token without `--access-token` leaves the old access token in the document; the next 401
makes good for it.

A page is committed once between two changes by others, whatever died, was lost or timed out
after the commit; a conflict, which kills the document, always has another writer for its cause;
a document is BRIDGED only while a page is served. Which page is not promised: while a build
fails or lags, an older one answers HTTP 200 and ends the wait.

No pivot is applied before the pins have had the impressions for it, although windows overlap
and snapshots of a day may be double: `aggregate` takes the best snapshot of each pin, never
the sum. Every note in a voice is on record, since the record is written first and a failure
skips the voice; racing analysts overwrite each other's notes but never the seed voice, and the
notes that stay are in the order of their pivots, because an analyst writes back the text it read
when it took its pivot up (an analyst that read it again for the write could put its note behind
a later one). The
reverse does not hold, and is not promised: what is on record need not be in the voice.

The hello walk completes wherever it is killed, counts its pin at most once, and moves both
documents along their machines. A kill between the verification and the count leaves the pin
uncounted for good.

Six statements of the sources are not what the code does (`findings`):

1. **A stale worker can double-transition.** The write is guarded by the status only.
   Worker 1 claims, its lease expires, a sweep reverts the document, worker 2 claims it:
   the status is again the one worker 1 expects, and its write goes through. Worker 2's
   own transition then raises, and so does its `fail_doc`.
2. **The cap does not bound the pins created.** `CLAIM_PIN` comes before `CLAIM_VERIFY`
   and the counter moves at `VERIFY_OK`: when one verification fails and backs off, the
   next document is pinned although the day's cap is used up.
3. **A product can be pinned twice on one account.** A run creates a pin on board 1 and
   dies; another document gets board 1 before the retry; the retry is reallocated to
   board 2, looks for its link there, finds none, and creates a second pin.
4. **Wiring a domain re-pins published documents.** The reset is meant for "unpublished
   docs", and takes every PAUSED one with a bridge: a document paused while PINNED goes back
   to ENRICHED, gets a page and a link on the new domain, is not found under that link, and
   is pinned again. The first pin stays and leads to the old domain.
5. **Graduation undoes a pause** that was thrown between the listing of the accounts and
   the account's turn.
6. **A full voice loses the newest pivots.** `apply_pivots` appends a note and cuts the tail off,
   so after some five long notes a new one is cut off whole. The docstring says that the prompt
   carries the last pivots (the comment at `MAX_GUIDELINES_TOTAL` that it keeps the earliest); the
   report, the Telegram message and the record say that the change is active.

One more is plain from the model without a run of its own: a dry run takes PINNED documents
that live runs left to VERIFIED and calls Pinterest for it (`ClaimOrder`), although the
docstring of `main.py` says that it never does. Another is that quota failures share `attempt.count` with
the ordinary ones (`main.py:550`): they never poison, but after two of them the next ordinary failure does.

### Fairness

`FairSpec` adds to `Spec`: weak fairness of the run's steps (the workflow starts a run
every four hours, and a run that is not killed goes on); strong fairness of `Tick`
(time passes between runs however many there are); strong fairness of `GovernorAllows`
(the Gemini budget and the day's counter are reset every day, so the governor does not
refuse for ever a document it could allow); and that from some time on every step is one
of the run, the operator, the boards or the clock, that is, runs no longer die. Without
the last one a run could crash at the same place for ever, and a sweep never poisons.
In that instance operator commands, missing tokens and quota failures, which may hold a document for
ever by design, are left out.

`Ingest`'s `FairSpec`: weak fairness of the run's steps and of `Tick`, and from some time
on no run dies and nobody revives a product by hand (each would let a product start over
for ever). The operator may pause and resume accounts and remove pins for ever.

`Tokens`' `FairSpec`: weak fairness of each run's steps, and from some time on no run dies
in the middle of a call and no reply of the token endpoint is lost. Runs may end between
calls, access tokens may expire and operators may store pairs for ever.

`Gemini`'s `FairSpec`: weak fairness of the run's steps and of `Midnight`, and from some
time on a run ends between prompts only. The quotas change as they like; the property
assumes one that stays.

`Hello`'s: strong fairness of `Start` (whoever runs the pipeline runs it again) and of `Tick`,
weak fairness of the run's steps, and from some time on nobody kills it. `Bridge` and
`Learning` have safety properties only: nothing in the code promises that a contested page
or a proposal gets through.

## Proofs

`EngineProofs` proves for every registry satisfying `RegistryAssumption`, every set of
documents, workers and operators, and all bounds:

| theorem | says |
|---|---|
| `TypeCorrect` | `Spec => []TypeOK` |
| `LeaseCorrect` | `Spec => []LeaseIffWorking` |
| `ResumeCorrect` | `Spec => []PausedIsResumable` |
| `BackoffCorrect` | `Spec => []BackoffHonoured` |
| `RevivalCorrect` | `Spec => OnlyOperatorsRevive` |
| `SweepCorrect` | `Spec => SweepIsExact` |
| `ChargeCorrect` | `Spec => HolderIsCharged` |
| `Refinement` | `Spec => ImplementsLifecycle` |

The inductive invariant is `IInv`: the four state invariants and `CallKinds`, which says
what kind of row a process carries between its read and its write. None of the four is
inductive alone: a transition's write preserves `LeaseIffWorking` only because the row
it carries is an ADVANCE, whose target is never WORKING, and a status guard identifies
the source of that row. `StepForm` reduces every step to two cases: the collection is
unchanged, or one document moves along a row in one of six ways (`Moves`); the action
properties and the refinement follow from it. `SweepIsExact` needs one more invariant,
`SweepFresh`: the count a sweeper carries is still the document's while the lease it read
is, since whoever changes the count drops the lease or takes a new one. `HolderIsCharged` needs its
twin, `FailFresh`: the count a failing worker carries is the document's while the worker is the
lease's owner.

`GeminiProofs` proves for every number of keys, budget and bound:

| theorem | says |
|---|---|
| `TypeCorrect` | `Spec => []TypeOK` |
| `CountCorrect` | `Spec => []CountCoversRequests` |
| `BudgetCorrect` | `Spec => []EnrichedWithinBudget` |
| `GiveUpCorrect` | `Spec => SecondGivesUpFairly` |

Each of the last three has an invariant of its own. `Covered` says that a
key's requests exceed the count by at most one, and not at all while the prompt in progress
may still go to that key, so that its request takes nothing the count does not cover. `Budgeted`
distinguishes the claim the governor has already allowed. `FromThePrimary` says that after
a prompt that gave up, the keys before the one in use are exactly those that refused.

`PublicationProofs` proves for any number of documents and boards, every choice of faults
and commands, and all limits that satisfy `GovernorAssumption`: the caps of the warm-up and the
daily cap do not fall as an account ages (`WARMUP_CAP_EARLY <= WARMUP_CAP_LATE <= PINS_DAILY_CAP`),
nor do the phases overlap. The second inequality is about each account's document, where nothing in the
code enforces it; every account that `seeds.py` writes has it. `CapHolds` needs it: a cap that fell at graduation
could be below what the day already counts.

| theorem | says |
|---|---|
| `TypeCorrect` | `Spec => []TypeOK` |
| `InputsArePresent` | `Spec => []StageInputsPresent` |
| `PinsAreReal` | `Spec => []PinIsReal` |
| `CapHolds` | `Spec => []VerifiedWithinCap` |
| `ReconcilesFirst` | `Spec => ReconciledBeforeCreate` |
| `PublicationFollowsLifecycle` | `Spec => FollowsLifecycle` |
| `PublicationIsDrivable` | `EngineCanDrive`, for the publication machine |

`IInv` has two halves. `Core` follows a document: `AllSound` strengthens
`StageInputsPresent` (a paused document records where it came from; a requeued one that
was bridged had content); `RunInv` says that the document a run has in hand, whatever an
operator did to it meanwhile, is in no stage but the run's, which is what a status guard
alone does not say; `FreshInv` that a run about to create a pin saw none on that board,
unless it fell back on it; `FoundInv` that a run about to record a pin created or found it.
The last two are the argument for reconciling before creating, across crashes, lost
replies and refreshed tokens. `PublicationFollowsLifecycle` needs no more than `Core`: `Follows` says of one
document and one step that the status stays, moves along a row (`RowTo`) by who may move it, or
is reset by `wire_domains.py`, and is proved action by action; that `RunInv` places the
document in hand in the run's stage is what makes the end of a stage a move by its holder. `GovInv` follows the count: `GateInv` says that the gate a run
passed is open to it until it counts a pin, since nobody else counts one, midnight only
resets the count and the cap never falls while an account ages (`CapGrows`); `CountInv` that the
verified pins of the day are counted but for the one about to be. The lemmas about
`Governor` that the plan named are here, where they are used.

`IngestProofs`, for any products, accounts and niches, and all budgets:

| theorem | says |
|---|---|
| `TypeCorrect` | `Spec => []TypeOK` |
| `OnlyVettedIsQueued` | `Spec => []QueuedIsVetted` |
| `ListingIsThere` | `Spec => []LiveWorkHasRaw` |
| `VerdictsStand` | `Spec => VerdictsAreFinal` |
| `IngestFollowsLifecycle` | `Spec => FollowsLifecycle` |
| `IngestIsDrivable` | `EngineCanDrive`, for the ingest machine |

`AllGood` is about single products: past fetching they have their listing, and an approved one is
untainted. `PairsInv` and `ClaimInv` carry that over the steps of a run: the pairs it still has to
insert, read some steps ago, are of approved products of the account's niche, and the product it
claimed is still known. They stay true under interleaving because a verdict is final,
which is why `VerdictsAreFinal` is needed for `QueuedIsVetted` and not only beside it.
`Places` gives each product its place in the order of discovery, so that "oldest first"
chooses one product.

`IngestFollowsLifecycle` needs one more, `StageInv`: the product a run is in the stage of has that
stage's status, so that ending the stage is a move of the product it claimed, with the
holder it had; that no other product is moved then is read off the actions.

`BridgeProofs`, from `BridgeAssumption` (no content is the smoke test's, none is the absent one):

| theorem | says |
|---|---|
| `TypeCorrect` | `Spec => []TypeOK` |
| `CommitsOnce` | `Spec => []NeverCommitsTwice` |
| `LinksAreLive` | `Spec => []NoDeadLink` |
| `ConflictsComeFromOthers` | `Spec => []RefusedByOthers` |

A PUT is taken when it names the file's sha. A writer about to PUT read a content other than its own
(`Different`), the runner's is the document's (`Runner`), and a commit that counts is
still in the file (`Counted`): so the runner cannot PUT it again and be taken. `Fresh` says that without another
writer's commit the sha a writer names is the file's, so a refusal has one for a cause.

`TokensProofs`, from `TokensAssumption` (finitely many runs; more tokens than the
document and the runs can hold):

| theorem | says |
|---|---|
| `TypeCorrect` | `Spec => []TypeOK` |
| `AccountStaysOpen` | `Spec => []RefreshTokenIsValid` |

The pair a run is about to save is valid (`SaverIsValid`) and, where Pinterest rotates, nobody
else holds it (`SaverIsAlone`), so that another exchange cannot invalidate it before the
write. `SaverIsAlone` rests on `NewTokenIsNew`: the model reuses the numbers of
tokens that nobody holds, and by counting there always is one (hence the assumption).

`LearningProofs`, from `LearningAssumption` (among others: there is a niche, for the seeds
come first; pins are finitely many, so that they have sums):

| theorem | says |
|---|---|
| `TypeCorrect` | `Spec => []TypeOK` |
| `EveryNoteIsRecorded` | `Spec => []NothingUnrecorded` |
| `SeedStaysFirst` | `Spec => []SeedVoiceKept` |
| `PivotsHaveEvidence` | `Spec => []ActsOnEvidence` |

A text is written back long after it was read, so the invariant is about the texts the
analysts carry as well as the voices in the collection: both are `GoodText` (`Voices`,
`Carried`). What a good text says is monotone: the history of a niche only grows, so a text that was
good stays good until it is written. A text an analyst carries has no note as late as the one the
analyst is about to append, which was numbered when the text was read: hence the order. That an analyst records its note before it writes the voice is
part of `Carried`.

`PivotsHaveEvidence` rests on `Supported`: what is stored, or about to be, is no more than what was
once reported of the pin, so the best snapshots add up to no more than the peaks (`Measured`); peaks
only grow, so an analyst that saw enough may apply its pivots as late as it likes. The sums are
folds. What a fold computes needs induction over sets, and the library's induction theorems take an
operator, which the provers cannot instantiate; but its theorem about well-founded orderings takes a
set. `LeastSet` turns that into "of some subsets of a finite set one contains no other", and
`SumsExist` (there is a function of the subsets that adds up), `AnyLast` (the element added last may
be any) and `SumMonotone` are proved by refuting a least counterexample.

`HelloProofs`:

| theorem | says |
|---|---|
| `TypeCorrect` | `Spec => []TypeOK` |
| `PinCountsOnce` | `Spec => []CountedOnce` |
| `Refinement` | `Spec => HelloImplementsLifecycle` |

`VerifiedFirst` relates what the process remembers to the two documents: a run that verified the
pin itself has not counted it, and no row leaves VERIFIED, so no later run verifies it again.
The refinement goes step by step (`DocumentSteps`, `ShownSteps`): a step of the walk leaves
both documents, or moves one along a row of its machine, which is a step of `Lifecycle` for one machine
and a stutter for the other.

TLC finds each of these inductive invariants true on a bounded instance: `Publication`'s with the
constants of `MCPublicationOps` and of `MCPublicationFaults`, that of `Tokens` with three runs,
the others with the constants of `MCIngest` and `MCParts`.

Model-checked only, and why:

* liveness (`EveryPinSettles`, `RunEnds`, `ApprovedReachesEveryAccount`, `EveryProductSettles`,
  `WorkingKeyIsFound`, `StaysConnected`, `WalkCompletes`): the prover has no ENABLED, hence no fairness;
* `PartsTypeOK`: it puts the type invariants of the parts together, and each is proved of its part;
* the findings: each is a counterexample, which no proof can give.

Not claimed: that MongoDB's calls are atomic as documented; the models take single-document
atomicity as given.

## Not modelled, and the plan

What would be worth adding next:

1. Several accounts in `Publication`, to say what an aborted run costs the accounts after the one
   it was at.
2. `OnlyResumeReactivates` for runs that graduate nobody: the finding says that it fails for one that does.
3. Two processes that write one account's statistics back, one of them outside the concurrency group.

Left out because nothing can happen to it yet: `archive_terminal_products` (`metrics.py`) has no
caller. It selects products by a field that transitions do not touch, writes back the status it
read without a guard, and strips the listing of a dead product an operator may still revive, so
it wants a model of its own, against `Ingest`, before it is put to use.

Left out of the models they would belong to: several accounts in `Publication` (an exception
that ends a run costs the accounts after it their turn), two processes that write one account's
statistics back, boards of more pages than `find_pin_by_link` walks, seeding an account again
(`seeds.py:103` replaces `site`, `custom_domain` included).

Left out for good, as pure I/O or formatting: store adapters, image composition, the
word lists of brand safety, Telegram, prompts and schemas, the repair of a strategist's answer,
configuration, the audit log, the digest.
