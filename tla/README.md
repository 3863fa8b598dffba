# Headhunter Core in TLA+

Headhunter Core tracks job roles: scrapers post listings to it, an evaluator
rates them with a language model, a person decides what to do with them, and a
background loop notices when a listing disappears. All state is in Postgres;
one process (more under a rolling update) works on it with HTTP handlers and
four background loops. These modules model the part of that which is hard to
test: who may move a role, when, and over whose head.

## The system

| Component | State | Operations | Talks to |
|---|---|---|---|
| Status state machine (`internal/engine/statemachine.go`) | none | `CanTransition`, `Rank`, `Terminal`, `Valid` | called by `Store.SetStatus` |
| Tracker store (`internal/store`) | `applications`, `status_events`, `reports`, `postings` | `SetStatus`, `SaveEvaluation`, `EnqueueForReeval`, `DiscardBelowLine`, `RequeueUnreported`, `RequeueBelowLine`, `LoadTracker` | every other component, by SQL |
| Evaluator (`RunEvaluator`) | `eval_claimed_at`, `evalInFlight`, config `eval_enabled` | poll, claim, rate, save or release, reclaim at boot | tracker store, LLM, company flags |
| Ingestion (`/api/scan/ingest`, `/dedup`) | `url`, `dedup_key`, `fingerprint`, `canonical_id`, `scan_sightings` | `IngestPosting`, `DedupInbox` | feeds the inbox; scrapers call it |
| Re-prober (`RunReprober`) | `gone_probes`, `disappeared_at`, `last_probed_at` | probe a url, `RecordProbe` | tracker store |
| Import and remediation | rows and reports of the previous tracker | `LoadTracker`, report import, `BackfillURLsFromReports` | replaces or patches tracker rows |
| Company profiler | `companies`: claim, profile, flags, summary | claim, enrich, save, `ReprofileAll`, synthesize | public web sources; the evaluator's exclusion gate reads the flags |
| Operator | `running`, config `scan_last_run` | `RunCycle`, ticker, status | Kubernetes jobs that call `/ingest` |
| Rating and LLM client | none | `evalOne`: attempts, validation | called by the evaluator |
| Application preparation | a remote browser | open, fill, hand over | WebMCP |
| Engine algorithms | none | URL normalization, SimHash, dedup key, trust score | ingestion |
| Migrations, config, reads, MCP, UI | schema, `config` | | |

What makes it correct: a role's status only moves where the state machine, an
operator or the re-prober may move it; every posting in the inbox is rated,
once; the ledger of events agrees with the statuses; near-duplicates fold into
one visible role and nothing is lost; a listing is called expired only when it
is gone.

What makes it hard: ratings last minutes and are saved by id; bulk operations
and `SetStatus` read in one statement and write in a later one; claims live in
the database and survive the process; ingests of the same role run concurrently
at READ COMMITTED; background loops start before the boot reclaim has run. The
hazards, line by line, are in `PROJECT.json`.

What else must hold: a write by id reaches the role it was meant for, although
an import restarts the ids; a role has one migrated report; an application is
prepared and never sent; a posting is recognised by its url and its key, a
company's profile is of one company, and a score is the one the model summed up.

## Modules

- `StatusMachine` - the state machine as operators: adjacency table, ranks,
  `CanTransition`, and the store's `IsPassiveStatus`.
- `Tracker` (extends `StatusMachine`) - the rows of `applications` with
  everything that moves a role. One record field of the code is one variable
  (`status`, `claimed` for `eval_claimed_at`, `gone` for `gone_probes`, ...),
  and the newest `status_events.to_status` of a row is `lastTo`. `slot[w]` is
  the row of evaluator goroutine `w`, `dispatcher` the loop's place between two
  statements, `handler[h]` what a request has read and will write.
- `MCTracker` - model values and symmetry.
- `WorkQueue` - an abstract queue: items wait, are held by one taker at a time,
  or are stuck until the takers start anew; items that others are about to change
  (`busy`) may be passed over. The two queues that are columns of a table
  implement it. `TrackerQueue` (extends `Tracker`) is the refinement mapping for
  the inbox: waiting are the rows `ClaimNextInbox` can return, held is `slot`,
  stuck are claimed inbox rows without a goroutine, busy the rows that a request
  has read and will write. `CompanyQueue` has its own: waiting are the companies
  `ClaimNextUnprofiledCompany` can return, held are those of `slot`, stuck the
  claimed ones that nobody works on, busy those whose row an ingest has locked.
- `TrackerProofs` - the theorems about `Tracker`, and those about `TrackerQueue`
  at its end.
- `Dedup`, `MCDedup` - the rows of one `dedup_key`: concurrent ingest
  transactions in three steps (lookup, insert, commit) and the collapse of
  `/dedup` in two (read, apply).
- `DedupProofs` - the theorems about `Dedup`.
- `CompanyQueue`, `MCCompanyQueue` - the rows of `companies`: the profiler's
  loop and goroutines (`dispatcher` and `slot[w]`, as in `Tracker`),
  `ReprofileAll`, and page views with their syntheses (`view[v]`). `ingesting`
  has the rows that transactions of `/ingest` hold, by their upsert of the
  company, when the loop goes to claim one. `profile` is
  the number of re-profile requests there were when its company was claimed,
  so that an old profile can be told from a new one; `summary` is the profile
  it was composed from.
- `CompanyQueueProofs` - the theorems about `CompanyQueue`.
- `SweepScheduler`, `MCSweepScheduler` - the operator: one turn of
  `RunTicker`'s loop is one of the `Tick...` actions, a scan cycle is
  `TickFires` / `RunCycle` or `ManualCycle`, then `CycleEnds`.
- `SweepProofs` - the theorems about `SweepScheduler`.
- `Import` (extends `StatusMachine`), `MCImport` - the reload of a career-ops
  tracker (`LoadTracker`, TRUNCATE ... RESTART IDENTITY), the import of report
  files and the url backfill, beside ingests, ratings and moves that hold ids.
  `key[i]` is the company and role an id names now. `task[t]` is what a request
  or goroutine has read and has still to write (`todo`); each entry carries the
  role it was meant for (`about`), and whether a reload came between (`late`).
  `writes` collects the reports, urls and moves that were written, with that
  provenance, which the code does not keep.
- `ImportProofs` - the theorems about `Import`.
- `ApplyFlow`, `MCApplyFlow` - one request to prepare an application: `step` is
  its next call of the WebMCP client, `snap` the snapshot it acts upon, `res`
  the `applyResult` it will answer with; `page` and `turn` are the browser's,
  which changes under the request. `pressed`, `typed` and `submitted` record
  what was done to it.
- `ApplyProofs` - the theorems about `ApplyFlow`.
- `Intake` - what is computed of a posting first: `NormalizeURL`, `DedupKey`,
  `SimHash`, `TrustScore`. `Reports` - the two texts that are read back: a
  rating (`evalOne`, `splitAGReport`, `lastJSONFence`) and a tracker
  (`ParseTracker`). `Enrichment` - the four enrichers and `Assemble`. Operators
  without state, each followed by an independent statement of what it should
  compute; `MCAlgorithms` puts one input into each state.
- `AlgorithmProofs` - the theorems about these operators.
- `NumberFacts` - least and greatest numbers and induction over the natural
  numbers, stated for sets; `DedupProofs` and `AlgorithmProofs` rest on it.

How steps were cut. A statement whose result is used by a later statement is a
step of its own (`SetStatusRead` / `SetStatusWrite`, the bulk operations,
`IngestLookup` / `IngestInsert`, `CollapseRead` / `CollapseApply`, `Poll` /
`ClaimNextInbox`, claim and save of a rating). A transaction that writes rows
by id without regard to what they hold is one step at its commit: its row locks
serialize it with other writers of these rows. `RecordProbe` is such a one: its
first UPDATE locks the row and returns the status that the second relies on.
`FOR UPDATE SKIP LOCKED` may pass over a row that an unfinished request can
have locked (`MaybeLocked`), or a company's row that an ingest holds from its
upsert to its commit (`ingesting`). The locks of the other transactions that are
single steps are not modelled: in the code they too can make a claim pass over a
row, for milliseconds.

Abstractions of data. A score is absent, below or at least `apply_min_score`;
a reason is absent, `below_bar` or another one; a SimHash is a point of a line
and near another within `MaxBits` (near is reflexive, symmetric and not
transitive, as in the code; `Intake` has the bits). A rating is any score; the
exclusion gate's 0.3 is among them. Ambiguous probe outcomes touch only
`last_probed_at`, which is not modelled, and are stuttering steps. In `Tracker`
the import happens before the start: `Init` allows every status the importer
can produce. `Import` has it beside other work, and in turn keeps of ratings,
moves and claims what a write by id needs. Statuses are checked by the state
machine for moves of a person only, as in the code. A page is a sequence of
elements with those words of their names that the code searches for; a company
name is a sequence of tokens with the punctuation around them, a url its parts,
a text its words, chunks or lines.

## Runs

| Run | Checks | Instance |
|---|---|---|
| `tracker_scraped` | `TypeOK`, `NoOrphanClaim`, `LedgerFollowsStatus`, `ScoredHasReport`, `ExpiredIsGone`, `PipelineNeverExpires`, `OnlyStaleGoesBack` | one scraped role, two goroutines, two overlapping requests with every target, threshold 2, all operations |
| `tracker_queue` | `NoDoubleRating`, `ServesAsWorkQueue` | two roles, two goroutines, one request that applies or bulk-discards, threshold 1, failing releases, no requeues |
| `tracker_liveness` | `QueuedHasPosting`, `EveryRoleRated` | a scraped and an imported role, one goroutine, one request, threshold 1, fairness |
| `dedup` | `TypeOK`, `CanonicalIsOlder`, `UrlTrackedOnce` | three urls, two ingests and a collapse, one row from before migration 0004 |
| `companies` | `TypeOK`, `NoOrphanClaim`, `ServesAsWorkQueue`, `ReprofileReaches`, `OneSynthesis`, `EveryCompanyProfiled` | two companies, two goroutines, two views, one re-profile request, failing saves and releases, fairness |
| `sweep` | `GuardReleased`, `OverlapNeedsManual`, `FiredOncePerDue` | three schedules (one never due) and an invalid one, three cycles, nine ticks |
| `import` | `TypeOK`, `ForeignIsLate`, `OneMigratedReport`, `ClaimsHaveRaters` | two documents, two roles, two urls, two report files, two goroutines, an import, a remediation, a move, one reload |
| `apply` | `TypeOK`, `NothingTypedIsSubmitted`, `TypedIsSafe`, `ReportIsTrue`, `EveryRequestAnswered` | six pages, two candidate profiles, three changes of the page, fairness |
| `algorithms` | `UrlsAreIdentified`, `KeysAreIdentified`, `FingerprintsAreMajorities`, `TrustNeverFalls`, `RatingsAreTheLastBlocks`, `TrackersReadBack`, `BestSourcesWin`, `ProfilesAreOfOneCompany` | about 100,000 inputs, one to a state |
| `find_double_rating` | `NoDoubleRating`, violated | one role, two goroutines, one request |
| `find_apply_submits` | `NeverSubmits`, violated | as `apply` |
| `find_dedup_folds_applied` | `FoldsInboxOnly`, violated | two urls |

Why the bounds are enough. The writers of a status know a row by its id and
never compare two rows, except for the queue order and the id sets of bulk
operations; so `tracker_scraped` spends its states on writers that overlap on
one row (three at once: a goroutine and two requests, beside the re-prober),
and `tracker_liveness` and `tracker_queue` have the several rows that order and
sets need. Two goroutines suffice for a collision, two rows for a claim that
passes over the older one because a request has it locked. The request of
`tracker_queue` takes roles out of the inbox, by hand and in bulk, before their
rating and during it; one that puts a role back is `find_double_rating`.
Threshold 2 is the code's, but for `tracker_queue` and `tracker_liveness`, where
1 spares states that differ in a counter no rating reads. `Urls`, `Hashes` and `MaxId` bound `Dedup`: three rows make a
chain of near-duplicates, two hashes are near or not, and `MaxId` is the only
bound in a guard (`IngestInsert`), standing for the number of postings that
arrive. `companies` needs two goroutines or views for every collision and a
second company for the queue order; one re-profile request splits profiles into
old and new, and `MaxReprofiles` is its only bound. In `sweep` nine ticks hold
several due times of each schedule; three cycles are an overlap of two and one
more, and with all three at work neither the ticker nor a person starts another
(`Cycles` and `MaxClock` are the bounds). `SweepScheduler` has no `TypeOK`
among its checked properties, as no plausible bug of that code breaks a type
there; it is part of the proof. In `import` two documents of which one has the
other's role under another id, and one reload, make an id name another role, or
none; a second reload would only repeat that. Two files about one role are what
an import has to choose from, two urls one to backfill and one to ingest, and
`MaxId` and `MaxReloads` are the only bounds in guards. `apply` has a page for
every branch of the flow: two controls that lead to a form, a form, its next
page, a page with nothing but a submit button, one no line of which is legible
and an empty one; a request takes two snapshots, so three turns of the page
(`MaxTurns`) put one before, between and after them. The inputs of `algorithms`
lie on both sides of every threshold and comparison of the code, and are as
long as it takes for two items to be in the wrong order, or for one to be cut
off.

Deadlock is checked in every run but the two of `ApplyFlow`, where the request
is answered and nothing is left to do.

Fairness (`Scheduling`). The loop and the goroutines are scheduled, a request
ends (handlers have no unbounded wait), and a claim is made if it is possible
again and again: strong fairness, because a row lock a request holds can
disable it for a while, and the loop polls for ever. `RatingSucceeds` adds that
a posting that is tried again and again is rated in the end. No fairness is
assumed of people, scrapers, listings, pauses or crashes; `EveryRoleRated` is
stated for behaviours in which crashes, pauses and requeues end (`Calm`).
`RatingSucceeds` is an assumption on the postings, not on the code: a failed
rating is released and, as the lowest id, claimed again at once, so that N
postings that can never be rated keep N workers from every later arrival.

For the profiler fairness is the same (`FairSpec` of `CompanyQueue`): its loop,
its goroutines and its boot are scheduled, and a company that is tried again and
again is saved in the end. An ingest holds a row of `companies` until
its posting is committed, and the claim passes it over meanwhile; as ingests end,
the loop finds again and again a moment at which none holds one (strong fairness
of `QuietPoll`). `EveryCompanyProfiled` is stated for
behaviours in which crashes, pauses and lost claims end. `SweepScheduler`
assumes of time that a goroutine starts within half a minute (`Advance`).
`ApplyFlow` assumes that every call ends (weak fairness of `Request`): the
client gives up after 90 seconds (`webmcp/client.go`), which is one of the
outcomes of a call.

Each property of a passing run has a mutant, defined beside the definition it
replaces and marked `Mutant:`: a forgotten claim reset, an event or report that
is not written, an imported role queued, a claim that looks past the claim
column, a reclaim that does nothing, a collapse onto the newest row, a missing
unique index, a row committed before its posting, a report saved without a row,
a company profiled by a failed save, a name that is not trimmed, reports or
claims that outlive a reload, a press on a page that has
fields, the first block of JSON where the code takes the last, a fact of a later
source that replaces a better one.

## Disagreements between the code and what is said of it

With a run (the counterexample is TLC's):

1. `find_double_rating`: a requeue clears the claim of a row that is being
   rated, and concurrent workers do collide.
2. `find_dedup_folds_applied`: a collapse hides a role that left the inbox
   after it was read.
3. `find_apply_submits`: on a page without text fields the flow presses the
   first control that looks like a way to a form, and "submit application" is
   among the names it looks for. A form's last page, all of it checkboxes and
   that button, is submitted. What holds is `NothingTypedIsSubmitted`: nothing
   that the flow itself typed goes with it.

Seen in the models and not given a run of their own.

Ratings and statuses. A save of a rating overwrites any status, so a role marked
applied during its rating returns to `evaluated`, a move the state machine
refuses, and an expired one comes back (`OnlyStaleGoesBack` says when a role goes
back, and that nothing else makes it). `EnqueueForReeval` moves rows without an
event, although migration 0001 calls the ledger the spine of velocity analytics
(`LedgerFollowsStatus` says how far it lags). A claim whose release failed is
reclaimed at the next boot only, not "by age" as migration 0005 says. A bulk
discard can discard a role that was applied to after it was selected. Postings
that can never be rated starve later ones (see Fairness). An answer that is cut
off before its summary is rated by whatever JSON block it quotes, with score 0
if that has none.

Near-duplicates and intake. A collapse compares rows with the lowest id only,
and may leave near-duplicates of each other visible; a near-duplicate's
canonical can itself be folded later, giving chains of `canonical_id`; of two
requests that ingest a new url at once one fails, without a sighting.
`NormalizeURL` strips one trailing slash, not several, and none at the root, so
that "https://h" and "https://h/" are two postings, although a browser opens one
page. `NormalizeCompany` trims punctuation at the end only, and "- Inc" becomes
the empty company; it strips a legal suffix "with any surrounding punctuation"
(`normalize.go:115`) only where no space is between them: "Acme Inc." becomes
"acme", and "Acme Inc -", whose last token is the dash, "acme inc". `ExtractDescription` takes the longest field, in Go's
random order of a map where two are equally long.

Import. After a reload the rating of a goroutine lands on whatever role has its
id now, and its release can free another goroutine's claim (`ForeignIsLate` and
`ClaimsHaveRaters` say what remains true). `replace=true` deletes the migrated
reports before it looks for the rows of the new ones, so that an imported role
that was scraped meanwhile, and is no candidate any more, loses its report. Two
overlapping imports attach two reports to a role (`OneMigratedReport` is about
one at a time), and a report that is attached after a rating overshadows it. A
row of the dated layout whose date is blank or malformed is read as one of the
layout without dates: its company is what stands in the date's place, and its
role the company. The row of Initech in `importer/tracker_test.go:11` is one such,
read as a role "Initech" of no company; the test looks at its status only.
`TrackersReadBack` has rows with a date and rows without the cell.

Companies. The profile of a company at work when "Re-profile all" comes counts
as new although it is old (`ReprofileReaches` says exactly which); a failed
goroutine's release can free the claim of its successor; a summary is composed
"once per company" only if nobody reads the profile while another view composes
it, and can be written into a profile it was not composed from. Wikidata's
comment promises the top hit only and "low-risk numeric/date fields": the code
takes any of five hits that has a fitting website, and the website itself, from
which the domain is set. `loadEDGAR` says "first writer wins": the last one does,
in the random order of a map; and one failed fetch disables the source until the
process restarts. A re-profile during which Built In cannot be read clears the
casino flag.

Applications and sweeps. The words by which a profile's fields are found are
parts of other names too: "first" is found in "First available date". A manual
scan cycle defeats the overlap guard; a cron expression that never comes due (30
February) passes the preview and fires at every tick.

## Proofs

`TrackerProofs` proves for any sets of roles, workers and requests and any
threshold, from the named assumptions of `Tracker` on its constants only:

- `InitIInv` and `Invariance`: `IInv` is inductive. `IInv` is the type
  invariant, the five safety invariants of the runs, and what they need to
  be inductive: `RequestsOK` (what a request in progress will write: a requeue
  only rows with a posting, a person's move never into the inbox) and
  `AbsentIsBlank` (nobody holds a row that does not exist yet).
  `QueuedHasPosting` rests on `RequestsOK` and on postings and reports never
  being removed (`Monotone`); `NoOrphanClaim` on every move into the inbox
  clearing the claim; `LedgerFollowsStatus` on `StatusWriters`, which lists the
  steps that write a status at all.
- `TypeCorrect`, `ClaimsHaveOwners`, `LedgerAgrees`, `QueueIsScraped`,
  `ScoresAreExplained`, `ExpiryIsEarned`: its conjuncts, each as a theorem of
  `Spec`.
- `PipelineIsKept`: the action property, from `ExpiryStep` (a status becomes
  `expired` only by a probe of a passive role).
- `RatingIsExclusive`: two goroutines never rate the same row, whatever moves,
  bulk discards, crashes, pauses, failed releases and expiries there are, as long
  as nothing puts a row back into the inbox while it is rated (`NoReturns`):
  nobody sets a role to `evaluated` by hand, from where the re-evaluation queues
  it again, and the two requeues, which are behind `IMPORT_TOKEN`, are off. It
  rests on `HeldRows` (the row of a goroutine is still in the inbox and claimed,
  or has moved on, but not to `evaluated`) and `QuietRequests` (what requests
  there are, then). The assumption is needed: `find_double_rating` is the
  counterexample, one such move and a re-evaluation.
- `BackwardIsStale`: `OnlyStaleGoesBack`, from `StatusWriters` and
  `GrantsGoForward` (a move the state machine grants does not lead back).
- `EvaluatorIsWorkQueue`: `Spec => ServesAsWorkQueue`, under `NoReturns` too. The
  initial states map to the empty queue; each action maps to one of the queue or
  a stutter, by the exclusion that `RatingIsExclusive` rests on. A claim is
  `Take`: lowest id first, but for rows that a request may have locked (`busy`,
  an input of the queue), and never one that is held. A save, a release and a
  release that fails are the three ways of `Leave`, a crash is `Stop`, the boot
  reclaim is `Recover`; an ingest or a re-evaluation is `Arrive`, an expiry, a
  move or a bulk discard `Withdraw` for the rows nobody rates (`MoveWithdraws`).
  So no row is dropped from the queue and none is handed out twice, in whatever
  order these happen.

`DedupProofs` proves for any numbers of urls, SimHashes, ingests and collapses
and any `MaxBits` and `MaxId`:

- `InitIInv` and `Invariance`: `IInv` is inductive. Beside `TypeOK`,
  `CanonicalIsOlder` and `UrlTrackedOnce` it says what a request remembers
  about rows that others write meanwhile: `IngestsOK` (the canonical that an
  ingest looked up is still a row when it commits, older than the id it drew,
  and nobody has tracked its url since the insert), `CollapsesOK` (a collapse
  folds into a row older than each it folds), `InsertsDiffer` (two uncommitted
  inserts hold different urls and ids) and `RowsOK` (rows have drawn their ids;
  only rows are queued). All rest on `RowsGrow`: rows are never removed.
- `TypeCorrect`, `FoldsPointBack`, `UrlsAreUnique`: its conjuncts as theorems of
  `Spec`.
- `FoldsLeadHome`: from every row `canonical_id` leads, in finitely many steps,
  to a row that is not folded, however often a canonical was itself folded
  later; so every near-duplicate stands behind a role that a person can see or
  has dealt with. `FoldsPointBack` makes of the rows without such a chain one
  the oldest (`LeastNumber`), whose canonical, older still, has a chain.

`CompanyQueueProofs` proves for any numbers of companies, goroutines, views and
re-profile requests:

- `InitIInv` and `Invariance`: `IInv` is inductive. Beside the checked
  invariants it has `ProfiledApart` (until the first request no two goroutines
  profile one company, which is what the queue needs), `SlotsOK` (a goroutine was
  asked for by the last request or overtaken by it, and none outlives its
  process), without which a save could not be told to be new, `FirstRound` (until
  the first request whoever works holds the claim), which is why the claim keeps
  goroutines apart, and
  `ClaimsAreOpen` (no profiled company is claimed), which is why a claim that is
  lost leaves its company to a reclaim and not to nobody.
- `TypeCorrect`, `ClaimsHaveWorkers`, `WorkersApart`, `RequestsReach`,
  `SynthesesExclude`: its conjuncts as theorems of `Spec`.
- `ProfilerIsWorkQueue`: `Spec => ServesAsWorkQueue`, crashes, pauses and
  failing saves and releases included, until the first `ReprofileAll`. That one
  resets the claims of companies at work, so that from then on two goroutines
  may have one company, which the abstract queue does not allow: `ReprofileAll`
  refines no step of it, and `ReprofileReaches` says what still holds.

`SweepProofs` proves for any schedules (of cron's `Next` it assumes, in
`NextAssumption`, a time later than the one given or the zero time) and any
number of cycles:

- `InitIInv` and `Invariance`: `IInv` is inductive; `TicksGoOn` (the tick in the
  channel is later than the last firing) gives `FiredOncePerDue`, and
  `StartsPromptly` (no tick while a goroutine is about to set the flag) gives
  `OverlapNeedsManual`.
- `GuardIsReleased`, `TickerAvoidsOverlap`, `DueTimesFireOnce`.

`ImportProofs` proves for any documents, files, urls and numbers of goroutines
and requests:

- `IInvAlways`: `IInv` is inductive. Beside the checked invariants it has
  `RowsOK` (ids not handed out name no role), `TasksOK` (what is still to be
  written is about the role its id names, or its reader is late), `RatersOK` (a
  goroutine has one row) and `ImportsOK` (the one import has one file for each
  row, and no row of it has a migrated report yet: what the clearing and the
  matching establish, and each attachment keeps).
- `TypeCorrect`, `OnlyLateIsForeign`, `MigratedOnce`, `ClaimsKeepRaters`.

`ApplyProofs` proves for any pages and profiles:

- `IInvAlways`: `IInv` is inductive. `SnapOK` says that a snapshot is of the page
  that is shown unless the page has changed since, which is what a reference is
  checked against; `StepsOK` what the request cannot have done by each step.
- `TypeCorrect`, `TypedIsNotSubmitted`, `TypingIsSafe`, `ReportsAreTrue`.

`AlgorithmProofs` proves of the operators, for inputs of any size over any words,
cells, lines or chunks, what `algorithms` checks on its inputs:

- `TrustScoreIsMonotone`: a posting that is no worse in any respect is trusted no
  less and gets no flag that the other lacks.
- `UrlsAreOfPages`: two urls have one normal form exactly when they name one page.
- `KeysAreOfNames`: two companies have one key exactly when their names
  (`NameOf`) differ in the punctuation behind them and one legal suffix at most,
  and two roles exactly when they differ around the words at most; a company with
  a name keeps one, and a legal suffix more makes no other key. A suffix that is
  followed by detached punctuation ("Acme Inc -") is a word of the name, as in the
  code. The trimming lemmas say where the loops of the code stop
  (`CompanyNormalized`, `RoleNormalized`), and `CompanyCodeIsOfOne` and
  `CodeIsOfOne` that no two trimmed texts have one name.
- `FingerprintsAreOfMajorities`: a bit is set exactly when most occurrences of
  words have it set, and one more word moves the bits that one vote decided, at
  most. The code adds and subtracts weights word by word; `VotesAreOccurrences`
  counts them, by induction on the number of different words.
- `RatingsAreLastBlocks`: a rating is that of the last JSON block of the first
  answer that passes, with its whole report, even where the report has blocks and
  delimiters of its own. `RatingsAreSound`: for any answers at all, it is that of
  the first that passes, in range, and sunk by a hard stop.
- `ProfilesHaveTheBest`, `ProfilesAreOfOne`: each field has the value of the most
  authoritative source that gave one; what Wikidata adds is of one entity, of the
  site that Built In named if it named one. Both follow the merges step by step.
- `TrackersAreRoles`: a tracker of either layout reads back as the roles it was
  written from, behind any lines without a header and in front of any others.
- `TrustIsSafe`, `UrlsAreSafe`, `KeysAreSafe`, `FingerprintsAreSafe`,
  `RatingsAreSafe`, `TrackersAreSafe`, `ProfilesAreBest`, `ProfilesAreSafe`: the
  invariants of the run as theorems of `Spec`, each from the general one and the
  fact that the run's inputs are such inputs.

How data is reasoned about. A fold or a filter over a sequence is opaque to the
provers, and the library's induction is stated for an operator, which they
cannot instantiate. So the operators speak of places instead: of the sum of the
votes as a cardinality, of the last fence as the greatest place of one, of the
rows that are kept as the `Kth` of the kept places. Where an induction remains,
`NumberFacts` has it for a set of numbers (`Induction`), with `LeastNumber` and
`GreatestNumber`; all three come from the finite subsets being well-founded by
inclusion, which the library proves.

Only model-checked: the liveness properties `EveryRoleRated`,
`EveryCompanyProfiled` and `EveryRequestAnswered` (temporal proofs under fairness
need ENABLED, which this prover does not do). Every safety invariant and action
property of a passing run is a theorem: two of them under the assumption
`NoReturns` on the constants (`RatingIsExclusive`, `EvaluatorIsWorkQueue`), which
the configuration of their run meets, and one with `requests' = 0` in the property
itself (`ProfilerIsWorkQueue`).
The properties of the `find_` runs do not hold, and have no theorem.

## Not modelled

Possible next steps, each of which would add states to a run that has few to
spare:

- The exclusion gate: `CompanyQueue` composed with `Tracker`. What it would show
  is known from the code: a role that is rated before its company is flagged
  keeps its rating, as nothing queues it again.
- `from_status` of an event, which is read without a lock and serves analytics
  only; `last_probed_at`, so that any listing can be the next to be probed; a
  change of `eval_concurrency` while the loop runs.
- Locks of other transactions that are single steps; `IngestPosting` beside
  `DedupInbox` beside ratings (`Dedup` lets rows leave the inbox at any time).
- A second process, as under a rolling update: `Tracker` and `CompanyQueue` have
  one at a time. The boot of the second (`ReclaimStaleClaims` and
  `ReclaimStaleCompanyClaims`, both with an age of 0) would clear the claims that
  goroutines of the first still work under, so that a role is rated, or a company
  profiled, by both; `NoOrphanClaim`, `NoDoubleRating` and `ServesAsWorkQueue`
  are about one process.

Left out for good:

- Migrations: each is one transaction that runs at boot, before anything else.
- The Kubernetes jobs of a sweep, HTTP clients and the parsing of what sites
  answer: I/O, whose outcomes are choices here. `resolveApplyURL` rewrites paths;
  any page may come up after it.
- `content.go` (which field of a posting is its description, stripping HTML), the
  tokenizer and FNV: wording and a hash function; `Intake` takes any words and
  any hash.
- Reads for display, MCP tools, analytics, audit, config and the UI: they keep no
  state that another part relies on, or upsert one row.
