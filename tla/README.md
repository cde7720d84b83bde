# A verification of wfgraph's durable execution

wfgraph is a self-hosted workflow engine: a graph of trigger, action and Wait
nodes is drawn in a browser, published as an immutable version, and run by a
durable executor that lives in the application's own database. There is no
external queue and no external orchestrator. A run survives a crash because each
step's result is a row, each pass over a run holds a lease, and each thing a run
waits for is a row another transaction can resolve (`src/docs/adr/0021-*`,
`0022-*`, `0019-*`, `0020-*`).

Around that core stand an inbox that delivers Events to it, timers that start
runs on a cron schedule, and stored connections whose OAuth grants runs refresh:
three more protocols over database rows that workers and requests race for. All
of them lock the same few tables, in an order the code has to keep.

This directory models these in TLA+, checks them with TLC on small instances, and
proves with TLAPS, for every instance, the safety of the executor, of the delivery
of Events and of the timers, that no writer of a connection writes over what it has
not seen, and that transactions which keep to the order of locks never wait in a
circle.

| file | what it is |
|---|---|
| `ReleasePolicy.tla` | the pure decisions both backends share about rows (`release-policy.ts`) |
| `LeasedPass.tla` | one run's schedule row and step memo, and the passes that claim, run, lose and release it |
| `DurableJob.tla` | what the executor promises of a run, without rows, leases or workers; LeasedPass implements it |
| `LeasedPassProofs.tla` | the executor's inductive invariant, its seven safety theorems, and the proof that LeasedPass implements DurableJob |
| `RunWaits.tla` | one Execution, its wait rows, the body of its passes, and the producers that wake, claim, move and end it |
| `Execution.tla` | what a run promises those who watch, wake and stop it, without rows, passes or graphs; RunWaits implements it |
| `RunWaitsProofs.tla` | its inductive invariant, five invariants and three step properties |
| `RunExecutionProofs.tla` | the proofs that RunWaits implements Execution, and that a run which completes has acted on the Events it accepted |
| `Arrival.tla` | what the inbox promises of one arrival; Delivery implements it |
| `Delivery.tla` | the inbox row of an Event, the passes that fan it out, the Lifecycle Rules, admission and Concurrency, the offer to parked Waits, retention |
| `DeliveryProofs.tla` | what an arrival decides: its inductive invariant, four invariants, and the proof that Delivery implements Arrival |
| `DeliveryWakeProofs.tla` | what an arrival wakes: its inductive invariant and four theorems |
| `CronTimers.tla` | the timers of one workflow, the passes that fire them, and Publish, pause, resume and mode changes beside them |
| `CronTimersProofs.tla` | the timers' inductive invariant and five theorems |
| `OAuthGrant.tla` | the stored grant of one connection, and the refreshes, reconnects, disconnects and edits that race for it |
| `OAuthGrantProofs.tla` | its inductive invariant and two theorems |
| `RowLocks.tla` | the row locks of every PostgreSQL transaction on one workflow and its runs, and the order each takes them in |
| `RowLocksProofs.tla` | what each transaction holds and why, and the theorem that none wait in a circle |
| `MC*.tla` | the small instances |
| `*.cfg` | the runs |
| `PROJECT.json` | components, runs, mutants, source map, findings, hazards, theorems |

Run anything here with `tlc -config <cfg> <MC module>` or `tlapm <module>`.

## 1. The system

All paths are under `src/packages/core/src/backend/` unless they start elsewhere.

### Components

**Durable executor: one pass over a run row** (`executor/pass.ts`, `runtime.ts`,
`run-body.ts`).
*State*: in memory, a `PassState` (running, threw, lost its lease, ended), the
memo it loaded, the steps it is running; in the database, the schedule row it
leases. *Operations*: claim, open the run, load the memo, run or replay a step,
renew the lease, write a memo row, write the terminal record, release (parked,
step failed, body failed, interrupted, fence refused). *Hard*: the worker may die,
stall past its lease and wake as a zombie, or lose the answer of a write that
committed, at every point; two steps may run side by side and one may throw; a
heartbeat runs beside the body and reads the running step before it writes it.
*Correct when*: no zombie writes, no settled step runs again, a step is given up
only after all its tries were real, and the run ends whatever dies.

**Schedule rows, step memo and their policy** (`services/executions/repo/schedule.ts`,
`release-policy.ts`, `fenced-writes.ts`).
*State*: `state`, `wake_at`, `owner_token`, `lease_expires_at`, `attempt`,
`running_step_id`; memo rows with `status` and `failures`. *Operations*: `claimDue`
per lane, `renewLease`, `writeStepMemo`, `countStepFailure`, `releaseSchedule`,
`wakeSchedule`. *Hard*: a claim sweeps an expired lease and must charge exactly
one thing for it; a wake may land while the row is leased; a renewal may be late.
*Correct when*: each failure is counted once, on a step that was tried; no wake is
slept through.

**Waits: drive, park, re-park, resume, abandon** (`engine/wait.ts`,
`wait-event.ts`, `wait-delay.ts`, `services/executions/repo/waits.ts`).
*State*: one wait row per Wait (`status`, `wake`, `wait_until`, its type), and the
memoized steps of each of up to 50 attempts. *Operations*: resolve, prepare,
`startWait`, `reparkWait`, `waitForEvent`, resume, `settleWaitTimeout`,
`markWaitStatus`, abandon. *Hard*: the prepare step writes the row before it is
memoized, so it may run twice; a wake may arrive between the two; a Migration
changes the Wait under a parked run. *Correct when*: an accepted Event is acted on
and never timed out or overwritten.

**Traversal of one Execution** (`engine/scheduler.ts`, `cancel-boundary.ts`,
`core.ts`, `terminal-record.ts`).
*State*: rebuilt by replay: deferred Waits, the Cancel boundary, the outcome read.
*Hard*: branches run side by side while claims land; a claim may land after the
outcome was read. *Correct when*: the claim that won decides the verdict, and a
Cancel claim takes the Canceled outlet first.

**Execution claims and verdicts** (`services/executions/repo/claims.ts`, `runs.ts`).
*State*: the execution row's status, pinned version and claim. *Operations*:
request a Cancel or an Exit, claim a wait for an Event, repin, end in flight,
`finishRun`, mark running or waiting. *Hard*: five writers race for one row, each
with its own guard.

**Admission and Concurrency** (`services/executions/repo/admission.ts`,
`services/workflows/lifecycle/concurrency.ts`). An Event starts a run under a
policy (newest wins, first wins, unlimited) per entity, once per delivery. *Hard*: two
arrivals compare the same in-flight set; a lifecycle step is retried after it
committed. *Correct when*: an arrival opens one run, and a comparing policy leaves
one in flight.

**Event inbox and delivery fan-out** (`services/executions/repo/inbox.ts`,
`executor/delivery-body.ts`, `delivery-fanout.ts`). A durable inbox row per Event
and a delivery pass that resolves Waits and starts runs; a resend is answered from
the row, and a fan-out that fails halfway is run again. *Hard*: the step memo is
fenced on the lease but what the steps write is not, so a pass that lost its lease
commits starts, refusals, Cancels and wakes beside its successor; Publish changes
the roles between two tries; a page of candidates is old by the time it is woken.
*Correct when*: each arrival is decided once, and a delivered Event reached every
Wait that was there for it.

**Cron timers** (`services/executions/repo/cron.ts`, `cron-policy.ts`,
`executor/cron-body.ts`). One timer row per published schedule, fired by a pass,
rewritten by publish and pause. *Hard*: the version, the mode, the paused state and
the clock are all read before the transaction that writes. *Correct when*: each slot
is answered once, by the version published then, and no timer stays due.

**Migration** (`services/workflows/migration/`). A batch classifies runs, then
repins each that still matches its classification.

**Manual operations** (`services/workflows/lifecycle/resume.ts`, `cancel.ts`,
`manual-start.ts`). Resume, cancel and start by hand, over the same claims.

**Worker loop, tick and wakes** (`executor/worker-loop.ts`, `queue-wake.ts`,
`worker-wake.ts`). Polls lanes for due rows, keeps a bounded number of passes in
flight, is woken early by a notification.

**Run-history and inbox retention** (`services/executions/repo/retention.ts`).
Deletes old rows in batches.

**Publish, versions and the draft** (`services/workflows/publish.ts`,
`versions.ts`). Compare-and-set of the published version, and its timers.

**Entity eligibility** (`services/workflows/lifecycle/entity-eligibility.ts`). The
host is asked whether an entity may go on; an answer of no exits the run.

**Integrations and OAuth refresh** (`services/integrations/`). *State*: a connection's
row (grant, configuration, revision, refresh state, claim) and the authorization
attempts. *Operations*: claim, refresh, complete, mark, release, await an owner,
fence a stale claim, reconnect, disconnect, edit (`src/docs/adr/0014-*`). *Hard*: the
provider consumes a refresh token whatever the caller hears, and the caller may die
at any point. *Correct when*: a token is sent once, nobody writes over a
configuration it has not seen, and a claim does not outlive its owner.

**Graph semantics**, the **SQLite backend**, and the **HTTP API, agent, client,
plugins, schemas and evals** keep no coordination of their own.

### How they interact

Everything a run does meets in four kinds of database row, and every interaction is
a transaction on one of them. A worker leases a *schedule row* and may write the
run's other rows only while the row carries its token. Producers (Events, resumes,
cancels, Migrations, eligibility answers, Concurrency) never touch a leased
schedule row except to end the run: they write the *execution row* (a claim, a
version) and the *wait rows* (a wake), and make the schedule row due if it is
asleep. The pass finds out by reading: a refused write, a wake on a wait row, a
claim read at a boundary, and, last, the release, which goes back to the queue
when a wake it did not consume is on some row. *Memo rows* are what a later pass
knows of an earlier one. Deliveries and cron timers are schedule rows of their own
kinds, claimed and swept by the same code, so their modules take the fence, the
sweep and the retry count from the executor as given and add what their bodies do.

### Hazards

`PROJECT.json` lists the hazards of this code at the line where each bites, with
the properties that would catch it. The families are: a zombie and its successor;
an answer lost after the commit; failures counted on the wrong step, twice, or on
nothing; a wake racing the release or the park it is meant for; claims racing each
other, the outcome read and the terminal write; a Migration racing a park, a
resume, or a pass that has already loaded the old graph; a decision taken twice for
one arrival, or from roles a Publish has changed; a value read before a transaction
and used in it (the published version, the clock, a connection's revision);
transactions that wait for each other's rows; and progress under all of these.

## 2. What is modelled

### ReleasePolicy

Each operator is a function of `release-policy.ts` on records: what counts as due,
what a claim charges, how a failure is counted, the row each kind of release
writes, which parks an Event, a re-park or a claim may take, and what a parked
release does. Instants are kept only as what the code compares: `wake` is `due` or
`later`, `lease` is `live` or `expired`, a park's `deadline` is `ahead` or
`passed`. `STEP_RETRY_LIMIT` is 4 in the code and a parameter here.

### LeasedPass

| TLA+ | code |
|---|---|
| `row`, `memo`, `subject` | the schedule row, the run's memo rows, whether the execution is in flight |
| `pass[p]` | `PassState`, the loaded memo (`book`), the running steps oldest first, the step that threw, the renewal in flight (`beat`) |
| `tried`, `begun` | history: the tries a lease holder really started, and those of the current lease |
| `Claim` | `claimDue`, with the sweep of an expired lease |
| `OpenUnavailable`, `OpenReady`, `LoadMemo` | `openRun` answers, retries already spent, `loadMemo` |
| `StepStart`, `StepReturns`, `StepFails`, `StepDropped` | `runtime.run` around a step, `book.remember`, and the stop that closes it |
| `TerminalWrite`, `TerminalAnswer` | `finishRun` under the fence, and its answer |
| `BeatStart`, `BeatLand`, `BeatFails` | the heartbeat: read the running step, renew, look the row up when refused |
| `BodySpent`, `BodyFails`, `ReleaseThrew`, `LeaveStopped`, `Drain`, `BudgetCut` | `settlePass` and the interruptions |
| `Crash`, `LeaseExpires`, `BackoffEnds`, `EndExecutions` | the world |

Decisions worth knowing:

- A *slot* `p \in Passes` stands for an owner token. It is claimed for again only
  when nothing is left of its last pass, so two passes never share a token.
- `BeatStart` and `BeatLand` are two steps because the running step is read before
  the renewal is sent. The refused renewal and the `findSchedule` that follows it
  are one step: a row found gone stays gone, so nothing can come between them that
  changes the answer.
- The heartbeat's renewal is uninterruptible in the code, so a drain or a budget
  cut waits for the one in flight.
- A write of a step has three outcomes: committed and answered, committed with the
  answer lost (the pass takes it for a step that threw), refused. A database error
  that commits nothing is `StepFails`.
- A step is a name with the set of steps upstream of it. What it computes, and the
  schedule of a backoff, are left out. `Terminal` is the step that writes the
  terminal record and belongs to no node.

### DurableJob

The abstract specification of the executor: the steps of a run settle in graph
order, each at most once; a failure is charged only to a step that is open and
reached; the charge past the limit gives the step up; the run completes only when
every node step is settled or lies below one that was given up; it ends once.
`LeasedPass!Job` maps it: a step's `result` and `charges` are its memo row, and
`subject` is the run. Claims, leases, heartbeats, zombies and lost answers all map
to stutters, except the sweep of an expired lease, which maps to a charge. Failing
and canceling are allowed at any time, because the row's own failure count and the
other writers are not part of the job.

### Execution

The abstract specification of a run: it is pinned to one version, which a Migration
changes only while the run is waiting, nobody has stopped it and it owes no Event an
answer; the first claim stands and names the verdict; an Event it accepted stays with
it until a Wait acts on it or gives up, or the run ends; it falls asleep waiting only, with no
accepted Event and no exit claim, and whatever accepts an Event, migrates, stops or
ends it leaves it awake. `RunWaits!Lifecycle` maps it: `accepted` are the Waits whose
row records an Event as its wake and is not yet closed, and `asleep` is the schedule
row waiting. Attempts, stages, memo rows, cut passes and the graph all map to
stutters, so it says nothing of *when* a Wait acts on its Event; that is
`AcceptedEventKept` and `CompletionDropsNoEvent`.

### RunWaits

LeasedPass shows that only the lease holder writes, so one `body` stands for every
pass of the run.

| TLA+ | code |
|---|---|
| `exec` | the execution row: status, pinned version, claim |
| `row` | its schedule row |
| `park[w]` | the wait row: status, wake, type, deadline |
| `att[w]` | the memoized steps of each attempt of the Wait: what prepare returned and under which version, the wake memoized, the wake resumed with |
| `answer` | the other memoized steps: admission, the boundary read of each Wait, the resolution per version, the outcome read, the refused terminal record |
| `body` | the pass: loaded version, the stage of each Wait, whether the Canceled outlet was taken |
| `Claim`, `Open`, `Drain` | `claimDue` with its overdue parks, `loadPersistedRunInput`, `drainDeferredWaits` |
| `AdmitOpen`, `AdmitClose`, `RequestExit`, `Admitted` | the admission of a gated node: claim, host's answer, claim again, Exit |
| `Resolve`, `PrepareEnds`, `StartWait`, `ReparkWait`, `PrepareParks`, `PrepareRefused` | `prepareWaitAttempt` cut at each transaction |
| `WaitForEvent`, `ResumeFence`, `ResumeRefused`, `ResumeSettle`, `ResumeEnds` | waiting and resuming, cut at each transaction |
| `AbandonWait`, `Replayed`, `Check` | the attempt limit, a node that already ended, `CancelBoundary.settle` |
| `MarkWaitingIfParked`, `ReleaseParked`, `ReadOutcome`, `RecordEnd` | `endParked`, its release, the outcome read, the terminal records |
| `DeliverEvent`, `Migrate`, `RequestCancel`, `EndInFlight`, `DeadlinePasses` | the producers and the clock |
| `PassCut` | a pass cut off anywhere: lease left to expire, drained, or a step failed |

Decisions worth knowing:

- The graph is its Waits, with `Above` their order; nodes between Waits run through.
- `Migrate` is the repin. The code classifies a run first and repins later under a
  guard that every open park is still what was classified; the guard is in the
  action. A park resolved and parked again between the two is the guard's to tell
  apart and is not modelled.
- A Wait's config per version is its mode (`event` or `delay`), whether it is
  broken (resolves to an error), and whether its timeout skips the branch. What an
  instant resolves to is a choice: ahead, passed, or, for a first delay, too late.
- `DeliverEvent` is every writer of `resume`: an Event or a manual resume.

### Delivery and Arrival

| TLA+ | code |
|---|---|
| `inbox`, `sched`, `memo` | the inbox row's status, its `delivery` schedule row, the memo rows of its steps |
| `run`, `park` | of each run, what a delivery reads and writes: in flight or over, its Cancel claim, its one open Event Wait |
| `refusal`, `decided` | the Entity admission refusal and the Cancel decision recorded for an arrival |
| `version` | the published version, with the role of each Event and the Concurrency policy |
| `Receive`, `PollInbox`, `Resend`, `SweepInbox` | `insertEvent`, the host's SQL insert picked up by the poll, the reopening of a failed row, retention |
| `Claim`, `Open`, `ListSubscribers` | `claimDue`, the payload check, the durable subscriber list |
| `ReadLifecycle`, `RecordRefusal`, `BeginStart`, `CommitStart`, `DeclineStart`, `RequestCancel`, `SaveOutcome` | the Lifecycle Rules' step, cut at each transaction, then its memo |
| `ListPage`, `WakeWait`, `RereadWait`, `SavePage` | the candidate pages and the offer to each Wait, with its second look after a rotated token |
| `FinishDelivery`, `StepThrows`, `Crash`, `LeaseExpires` | settling, failures and what a lost lease charges |
| `RunParks`, `RunWakes`, `RunEnds`, `Migrate`, `Publish`, `SweepRun`, `SweepRefusal` | the rest of the system, as far as a delivery sees it |

Decisions worth knowing:

- A `setting` is a workflow and its surroundings. It is a variable no step changes,
  so that one run checks several workflows.
- What the steps write is not fenced, so a pass that lost its lease keeps its `at`
  and goes on. Its memo and settling writes are refused by `Holds`.
- `NoLife` is a step that has no memoized outcome. It is not the outcome that there
  was nothing to do, which is memoized like any other and not asked for again.
- A serializable transaction is two steps: it reads its `view`, and commits only if
  what it read still holds; if not it reads again (`CommitStart`).
- A lost lease charges one failure to the step under way; LeasedPass shows why that
  is the step charged.
- An inbox row may be swept under a zombie of its delivery, which may then still open
  a run; the properties speak of an arrival for as long as its row is kept.
- `Arrival` is the abstract specification: recorded, settled, perhaps reopened, and
  decided at most once, the decision kept as long as the row. `KeepsPromise` is the
  refinement: `row` is the inbox status and `outcome` the decisions that committed.

### CronTimers

| TLA+ | code |
|---|---|
| `versions`, `mode`, `paused` | the workflow row as publishes, mode changes and pauses leave it |
| `timer[s]` | the schedule row of a cron schedule |
| `request[e]` | what a publish, pause or resume read before its transaction: version, graph, clock |
| `AskPublish`, `Publish`, `AskPause`, `SetPaused`, `SwitchMode` | those requests, cut between their reads and their transaction |
| `Claim`, `ClaimExpired`, `Check` | `claimDue`, the sweep, one round of `fireSchedule`'s preflight |
| `BeginFire`, `CommitFire` | `fireCronTimer`: the snapshot, and the commit that any rewrite of the row since then aborts |
| `ReadSpentSlot`, `SkipSlot` | `skipSpentSchedule` and `skipCronSlot` |
| `BodyFails`, `Crash` | the ways a pass fails |

A row that Publish keeps is rewritten with its own wake, which is what makes a fire
with an older snapshot fail; `Touched` is that, and its mutant shows it is needed.
The backoff between tries and the deletion of the workflow are left out.

### OAuthGrant

| TLA+ | code |
|---|---|
| `row` | the connection: grant and manual configuration (by number), the revision, the refresh state, claim and whether it is stale |
| `attempt[a]` | an authorization attempt of this connection |
| `actor[x]` | a caller: how far it is, what it read, what the provider gave it |
| `issued`, `sent` | the provider: grants issued, grants whose refresh token it was sent |
| `Resolve`, `Await`, `FenceStale` | `resolveIntegrationCredentials`, `awaitRefreshOwner`, the fencing of a stale claim |
| `StartReconnect`, `StartElsewhere`, `Callback` | the creation of an attempt, which sweeps expired ones and fences the row one of them claimed, and its callback |
| `Claim`, `CallProvider`, `Complete`, `Release`, `Mark` | `claimRefresh` and the writes fenced on that claim, shared by refresh, reconnect and disconnect |
| `Edit`, `WriteEdit` | `putIntegration`, whose write compares the revision |
| `ClaimAges`, `Crash` | time and lost processes |

Whether a grant is about to expire is a choice. Calls of the provider succeed, fail,
or succeed without an answer; a database write fails, or commits with its answer
lost, as often as `MaxFaults` allows. Attempts that create a connection, its
deletion, the browser binding and the attempt's status page are left out.

### RowLocks

What a transaction writes is the other modules' business. Here a transaction is the
list of its statements, and a statement the table it locks rows of, how strongly, and
whether it takes them by id.

| TLA+ | code |
|---|---|
| `life[r]` | whether the run is not there yet, in flight (it has a schedule row), ended, or deleted; `life[0]` is the workflow |
| `session[t]` | the transaction of a database session: its kind, the runs its first read found, its statement, the row it is locking, the rows it holds |
| `Plans` | one list of statements per write: the fenced writes of a pass (`startWait`, `markRunning`, `finishRun`, ...), the producers (`claimWaitState`, `repinVersion`, `requestCancelForEntity`), `admitWithConcurrency`, the fires and skips, `claimDue`, Publish, pause and resume, the two deletions, the run sweep |
| `Begin`, `BeginUnlocked` | a transaction's first statement; the two that `skip locked` take a batch of rows nobody holds |
| `Issue`, `Take` | the next statement selects its rows; one row is granted, or passed over when it no longer matches |
| `Commit`, `Rollback` | locks are let go; the runs that were opened, ended or deleted change their life |

Decisions worth knowing:

- The four strengths of PostgreSQL's row locks and their conflicts are modelled, and
  with them the locks nobody writes: an insert key-shares the rows its foreign keys
  name, a delete takes what the foreign keys cascade to, in the order they were
  declared.
- One row stands for a run's wait rows, one for its audit rows and node logs, and one
  for the workflow's timers. Whoever waits for several of these in one statement holds
  the run's or the workflow's row against everyone else who does.
- `workflow_versions`, subscriptions, the inbox and the step memo are left out: they
  are locked behind the workflow row, the delivery's row or the schedule row. So are
  the queue behind a row lock and the serialization failures of a serializable
  transaction; the latter are `Rollback`.
- A `mix` is a situation: the lives of the runs, the kinds of transaction in it, and
  how many are open at once. `Orderly` says which mixes keep to one order of locks.

## 3. What the runs show

`CHECK_DEADLOCK FALSE` everywhere, because a run that ended has nothing left to do.

| run | instance | what it checks |
|---|---|---|
| `leased_safety` | a before b, one retry, two pass slots (symmetric), one fault; 1.2 M states | typing and the six safety properties of the executor, with a zombie beside its successor |
| `leased_branches` | b and c below a, one retry, one slot, one fault, fair; 148 k states | `ImplementsJob`: the executor is a DurableJob; when one of two steps throws or loses its answer; `RunEnds` |
| `waits` | two workflows: delay u above gated event Wait w (a timeout skips under version 1), with two Migrations and one cut; u and w side by side, with one Migration to a version where u is broken; in both, c behind the Canceled outlet; attempt limit 2, fair; 654 k states | the lifecycle properties of Waits, claims and Migrations, `ImplementsExecution`, no lost wake when one branch parks while its sibling goes on, and that the run ends |
| `delivery` | two passes (symmetric), pages of one candidate, a lost lease, four settings: starts under newest-wins then first-wins with a resend; a Cancel beside a start; an arrival that starts a run and finds another parked; two parked runs of which one is migrated; 718 k states | each arrival is decided once, one run is in flight; which Waits an arrival reaches |
| `delivery_missed` | one arrival, one parked run, one Migration | a violation (section 5) |
| `delivery_live` | two arrivals, one pass, a refused payload, three Publishes (a Start Filter, a graph that will not run, no start at all), a crash, fair; 139 k states | every recorded arrival settles |
| `cron_timers` | one schedule with two slots, two passes, two versions of three graphs, two pauses or mode changes, one lost pass, fair; 686 k states | timers, slots and versions agree, and no timer stays due |
| `cron_twice` | two operators, one version | a violation (section 5) |
| `oauth` | one of each caller, three grants of which the second cannot be renewed, one fault, fair; 218 k states | configurations move on, claims are let go |
| `oauth_reused` | two resolvers, two grants, no fault | a violation (section 5) |
| `row_locks` | two runs whose execution ids are in the reverse order of their schedule ids, four situations: both in flight; one in flight, one opened; both ended, and the workflow deleted; and three transactions at once on two runs in flight; symmetric sessions; 1.3 M states | no transactions wait for one another in a circle |
| `locks_deleted` | two runs in flight, `markRunning` and `deleteById` | a violation (section 5) |

### The properties

Executor (`LeasedPass`):

- `ChargedTriesOnly`: a step never has more failures than real tries. Every way of
  charging (a throw, a sweep, a budget cut, a late heartbeat, a lost answer) is in
  the model.
- `FailedOnlyAfterAllTries`: a step is given up only after its last try was real.
- `OwnerBookCurrent`: what the lease holder believes settled is what the memo says.
- `MemoFinal`, `ZombieWritesNothing`, `OwnEndIsNotALostLease`: action properties of
  the fence.
- `ImplementsJob`: the refinement of DurableJob. What a pass starts it decides from
  the book it loaded; this says that the memo, where the work lands, would have
  allowed it too.
- `RunEnds`: under the fairness below, the run ends however workers die. It is checked
  where steps run side by side, with one slot: a zombie beside its successor changes
  nothing of the row (`ZombieWritesNothing`, proved), so it cannot keep a run open.

Waits (`RunWaits`):

- `NoWakeSleptThrough`: a run asleep has something to wake it.
- `ClaimLeavesNoParkWaiting`: no park outlives the claim that closed its side.
- `ClaimDecidesTheEnd`: the first claim stands, pins the version, and names the verdict.
- `CanceledAfterItsOutlet`: a run is canceled through its outlet, and nothing else enters it.
- `EventBeatsTimeout`, `AcceptedEventKept`, `CompletionDropsNoEvent`: three sides of
  an accepted Event being acted on. `EventBeatsTimeout` speaks of the attempts prepared
  as an event Wait; of one prepared as a delay it would be false (section 5).
- `ResumedUnderPinnedVersion`: no Wait resumes under a version the run left.
- `ImplementsExecution`: the refinement of Execution.
- `RunEnds`: liveness.

Inbox and admission (`Delivery`):

- `OneRunPerArrival`, `KeepsPromise`: whatever is retried, run twice, reopened or
  swept, an arrival is decided once.
- `OneInFlight`: two arrivals cannot both find the entity free.
- `CancelReachesEarlierRuns`: a Cancel tried again claims what it was decided for.
- `WakesOneWaitOfARun`, `NotWokenByItsStart`, `DeliveredReachesWaits`,
  `CandidatesWoken`: neither too many Waits nor too few. `EveryOpenWaitReached`, the
  same of a run a Migration is moving, is not kept (section 5).
- `Settles`: liveness.

Cron (`CronTimers`): `TimersMatch`, `EachSlotAnswered`, `SlotsAnsweredOnce`,
`FiresPublished`, and `DueTimersMoveOn` (liveness).

OAuth (`OAuthGrant`): `ConfigurationMovesOn`, `ClaimsAreLetGo` (liveness), and
`TokenSentOnce`, which the code does not keep.

Locks (`RowLocks`): `NoDeadlock`, for every set of sessions.

`ResumedUnderPinnedVersion` asks only while no Wait beside this one is being worked
on: a sibling's `startWait` puts the run back to waiting between a Wait's fence and
the end of its resume step, which lets a Migration in between; nothing in the code
claims otherwise. `CompletionDropsNoEvent` is checked where a Wait keeps its mode
across versions and no event Wait above another skips on timeout in one version only;
elsewhere it fails (section 5). `WakesOneWaitOfARun` speaks
of an arrival delivered once: one reopened after it failed offers itself again.
`NotWokenByItsStart` speaks of an Event every version starts: a pass that lost its
lease may open the run after another attempt declined the start, and that attempt,
which wakes the Waits, knows of no run to leave out. `CandidatesWoken` speaks of at
most one Migration: a second one may wake the Wait again between a refused claim and
its reread, which then gives it up (`resume-waits.ts:67`). `DeliveredReachesWaits` and
`ClaimsAreLetGo` exclude the Migrations and the rows without a grant that section 5
describes.

Every property has a mutant in `PROJECT.json`: an operator, defined just above the
one it replaces, that changes it the way a plausible bug would and under which TLC
finds the property violated.

### Bounds, and why they are enough

- *Two pass slots*: the fence compares one token with the row's, so a holder and one
  zombie show every pair. The proofs hold for any number.
- *`STEP_RETRY_LIMIT` 1 or 2*: a first, a middle and a last try. Proved for all.
- *`MaxFaults`*: bounds drains and, in LeasedPass, passes lost while they open, the
  events nothing in the code counts. Crashes, sweeps and cuts elsewhere are bounded
  by the code's own counts and are not capped.
- *`tried`* stops counting at one above the limit; no property tells larger values apart.
- *`MaxMigrations`* 1 or 2: two bring a run back to a version it left, with an
  attempt of each version behind it.
- *`WAIT_ATTEMPT_LIMIT`* 2 or 3, 50 in the code: only re-parks add attempts, and a
  re-park needs a Migration, so 2 with two Migrations reaches the abandon as well.
- *Two Waits and an outlet*: every guard compares a Wait with itself, with its run or
  with "some sibling". One upstream, one sibling and one on the other side are the cases.
- *Two arrivals, two runs, pages of one*: the admission compares one arrival with the
  runs in flight, and a page is followed by another as soon as it is full.
- *Two slots, `MaxNow` 2*: one slot fired late covers an earlier one, and a slot
  follows a slot. *Two versions*: a fire checked one and finds the other.
- *Two runs*: an order of rows needs two of them, and their two id orders disagree.
  *Two transactions at once* of all kinds, *three* of the kinds that hold most: a
  transaction whose statements are the first of another's is that one rolled back, so
  `three` leaves out only these, `sweepEndedExecutions` (nothing has ended long ago
  when it starts) and the kinds that wait for one row while they hold none. A circle
  of four would need four tables each taken before another.
- *Which kinds are together* in `row_locks`: `deleteById` is with those it does not
  deadlock with, and `opening` has no deletion (section 5). Every mix of the run is
  `Orderly`, and for orderly mixes of any size the theorem holds (section 4).
- *One caller of each kind*, two resolvers in `oauth_reused`: every write is fenced on
  one claim and one revision, so two callers show each race; the proof is for any number.

### Fairness, and why the code justifies it

`LeasedPass!Fairness`: a live pass goes on (`Progress`), its renewal is answered
(`Beat`), some worker claims due rows (the poll loop), a dead owner's lease runs out
(nothing renews it, time passes), a backoff ends. A worker that never dies is not
assumed, nor that steps succeed: the run ends because each failure is counted and
each count is bounded. `RunWaits!Fairness`: a worker claims due rows, a pass that is
not cut goes on, backoffs end and deadlines pass. No Event, Migration, claim or
crash is assumed; a run nobody talks to ends because every park has a deadline.
`Delivery!Fairness`: the inbox is polled, some pass claims a due delivery, a lost
lease runs out, a live pass goes on. `CronTimers!FairSpec` asks less: some pass does
some work while there is any, so a pass may stall for ever and be swept.
`OAuthGrant!FairSpec`: some run keeps asking for the credentials, and a claim grows
old. No owner of a claim has to go on, because the fence is for those that do not.

## 4. What is proved

`LeasedPassProofs` proves, for all `Passes`, steps, `Before`, `STEP_RETRY_LIMIT` and `MaxFaults`, every safety property
of LeasedPass:

| theorem | states |
|---|---|
| `TypeCorrect` | `Spec => []TypeOK` |
| `ChargesAreTries` | `Spec => []ChargedTriesOnly` |
| `GivenUpAfterAllTries` | `Spec => []FailedOnlyAfterAllTries` |
| `HolderRepeatsNothing` | `Spec => []OwnerBookCurrent` |
| `SettledMemoStays` | `Spec => MemoFinal` |
| `ZombiesAreFenced` | `Spec => ZombieWritesNothing` |
| `OwnEndStands` | `Spec => OwnEndIsNotALostLease` |
| `ExecutorImplementsJob` | `Spec => ImplementsJob` |

The assumptions are `RetryLimitAssumption` (a natural number), `StepsAssumption`
(`Terminal`, `NoStep` and `NoBeat` are three things apart from the node steps, and
`Before` is a function on them), `PassesAssumption` (`NoPass` is no pass) and
`FaultsAssumption`. TLC evaluates them on every run.

The invariant is `IInv == TypeOK /\ MemoOK /\ PassOK /\ LedgerOK /\ OwnerBookCurrent`:

- `ChargedTriesOnly` alone is not inductive: a failure is charged to the step a
  sweep, a budget cut or a throw names, and nothing in it says that step was tried.
  `LedgerOK` says so: a step's failures, plus one when it was begun under the current
  lease, never exceed its tries, and whatever may name a step to charge (the row's
  running step, the holder's running list, its renewal in flight, the step it threw
  on) names one begun under the current lease. The failure a lease may charge is
  thus already paid for; a release or a claim starts a new lease and empties `begun`,
  which is why both must clear the row's running step.
- `FailedOnlyAfterAllTries` follows with `MemoOK`: a memo row is failed exactly when
  its failures are `STEP_RETRY_LIMIT + 1`.
- A try is paid for only if the step was not settled when it started, which needs
  `OwnerBookCurrent`, and that needs `PassOK`: a pass runs a step at most once at a
  time, none before its body starts, and its terminal step while `ending`.

These parts were model-checked as invariants before they were proved. There is one
lemma per action, grouped by what the action touches; `Invariant` collects them, and
the step properties take one more case analysis each from it.

The refinement adds `JobOK`: a run that is open has its row, one that ended has
nothing begun, and every step begun under the current lease is ready *by the memo*.
The last part is what the mapping needs (a charge or a success must be allowed where
the job sees it) and holds because `OwnerBookCurrent` makes the holder's book and
the memo agree when a step starts and `NextKeepsFinal` keeps what was settled then.
`NextSeen` says of each action which step of the job it is.

### OAuthGrant

`OAuthGrantProofs` proves, for all sets of callers, all `Renewable` and all bounds:

| theorem | states |
|---|---|
| `TypeCorrect` | `Spec => []TypeOK` |
| `BuildsOnWhatItReplaces` | `Spec => ConfigurationMovesOn` |

from `NoneIsNoActor` and `BoundsAreNumbers`. The invariant is `TypeOK /\ ReadsHold`.
A write of the configuration compares the revision and not the configuration, so
that a caller which read revision n, and finds n again, replaces the configuration it
read has to be an invariant of its own: `ReadsHold` says that a revision names one
configuration, that is, that no caller or attempt knows a revision later than the
row's and that one that knows the row's own knows what the row holds. It is kept
because every write that changes grant or manual configuration adds one to the
revision. There is a lemma per action, and each is used twice: `NextKeeps` for the
invariant and `NextBuildsOnIt` for the action property.

### Delivery: what an arrival decides

`DeliveryProofs` proves, for all arrivals, runs and passes, all `Settings` the
assumptions admit, every `PAGE_SIZE` and every `STEP_RETRY_LIMIT`:

| theorem | states |
|---|---|
| `TypeCorrect` | `Spec => []TypeOK` |
| `OneRunEach` | `Spec => []OneRunPerArrival` |
| `OneAdmitted` | `Spec => []OneInFlight` |
| `CancelStaysEarlier` | `Spec => []CancelReachesEarlierRuns` |
| `PromiseKept` | `RolesStay` implies `Spec => KeepsPromise` |

The assumptions are that run ids are finitely many numbers, that `NoDelivery` is no
arrival and a pass no mark of a row, that a page holds something, and, of a setting,
that it has a version, and one run in flight at first if all its versions compare.

The invariant is `DecisionInv == TypeInv /\ PassRoles /\ Ledger`. `TypeInv` holds the
fence: who leases the row remembers the memo. It is of no use for the decisions, which
a pass that lost its lease commits as well; what keeps those apart is `Ledger`, about
rows alone: a refused arrival opened no run, an arrival opens one, a decision stands
while its arrival is kept, a run of a kept arrival is not swept. `PassRoles` carries
over to the write what the published version said at the read. `FewDecide` shows that
the only steps that decide are a recorded refusal, a start that opens a run and a
Cancel, and for each of these the ledger and what the transaction reads leave no room
for an earlier decision, which is the step of `Arrival`. All other steps move an inbox
row along `Arrival`'s way or stutter.

`RolesStay` says that no Publish makes the Event of an arrival that cancels in one
version start in another. Without it the refinement is false, and section 5 tells how.

### Delivery: what an arrival wakes

`DeliveryWakeProofs` proves, under the same assumptions and no other hypothesis:

| theorem | states |
|---|---|
| `OneWaitOfARun` | `Spec => []WakesOneWaitOfARun` |
| `StartWakesOthers` | `Spec => []NotWokenByItsStart` |
| `PagesWoken` | `Spec => []CandidatesWoken` |
| `OpenWaitsReached` | `Spec => []DeliveredReachesWaits` |

A page of candidates exists in three copies: the memo row, the book of each pass that
read it, and what a pass has left to offer. None of the four properties says anything
of the last two, so none is inductive. `WakeInv` adds to `DecisionInv`:

- `OnStep`: a pass is at the first step its own book does not answer;
- `ParksSound`, `AllReached`: a Wait on a page, or in the history, is one its run has
  come to, under a token it has had, and a token is rotated once per Migration;
- `OneWaitInv`: while nothing was reopened, all passes that wake for an arrival hold the
  same pages, and no page names a later Wait of a run than the one already woken. Pages
  are complete before the first wake (`NextStep`), and a Wait parked since is on none;
- `StartInv`: an outcome memoized for an arrival every version starts names its run, so
  no page lists a Wait of that run; `ViewsHold` says so of a start on its way to commit;
- `CloseInv`: behind a page delivered no candidate is open, and on the page a pass is at
  only those it has left to offer; a refused claim is reread, and a reread under a token
  that is still the newest finds the Wait closed. Closing is final: a Wait reopens under
  a new position only, except by a second Migration;
- `OwedInv`: a Wait open when the Event came, and open still, is on a page or lies after
  all of them in a scan that goes on. A page takes the first candidates in the order of
  the cursor (`PageFits`), and a Wait of a run the Lifecycle step settled is open no more.

A delivery settles when no page is left to list or to wake, so the Wait is on a page, by
`OwedInv`, and closed, by `CloseInv`. All parts were checked as invariants with TLC, over
the states of `delivery` and 1.8 M states of wider settings, before they were proved.

### RunWaits

`RunWaitsProofs` proves, for all Waits and orders of them, versions, modes, workflows
and bounds:

| theorem | states |
|---|---|
| `TypeCorrect` | `Spec => []TypeOK` |
| `NoRunSleepsThroughAWake` | `Spec => []NoWakeSleptThrough` |
| `ClaimsCloseTheirSide` | `Spec => []ClaimLeavesNoParkWaiting` |
| `CanceledThroughItsOutlet` | `Spec => []CanceledAfterItsOutlet` |
| `EventsBeatTimeouts` | `Spec => []EventBeatsTimeout` |
| `FirstClaimDecides` | `Spec => ClaimDecidesTheEnd` |
| `EventsAreKept` | `Spec => AcceptedEventKept` |
| `ResumesUnderThePin` | `Spec => ResumedUnderPinnedVersion` |
| `RunsAreExecutions` | `Spec => ImplementsExecution` (in `RunExecutionProofs`) |
| `CompletedRunsAnswered` | `Spec /\ []AttemptsLeft => CompletionDropsNoEvent` where `ModesStand` and `SkipsStand` (in `RunExecutionProofs`) |

from `GraphAssumption` and `BoundsAssumption`, and the last also from `AcyclicAssumption`. Hardly one of these is inductive: each asks
what a pass may count on *between* two durable steps of a Wait, while producers write
the same rows. The invariant `IInv` says so, Wait by Wait (`Local`):

- `StageOf`: a Wait past its park's write is at its first attempt that is not left for
  another, its row exists, and a pass past the settling write has closed the row.
- `ParkOf`: a row holds a wake exactly when something resolved it, and once an attempt
  resumed, its row is open no more. `EventBeatsTimeout` follows: the settling write
  reads the row, and no producer writes a closed one.
- `ClaimedBy`: a cancel or exit wake, on a row, in a pass or in a memo, means that the
  run is claimed. `AcceptedEventKept` needs it where a resume closes a row.
- `Pinned`: behind the version fence the run is running, or claimed, and neither can
  be migrated, unless a Wait beside it parks in the same pass.
- `OutletOf`: behind the Canceled outlet a Wait is prepared once. The claim that let it
  in refuses Migrations, so its attempt is of the pinned version, no replay leaves it,
  and the run cannot be recorded canceled before it resumed.

The refinement needs one fact more: between `endParked`'s write and the release the run
is waiting if a park is (`ParkedWaiting`), so that what the release sleeps on is an
Execution that waits. `NextSeen` says of each step which step of Execution it is: most
are stutters or a `Consume`, and the producers are `Accept`, `Migrate`, `Stop` and `End`.

`CompletedRunsAnswered` is about Waits above and below one another: a Wait whose row holds
an Event is held back, and the run completes past it, when a Wait above it that the run
went on below no longer goes on. Its invariant `DInv` adds to `IInv` that every released
Wait once went on (`Went`: it has an attempt that resumed and does not end it), and of each
Wait

- `BelowOf`: it is worked on, or has a row or an attempt, only once all above it went on;
- `AdmissionOf`: it is driven once admitted, and refused only with a claim;
- `EndedOf`: in an unclaimed run it is over for a pass at an attempt that ended or resumed,
  or at its limit, and one not released there does not go on at that attempt;
- `SkippedOf`: a delay skipped as too late was its Wait's only attempt, and its row holds no
  more than a Migration's wake;
- `AnsweredOf`: an attempt that resumed on an Event has it on its row, for good, and none
  resumed on a claim that is not there.

Take the step that records `completed`. Nothing is claimed, no Wait failed, none is parked
and none held back. Of the Waits the run went on below and that this pass has not released,
one has none of the others above it, since the graph is acyclic (`AllReleased`); all above
it are released, so it is done, and stands at an attempt that does not go on. The only such
attempt is a timeout that skips, while another attempt of the same Wait resumed on an Event
(`WentReleased`), so the row holds the Event, and `EventBeatsTimeout`'s part of `IInv` leaves
a row that was cancelled, which an unclaimed run's is at the attempt limit only. Hence all
are released; a Wait with an open row was driven, and is over, which closed its row.

The hypotheses: `ModesStand` and `SkipsStand` (a Wait with another below it skips on a
timeout in every version or in none) exclude the two kinds of graph of section 5 for which
TLC finds the property violated. `AttemptsLeft` says that no Wait which may skip, with another
below it, is at its last attempt (`wait.ts:59` allows 50); it asks nothing of graphs
without such Waits, those of `waits` among them. The proof needs it where a Wait is given up
under one version and taken up under another; no run within TLC's reach violates the
property there. `AcyclicAssumption` is what saving a workflow checks
(`src/packages/shared/src/graph/workflow-topology.ts:107`). `DInv` was checked with TLC
over the states of `waits` before it was proved.

The Waits of a run meet in `RoundSound` (the Waits driven together are on one side, and
all above them went on), in `CancelRead` (a pass in the outlet has a Cancel claim behind
it) and in `RowsHeld` (a working pass has the row leased, so the run has not ended).
Which attempt a replay stops at is a `CHOOSE` (`Attempt`); that there is one takes the
least element of a set of numbers, which `LeastOne` gets from well-founded induction
over finite sets, and `AttemptFound` concludes. `IInv` was
checked with TLC over the states of `waits`, and over a Wait whose mode changes with
the version, before it was proved; that is where the earlier form of
`EventBeatsTimeout` failed (section 5).

### CronTimers

`CronTimersProofs` proves, for all schedules, slots, graphs, requests, passes and bounds:

| theorem | states |
|---|---|
| `TypeCorrect` | `Spec => []TypeOK` |
| `TimersAlwaysMatch` | `Spec => []TimersMatch` |
| `EverySlotAnswered` | `Spec => []EachSlotAnswered` |
| `FiresWhatIsPublished` | `Spec => FiresPublished` |
| `NoSlotTwice` | `OneOperator` implies `Spec => []SlotsAnsweredOnce` |

A row comes to name a pass only when that pass, idle, claims it, so what is true of a
pass that still holds its row was true at the claim. Every rewrite of a row by Publish,
pause or resume touches it and makes a fire that snapshot it before abort; a fire that
commits thus decides from the version still published (`FireSees`), and with it
`TimersMatch` is kept: it drops no timer that version declares. For `SlotsAnsweredOnce`
the invariant is that the slots somebody may still answer - a row, a pass with a
snapshot, a request with the clock it read - lie past the slots answered already
(`RowsAhead`, `PassesAhead`, `RequestsAhead`). A second operator breaks the last one,
and the theorem with it: that is `cron_twice`. The invariant was checked with TLC over
the states of `cron_timers` before it was proved.

### Row locks

`RowLocksProofs` proves, for any finite set of sessions, any runs, any two orders of
their ids and any number of transactions at once, of mixes that are all `Orderly`:

| theorem | states |
|---|---|
| `LocksHeldInOrder` | `Spec => []IInv`: what every transaction holds and why |
| `NeverInACircle` | `Spec => []NoDeadlock` |

`Orderly(m)` is a condition on the mix alone, on its kinds of transaction and the first
lives of its runs:

- with `deleteById`, every run has ended or is gone, and nothing is published, deleted
  run by run or swept beside it. With a run in flight its cascade takes the execution
  row before the schedule row, against every pass (`locks_deleted`). An ended run is
  safe because only a deletion still touches its rows.
- with `deleteAllForWorkflow` and no `deleteById`, no run is still to be opened: a run
  opened after the deletion took the schedule rows is one whose execution row it takes
  without that.
- without either nothing is asked: passes, producers, admission, fires, Publish, pause,
  repins, claims and the sweep may all be together, about any runs.

The assumptions beside it are `SessionsAssumption` (finitely many sessions: in an
endless chain of waits none need be in a circle), `RunsAssumption`, `PlaceAssumption`
(the execution ids put the runs in some order), `NoRowAssumption` and
`MixesAssumption`, all evaluated on the run, as is `QuietIsOrderly` of the MC module:
the mixes the run looks at are among those the theorem is about.

The order is by table - workflow, timer, schedule, decision, execution, audit, wait -
and by id within a table, with two exceptions at its end: the workflow row taken for
update by its deletion, and a key share of the workflow row, which is the last
statement of every transaction that asks for one but Publish. `Ordered` is the heart
of the proof: when `t` waits for `u` and `u` waits for `v`, then `t` asks for a row
before the one `u` asks for. So of any finite set of transactions that all wait for one
another, the one that the fewest are further on than waits for none (`NoCircle`).

`Ordered` cannot be read off the lists of statements, for two statements lock many rows,
rows of one table are taken in any order unless the statement says by id, and endings
take waits of several runs at once. It needs the invariant
`IInv == TypeOK /\ Situation /\ Exclusive /\ \A t : Sound(session[t], life)`. `Situation`
keeps what `Orderly` asked of the first state, `Exclusive` says that no two hold a row
against each other, and `Sound` says of one transaction:

- `Asks`, `Holds`: the rows it asks for are those its statement locks, and each row it
  holds is held as one of its statements so far locks it (or as its batch was taken);
- `Ours`, `Owned`, `Gated`, `Scheduled`: it touches rows only of the runs it is about;
  whoever touches an execution, audit or wait row without deleting holds that run's
  schedule row; from its gate on it holds the schedule row of each of its runs in
  flight, taken in their order; and a held schedule row is of a run in flight;
- `Purging`, `Sweeping`, `Deleting`: a deletion that comes to a run's rows from above
  holds its schedule row or finds the run over, holds its execution row before what
  hangs on it, and holds the workflow row when it is the workflow's.

Two transactions thus meet at a run's execution, audit or wait row only where both are
writes of one pass, which share the schedule row and lock one row of each table, or
where both delete and are at the execution row, which they take by id (`Meeting`). The
hard step is `Commit`, where lives change under the other transactions: whoever ends
or deletes a run in flight holds its schedule row alone, so that no other transaction
counts on it (`CommitLives`, `SoundAfter`). The invariant was checked with TLC over
wider mixes than the run's, with runs in flight beside runs that ended, before it was
proved.

### What stays with TLC

Liveness (`RunEnds`, `Settles`, `DueTimersMoveOn`, `ClaimsAreLetGo`) is out of the
prover's reach, and so are the values of folds over data. Every other property of a
passing run is proved, `CompletionDropsNoEvent` under the hypotheses stated with it: it
is false for graphs whose Waits change with the version (section 5).

## 5. Where the code and its documents part

Four disagreements have a run that shows them; `PROJECT.json` quotes the passages.

1. **A slot can fire twice** (`cron_twice`). ADR 0007 and `cron.ts:200` say a slot
   fires once. `setPausedState` reads the clock and the paused state before the
   transaction of `setPaused`, which checks neither. Two resumes of a paused workflow
   read the clock; one commits, its timer fires a slot, the workflow is paused again,
   and the other then writes a timer from its older clock, due at once.
2. **A refresh token can be sent twice** (`oauth_reused`). ADR 0014 says a possibly
   consumed token is not retried. `claimRefresh` refuses a row that is being
   refreshed, not one that requires reauthorization, and marking a row so leaves its
   revision: a resolver that read the row before another claimed it, and claims it
   after that one failed and marked it, sends the same token.
3. **Deleting a workflow can deadlock with its runs** (`locks_deleted`). `cron.ts:2-4`
   gives one lock order, schedule rows before execution rows, and says `deleteById`
   keeps it; `repo/index.ts:288-291` says why the deletion of all runs must take the
   schedule rows first. `deleteById` (`services/workflows/repo.ts:744`) leaves them to
   the cascade, which comes to them after the execution rows, and nothing asks that
   the runs have ended. PostgreSQL aborts one of the two.

4. **A Migration can cost a Wait an Event** (`delivery_missed`). `release-policy.ts:370-374`
   and `execution-producers.ts:526-529` say that an Event which arrives while a
   Migration's wake is pending takes the park. `claimWaitState` would take it, but is
   not asked: the candidate pages (`waits.ts:530`) and the parked read of the
   subscribers (`services/workflows/repo.ts:568`) select `waiting` parks, and a park
   with a pending wake is `resuming`. The delivery settles without the run, whose next
   pass parks the Wait again; the Event is not offered to it.

Met while modelling, each at the lines given, and either outside these runs or
excluded from a property's statement:

- A replay after a Migration leaves every attempt another version prepared, the one a
  Wait resumed from included, so a settled Wait upstream of the parked one prepares
  again, its re-park is refused and its node fails (`engine/wait.ts:384`; ADR 0019
  lines 65-67 say nodes above the Wait are not re-run).
- `release-policy.ts:488-489` says a resuming row holds a wake nobody consumed. A
  Migration to a version whose Wait resolves to an error leaves such a row after its
  Wait ended (`engine/wait.ts:440`); a sibling's releases then requeue the run.
- A pass cut between a park's write and its memo, then a Migration that turns the Wait
  into a delay that is skipped, closes the row with an Event accepted meanwhile
  (`engine/wait.ts:828-834`). `CompletionDropsNoEvent` is checked where modes stand.
- An event Wait that skips on timeout in one version only can skip after the run went on
  behind it. Its deadline wakes it under the version that skips, the run is moved before
  its resume, times out and continues under the other version, a Wait below it parks, the
  run is moved back, and an Event takes the migrate wake of that park. The replay leaves
  the attempt the Wait continued from and comes to the one that was woken and never
  resumed (`engine/wait.ts:384`), which now skips; nothing below is entered again, and
  the run completes with the Event on its row. So `CompletionDropsNoEvent` is not claimed
  of such graphs either.
- A Wait that is an event Wait in one version and a delay in another can end as a
  timeout with an Event on its row. A delay whose target is already reached writes its
  park and memoizes the timeout; the run is moved before the fence of its resume, the
  row is parked again as an event Wait by a pass cut off before its prepare is memoized,
  the run is moved back, and an Event takes the pending migrate wake. The attempt is of
  the loaded version again, so it is not left (`engine/wait.ts:384` compares only who
  prepared it), and it resumes with the timeout it memoized. `EventBeatsTimeout`
  therefore speaks of attempts prepared as an event Wait.
- When a Publish turns an arrival's Event from Start to Cancel between two tries, the
  second try answers by the run the first opened (`deliver-event.ts:499-511`). The
  other way round it does not answer: the roles the first try memoized hold no start,
  so the second never looks the committed decision up, finds the published version's
  start, and opens a run for an arrival that has already cancelled. `deliver-event.ts:189-191`
  and `499-512` say that one arrival cannot do both; `PromiseKept` therefore supposes `RolesStay`.
- A start refused by its Start Filter or by first-wins leaves only an audit row, so a
  resend of that arrival may start a run (`src/docs/embedding.md:773-774`).
- A reconnect of a connection with no grant left whose last write fails leaves the row
  `refreshing` (`oauth.ts:629-697`); no resolver waits for it, so nobody fences it, and
  a reconnect or an edit is refused while it stays.
- Publish inserts the new version, which key-shares the workflow row, before it updates
  that row (`services/workflows/repo.ts:837-848`, `912`); `deleteById` waits for the
  share with the row itself held. `postgres-concurrency.pg.test.ts:1036-1038` plays
  the update and the timers, not the insert.
- `deleteById` reaches the audit rows, through the workflow's own foreign key, before
  the runs; the run sweep and `deleteAllForWorkflow` take the run first
  (`repo/index.ts:306`, "the order the run sweep's cascade takes").
- `deleteAllForWorkflow` locks the schedule rows it finds in one statement and the
  execution rows in the next (`repo/index.ts:292-313`): a run opened between the two
  has its schedule row left to the cascade.
- A reconnect whose client cannot be registered releases its claim to `idle`
  (`oauth.ts:629`), also when the row required reauthorization before.

## 6. What is not modelled, and the plan

Not modelled:

- *Conditions, templates, wait match, the graph's schema*: pure functions over
  payloads with unit tests; the models take their answers as choices.
- *The SQLite backend*: the same contract, and the repository runs one conformance
  suite on both.
- *HTTP API, agent, client, plugins, shared schemas, evals*: most of the repository's
  lines, and no coordination; they call the operations modelled here.
- *Worker loop and wakes*: a poll finds what a lost notification misses, so safety does
  not depend on them; they are the fairness of `Claim`.
- *Wall-clock arithmetic, batches, backoffs*: instants are kept as what is compared.

Planned, in this order:

1. **Migration**: classification and repin as two steps, with the tokens that tell
   whether a park changed in between, over RunWaits' rows.
2. **The creation and deletion of a connection**, over OAuthGrant's row.
