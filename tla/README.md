# Trust Copilot Autopilot in TLA+

TLA+ specifications of Trust Copilot Autopilot, its Python services and its web
application, the TLC configurations that check them on small instances, and
TLAPS proofs of the properties that matter most. Paths are relative to `src/`;
those of the web application to `src/apps/web/src/`.

Contents

1. The system: components, state, operations, interactions
2. What is modelled, and how it corresponds to the code
3. The runs
4. The proofs
5. Where the code and its documents disagree
6. What is only model-checked and what is not modelled
7. Plan

Commands, in this directory:

    tlc -workers 2 -config outbox.cfg MCOutbox      # one run
    tlapm OutboxProofs.tla                          # one proof module

---------------------------------------------------------------------------

## 1. The system

Autopilot is a sales engine. It crawls public sources, merges what it finds
into accounts, scores them, mails the ones its policy allows, reads the replies,
takes files in an intake room, runs a fulfillment job on them, sells a plan
through Stripe and provisions a workspace. Three lanes (discovery,
qualification, contact) have separate budgets. PostgreSQL holds accounts, audit
log, outbox, sources and budgets; Redis holds the queues; the send, inbox,
fulfillment, retention and ranking services keep their state in memory of one
process.

Two kinds of concurrency matter. The **database services** run as coroutines of
several API and worker processes, each request or item in an `AsyncSession` of
its own, at PostgreSQL's default READ COMMITTED. A `SELECT` takes no lock unless
the code asks for one, an object once loaded is not refreshed by a later
`SELECT`, a flush writes absolute values of the assigned columns and locks the
row until the transaction ends, and a session that is left without a commit
rolls back. The **in-memory services** are classes whose methods contain no
`await`, so that their methods are atomic; what is hard about them is the order,
the repetition and the loss of calls.

### 1.1 Account state machine (`services/state_machine.py`, `db/models/enums.py`, `apps/api/routers/accounts.py`)

State: `accounts.state`, `accounts.version`, the append-only `audit_events` with
a unique `idempotency_key`. Operations: `can_transition`, `transition`,
`transition_by_id`, reached by `POST /accounts/{id}/transition`.
Hard: the guard looks at an unlocked read; a flush is two statements that take a
row lock and then wait for a key; clients retry.
Correct when: only edges of the table are ever taken; terminal states are final;
a repeated key moves the account once; requests do not deadlock.

### 1.2 Transactional outbox (`services/outbox.py`)

State: `outbox_events` (status, attempts, max_attempts, claimed_by). Operations:
`publish` inside a business transaction; `claim_batch` with
`FOR UPDATE SKIP LOCKED`; `complete`; `fail`.
Hard: two workers polling around each other's flush and commit; deaths before,
between and after commits; attempts counted at the claim and compared at the
failure; reports that look at no status.
Correct when: claims are exclusive; an event is tried at most `max_attempts`
times and given up only then; a settled event stays settled unless a session
reports on it again; every event is settled in the end.

### 1.3 Lane budgets (`services/lanes.py`, `apps/api/routers/lanes.py`)

State: a `lane_budgets` row per lane and scope (daily and hourly limit, what was
used, two reset stamps, a pause flag) and Redis lists. Operations:
`get_or_create_budget`, `check_budget`, `consume`, `set_pause`, `try_promote`,
`enqueue`, the endpoints that call them.
Hard: counters read without a lock and written as values; a row made at first
use without a unique key; resets by date and by elapsed time; a promotion that
spans PostgreSQL and Redis.
Correct when: a day hands out no more than the daily limit and an hour no more
than the hourly one; a pause holds; a promoted item is in exactly one queue.

### 1.4 Worker loop (`workers/base.py`)

State: a Redis list, the running flag. `run` pops an item, opens a session, calls
`process_item` with a publisher for the outbox, and commits; an exception is
logged, the session rolls back on its way out and the loop goes on. A signal ends
the loop after the current item.
Hard: the item is popped before the transaction begins, so that a death or an
error loses it. Correct when: an outbox event exists exactly if the item's
transaction committed.

### 1.5 Suppression and policy engine (`libs/policy/`)

State: suppression entries by scope (email, domain, account, campaign) and
normalised key, without an end. Operations: `add`, `remove`, `bulk_import`,
`is_suppressed`; `evaluate`, which runs every rule and denies if one fails.
Hard: the answer is stale by the time a mail goes out; names are written in
different ways by mail providers, operators and tasks. Correct when: no mail to a
recipient suppressed before the send.

### 1.6 Send path (`workers/send/`)

State: mailboxes with caps, counters, health and a status; the send log; pauses by
scope; paused queues and the history of replays. Operations: `allocate`,
`pause_mailbox`, `resume_mailbox`; `send`, `process_bounce`, `process_complaint`;
`pause`, `resume`, `check_health`, `any_pause_active`; `pause_queue`, `replay`.
Hard: allocation, decision and send are apart; the mailboxes available are listed
once per batch; counters are never reset; a retry after a mail that went out; a
pause replaces the one before it. Correct when: caps, suppression and pauses are
respected, and a replay sends nothing twice. `composer`, `message_strategy`,
`message_guardrails`, `cta_chooser` and their like are functions of their
arguments.

### 1.7 Inbox (`workers/inbox/`)

State: threads, message ids processed, outbound references. Operations:
`register_outbound`, `resolve_thread`, `process`; `classify_reply`, a function.
Hard: replies before the mail they answer is registered, duplicates, an opt-out in
a reply. Correct when: one thread for a conversation, each mail once.

### 1.8 Intake rooms and jobs (`workers/fulfillment/intake_room.py`, `job_runner.py`, `proof_pack.py`, `offer_engine.py`)

State: rooms with a token, an expiry and an NDA flag, uploads, jobs with a key.
Operations: `create_room`, `validate_token`, `upload`, `accept_nda`; `create_job`,
`run_job`; `render_proof_pack` and `select_offer`, functions.
Hard: the job's key is the number of files; a failed job can be run for ever; a
room expires between two calls. Correct when: one job for a set of files; retries
stop.

### 1.9 Billing and provisioning (`workers/fulfillment/billing.py`, `provisioning.py`)

State: checkouts, subscriptions, activation tasks, event ids; workspaces and
emails. Operations: `create_checkout`, `process_webhook`,
`pending_activations`; `provision`.
Hard: Stripe repeats, reorders and doubles webhooks; `create_checkout` is
retried; tasks are never removed. Correct when: a payment is activated, for each
event object of Stripe's once, and never taken back; one workspace for an account, only for what it paid; nobody is
charged twice for one plan.

### 1.10 Retention (`workers/retention/retention_agent.py`)

State: per workspace the last nudge, a count, an end of suppression, a flag.
Operations: `schedule_nudge`, `suppress`, `deactivate`. Hard: a cooldown of seven
days against a monthly maximum that is declared and not read; a shorter
suppression replaces a longer one.

### 1.11 Discovery (`workers/discovery/`)

Crawl scheduler (due sources under `SKIP LOCKED`, success and failure records,
back-off, domain budgets), throughput governor (source budgets, domain slots,
back-pressure), renderer pool, and a large body of text and scoring functions.
Hard: success and failure are recorded without the lock the emission takes; a
budget is checked and counted in two steps; slots leak. Correct when: a source is
crawled at most once per interval, a domain no more than its budget.

### 1.12 Qualification (`workers/qualification/`)

Account memory (snooze, objections, reactivation), contact decision, conflict
detector, model registry with selector and rollback; scoring functions. Hard:
reactivation that is reported and not recorded; two "active" versions.
Correct when: no contact against a hard objection or before a snooze ends; the
model served is the model activated.

### 1.13 Everything else

`services/decision_trace.py` (insert and diff), `services/config.py`,
`db/session.py`, FastAPI wiring, contracts and table declarations.

### 1.14 Web application (`apps/web`)

React pages rendered over constants, in three groups: the buyer's (`offer`,
`checkout`, the trust room `r`, `proof`, `workspace`), the operators' console under
`app/app` with its sidebar and audit drawer, and library parts no page mounts yet
(`lib/hooks.ts`, `lib/forms.tsx`, `data-table.tsx`, `upload-widget.tsx`,
`signal-timeline.tsx`). No page calls the API; the hooks that would are there.

State: each page's `useState`s, lost when the page is unmounted; the console's
(`expanded` sections, drawer), which lives while links stay inside it; the query
cache, which lives as long as the document. Operations: handlers, effects and their
cleanups, timers, the router's links, the browser's address bar and back button.
Hard: state asked for once per mount (`useState(isActive)`, a memo without
dependencies); callbacks and listeners that close over one rendering; timers that
fire late; drag events of nested elements; a page by number over rows that change; fetches, mutations, retries and unmounts in any order; a chart
made by an effect after the paint.
Correct when: what is on the screen is true of what the visitor did (the pick, the
text, the role, the payment, the account opened); a gate opens only for those who
passed it; nothing typed or dropped is lost unasked; the cache does not forget a
confirmed write; requests and charts are bounded and end.

### 1.15 How they interact

    crawl scheduler -> crawl jobs -> extraction -> fusion -> accounts (raw_signal ...)
          |                                                     |
      lane queues  -- try_promote / budgets -->  qualification, contact decision
                                                                |
    outbox  <-- worker loop (publish in the item's transaction) |
      |                                                         v
      +--> side effects          policy -> suppression -> mailbox -> send -> inbox
                                                                            |
    intake room -> job -> proof pack -> offer -> checkout <-> Stripe -> activation
                                                                       -> workspace

Calls inside a process are synchronous; between processes there are the database
rows, the Redis lists, the outbox and Stripe's webhooks. Each move of an account
along this line is a request to the state machine.

---------------------------------------------------------------------------

## 2. What is modelled

`PROJECT.json` maps every definition to its lines. A definition whose comment
begins "Mutant of" is a plausible error in the definition it names; it is used
by no specification and only serves to show that a property can fail.

| Module | Models | Role |
|---|---|---|
| `AccountStates` | `enums.py`, `can_transition` | states and table, pure data |
| `StaleFunnel` | `StateMachine.transition` seen from outside, requests overtaking each other | abstract specification |
| `AccountFunnel` | the same, one request after the other | abstract specification |
| `AccountLifecycle` | transition requests, sessions, rows, audit log | component |
| `AccountLifecycleProofs` | | proofs |
| `Outbox` | publishers and polling workers | component |
| `OutboxProofs` | | proofs |
| `LaneBudget` | budget row, sessions, promotion, clock | component |
| `LaneBudgetProofs` | | proofs |
| `Billing` | `BillingService` and Stripe | component |
| `Provisioning` | `ProvisioningService` | component |
| `Onboarding` | `Billing` and `Provisioning` together | composition |
| `OnboardingProofs` | | proofs, of `Billing` and `Provisioning` too |
| `Addresses` | people, domains, accounts and how they are written | data |
| `Suppression` | `SuppressionService` | component |
| `Mailboxes` | `MailboxOrchestrator` | component |
| `SafetyPauses` | `SafetyMonitor` | component |
| `SendPath` | those three, `PolicyEngine.evaluate`, `SendWorker` | composition |
| `SendPathProofs` | | proofs |
| `SiteMap`, `Shell` | pages, links, sidebar sections; console layout | data, component |
| `OfferPages`, `TrustRoom` | offer, checkout; the room's agreement | components |
| `SearchBox` | what the pages make of a typed query | data |
| `AccountPages`, `InboxPages`, `DiscoveryPages`, `OpsPages` | the console's pages with state | components |
| `SetupWizard`, `WorkspacePages` | onboarding; the documents' filter and drop zone | components |
| `WebSession` | a visitor among all of these | composition |
| `QueryCache`, `EditForm` | API client, hooks, query client; form | component, composition |
| `DataTable`, `UploadWidget`, `SignalTimeline` | table; uploads; timeline and chart | components |
| `WebLibrary` | the parts no page mounts | composition |
| `WebSessionProofs`, `WebLibraryProofs` | | proofs |
| `LeastElements` | | lemmas that the proofs about sums, folds and bodies of text share |
| `MC...` | | values and symmetry for TLC, where a cfg cannot write them |

### AccountLifecycle

`row` is the committed accounts table, `audit` the committed log, `txn[s]` what a
session has done and not committed. `Begin` is `db.get`, the guard and the
assignments, in one step because nothing is awaited between the read's answer and
the flush. The flush is two steps, `UpdateRow` (waits for the row lock, writes the
values assigned, whatever the row holds by then) and `InsertAudit` (waits for a
transaction with the same key); `DuplicateKey` is the IntegrityError when the key
is already committed. `Commit` makes row and event visible together. `Rollback`
may happen at any point. A refused target (409) and an unknown account (404) leave
no trace and have no step. Abstracted: actor, reason, trace id, timestamps.

### Outbox

`row` is the committed table; `object[w]` the objects of worker w's session, which stay
when they are committed; `dirty[w]` the columns it has flushed and not committed, which
is also what it has locked. `ClaimBatch` is the locking SELECT (oldest pending rows
nobody has locked, at most `BatchSize`) with the assignments and the flush.
`Complete` and `Fail` write to the loaded object, whatever its status, because
`outbox.py:64-77` asks for none: a worker may report on an event a second time, before
or after it committed the first report. `Fail` compares the attempts of the claim.
A commit writes the changed columns (`Updated`); it may come after any flush: callers are
free to commit per batch or per event. `Crash` loses objects and uncommitted writes.
`again` remembers the events that were reported on twice, because the promises are about
the others (section 5). Events are numbered by `created_at`. Abstracted: topics and
payloads; the time stamps and `last_error` are one column "times". A worker polls only
when its session has nothing in work and nothing to commit, and a poll begins a new
session. That two sessions which both repeat reports might lock rows in opposite orders
is seen as two flushes that wait; PostgreSQL would abort one of them.

### LaneBudget

One lane and scope. `table` has a place for the row each session might insert and
one for a row that is there from the start, since the table has no unique key.
`txn[s]` holds the loaded object, the set of columns assigned, and the phase. The
operations up to their flush are `GetBudget`, `SetBudget`, `SetPause`, `Consume`
and `CheckBudget`, each with `get_or_create_budget` in it; with two rows
`scalar_one_or_none` raises and there is no step. `Reset` is `_maybe_reset`: the
day by its date, the hour by elapsed time. A promotion is `CheckBudget`, `Flush`,
`Pop` (or `PopEmpty`), `SpendHeld` (or `SpendRaises`), `Flush`, `Push`, `Commit`; the
second SELECT returns the object the session has. `Commit` writes the assigned
columns only, as SQLAlchemy does. `Tick` advances the clock. `granted` is a
history variable: units handed out at each clock reading, by an answered request
or by a push to Redis. Abstracted: order within a queue, negative counts (no text
says what they mean), other lanes (rows of their own).

### Billing, Provisioning, Onboarding

`Billing` has the service's five fields. `CreateCheckout` has a step when there is
no pending checkout of the account and plan. `ProcessWebhook` keeps the event id
before it looks at the session and sets the status whatever it was. Stripe is
external: it settles a checkout once (`StripeSettles`) and may deliver an issued
event any number of times in any order, with `Copies` event objects per outcome,
events of other types and of sessions the service does not know. `Provision`
returns the existing workspace for an account that has one. `Onboarding` hands it
the tasks of `pending_activations`, which never gets shorter. Abstracted: amounts,
URLs, customer ids, the wording of the email.

### Addresses, Suppression, Mailboxes, SafetyPauses, SendPath

An address is a person and a spelling, because `_make_key` lowers and strips and
nothing else does: `MakeKey` forgets the spelling, the self-domain check of
`allocate` compares it. `Allocation` is the loop of `allocate` as a fold of its turn,
`Give`, over the batch: the mailboxes that can send are listed and ordered once, the
caps are looked at again for each recipient. `used` stands for both counters of a mailbox,
which grow together and are never reset; `health` is a rank, 0 for "cannot send".
A pause is none, held (no end) or timed, and a timed one whose end has passed is
none, which is what `is_paused` makes of it.

`SendPath` has a variable per service, the allocations (`tasks`), the decisions
(`approved`), and two history variables: `stopped`, the people who bounced or
complained and whom no admin readmitted, and `breached`, the scopes whose
thresholds were broken since an operator last acted on them. The repository has no
dispatcher between allocation, decision and send; the only thing that ties them is
the decision id `validate_task` asks for. So `SendPath` lets anything happen
between them: a task is sent any number of times (a retry after an
exception of `send_fn` and a replay are the same step as a first send), bounces and
complaints come late and repeatedly. `Approve` is `evaluate`,
which is handed booleans, with what holds at that moment for pauses, suppression and
health; the DNS check of `engine.py:103` stands with the mailbox's health in one
condition, and the pauses of mailbox and system are the one `system_paused` the rule has.
`Send` does not ask whether the task was approved, because `validate_task` asks for a
decision id only and a denied task has one too. Abstracted: reasons, content, budget tokens (set once), campaign entries
(nobody can look one up).

### WebSession and its pages

`path` is the mounted page. `Load` is a typed address or a reload, `Follow` a link the
mounted page, its last step or the sidebar shows, `HistoryBack` the back button, by which
the router goes to any page the tab's history can hold for this document, also from
before it was reloaded, and keeps the console as it is. Each of them mounts the page it
goes to with its initial state (`PagesMounted`; a page that is not mounted has the values it will be mounted
with, so leaving is forgetting); the console's state stays if both pages are inside
(`KeepShell`), which is why `useState(isActive)` is not asked again. `OnPage` is any
handler of the mounted page; JavaScript runs one handler at a time, so a handler is one
step. What a closure has captured is a field of its own where it can differ from the
state: `wizard.captured` for `addInvite`, the cursor of the composer that is moved by a
later callback.

- `OfferPages`: `now` is what the state says, `elapsed` what the clock says; a browser
  fires the minute's timer up to `Lateness` late. The checkout's inputs are uncontrolled
  and gone when their step is left; its Continue buttons submit nothing.
- `TrustRoom`: box, address as `trim()` sees it, and the click.
- `SearchBox`: for each list and each word that is typed, which rows match; a query is
  a word, a blank, or a word with a blank behind it, because the pages disagree about
  blanks (`FindTrimmed`, `FindUnlessBlank`).
- `AccountPages`: the list and the page of one account keep tables of their own;
  `AccountFound` is the lookup, which leaves an unknown id with "Account not found".
- `InboxPages`: `picked` is what was clicked, `InPane` what is shown. The composer's
  body is a sequence of pieces with a selection. `InsertTag` is the click: the new body,
  the rendering that writes it into the textarea, which moves the caret to its end, and
  the request for a frame. `FrameRuns` is the callback of the frame; typing, selecting and
  more tags may come before it. The fallback of lines 44-47 has no step: a tag's button can
  be clicked only when the textarea is mounted too.
- `DiscoveryPages`, `OpsPages`: filters and searches over the pages' own rows; the
  kill switch is a field of a mounted page and armed again when the page is reopened.
- `SetupWizard`: all six steps; nothing it is told leaves the page.
- `WorkspacePages`: a drag enters a child before it leaves the zone, and both events
  reach the zone's handlers. The documents and the tiles above them are left out.

Abstracted: layout, wording, rows of pages without a handler, the numbers shown, the
order of the pipeline (by score) and of the inbox but for its first thread, which
`Topmost` takes because the pane falls back on it. Rows and texts that a property tells
apart are the code's own constants; tables by id are records, so that the ids are
written without hyphens (`nimbus_security` is the code's `nimbus-security`).

### WebLibrary and its parts

`part` says which of four parts is in use; they share nothing.

- `QueryCache`: one key. `cache` is its entry, `fetch` the request in flight, `write` the
  mutation; data is a version number. `MountQuery` fetches stale data unless a fetch is
  under way; `WriteSucceeds` is `onSuccess` with `invalidateKeys`: it cancels and
  repeats a fetch under way if there is data and a component, otherwise that fetch goes
  on and its answer passes for fresh. `FetchFails` is any error `request` throws, with the
  client's `retry`. `raced` remembers that a success met a fetch it could not cancel.
- `EditForm`: the form saves through that mutation; `guard` is the isDirty its
  `beforeunload` listener has. A success does not reset the form, a link of the router
  asks nothing. `LeaveDocument` takes the cache with it.
- `DataTable`: page by number, rows replaced under it, search and sort. The library
  begins to sort upwards if the first row found has a string in the column, else
  downwards (`FirstSortDir`). The order itself is left out, and so is the library's
  `rowSelection`, because nothing in the table ever selects a row.
- `UploadWidget`: status and progress of the files. No code moves an upload on, so those
  started stay "uploading". Names and React keys, made from the millisecond of the drop
  (two drops in one millisecond share a key), are left out.
- `SignalTimeline`: the filter makes a new option, React paints and runs the wrapper's
  effect later (`due`); the last effect's cleanup comes first. `ObserverCalls` is the
  ResizeObserver. Chart and table are compared as sets of events, the order is left out.
  An unmount and the cleanup of its effect, which React runs a moment later, are one step
  (`UnmountTimeline`): in between, no handler of the component can run.

React, the query, form and table libraries, ECharts and the browser are external and
modelled from what the code asks of them; their definitions are marked so in the map.

---------------------------------------------------------------------------

## 3. The runs

Each passing run is exhaustive for its bounds. Symmetry is used only where no
liveness property is checked and the permuted values are compared for equality
only. CHECK_DEADLOCK is off where the bounds stop the system (a full log, the last
tick) or where a service may rest (no open request, no event).

| Run | Properties | Bounds, and why they are enough |
|---|---|---|
| `lifecycle_race` | TypeOK, AuditedStepsAreLegal, KeyCommitsOnce, RetiredForGood, ImplementsStaleFunnel, EveryRequestEnds | Two sessions, two accounts, one key: a lost update, a wait for a key and the only possible lock cycle need two of each. Three log entries let a third request see the result of a race. |
| `outbox` | TypeOK, ExclusiveClaim, AttemptsAccounted, DeathsStrandOneBatch, SettledForGood, EventuallySettled | Two events and batches of two, which two workers share in every way; two attempts: one that is put back and one that gives up; one death at any point; two reports that repeat another, of one session or of both, so that an event is revived and settled again. A third event multiplies the states tenfold; the theorems have any number. |
| `outbox_lease` (violation) | ClaimsExpire | One event, two workers, one death. |
| `lane_serial` | DayWithinLimit, HourWithinTwice | One session, six ticks with a day of three and an hour of two, so that hours straddle midnight; two pairs of limits, counts one and two, one failure. |
| `lane_shared` | LostOnlyByFailure, SettingsSurvive | Two sessions, two items, one failure, with and without the row at the start; two pairs of limits, one of them lower than the default; a tick that begins a day and an hour at once. |
| `lane_overspend` (violation) | DayWithinLimit | Two sessions, no failures. |
| `billing_replay` (violation) | ChargedOnce | One account, two checkouts. |
| `onboarding` | WorkspaceOncePaid, PaidGetsWorkspace, ActivatedPerEvent, LedgerAgrees | Two accounts, a one-off and a recurring plan, two checkouts (of one account and plan, of one account, of two), two event objects for one outcome, every order and repetition of delivery. |
| `activation_once` (violation) | ActivatedExactlyOnce | One account, one checkout, two event objects of its payment. |
| `send_path` | CapsHold, LeftOverOnlyWhenFull, NoMailAfterStop, BreachStopsApproval | Two people of two domains, each under two spellings; two mailboxes, each of which shares the domain of one person (one of them under another spelling); an hourly cap of one below a daily cap of two, so that a batch of two uses up a mailbox; batches of two and of one, which follow each other in either order, the second on the counters the first left; two mails per task, so that a retry meets a suppression; breaches of one mailbox and of the system. An admin's entries name one person's email and the other's domain. |
| `web_session` | TypeOK, OnlyHistoryStrays, PickIsKept, OpensAsListed, InvitedAsEntered, TagsSpareTheText | Twelve entrances, which with their links reach every page with state; four earlier pages the back button leads to: a dashboard, whose section may be shut by then, an account, the composer and the wizard, which no section has; one section that is opened and closed by hand; an offer of five half minutes with a timer of two that is one late, so that the end falls between two refreshes; bodies of three pieces, with a frame that waits while they change; a wizard with two invitations beside the first row. Pages share no state, so one visitor covers their interleavings. |
| `web_library` | TypeOK, OwnWritesNotForgotten, NoEditLostOnUnload, PageExists, OneChartAtMost, ChartAsTable, FetchesEnd, ChartFits | Three versions (a write, another's, a second write) and every failure; two field values; tables of four, three, one and no rows with pages of two, so that a page disappears; five uploads (three from the start); three widths. |

What they say:

- **AuditedStepsAreLegal, RetiredForGood.** The guard reads without a
  lock, so two requests can lose an update. What survives: each audited step is an
  edge out of a state the account had reached, and a terminal account can be brought
  back only by a request that read it before.
- **KeyCommitsOnce, EveryRequestEnds.** The unique index makes a retry with the
  same key harmless although nothing looks the key up first, and the order
  row-then-key cannot deadlock.
- **ImplementsStaleFunnel.** What a caller can rely on when requests overtake each other:
  a move is legal out of some state the account has been in. `AccountFunnel`, where it is
  legal out of the present one, is refined by one session only, as is proved.
- **ExclusiveClaim, SettledForGood, AttemptsAccounted.** From the SKIP LOCKED of an
  open claim to the status of a committed one there is no gap through which two
  workers could share an event, also when a death rolls one of the two back. The
  three are about events no session has reported on twice: a second report moves a
  completed event back to pending (section 5). Late first reports, in whatever order
  with others' claims and commits, do no harm.
- **DeathsStrandOneBatch.** The price of having no lease: one batch of one worker per
  death, repeated reports or not.
- **EventuallySettled** holds in behaviours without a death (the property says so).
- **DayWithinLimit, HourWithinTwice** hold for one session at a time. The hour
  restarts at the first request after it ran out, so two countings can touch one
  clock hour; the factor two is exact. `failures` is added because a promotion's
  push is not undone by the caller's rollback.
- **LostOnlyByFailure.** Within a promotion the object that was checked is the
  object that is spent, so no other session can make the consume after `rpop`
  raise: an item is lost only by a failure. (With no row at the start a second row
  can make it raise; the property is about lanes that have their row.)
- **SettingsSurvive.** An UPDATE writes assigned columns only, so a spending
  session does not undo a pause or a limit it has not seen.
- **ActivatedPerEvent, LedgerAgrees.** Deliveries may be repeated and reordered
  freely: there are as many tasks as event objects handled. Two event objects of one
  payment give two (`activation_once`), and **WorkspaceOncePaid** shows that provisioning
  absorbs that.
- **PaidGetsWorkspace.** Ids are kept before the session is looked up, so an event
  that is dropped is dropped for good; the property says that no order of
  deliveries loses a payment for a checkout of the service.
- **CapsHold, LeftOverOnlyWhenFull.** The list of mailboxes is made once per batch,
  which the second look at the caps makes harmless; nobody is left over while a
  mailbox could take the mail, also when the first choice has the recipient's
  domain, and a dry run leaves over nobody the real run serves. The reverse is not
  claimed: a dry run does not count its own allocations and promises more than the
  caps allow.
- **NoMailAfterStop.** The recheck in `validate_task` covers what happened after
  the decision, on retries and replays too, and the common key covers spellings.
- **BreachStopsApproval.** A breach turns a timed pause into an untimed one, so
  the clock cannot end the stop; only an operator can, also by a timed pause. The
  property is about decisions: `send` itself looks at no pause.

- **OnlyHistoryStrays.** No link of the console leads into a section the sidebar
  does not show: pages link only within their section, so asking once at the mount is
  enough for links, though nothing in `NavItemRow` says so. It is not enough for the back
  button after a reload (section 5); the property says that nothing else leads astray.
- **InvitedAsEntered, TagsSpareTheText.** Callbacks close over a rendering; whatever
  is typed, chosen, stepped away from and back to, what they act on is what is in the
  inputs. A tag spares what is around the selection, also when the operator typed on or
  took a second tag before the first one's frame: the late callback moves the caret only,
  though perhaps away from where he was.
- **PickIsKept, OpensAsListed.** Narrowing and widening keeps the pick, and the pane
  shows a listed thread if there is one; the two tables of accounts agree on every row
  that can be clicked.
- **OwnWritesNotForgotten, FetchesEnd.** One race is excepted
  by name: a success that meets a fetch it cannot cancel. Without it, what was
  confirmed is shown, being fetched or marked.
- **NoEditLostOnUnload** is about unloading only; `FollowLink` loses edits unasked.
- **PageExists.** Whatever is searched, sorted, paged and refetched, the page shown is
  one the table has.
- **OneChartAtMost, ChartAsTable, ChartFits.** The cleanup is complete for every order
  of filters, effects and unmounts; the memo has the dependency it needs; a chart made
  before, during or after a resize fits in the end, or is gone.

Fairness. `AccountLifecycle`: strong fairness of the two statements that wait
for a lock, because PostgreSQL queues lock waiters, weak fairness of commit; no
fairness of requests or rollbacks. `Outbox`: each worker polls for ever, reports
each claimed event one way or the other and commits (weak fairness of each); no
side effect is owed success, publishers owe nothing. `Onboarding`: Stripe delivers
each issued event at least once, which is its documented contract and what the
duplicate check in `process_webhook` presupposes, and the worker keeps going
through its list. `WebLibrary`: the server answers a request that is under way, with
data or an error (`ServerReads`, `AnswerArrives`; a lost connection is an error to
`fetch`), and a browser calls the observer of an element that changed; visitors owe
nothing, and the retries need no fairness of their own, because each failure is a step
towards the last. Other specifications have no fairness and no liveness property.

The honest countdown, the confirmation, the agreement of the trust room, the
highlight of the drop zone, the bound of three requests, the order of the funnel, and the
type invariants of `LaneBudget`, `Onboarding` and `SendPath` are invariants that TLC found
to hold at these bounds, too; being proved for all values (section 4), they are in no cfg.

Every property of a passing run has a mutant in `PROJECT.json` under which TLC
finds it violated in the run's own configuration.

---------------------------------------------------------------------------

## 4. The proofs

For all values of the constants; TLAPS checks them to the last leaf. Every invariant
and every action property of the passing runs but one is stated by a theorem (the type
invariant of `WebLibrary` as a whole is only checked), and so are the refinements. `PROJECT.json` lists the theorems; the lemmas they rest on are in the same
modules.

Assumptions are the named ASSUMEs of the modules, which TLC evaluates in the runs. Most
say that a bound is a number or that two model values differ. The others:

- `BillingAssumption`: Stripe makes finitely many event objects of one outcome.
- `TableAssumption`: a page has a row at least, and the data are sequences.
- `InboxAssumption`, `WizardAssumption`: the sets and bounds have room for what the pages
  are mounted with (the filter "All", the snooze of three days, a body of one piece, one
  invitation).
- `OneSessionKeepsDays` and `OneSessionKeepsHours` assume a single session. It is the
  hypothesis of the properties themselves: with two sessions `lane_overspend` violates the
  first. Within it, clock, items, limits and failures are arbitrary.

Three things recur in the proofs. A property is seldom inductive; the invariant that is
names what else must hold, and is given below. A recursive function (a sum over a set, a
fold over a sequence) cannot be reasoned about by an induction
theorem of the library, which would take an operator as parameter; `LeastElements` says
instead that a finite set, or a number, at which something fails has a least one, and
the proof refutes that one. And a composition is proved about component by component:
one lemma reduces its steps to those of the component and to what leaves it alone.

**AccountLifecycleProofs.** `TypeCorrect`: the type invariant is inductive.
`StepsAreLegal`: not inductive alone, because an open transaction carries a state
that may no longer be the row's. `LegalInv` adds that every row's state, and every
open transaction's old state, is one the account has reached by the log
(`RowsReached`, `TxnsLegal`); the log only grows, so reached states stay reached
(`ReachedGrows`). `KeysCommitOnce`: `KeyInv` adds that the key of a flushed
transaction is not in the log and is held by no other. `FunnelIsOrdered` needs no
induction: each stage has one way in (`OneWayIn`), so the order follows from legal
audited steps; no run repeats it. `RetiredStaysRetired` follows step by step from the type invariant,
since a terminal state has no way out. `ServiceIsTheStaleFunnel`, for any number of
sessions: `LegalInv` gives each commit a state reached from which its move is legal.
`SerialServiceIsTheFunnel`: with at most
one session the invariant `FreshRead` says that an open transaction's old state is
still the row's; then `Begin`, the flush and a rollback map to stutters and
`Commit` to `Move`.

**OutboxProofs.** `Inv` ties a worker's object and the columns it has written to the
committed row. Of every event, however often it is reported on, it says that one worker
has it locked (`Locks`) and which columns are written in which state of the object
(`Objects`). Of an event that is reported on once it says (`HandsMatch`): either the
claim is uncommitted, the row is pending, and the object is one attempt ahead; or the row
is claimed by this worker with the object's attempts, and what the worker then writes is
the status and not the attempts. An object whose report is committed writes no more unless
the session reports again. With `InsertsAreNew` and the exclusive claim itself it is
inductive. `ClaimsAreExclusive`, `AttemptsAreAccounted` and `SettledIsForGood` follow.
`DeathsStrandOneBatchEach` counts, for all events: a worker never has more than a batch
in hand, and only a death adds to the stranded events, no more than its worker had in
hand and all of them that worker's.

**LaneBudgetProofs.** `Inv` says of each open session (`ObjectsSound`) that one which
has assigned a limit or the pause spends nothing (`Clean`), and that an object which
passed the check before `rpop` still has a unit to spend, whatever the row holds by now
(`Solvent`). So the consume after the pop does not raise for want of budget; nor for a
second row, if the lane had its row from the start (`SeedRow`). `OnlyFailuresLose`
(`Losses`) and, step by step, `SettingsOnlyByOperators` follow. For one session, `SerialInv` compares
three things that run apart, the counters in the row, those in the session's object and
the units handed out (`Books`): the counters account for what was handed out since their
reset, pending units and failures included (`Fits`), and what was handed out in any day
or hour stays within a limit (`Within`); `OneSessionKeepsDays` and `OneSessionKeepsHours`
are this last part. The factor two is two countings of `hourly_used` that touch one hour
of the clock. Both speak of the greatest limit the lane is ever given, so they say something for
finitely many limits only.

**OnboardingProofs.** `OnboardingIsBilling`: provisioning only reads the tasks, so the
composition implements billing alone, and what is proved of `Billing` holds of it.
`ServiceAgreesWithStripe` and `TasksMatchEvents`: `BillingInv` says that only issued
events are processed, that every task belongs to a processed completion of a paid
checkout (`TasksPaid`), and that the tasks of a checkout are as many as its processed
event objects (`TasksCounted`). `OneWorkspacePaid`: `Inv` adds that
workspaces and emails go together, one for an account (`OneEach`), each for an account
and a plan that a task names (`PaidFor`).

**SendPathProofs.** `StoppedGetNoMail`: the property speaks of people, the guard of
entries; `StopInv` says that a stopped person's key is among the entries.
`BreachesStopApprovals`: `BreachInv` says that a standing breach has an untimed
pause, which the clock does not end. `CapsAlwaysHold`: `CapInv` says that a mailbox's
counter is the number of tasks it was given; the turns of `allocate` are followed
through the batch by the fold's function of positions, each turn shown to count one task
on one mailbox that had room. `LeftOverFindFull`: counters only grow within a batch, so a
mailbox that was full at a recipient's turn is full at the end; and a dry run, whose
counters stand still, has room wherever the real run has.

**WebSessionProofs.** `StepsBesidePages`: a step that is not done on a page mounts
every page anew or leaves all alone. For each page a lemma then reduces a step of the
session to three cases (a step of the page, a mount, nothing), and the invariant is
shown for these; `TypeCorrect` is the conjunction for all pages and the console.
`CountdownIsHonest` needs that the state never runs ahead of the clock
and no further behind than the timer may; `CheckoutConfirms` that an order is placed
only by the step that shows it; `InvitesAreEntered` that the closure is never behind
the inputs (`WizardInv`), which is what the dependencies of `addInvite` are for.
`PicksAreKept` that what is selected is what was picked (`PickInv`). `TagsSpare`: the
closure has the body of the last rendering and the selection is inside it (`ComposeInv`),
before and after a frame, so that text before and after the selection survives, for a body
of any length.
`AccountsOpenAsListed`: an opened account has a row in both tables (`DetailInv`), which
agree row by row. `NoLinkStrays`: an active section is shown, was closed by hand, or was
shut when the back button led into it; following links keeps that, case by case over
the site map, because no link leads into a section that is not shown.

**WebLibraryProofs.** `WritesAreKept`: the property is about the cache at rest;
`CacheInv` adds that a fetch that has read, unless it raced, read no version before the
last confirmed one, and that a write's version is never ahead of the server.
`ThreeRequestsAtMost`: one request per failure and one more. `UnloadsAsk`: the
listener's isDirty is the form's. `OneChartOnly`: there is no chart, or one whole chart
on a mounted timeline, so a cleanup leaves nothing (`NothingIsLeft`); `ChartShowsTable`:
and its option is the one of the filter (`ChartInv`). `PagesExist`
(`TableInv`): whatever changes the rows also goes back to the first page, and the next
page is reached only if it is there.

---------------------------------------------------------------------------

## 5. Where the code and its documents disagree

| Run | What the repository says | What the code does |
|---|---|---|
| `outbox_lease` | `backlog/INCREMENT-1-FOUNDATION.md:212`: "claims outbox rows with a lease and retries safely" | Nothing returns a claimed row to pending. |
| `lane_overspend` | `services/lanes.py:59`: consume raises if limits are hit | Two sessions write used values read before each other's; more than the limit is handed out. |
| `activation_once` | `backlog/INCREMENT-7-PROOF-PAYMENT.md:142`: a paid checkout "emits an activation task exactly once" | Only event ids are compared; a second event object of the same payment emits a second task. |
| `billing_replay` | `backlog/INCREMENT-1-FOUNDATION.md:207`: a replay makes no duplicate charges | A replay after the payment opens a second checkout that can be paid. |

Some need no run:

- `tests/test_state_machine.py:27-35`: blocked and suppressed are terminal. Of two
  concurrent requests on one account the later commit writes its target over `blocked`;
  `version` is not compared. `RetiredForGood` says what remains.
- `db/models/lanes.py:30`: "one budget row per lane+scope combination". Two first uses
  insert a row each, and the lane then raises for good; `LaneBudget` has these steps.
- `services/outbox.py:64-77`: `complete` and `fail` look at no status. A session that
  reports on an event a second time takes a completed event back to pending, or a dead
  one to completed. No text forbids it and no caller is written yet; what the outbox
  promises, but for the stranded events, it promises of events reported on once.
- `components/shell/sidebar.tsx:18`: a section asks once whether it is active. Load a
  page, open another section, follow a link there, reload, and go back: the section of
  the page is shut (`OnlyHistoryStrays` says what is left).
- Two files dropped in one millisecond share an id and a React key
  (`components/trust-room/upload-widget.tsx:114`).
- "Go to Dashboard" (`app/checkout/[offerId]/page.tsx:394`, and the wizard's last step)
  leads to `/app`, and the offer's terms to `/terms`; neither has a page (`SiteMap`).
- The offer is renewed by each visit: its end is counted from the mount, not from
  when the offer was made, and the checkout does not look at it.
- The inbox, the change log, the sources and the pipeline disagree about blanks: the
  inbox tests the trimmed query and looks up the untrimmed one.
- The kill switch (`app/app/outreach/budgets/page.tsx:44`) is the state of a mounted
  page and armed again when the page is reopened.
- The snooze menu of `thread-detail.tsx` keeps its choice when another thread is shown.
- A form that was saved stays dirty (`lib/forms.tsx`), and a link of the router drops
  an edit unasked.
- Two equal invitations or policy names share a React key
  (`app/app/onboarding/page.tsx`:214, 376).
- `README.md:35` lists `snoozed` among the terminal states, `db/models/enums.py:63`
  gives it ways out. The modules follow the table.
- `backlog/INCREMENT-1-FOUNDATION.md:207` and `backlog/INCREMENT-9`:225 promise
  replays without duplicate sends; `send` does not remember task ids, and
  `SendPath` lets a task be mailed again until a suppression stops it.
- `backlog/INCREMENT-6`:169 asks for suppression by campaign; `add` takes such an
  entry, `validate_task` does not pass the campaign to `is_suppressed`.
- A dry run of `allocate` can promise recipients beyond the caps.

---------------------------------------------------------------------------

## 6. Limits

Only model-checked: liveness. `EveryRequestEnds`, `EventuallySettled`,
`PaidGetsWorkspace`, `FetchesEnd` and `ChartFits` hold under fairness, about which TLAPS
proves nothing (it would have to reason about ENABLED). The four disagreements of
section 5 with a run are counterexamples TLC found. Not proved either is that the bounds in the
guards lose nothing: the theorems are about the bounded counters, for every bound.

Assumed of the environment: PostgreSQL at READ COMMITTED with row locks, unique
indexes and SKIP LOCKED as documented; SQLAlchemy writes assigned columns and does
not refresh loaded objects; `expire_on_commit` does not matter because a request
ends with its commit, except for `Outbox`, where a worker keeps its claimed
objects over a commit (`db/session.py` turns expiry off).

Not modelled, as `PROJECT.json` lists with reasons: planned components (section
7); functions over text and floating-point scores (signal extraction, fusion,
decay, ICP, urgency, deal value, composer) that have no state or concurrency;
network I/O; and the web application's static pages and widgets (decision
trace, feature inspector, competitor widget, source health, queues, engagement,
analytics, learning, most settings, proof pages, workspace home and health), which
render constants and have neither state nor handler. Of the web pages that are
modelled, styling and rows without a handler are left out.

Hazards of code without a module yet, beyond those `PROJECT.json` lists:
`state_machine.py:47` (`version` counts from a stale read), `outbox.py:64` (a side effect
done and its completion rolled back), `routers/lanes.py:67` (negative counts),
`lanes.py:40` (two first uses), `replay_tools.py:64` (a replay runs done and paused jobs
again), `send_worker.py:79` (a pause after the decision), `ingest.py:95` (a reply before
its mail is registered), `job_runner.py:36` and `:82` (a key that is a number of files;
retries past the maximum), `dedupe.py:51` and `scheduler.py:63` (crawl budgets and records
without a lock), `throughput_controls.py:92` (slots that leak), `account_memory.py:87`
(a reactivation that is not recorded), `model_rollback.py:32` (two active versions),
`retention_agent.py:36` (a monthly maximum nobody reads).

---------------------------------------------------------------------------

## 7. Plan

Done: the account state machine with its abstraction, the outbox, lane budgets, billing,
provisioning and their composition, the send path, and the web application, each with
proofs of the invariants and action properties that its runs check. The services came
first because every other part moves accounts, spends a budget or hands work over
through them.

Next, in this order:

1. Replay in `SendPath`: the job store and paused queues of `replay_tools.py`.
2. `WorkerLoop`: pop, transaction, outbox publish, stop; composed with `Outbox` as
   the implementation of an abstract `WorkQueue` (deliver, settle, redeliver only
   after a failure).
3. `IntakeFulfillment`: rooms, uploads, jobs keyed by the number of files, retries.
4. `CrawlSchedule` and `ThroughputGovernor`: emission against success and failure
   records, domain budgets, slots.
5. `Inbox`: threads under reordered and repeated mail.
6. `ContactMemory`: account memory, contact decision, conflict detector.
7. `ModelRegistry`, `Retention`, and the pure algorithms (offers, guardrails, CTA and
   contact decision chains, decay, fusion's merging, proof packs) as operators
   checked against reference definitions over bounded inputs.
8. An atomic rate limiter that serial `LaneBudget` implements, as `AccountFunnel`
   is for the state machine.

Proofs to add: the refinement of item 8 once it is stated; that two sessions exceed the
day's limit by no more than what both read (a bound for `lane_overspend`); `Provisioning`
as an implementation of "one workspace per paying account"; the type invariant of
`WebLibrary` as a whole. The
modules use no RECURSIVE operator, so that all of them can be proved about.

Bounds of later runs: two of each actor, one failure, and capacities of one or
two, so that a limit is reached and passed; questions about one component share
one run where their bounds allow.
