# Verification of the Voidstation app

Voidstation is one owner's control page for a home server: a Next.js
application behind a LAN certificate, an assistant worker that runs a language
model with media and web tools, and host scripts. This directory holds TLA+
modules of the parts with state worth checking, the TLC instances that check
them, and TLAPS proofs of most of their safety for every value of the constants.

Paths below are relative to the repository. `PROJECT.json` maps each definition
to the lines it models.

    tlc -workers 2 -config MCAssistantWorker.cfg MCAssistantWorker
    tlapm AssistantWorkerProofs.tla

## 1. The system

| Component | State | Operations | Talks to |
|---|---|---|---|
| Conversation store, `worker/src/store.ts` | SQLite: `conversations`, `turns`, `messages`, `tool_calls`, `media_results`, `timeline_items`, `deletions`, `assistant_settings`; transcript files in `transcripts/` and `.deleting/` | open (migrate, replay deletions, interrupt turns), create, start and finish a turn, delete, save evidence, read | worker (calls), Pi (transcript files) |
| Assistant worker, `worker/src/server.ts`, `pi.ts` | `activeTurns`, provider `gates`, `stopping`, turn and exit timers, event streams | submit a turn, delete, run a turn, time out, shut down, snapshots | store, Pi sessions, proxy (HTTP) |
| Owner authentication, `src/lib/auth-store.ts` | SQLite: `owner_account`, `owner_session`, `login_attempt`, shared by processes | log in, validate, log out, bootstrap, recover | login and logout routes, `proxy.ts`, `scripts/owner.ts` |
| Assistant proxy, `src/lib/assistant-worker.ts` | one forwarded stream per client, with a session re-check timer | forward, re-check, close | worker, authentication |
| Assistant client, `src/components/assistant.tsx`, `assistant-thread.ts` | selected conversation, its detail, drafts, requests in flight | select, create, send, delete, apply snapshots | proxy |
| Host metrics, `src/lib/host-metrics.ts`, `scripts/host/voidstation-host-status.py` | the previous CPU sample, shared by requests; the status file a root helper writes | read all metrics | `/proc`, `smartctl`, `apt` |
| Metrics client, `src/components/server-metrics.tsx`, `cpu-history.tsx` | last readings, one poller with timeout and a pending refresh; the CPU's history with its gaps | poll, hide, show | metrics route |
| Download feed, `worker/src/downloads.ts`, `src/components/download-queue.tsx` | a cache with one in-flight collection; the page's poller | collect, project, poll | Sonarr, Radarr |
| Media and web tools, `worker/src/media.ts`, `web-fetch.ts`, `web-search.ts` | a child process or a redirect chain per call | run, limit, time out, abort | Python clients, the internet |
| Certificates, `scripts/host/voidstation-renew-certificate.sh`, `scripts/lan-certificates.py` | certificate, key, restart-pending marker, lock; CA, pinned address, bundles, the installed directory | renew, restart; issue, install | HTTPS server, preflight |
| Host ingress, `scripts/host/voidstation-ingress.sh` | three firewall chains | apply, migrate, check | kernel, Docker |
| Deployment checks, `scripts/docker-up.sh`, `deployment-preflight.mjs`, `worker-runtime-inspect.mjs` | none of their own: every command reads configuration, tags, containers and ports anew | update the deployment | Docker, the host |
| UI kit | none | presentation | - |

How they interact: the browser calls the Next.js server, which checks the
session on every request (`proxy.ts`, `auth-http.ts`) and forwards assistant
calls to the worker. The worker is one event loop; it alone opens
`conversations.sqlite`. The authentication database is opened by every server
process and by the owner command at the same time. The host scripts and the
containers meet in files (certificates, the status file) and in the kernel's
chains; an update reads all of them.

What is hard:

- *await points*: a submission looks for an active turn, awaits the credential
  check, and only then inserts the turn. A login reads the account, derives a
  hash for tens of milliseconds, and then creates a session.
- *tasks that outlive their turn*: a timed-out Pi session may still be writing
  its transcript when its turn already shows a failure.
- *two stores*: deleting a conversation spans a database and a file; the
  process may die, or an operation fail, between any two steps.
- *statements outside transactions*: a record and its place on the timeline.
- *answers out of order*: a page has requests, an event stream and a reconnect
  check under way for conversations that may no longer be the one selected.
- *timers*: turn timeout, forced exit, shutdown deadline, provider cooldown,
  rate-limit window, session expiry, session re-check, polling, fetch timeouts.
- *scripts without transactions*: a certificate run, a firewall run or an update
  is a sequence of commands, each of which may fail or be the last.

What makes each component correct:

- store: one running turn per conversation, the newest; outcomes are final;
  deleting leaves nothing and an abandoned deletion loses nothing; a restart
  finishes what was begun; every record has one place in the conversation.
- worker: rows and tasks agree; one Pi session per transcript; nothing with a
  task is deleted; every turn ends and no conversation stays locked.
- authentication: bounded attempts per window; sessions only for the current
  password; bounded sessions; dead tokens stay dead.
- proxy and client: a late answer never lands in another conversation, no typed
  message is lost, and a page left alone shows what is saved; a stream outlives
  its session by at most one re-check.
- metrics and downloads: nothing is shown as fresher than it is; a CPU reading
  covers a time, and no line of its history crosses a gap; a resumed page
  refreshes; services are asked once per window, and a failure is not kept.
- tools: a call settles once and leaves no process behind; no connection to a
  private address, and nothing after the deadline.
- certificates and ingress: after an interruption anywhere the next certificate
  run recovers, and the Dashboard serves the pair that is installed; no step opens
  the firewall, an interrupted run's included, although a chain that one left
  partial is refused by later runs until it is removed or the machine restarts.
- deployment: what runs after an update was audited, and is as the preflight
  requires, although everything may change between a check and its use.

The hazards, each at its line, are in `PROJECT.json`.

## 2. The modules

| Module | What it is |
|---|---|
| `ConversationLedger` | abstract specification: what clients may rely on about conversations and their turns, with no files, crashes or half-done steps |
| `ConversationStore` | `store.ts`: conversations, turns, deletions and transcript files, step by step |
| `AssistantWorker` | `server.ts`, extends the store: submissions, tasks, timers, gates, shutdown |
| `ConversationTimeline` | the evidence tables, their backfill, Pi's session events and the thread a client shows |
| `AssistantPage` | `assistant.tsx` with the proxy and the worker's event stream: what one page shows of two conversations |
| `AssistantSettings` | the provider and the model: the settings row, the worker's selection over its builds, and the dialogs of several pages |
| `AuthStore` | `auth-store.ts` |
| `MetricsFeed` | `host-metrics.ts` and `server-metrics.tsx`: readings from their sources to the page |
| `CpuHistory` | `cpu-history.tsx`: the CPU's readings kept by a page, and which of them a line joins |
| `DownloadFeed`, `DownloadProjection` | `downloads.ts` and `download-queue.tsx`: the cache and its readers; the projection of a queue as operators |
| `MediaTools`, `WebTools` | `media.ts`; `web.ts`, `web-search.ts`, `web-fetch.ts` |
| `Certificates`, `LanCertificates` | `voidstation-renew-certificate.sh` with `https-server.mjs`; `lan-certificates.py` |
| `HostStatus` | `voidstation-host-status.py` and its reader |
| `Ingress` | `voidstation-ingress.sh` |
| `Deployment` | `docker-up.sh`, `deployment-preflight.mjs`, `worker-runtime-inspect.mjs` |
| `HostServices`, `HostUpgrade`, `Dashboard` | parts checked side by side (below) |
| `MC*` | the instances for TLC |
| `ConversationStoreProofs`, `AssistantWorkerProofs`, `ConversationTimelineProofs`, `AssistantPageProofs`, `AuthStoreProofs` | theorems about the module of that name |
| `HostServicesProofs`, `HostUpgradeProofs`, `DashboardProofs` | theorems about the parts of that composition, and about the whole |

`HostServices`, `HostUpgrade` and `Dashboard` put parts that share no state
into one instance. Interleaving them would multiply states and show nothing:
each behaviour is one part's, the variable `part` says whose, and the others
keep their initial state.

### ConversationStore

`rows`, `turns` and `deletions` are the tables (a conversation's turns as the
sequence of their statuses); `transcript` and `trash` are the two directories;
`mode`, `step` and `target` are the process and its position in
`deleteConversation`. SQLite calls are synchronous, so no other method runs
inside one, but the process can die there: `deleteConversation` and the
constructor's replay are one action per transaction or file operation, and every
other method, being one transaction, is one action. `StepFails` is an operation
that throws: the rename's handler withdraws the deletion, any other failure ends
the method where it stands (and the process, in the constructor). `Crash` may
strike anywhere, `Stop` between methods. `WriteTranscript` is Pi's write, which
the store does not control; it states the contract the worker has to keep.

`ImplementsLedger` is the refinement: with `presence <- rows` and
`history <- turns`, the rows behave as the ledger.

### AssistantWorker

`requests[r]` is a submission waiting for its credential check, `tasks` is
`activeTurns`, `gates` the provider gates, `credentials` what the check would
answer, and `life` tells running from the synchronous part of `shutdown`
("settling") and its wait ("draining"). A stretch of code between two awaits is
one action: `SubmitTurn` up to the await and `SubmitRefused`, `SubmitRejected`
or `TurnStarts` after it; `SessionOpens`, `ReplyCompletes`, `ReplyFails` and
`AbortCompletes` for `runTurn`; `TurnTimesOut` and `ForceExit` for its timers.
Requests, gates and tasks are memory and are lost when the process ends.

`ImplementsStore` is the second refinement: hiding the worker's own variables,
every step is one of the store's.

### ConversationTimeline

One conversation, whose single task is `AssistantWorker`'s `OneWriter`. Random
ids are numbered in the order in which they are drawn, which is also the order of
each table's rows (of parallel tool calls, whose rows come in the order of their
ends, nothing reads it). `record[id]` is the row of an id, `entry[id]` the position
of its timeline entry; `unlisted` is a row whose entry is not inserted yet. `Init`
ranges over every database of the version before the timeline with at most
`MaxLegacy` turns of at most one tool call, one media result and two replies; each
such turn has five ids of its own, used or not. The backfill's nested loops are
the order `Sooner` of the rows' `Place`s: beside which message, before or
after it, tool calls before media results, then by row; a row's position is its rank.
`Thread` and `ShownBefore` are the composition of `getDetail`, the worker's
`detail` (streamed message) and the page's `conversationEntries`.

### AssistantPage

One page, its requests (a bounded number of slots, each a GET, POST or DELETE
that is sent, served and applied in separate steps, so that answers arrive in any
order), the proxy's forwarded event stream, and the worker as its saved
conversations. A message is the conversation it was typed in, and a
conversation's version counts its turns' starts and ends (odd while one runs):
that is all the properties tell apart. A handler, the React commit it causes and
the effects of that commit are one action. A confirmation dialog is one step with
the click it confirms, and the delay before a reconnection is part of
"connecting". The request of `verifyReconnect` is sent, served and applied in steps
of its own (`Failed`, `ServeCheck`, `CheckAnswered`, or `CheckLost`), one at a time.
`MaxEvents` bounds clicks, reloads, other devices' calls and failures together, and
so it bounds the requests that are lost. A conversation is created while there are
ids left, and a listing that a 404 asks for fails at once when there is no slot for
it. The order of the list of conversations is left open.

`Converges` says that the page settles again and again. An event source that was
refused has closed for good and brings nothing more; the page then counts as settled only
by what its check said after that (`verdict`, history): that the conversation was there,
or nothing (503). A check that finds the conversation deleted (404) or the session
ended (401) must take the page to another conversation or away. A conversation that is
deleted after its last check stays on such a page, as in the code.

### AssistantSettings

`offered` is what the worker's current build can use (a restart may bring
another), `selection` what it would use, `row` the table's one row with the last
model of either provider. A PUT selects first and writes then, so that a row that
cannot be written leaves a selection nobody confirmed (`unsaved`), until a restart
reads the older row. A dialog's requests are sent, served and answered in separate
steps, and another device may save in between. The search of models and the
provider's configured flag are left out.

### AuthStore

Each BEGIN IMMEDIATE transaction is one action. A login is three actions
(reservation, account read, commit), an owner command two, because deriving a
hash takes time and other processes act meanwhile. `KeptAtLimit` is the
LIMIT/OFFSET query of `createSession`, which keeps the oldest sessions.
`issued` and `reserved` are history variables.

### MetricsFeed, DownloadFeed, DownloadProjection

A sample of the CPU's counters is the time it was taken: what matters is which
two samples a reading is the difference of, and whether time lies between them.
Idle counters, sizes, titles and times left are not modelled; `ram` stands for all
other readings, which fail one by one. An aborted fetch rejects in a step of its
own (`Unwinds`, `FetchRejects`), which is where the page's pollers are delicate;
a time-out during that step counts as a failure, as in the code. Two collections
that overlap can put back the older of their CPU samples; the next reading is then
over a longer time, never over none. `reads` counts the reads of each service that are under
way, so that `UpstreamIsSpared` sees two collections at once (which `inflight`, one
at most, cannot show): a read begins only when no read of the service is under way
and the cache time has passed since a collection ended.

`CpuHistory` keeps what the page keeps: samples with their times, and a flag that
the next one starts a new line. Whether the line breaks is decided when a reading
is seen, while samples are discarded later, by age, by number and by the page's
clock. The reading's time is the Server's: where that clock is ahead by `offset`, a
sample of the future is discarded and takes its break with it, so that the next one
is joined across the gap although the chart says that gaps mark missing
observations. `HistoryInv` therefore promises unbroken gaps for a Server whose clock is
not ahead.

`DownloadProjection` reads a queue record by record and computes its card, which
`QueueIsHonest` compares with what it should be: items of different names that the
proxy accepts, trouble before the rest, and how many are said to be left out. A name
is a short sequence of numbers: a number or text, `item-<n>`, or the last resort
`item-<n>-<m>`. The worker gives the last resort without looking whether it is in
use, and a download may be called so: with downloads `item-2` and `item-2-2` before a
third of which all candidates are used, two items get one name and the proxy
discards the queue. No client names its downloads so, no document promises anything
about it, and `QueueIsHonest` exempts a download that is named like a last resort;
all other names are covered (`Lookalike`).

### MediaTools, WebTools

A call of a media tool is its sequence of Python processes; a process's output,
exit, error, time-out and abort arrive in any order, and `stage` is where the
promise stands. What the clients answer is a small set of outcomes. A page read
is its chain of redirects: addresses resolve anew at each hop, so that a name may
change its meaning between two; sizes are small numbers against `MaxSize`. Text
extraction and search results are left out.

### Certificates, LanCertificates

A pair is the number of its issue, so that certificate and key match when their
numbers do. `tailscale cert` may return the newest pair again; a failing command
is an interruption. Each command of a run is one action, between which the run
may be interrupted, the Dashboard may start (reading one file and then the other)
or stop, and time may age the newest pair. Provisioning before the cutover, when
no marker is kept, is exempt from `ServesWhatIsInstalled` (`uncut`).

On the laptop, one issue at a time per state directory; on the Server, one
install at a time, which copies file by file from a directory that may change
under it. The expiry of a leaf is not modelled. A kill between the CA's creation
and its pin leaves a CA that no later issue accepts, as the code intends: it
stops and asks for the owner.

### HostStatus, Ingress, Deployment

`HostStatus`: one number stands for all of a drive's readings and drives stand
for the whole report; the clock may be set back or forward.

`Ingress`: a rule is one of four kinds, and what the script distinguishes by
text, it distinguishes here by kind. `Rules` is the length of the `VOIDSTATION`
chain, `next[r]` the command a run has come to. Two runs that overlap can insert
the hook twice, after which every later run refuses to touch the chains; the
policy is nevertheless in force.

`Deployment`: what compose.yaml and .env say of a service, and Docker of its
container, is one of {"fit", "moved", "unfit"} for each kind of setting the preflight
validates separately. Two programs never listen at one endpoint. `ready`
stands for all other checks of the host; `stale` and `blocked` are history
variables. `MaxChanges` bounds what everybody else does during the updates. The
probe of a path succeeds when the Dashboard's own running container publishes it.

## 3. The runs

| Run | Instance | Distinct states | Shows |
|---|---|---|---|
| `store` | 2 conversations, 2 turns, 2 faults | 76,967 | deletion, outcomes, recovery, ledger |
| `worker` | 2 conversations, 2 submissions, 2 turns, 1 crash | 827,656 (with symmetry) | tasks, rows and files agree at every await; store contract kept |
| `worker_live` | 2 conversations, 1 submission, 1 crash | 77,548 | turns end, conversations are unlocked |
| `page` | 2 conversations, versions to 2, 2 requests, 2 events | 570,533 | answers reach their own conversation, messages are kept, the page settles on what is saved |
| `auth` | 2 logins, 1 command, 3 tokens, limits of 2, clock to 4 | 729,265 (with symmetry) | limiter, sessions, tokens |
| `dashboard` | 1 page with 2 collections; a history of 2 samples over 6 ticks, the Server's clock behind, level or ahead; 1 card and 2 services; queues of up to 3 records, one download named `item-1` | 466,897 | freshness, gaps of the history, refresh after resuming, services spared, failures not kept, projection |
| `host` | 1 media call; 1 page read over 2 redirects; 2 certificate runners, 2 issues, 2 faults; 2 drives | 92,031 | tools settle, the installed pair is served, interrupted runs are repaired |
| `upgrade` | old databases of up to 2 turns, 3 turns in all, 4 new ids, 1 crash; 2 laptops; 2 ingress runs; 1 update with 2 changes; 2 worker builds, 1 settings dialog with 2 requests | 934,777 | timeline and its backfill, LAN bundles, firewall, deployment, selected model |
| `worker_slow_auth` | violation | - | finding 1 |
| `worker_gate` | violation | - | finding 2 |
| `timeline_crash` | violation | - | finding 3 |
| `page_reconnect` | violation | - | finding 4 |

Deadlock is reported in `store`, `worker`, `worker_live`, `auth` and `upgrade`,
where something can always happen: a process that has stopped can be started, a
machine rebooted. It is not in `page`, where an owner may stop clicking, nor in
`dashboard` and `host`, where a part has nothing left to do once its calls have
settled or its bounded clock has run out.

Why the bounds are enough. Two conversations suffice for the store and the
worker because no property relates more than one conversation at a time; the
second one shows that what happens to one leaves the other alone. Two turns give a
finished turn next to a running one. Two faults give a crash inside the recovery
from a failure or a crash. Two submissions are what the race across the
credential check takes. Three tokens exceed the session limit of two, and a
clock of four ticks runs past one rate-limit window and one session lifetime of
two. On the page, two requests are what it takes for answers to arrive in the
wrong order, and two events (say a selection and a lost connection) to interrupt
them. Two old turns are what it takes for the backfill to mix turns, four new ids give
a turn a question, a streamed message and two tool calls at once; two laptops
are needed for a bundle of another CA, two changes for an edit after each of two
checks, two builds for a restart that no longer offers what was selected. Six ticks
run past a history of three, a third reading exceeds its limit of two, and a third
record exceeds the queue's limit of two. Most of the safety does not rest on
bounds at all: it is proved (section 5).

### Fairness

Store and worker (`StoreFairness`, `WorkerFairness`), weak fairness only:

- `Open`: the container's restart policy starts a worker that is down;
- `RecoverDeletion`, `DeleteStep`, `InterruptRunningTurns`, `ShutdownSettles`,
  `ShutdownWaits`: synchronous code that nothing can interrupt but a fault;
- the resumption of a submission: `checkAuth` answers or throws;
- `TurnTimesOut`, `ForceExit`: timers of the event loop;
- `ShutdownEnds`: the shutdown deadline.

Pi is trusted with nothing: its sessions need not open, its replies need not
end, aborting need not return. Faults are finite (`MaxFaults`), as a leads-to
past a restart needs. Operator actions, signals and requests are not fair.

Page (`Fairness`): a request is answered (the proxy times it out) and its
answer applied, the check of a reconnection (`ServeCheck`, `CheckAnswered`) included;
the stream's connection attempt ends; the worker writes to its
clients, and what it writes arrives again and again if it is sent again and again
(strong, as the stream may be cut in between). `ReturningSpec`, for finding 4
alone, adds that a worker that is down returns.

Dashboard: a collection reads its sources and answers; the page's timer fires;
an aborted request unwinds (strong, because a collection's bounded slots may hide
its answer); time passes; the card's fetches end by their time-outs. Services are not
fair: they may be down or silent for ever.

Host: the tools' own timers (`MediaStep` includes the kill after the time-out,
`DeadlinePasses`); a certificate run continues unless it is interrupted, the timer
starts another, and gets the lock again and again if it is free again and again;
a starting Dashboard reads its files. A page whose compressed body is cut short
never settles in the code's decoder; `ReadsSettle` exempts that state ("stuck"),
which the read's deadline does not reach.

## 4. Findings

1. `worker_slow_auth`. `submitTurn` looks for an active turn before it awaits
   the credential check, not after. Two submissions pass together; the first
   one's turn starts, times out and is settled, while its Pi session ignores the
   abort; the second check answers only now, `startTurn` sees no running row, and
   a second session opens the same transcript. It takes a check that lasts longer
   than a turn may; `SlowAuth` says whether that can happen, and with
   `SlowAuth = FALSE` the property is proved.
2. `worker_gate`. `worker/contract-notes.md` says that an authentication failure
   refuses turns until the operator logs in and restarts the worker. `setGate`
   overwrites the gate: a turn of the same provider already admitted that later
   hits a limit or times out turns it into a cooldown.
3. `timeline_crash`. A reply's row and its timeline entry are two
   autocommitted statements. A crash between them leaves a row without an entry;
   the backfill skips conversations that have any entry, and the page puts rows
   without one last, behind every later turn.
4. `page_reconnect`. A browser's EventSource reconnects by itself only after a
   connection is lost. When the reconnection is answered with an error, as the
   proxy does while the worker restarts, it is closed for good; `onerror` makes
   one request and nothing opens another source until a different conversation is
   selected. The page goes on saying that it reconnects.

## 5. What is proved

All for every number of conversations, turns, requests, providers, faults,
logins, tokens, calls, runners, laptops and ports, and every limit.

*Assumptions*: the bounds are natural numbers (where one is needed for anything
to happen, positive; the page's requests at least two, as opening it takes two),
the "none" values outside the sets they extend, `Timer` a runner, `Public`
addresses addresses, `SlowAuth` a Boolean.

**Store.** `StoreInv` is inductive. The safety properties alone are not: that a
finished deletion leaves no file needs to know, at each program point, what has
been removed so far (`ControlInv`), and that rows that do not exist have no
turns and no files (`RowInv`). `StoreInvariant` has one lemma per action; from
it follow `AtMostOneRunningTurn`, `RecordedDeletionIsIdle`,
`DeletionIsComplete`, `DeletionIsSafe`, the action property `OutcomesAreFinal`,
and the refinement `StoreImplementsLedger`.

**Worker.** `WorkerInv` adds to `StoreInv` that tasks exist only in a serving
process, have turns of their own, and agree with the rows. `WorkerInvariant`
first shows that every worker step is a step of the store
(`WorkerStepIsStoreStep`: Pi's write is allowed because a conversation with a
task is kept, and that is part of the invariant), so the store's half of the
invariant is inherited; then each group of actions preserves the rest. Hence
`TasksMatchRows`, `ActiveConversationsSurvive`, `WorkerImplementsStore` and
`WorkerImplementsLedger`.

`SoleWriter` needs one assumption, `~SlowAuth`, and one more conjunct,
`PendingMeetsRunning`: while a submission's check is pending, every task of its
conversation is one whose turn still runs. Then the unique index refuses the
submission as long as the task is there. The timer is what would break it, and
the assumption is about the timer.

**Page.** `PageIInv` is about three records: what is shown and typed is of the
selected conversation (`GoodUi`); each conversation has at most one message on its
way, and one creation at most is under way (`GoodRequests`); the busy controls
have their requests, and a message whose answer is a success is no longer among the
unaccepted ones (`Agree`). The last two are what makes the properties
inductive: without uniqueness one of two answers would free a control the other still
needs. Every handler ends in `Commit`, so one lemma about it (`CommitCore`)
carries the effects of a changed selection into each action's. Hence
`PageCorrect`, `PageShowsTheSelection`, `MessagesStay` and `TypedIsKept`.

**Authentication.** `AuthInv` is inductive: a login deriving its hash read an
account that exists and is not newer than the stored one, and has its password
if it has its revision (`LoginsReadAccounts`). Hence `AuthTypeCorrect`,
`SessionsBelongToCurrentAccount`, `SessionTableIsBounded`, and
`TokensStayInvalid`, an action property. `LoginRateBounded`: the limiter deletes old
attempts, so its table alone does not bound what was let through. `RateIInv` relates the
two: of every tick less than a window ago, the table has kept all that was let through
(`KeepsTheWindow`), and no past window exceeds the limit. A window that an admitted attempt
falls into ends at most a window from now, so that the rows the limiter counts are all of it.

**Timeline.** `TimelineIInv` adds to `TimelineInv` what positions say of turns and
drawing order. A backfilled position is a rank: the places of the rows are a strict
total order, so ranks are different and dense (`EntriesAreDense`), a row's place is
beside a message of its own turn, so ranks follow turns, and rows of one turn and kind have
places in the order of their ids. An appended position is above all others, and it goes to
the current turn, because only a turn's own task reserves calls and saves rows; this needs
that reserved calls, the streamed message and the unlisted row count with the current
turn (`SessionInv`, `RowsInv`), and that the turn's task lives as long as its session
does. Hence `TimelineCorrect`, `TurnsStayTogether` (`EntriesFollowTurns`) and
`ToolsAreInStartOrder` (`ToolsListedInOrder`: a call is listed when its id is drawn).
`ThreadsAgree`: a step moves at most one record of the thread, the one it adds or lists,
and nothing that is shown stands behind that one.

**Host services.** `MediaCorrect`: until a call's process runs it has changed
nothing, and only its last process does (`CallInv`). `WebCorrect`: what is
connected to was resolved and judged for that hop, and the deadline ends every stage. `CertCorrect`: the lock's holder is the
one runner between taking and leaving it, so that what it has read of the files is still so;
`HostServesInstalled` follows, as the marker is written before the files and
removed after the restart. `StatusCorrect`: a file is whole because it is
renamed into place. `HostCorrect` carries the four into the composition.

**LAN certificates.** `LanCorrect`: an issue has checked the state it works on, so
that it makes a CA only where there is neither CA nor pin (`IssueInv`), and what is
staged on the Server comes from a bundle that was published.

**Ingress.** `IngressCorrect`: one run at most builds the chain and none reaches
the hook before it is complete (`ChainInv`); a hook, once there, is the first rule
and stays until the machine is rebooted, so that what a run has seen of it holds
(`UserInv`). `IngressNoWindow`: hence no command of any run, failing or not,
stops dropping what was dropped.

**Deployment.** `DeployCorrect`: each command of an update relies on what
earlier ones established as far as nobody else can have changed it since. The image
that runs was audited (`AuditInv`); what was started was required (`StartedInv`,
`RequiredInv`); a survey of the ports holds as long as nothing has changed since
(`PortInv`); and what has passed the inspection is as the configuration requires
(`InspectedAsRequired`).

**Settings.** `SettingsCorrect`: a form can only be shown after an answer has come,
an answer carries a choice that its models offer, and of a dialog's requests at most one
saves (`OneSave`); so a form is never busy without a request, whichever answers are late
(`SettingsIInv`). The worker's selection is checked against the build at each start and
each PUT.

**Upgrade.** Each behaviour of `HostUpgrade` is a behaviour of each of its parts
(`UpgradeParts`), hence `UpgradeCorrect`, `UpgradeNoWindow` and `UpgradeTimeline`.

**Metrics.** `MetricsIInv` pairs every page with its collection (`Sound`): a
collection that is served is asked for by one page, and an aborted request leaves its
collection to nobody, so that no late answer can reach a page that has asked
again. A CPU reading compares a sample with an earlier one that is never later than it,
whichever request replaced it (`CollectionsCover`). Hence `MetricsCorrect`,
`ReadingsAreLatest`, `CpuReadingsCover` and `ShowingRefreshes`.

**CPU history.** `HistoryCorrect`: samples are kept in the order of their
measurement (`InOrder`), and what was missed has left a break behind it, still to come or on
a sample, or there is no earlier sample left to be joined (`BreaksAreKept`).
Counting the samples later than one tells them apart, which bounds their number
(`LatestIsBounded`).

**Downloads.** `FeedCorrect` and `FeedSparesUpstream`: a card waits only for the one
collection there is, the cache's age is the time since that ended, and the reads under
way are those it waits for (`ReadsArePending`, in `FeedIInv`); so nothing is read
while it is being read, nor again before that time has passed.

**Projection.** `ProjectionIInv` says that each group has a name, its own unless a
download is named like a last resort: a group's last resort carries the number of the
group, no earlier group has that number, and no record has a name of that form
(`NamesDiffer`). What is shown follows from two facts about a strict total
order on a finite set: its ranks are the numbers below the size of the set, each of one
element (`RanksAreDense`), so that every place of the card is one group's; and a lower
part of the order has the lowest ranks (`RanksOfLower`), so that trouble, which is one,
has the first places. Hence `QueueHonest`.

**Dashboard.** `DashboardCorrect` and `DashboardIsHonest` carry the four into the composition.

*Only model-checked*:

- liveness (`RestartFinishesDeletions`, `RestartEndsRunningTurns`, `EveryTurnEnds`,
  `EveryTaskEnds`, `Converges`, `HostProgress`, `ShownPagesAreRefreshed`,
  `QueuesRecover`), which the prover does not reach.

## 6. What is abstracted, and what is not modelled

Across the modules:

- Power loss: a committed transaction and a finished file operation persist
  (`synchronous = FULL`; the code does not sync directories).
- Pi, `checkAuth`, Docker, `iptables`, `tailscale`, Sonarr, Radarr and the Python
  clients are external: their answers come in any order or not at all.
- Wall clocks only advance, except the one `HostStatus` reads. The store's order
  of turns by start time, and the limiter's and sessions' times, are therefore not
  checked against a clock that is set back; both are listed as hazards.
- Texts, titles, tool names, results, HTTP formatting and the validation of
  request bodies are not modelled.

Store, worker and page:

- In `AssistantWorker` the selected provider is any provider at each submission;
  `AssistantSettings` has the selection by itself. A submission whose model is no
  longer available and the login command `worker/src/login.ts` are not modelled.
- The timeline of messages without a turn (`turn_id` NULL): the code inserts
  none, and deletes no turn without its conversation.
- A turn admitted by an open gate may start after another turn's failure has closed
  it: the model has the behaviour, the code promises nothing about it, and no
  property forbids it. It is listed as a hazard.
- In the worker model a failing SQLite call fails only inside a deletion or the
  constructor; in the timeline model only a crash separates two statements.
- A transcript is written at any time a session may exist; a file under
  `transcripts/` is present or not. A streamed message that ends is assumed to
  have text.
- The search of models and a provider's configured flag in the settings dialog,
  collapsed tool details and scrolling; the geometry of the CPU chart; the user interface
  kit, which is presentation.

Tools:

- The Python adapter and the media clients; its codes are told apart only where a
  download's answer depends on them; `details` goes the way of `look` and `find`. An
  abort during the await of the API key is not heard, as in the code.
- Text extraction from pages and the parsing of search results.

Host and deployment:

- Leaf expiry on the LAN; cryptography.
- `verify-ingress.py`, which repeats the script's checks from outside;
  `compose-runtime-check`, the development network and the CI helpers.
- Of an update: restart policy, command and build ("start") are required of the
  configuration and not of what runs, as in the code; when the comparison of images fails
  the worker it found is left running, and nothing is rolled back, as in the code.
- Times of completion: a record has one or not, and all that there are count as equal,
  so that the projection's order among timed downloads is that of their first records.
