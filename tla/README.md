# CanvasWatcher: TLA+ models, model checking and proofs

CanvasWatcher ("academic watcher") collects assignments from Canvas, Gradescope and course
websites, estimates effort and reviews changes with an AI provider, and notifies the student. It
runs as one FastAPI process per tenant (`backend/`), behind a multi-user gateway
(`identity-gateway/`), with a root job that creates and removes tenants (`ops/azure/`) and a broker
on the student's computer that signs in to providers in a real browser (`auth-broker/`).

This directory holds the specifications of its core logic, the TLC configurations that check them
on small instances, and TLAPS proofs of their main properties for every instance.
`PROJECT.json` maps each definition to the lines it models, and lists runs, seeded bugs
(mutants), hazards, findings and theorems.

    tlc -workers 2 -config CanvasRouting.cfg MCCanvasRouting.tla
    tlapm CanvasRoutingProofs.tla

All source paths below are relative to the repository; `app/` is `backend/app/`.

## 1. The system

### Processes and threads

| process | concurrency |
|---|---|
| backend | the API's event loop, FastAPI's thread pool for plain handlers, and APScheduler's threads (`app/scheduler.py:24-57`: sync every 2 min, analysis every 30 s, calendar), each with its own event loop. They share the in-memory stores, the vault file and SQLite. |
| identity gateway | one FastAPI process for all tenants, SQLite. |
| `aw_provision.py` | started every 20 s after it ended (`aw-provision.timer`), and by hand for a purge: two processes that share `/etc/fstab`, mounts, units and the gateway's database. |
| desktop broker | one local HTTP server, one sign-in at a time, talks to the gateway or backend. |
| frontend | polls; its polling is what makes a timed-out sign-in visible (`frontend/src/AuthBroker.tsx:109-128`). |

### Components

"All" means that every operation which changes the component's state is an action of a module.

| component | state | operations | what is hard, what makes it correct | modelled |
|---|---|---|---|---|
| credential vault (`app/auth/vault.py`) | the decrypted contents of three namespaces, one file, a seal | load, write (stage, replace, sync the directory) | any step fails, the process or the host stops: no acknowledged write is lost, no namespace reverted by another's write | all |
| credential store (`app/auth/store.py`, `models.py`) | per credential id: a slot, generation and status per method, preferred mode, route, block | install, remove with and without an expected generation, select, clear, block, restore | long sequences of changes: route, preference, slots, block and disk agree; a generation fences late results | one profile's Canvas slots |
| broker challenges (`app/auth/broker_challenges.py`, `app/api/broker.py`, `app/auth/provider_sessions.py`) | challenge rows with state, deadline, flags; session generations | create, status, cancel, claim, complete (begin, probe, finish with publish), fail | a probe of seconds between begin and finish: no late login, true and final verdicts, every attempt ends | all of the challenges |
| Canvas routing (`app/sources/canvas_routing.py`) | the slots, a routing lock, per read its attempted modes and captured credential | choose, read, failure check, removal, switch, probe of the backup | threads and event loops, remote probes under a lock: no healthy credential is removed, failover is complete, the lock is not leaked | without the refresh before a read |
| authentication service, Canvas OAuth (`app/services/auth.py`, `canvas_oauth.py`, `app/api/canvas_oauth.py`) | profile rows, the grant under way, slots | offer a token or a session, authorize, callback, refresh, verify, remove, clear | requests await Canvas between what they read and write: only the current grant installs a token, for the bound account | one Canvas profile |
| sign-in across processes (`aw_gateway/broker_map.py`, `auth-broker/.../server.py`, `frontend/src/AuthBroker.tsx`) | forms, outer and inner challenges, the desktop's job | start, cancel, poll, unmount, claim, open, close, complete | requests late or lost, restarts of each process: one login window, no attempt that nobody looks after | without launching and the proxy |
| web sites' credentials (`app/services/website_access.py`, `source_connections.py`, `app/auth/fetchers.py`) | a site's row, candidate and installed NTLM credential, sessions | probe, install, commit, set, clear, fetch | store and database are written one after the other: a site is never left with a credential for another origin | one site |
| sync of a Canvas course (`app/services/sync.py`, `sources/canvas.py`) | source items with their snapshots, change events, downloads, the baseline flag; per run what it read | read the lists, merge embedded files, observe and store each item, download, reconcile | partial lists, a run that stops between items, files known from several places: nothing new goes unreported, nothing present is called removed | assignments and files |
| sync of a web site (`sources/website.py`, `sync.py`) | pending resources, items, the limit | read, defer, store, settle, switch off | a limit of URLs per run: every file that could not be read is retried | one site's files |
| task engine (`task_engine.py`, `task_providers.py`, `completion.py`, `work_tracking.py`) | tasks, links, deadlines, submission, progress, timer, plan | import from sources, bind, report progress, time work, ignore, archive, rebuild | several sources and requests at once: authority of sources, no title decides, progress is fenced, the plan follows | three modules |
| analysis queue (`app/ai/queue.py`, `ai/service.py`, `services/notifier.py`) | jobs, attempts, analyses, reviews, notifications | enqueue, force, recover, claim, ask, answer, fail, decide, deliver | two runners, cancellation and crashes between commits: bounded calls, no push without an approval, one push unless an answer is lost, claims recovered | tasks and changes |
| change filters (`change_filters.py`, `change_review.py`) | rules, reviews | enqueue, decide, learn, toggle | rules change while reviews run: what is suppressed was rejected often enough; the user's switch stays | all |
| assignment summaries (`assignment_summaries.py`) | jobs per input hash, summaries | enqueue, claim, ask, recheck, publish | input flips while the provider answers: bounded calls, nothing published for an obsolete input | one item |
| AI settings (`ai_settings.py`) | provider row, key, what was tested, the vault | save, set and clear the key, probe, restart | two stores and tests under way: ready means tested together | all |
| AI chat (`ai_chat.py`, `ai/provider.py`) | a turn, lookups shown and kept, proposals | ask, look up, propose, confirm, cancel | commits between rounds and a tool that awaits: history stays, a decision is final | turns and proposals |
| files (`downloader.py`) | records, managed files, exports | save, export, commit, audit, correct | disk and database are written one after the other: what is served is what was recorded | one folder |
| Google calendar (`google_calendar.py`) | OAuth state, calendar row with its sync token, events | connect, list, sync in full or incrementally, disconnect | scheduler and requests overlap between load and commit: the copy catches up | one calendar |
| study calendar (`ics_calendar.py`, `calendar_capacity.py`, `calendar_view.py`) | events, rules, overrides, sources | edit, import, import anew, remove | merging and clipping of intervals: the minutes offered are free, an import is whole or gone | one day |
| accounts and tenants (`aw_gateway/store.py`, `main.py`, `ops/azure/aw_provision.py`, `aw-tenant@.service`) | users, slots, sessions; images, mounts, fstab, units | invite, redeem, login, disable; reconcile; purge; reboot | decisions on old rows and half-done purges: no data inherited or lost, disabled means stopped and signed out | without login limits |
| owner import and access (`ops/azure/import_owner.py`, `aw_gateway/main.py`) | lock, data set, vault key, code, session | import step by step, reboot, claim, change the password | any step fails: the unit runs on a whole data set or not at all, if systemd stops it | all |
| HTTP API, start-up, adapters (`main.py`, `api/routes.py`, `scheduler.py`, `db.py`, `sources/*`) | glue; parsing and HTTP | handlers | requests appear as actions, the scheduler as fairness | where they hold logic |
| migrations, `hotfix_sync.py` | schema; an old copy of the sync that nothing imports | | | no |

`PROJECT.json` lists the hazards at their lines, each with the properties that would catch it going
wrong. One carries a note instead: the job of an older input that is given up shows the task as failed
while the job of a newer one is due (section 6).

## 2. Plan

Order: what guards secrets and other people's data first, then what spends money or notifies, then
what only computes. All modules of the plan are written and checked, and every invariant and action
property that the runs check is proved (section 5); liveness stays with the runs.

## 3. The modules and the code

Each module begins with what it models and what it leaves out. Definitions marked *seeded* are
plausible bugs; they are used only to show that each checked property can fail, by taking the place
of the definition that follows them.

**DurableRegister** is the promise one namespace makes to its owner: a served value, and the values
that a restart may bring back. A new value is served only when nothing else can come back, and only a new process (`process`
alternates) may serve a survivor that was not settled.

**CredentialVault** splits `CredentialVault.write` where another thread, an error or a crash makes
a difference: `Begin` (the owner asks, the lock is awaited), `Stage` (the lock, the seal, the
temporary file), `Replace` (`os.replace`), `SyncDirectory` (fsync of the directory), `Publish` (the
owner changes its memory), with `Refuse`, `AbortStaged` and `SyncFails` for the failures. `disk` is
what the running file system shows, `durable` every content a power loss may leave. `failed` is the
seal that `vault.py:124-129` sets. The three owners are `Namespaces`; contents are values told apart
by equality.

**CredentialStore** is one credential id of the store. Each method runs under the store's lock and
persists before it changes memory, so it is one step with the vault's three outcomes: acknowledged,
refused (no change, so no step), or replaced on disk but not acknowledged, after which the vault is
sealed until a restart. `slot`, `generation`, `status`, `effective`, `canvasMode`, `preferred` and
`blocked` are the dictionaries of the class. A holder is any request that captured a slot and its
generation together. `Load` is `configure_persistence`: restored slots get fresh generations.
Both credential modules are shown to implement `DurableRegister`.

**BrokerChallenges** has one action per handler of `api/broker.py` and method of `ChallengeStore`.
A completion is three steps, as in the code: `BeginCompletion` claims the row under the lock; the
probe runs without it; `Publish`, `PublishRaises` or `FinishLate` take the lock again. The generation
check in `publish_provider` is `FenceHolds`. `Age` passes the deadline and then the 300 s after
which `create` drops the row. A new process (`Restart`) has no challenges, and sessions restored
from the vault under new generations.

**CanvasRouting** is `CanvasRouter.read`: one action between any two awaits. `Choose` and `_client`
read the route, slot and generation; in the code these are several acquisitions of the store's lock.
`Preemptive = FALSE` makes them one step (reads on one event loop, which only switch at an await),
`TRUE` splits them, at the start of a read (`ReadSlot`, `ReadGeneration`) and when it switches (again
these, then `Trust`), as two threads may. The lock that all loops poll
is `routing`. A secret's `quality` is what Canvas thinks of it: accepted, revoked, or another
account's. A removed client's credential is emptied in place, so a probe that still holds it is
rejected (`ProbeAnswers`).

**AnalysisQueue** has the jobs, the analyses they write and one run of the worker per thread. A run
is `Run` (recovery, parking, choice of the batch: no await in it), then per job `TakeEffort` or
`TakeReview` (the claim is committed), and `Estimate`, or `Consider`, `Decide`, `Push` and `Deliver`
(analysis, verdict with the notification's commit, the one or two posts to ntfy, the commit of the
result). A post may fail, or be taken and its answer lost: then the code posts again and the change is
pushed twice (`notifier.py:49-58`). The sync's own call of `notify_change` (`sync.py:516-521`) comes in
the transaction that enqueues the review, finds no verdict and does nothing; `Detect` says so. `Fail` is the worker's except clause
with its rollback, after which the session's attributes are expired (`seen`). `Interrupt` is a
cancellation or a commit outside the try; `Crash` ends the process. `facts` is the input the hash is
computed from; `calls`, `pushes`, `lost` and `stopped` are history variables.

**TenantLifecycle** is three processes over one host: the gateway (`Gateway`: one action per
transaction, with the password check between reading the row and creating the session), `reconcile`
(`Reconciler`: rows are read once, then handled one command at a time) and `purge` (`Purger`: one
action per command). `mount` distinguishes the image in place from one unlinked while mounted,
`data` and `orphan` say whose data they hold. `Use` is a request that reaches the instance.

**SyncEngine** is one Canvas course. A run (`Runs`) reads the lists in any order (`ListAssignments`,
`ListFiles`: each may fail, and an assignment may come without its description), asks for embedded
files that the index lacks (`MergeFiles`), and then takes the items one by one: `LookUp` is the query
of `store_observation`, `Store` the transaction that follows it, or `Insert` and `Download` when the
file is fetched within the transaction. `Compare` and `Close` are `_reconcile_canvas`; `Fail` is the
except clause, or the end of the process. `Teacher` changes the course at any time. An item's content
is what its hash depends on and the properties tell apart: the grade, the embedded files, a version.
`Inserted` and
`Updated` are the row that an observation leaves. `writer` is SQLite's write lock. `quiet` and `unseen` are history variables.

**CanvasConnection** splits each request that connects a Canvas profile at its await: `Verify` and
`Verified` or `VerifyFails`, `OfferToken`/`OfferSession` and `Accepted`, `Renew` or `Refused`, `Callback`
and `Publish`, `Refresh` and `Refreshed`. `gen` is `_generations`, `cut` a history mark of attempts
that a disconnect or a new authorization overtook. `Environment` is the account of a token configured
for the process: it serves while nothing is connected and no PAT was removed (`Inherits`), and its
verification (`VerifyEnvironment`) installs it. `PublishIsCut` is a callback whose profile is committed
and whose token the vault then refuses.

**BrowserSignIn** follows one sign-in through the page's component (`PageStep`), the gateway's map,
the backend's challenge and the desktop broker (`AttemptStep`). `chal`, `outer`, `job` and `gate` are the
four processes' views of an attempt; `toBackend` and `toDesktop` are requests on their way, `lost`
those that never arrive.

**WebsiteAccess** has a request's probe, its installation in the store and the commit of the site's
row as separate steps (`Begin`, `Probed`, `Install`, `Commit`), with the failure and the rollback of
each, fetches (`BeginFetch`, `Send`, `Challenged`) and removals. `sessions` is the fetcher's cache: per
credential id the credential a session was made with, and the session; `within` is the session each
fetch is sent in, which it took from the cache if that is its credential's (`Mine`) and else made and
cached. A fetch that loaded a credential before it was replaced can put that one's session back after
the replacement invalidated it. `mixed` and `overlapped` record the cases for which the property below
makes no claim about the site.

**WebsitePages** is the run of a web site: landing page, then resources that earlier runs could not
read, then new links, up to the limit; afterwards one commit per item, and `BreaksOff` between any
two. `steady` are the files that the site serves whenever asked.

**TaskSources** stores an observation (`Observe`) and imports it (`Import`); a run may `Stop` between.
`deadline`, `facts` and `gone` are per source, `due`, `dueRank` and `submission` the task's.
**ProviderTasks** is the question which task an assignment belongs to: Canvas rows that launch another
assignment, Gradescope's runs with the bindings they read, and the user's form, which may overwrite
another's. **TaskProgress** has one action per stretch of a request between its reads, the claim of
the revision and the rebuild: `Report`, `Look`, `Apply`; `Heartbeat`, `HeartbeatApply`; `StartWork`,
`StartCommit`; the actions that commit and then `Rebuild`, or are interrupted first.

**ChangeFilters** is the life of a rule per family: learnt from rejections, widened, switched. A
candidate is filtered when it is enqueued and when its turn comes. **AssignmentSummaries** is the job
of one item with the inputs between which it flips. **AISettings** keeps the database row, the key and
what was tested apart, as the code does; `disk` is every record the vault may hold after a crash.
**AIChat** has one step per commit; `running` is the request that holds the event loop.

**CourseFiles** is one course folder: a save writes files before its record is committed, the audit
of the start-up corrects names before its one commit. **GoogleCalendar** lets each actor load, await
Google and commit; a commit writes only columns that differ from those loaded. **StudyCalendar** is
one day's events, hours and imports, with the code's merging and clipping of intervals
(`Between`, `GapsShown`) against a reference that counts slots.

**OwnerAccess** is `import_owner.py` step by step, with the unit, its lock, reconcile and reboots, and
the owner's way from code to password. `data` tells a whole data set from a part of one and from the
leftovers of another whose removal was cut short, over which the next import extracts; `unstopped` is an
instance that systemd did not stop (`systemctl stop` is called with `check=False`).

**MC modules.** Each extends the component that its run is mainly about and instantiates others over
variables of their own. A variable `focus`, chosen initially, says which of them a behaviour
exercises; the others keep still, so one run checks several components without multiplying their
states. Where a component's bound stops it for good, a named disjunct (`Quiet`, `Exhausted`,
`BoundsReached`, `NothingLeft`) lets it stutter, so that a deadlock is still found elsewhere.

Abstracted everywhere: texts, times except for the deadlines above, numbers of estimates, encryption,
HTTP formats.

## 4. What the runs check

All passing runs are exhaustive. Properties that only the proofs establish are in section 5.

| run | component: instance and bounds | shows |
|---|---|---|
| `Credentials` | vault: 3 namespaces, blank and one value | each namespace is a `DurableRegister` |
| | Canvas connection: 2 accounts, a token of the environment for one of them, 2 requests, generations to 2, 3 requests and attempts begun | `GrantIsCurrent`: a callback installs a token only while its authorization stands |
| | browser sign-in: 2 forms, 2 attempts, 1 fault | `OneLogin`, `NoStrayAttempt` |
| `CredentialStore` | store: 3 methods, 2 secrets, 1 holder, generations to 2, 2 contents in doubt | `RouteIsRight`, `HeldIsCurrent`, refinement of `DurableRegister` |
| | files: 2 items, 2 documents, 3 records, 1 name with a timestamp | `FilesAreKept` |
| `SignIns` | challenges: 2 for one profile or all, or 1 among 2 profiles; 2 rows, generations to 2 | `VerdictIsTrue`, `NoLateLogin`, `ClearAllIsComplete` |
| | web site: 2 addresses of 2 origins, 3 requests | `AccessFits` |
| `CanvasRouting` | reads: 2 methods, 2 secrets, 2 reads, generations to 2, one loop | `NoHealthyRemoved`, `FailoverIsComplete` |
| | study calendar: 6 slots, 3 events, 2 files | `FreeTimeIsReal` |
| | tasks: 2 Canvas, 1 Gradescope assignment, 2 titles, 2 requests | `TitlesDecideNothing` |
| `Assistant` | queue: 1 task with 2 inputs or 2 events, 2 workers, 2 attempts, batches of 2 | `PushesAreApproved`, `PushesAreBounded`, `ApprovalSurvives`, `AttemptsAreCounted` |
| | settings: 2 clouds and local, 2 keys, 2 tests, 3 saves, 4 generations | `ReadyMeansTested` |
| | chat: 2 proposals, 2 requests, 2 rounds, 2 calls | `HistoryStays` |
| | summaries: 2 inputs; filters: 4 changes, 1 family, 2 texts, 2 rejections needed | `SummariesAreCurrent`, `SuppressionIsEarned` |
| `Endings` | challenges: 2 for 1 profile, 1 row; queue: 1 task, 1 input; reads: 2 methods, 1 secret, 2 reads, preemption | `EveryAttemptEnds`, `ClaimsEnd`, `EveryReadEnds` |
| `TenantLifecycle` | tenants: 3 accounts, 1 slot, 1 reboot | `NothingInherited`, `SessionsAreActive`, `DataIsKept`, `DisabledStops` |
| | owner: 2 passwords, 2 imports, 2 reboots | `ImportIsWhole` |
| | web site: 2 files, limits 2 and 3, one failure or edit | `EveryFileIsRetried` |
| `CourseWork` | sync: 1 assignment, 1 file, 1 run at a time, 3 changes, 2 versions | `NothingUnreported`, `RemovalIsReal`, `DownloadsKeepUp` |
| | sources: Canvas, Gradescope and a web site with the ranks of the code; 2 dates | `EvidenceIsRanked` |
| | progress: 2 tasks, 2 requests at a time, 3 in all, 1 tick | `PlanFollowsTasks`, `ProgressIsFenced` |
| | Google: 1 event, 1 value, 2 actors whose listings do not overlap, 2 revisions | `CopyCatchesUp` |
| `CanvasPreempted`, `TenantFstab`, `SuccessIsShown`, `DisconnectedIsEmpty` | | violations: section 6 |

Why the bounds are enough. Two secrets tell a replacement from what it replaced, two generations
let a change happen between a capture and its use and another after it. Two challenges on one target
give supersession, two profiles give a `clear_all` that finds one session changed and one not. Two
attempts give a retry and an exhausted job. Three accounts on one slot give a purge, a successor and
a reconcile that still works from the row of the first. Three changes by the teacher let a file be
embedded, replaced and taken out of the index around and during a run, or a grade be released,
withdrawn and released again. Three requests for a web site give an edit during a probe and a fetch
that uses what is left. The three sources have the ranks of the code (Gradescope 0, Canvas 1, web site 3), Canvas and Gradescope
report submissions and Canvas alone says that a deadline was removed. Three requests about tasks
let one come between another's look and its claim and a third rebuild; three events give the two
sides of a gap and one that lies over it. Where a bound would cut something short it is a guard with
a named constant: `MaxGeneration` stops further changes, `MaxSurvivors` further unacknowledged
writes, `MaxBoots` and `MaxReboots` further reboots, `MaxChanges` further changes by teachers,
`MaxBegun`, `MaxCalls`, `MaxSaves`, `MaxRuns`, `Clicks` further requests. `Limit` and `MaxAttempts`
are constants of the code. `Cardinality(durable) < MaxSurvivors` in `CredentialStore` only matters
across process restarts without a power loss: within a process the first unacknowledged write seals
the vault.

The MC modules narrow some instances further, by constraints of their own that the comments there
name (`PageInit`, `ForMain`, `ManualEvents`, `Settled`, `OneKind`, `OneAsks`, `OneUpset`, `Unexercised`): they
leave out combinations, such as a third event on a day of short hours, never a kind of step.
Symmetry is used in runs without liveness, over sets whose members no definition tells apart.

### Fairness, and why the code has it

- Challenges: time passes (`Age`), and the page that shows a challenge polls its status
  (`frontend/src/AuthBroker.tsx:109-128`). Nothing else is fair: the completing request may vanish.
- Reads: a read goes on: Canvas answers or the HTTP client times out, and a polled free lock is
  taken. That a read can always lose the race for the lock is excluded because it is then held by
  another read whose steps are finitely many.
- Queue: time passes, the scheduler triggers a run every 30 s (`app/scheduler.py:24-57`), and a run
  proceeds unless it is stopped: provider calls have timeouts.
- Tenants: the timer starts `reconcile` again after it ended; each of its commands ends. Purges and
  the gateway's actions are not fair.
- Web site: the scheduler starts a sync every two minutes and every fetch has a timeout (`RunStep`).
  Failures, edits and the user's switches are not fair.

The composed specifications (`MCFairSpec` in `MCEndings` and `MCTenantLifecycle`) state these for the
component that a behaviour exercises.

## 5. What is proved

The theorems hold for every value of the constants that satisfies the assumptions of the modules
(`VaultAssumption`, `StoreAssumption`, `CourseWorkAssumption`, `NoneIsApart`, `AssistantAssumption`,
`LinkingAssumption`, `FolderAssumption`, `CalendarAssumption`, `WebsitesAssumption`, ...: sets do not overlap, bounds are numbers, nothing is named like a missing value). A theorem about a component is about that
component's own `Spec`; an MC module only narrows it, and where a proof module extends an MC module
it does so for that module's instances of the components (`Chat!Spec`, `Owner!Spec`, ...).

| module | theorems |
|---|---|
| `CredentialVaultProofs` | type, `AckedSurvives`, `OtherNamespacesKept`, refinement of `DurableRegister`; of the Canvas connection `GrantIsCurrent`; of the browser sign-in `OneLogin`, `NoStrayAttempt` |
| `CredentialStoreProofs` | type, `RouteIsRight` and the preference, `HeldIsCurrent`, `BlockedMeansNoPat`, `MemoryIsDurable`, `BlockIsSticky`, refinement of `DurableRegister`; of the files `FilesAreKept` |
| `BrokerChallengesProofs` | type, `VerdictIsTrue`, `OnePendingPerTarget`, `NoLateLogin`, `ClearAllIsComplete`, `VerdictIsFinal`; of the web site `AccessFits` |
| `CanvasRoutingProofs` | type, `LockIsHeldBySwitcher`; `NoHealthyRemoved` and `FailoverIsComplete` when reads are not preempted; of the links `TitlesDecideNothing`; of the study calendar `FreeTimeIsReal` |
| `TenantLifecycleProofs` | type, `NothingInherited`, `ActiveHasTenant`, `SessionsAreActive`, `DataIsKept`; of the owner's import `ImportIsWhole` |
| `AnalysisQueueProofs` | type, `ReviewIsExclusive`, `PushesAreApproved`, `PushesAreBounded`, `FinishedIsDecided`, `AttemptsAreCounted`, `ApprovalSurvives`; `SummariesAreCurrent`; of the chat `HistoryStays`; of the settings `ReadyMeansTested`; of the filters `SuppressionIsEarned` |
| `SyncEngineProofs` | type, `RemovalIsReal`, `DownloadsKeepUp` for overlapping runs; `NothingUnreported` for runs one at a time |
| `CourseWorkProofs` | `PlanFollowsTasks`, `ProgressIsFenced`, `EvidenceIsRanked`, `CopyCatchesUp` |

Each component has an inductive invariant, a lemma per kind of step, and the theorems as
corollaries; action properties and refinements follow from the invariant and one step.

- *Vault.* `AckedSurvives` is not inductive: that the next write does not bring back an old value
  needs that the vault's memory is the disk unless it is sealed (`StateIsDisk`), that only the lock
  holder is past staging (`LockHeld`), and that between sync and publication only the new value can
  come back (`InFlight`).
- *Canvas connection.* `GrantInv`: the generation that an exchange or a refresh captured is never
  ahead of the grant's, and behind it once the grant was cut off; an exchange that still agrees is
  therefore about the authorization that stands and its account.
- *Sign-in.* `OneLogin` needs `DesktopInv`: a claim is made under the desktop's start lock and only
  when no attempt is at work. `NoStrayAttempt` needs that, while the gateway runs, a challenge that can
  be completed has its row there (`RowsHold`), and what a form knows of its own request (`FormsInv`).
- *Store.* `HeldIsCurrent` needs that captured generations never run ahead (`HeldIsPast`);
  `BlockedMeansNoPat` must hold of everything a restart may read.
- *Files.* `FilesInv` relates three things. A record and the disk (`RowFits`): a name that was given is
  never taken away or given again; only a legacy name is, by an audit, and when it is gone either an
  audit was interrupted or the one that goes on has corrected its record (`LegacyIsKnown`). The rows
  of an audit or of a save and those committed (`AuditFits`, `SaveFits`): what lies ahead is as it
  was, and only the latest version of an item is exported. And exports (`Shows`): what a transaction
  has shown stays shown until it commits, because a target that another item's record shows is either
  shared with it or another name (`ExportShows`).
- *Broker.* The history variable `touched` is related to the code's check by `CaptureIsExact`: a
  captured generation is behind exactly for the profiles that changed. Publication under the lock
  then means: not touched. `VerdictIsTrue` and `OnePendingPerTarget` carry themselves.
- *Routing.* `ReaderOK` says of each read that a still matching generation means that its secret is
  still installed, and that a refusal of the profile endpoint which it believes is Canvas's verdict
  on that secret. The first part fails if reads are preempted between slot and generation, which is
  why the theorem assumes they are not, and what finding 1 is about. For `FailoverIsComplete`,
  `FInv` adds what a read that nobody disturbed has tried: all of it is gone from the store, but for
  the method it is trying now; and a method it probes is fenced by the generation it captured.
- *Queue.* Exclusion follows from `LockHeld`; `ClaimKind` says a claim is at a job of its branch's
  kind that is not finished; `PushedIsNoticed` and `DeliveryStands` tie pushes, notifications
  and verdicts: what is pushed has its row, so that no other run begins a push of it, and a first push
  that is repeated has lost its answer. That a recovery cannot take the verdict from under a push needs
  the exclusion. The batch that a run chooses is described by a predicate (`Picks`), as the prover
  knows nothing of a recursive selection. For `AttemptsAreCounted`, `CInv` follows what a run loaded:
  the jobs further down its batch are still pending, and the attempts its session remembers are no
  fewer than the row's, a forced retry apart (`Lined`). For `ApprovalSurvives`, `Worked` and `Settled`
  say that, unless a run was cut short, a claimed job is being worked on and an event with a
  notification is done or being delivered: a failure cannot be about it.
- *Tenants.* `NothingInherited` is about registered accounts, so a successor may inherit only what a
  free slot still holds: `FreeIsEmpty`. That a purge leaves the slot empty before it frees it is
  `PurgeIsOwners`, which also says that no other account can have the slot meanwhile; that an old row
  cannot lead `reconcile` to a successor's account is `RowsNameSlots`, and that an account it
  activates has what was prepared for it is `PreparedStays`. There is a lemma per action.
- *Import.* Before its lock an import has changed nothing, and behind the lock nothing starts
  (`ProgressInv`, `ImportInv`); nothing is accepted before the code is claimed, and
  one password ends the claim (`PasswordInv`). An instance that systemd did not stop is `unstopped`, about
  which the property says nothing.
- *Summaries.* Calls are at most the attempts of the job for that input, one less while a claim has
  yet to ask; a job that comes back keeps its attempts. What is published was rechecked in the step.
- *Chat.* What a turn will keep is what it has shown while it asks (`LimitKeepsEvidence` carries
  itself then), and a request works only on the proposal it claimed. `Accounted` says how often a tool has
  done its work: as often as its mark was lost, and once more if it is marked or about to be.
- *Settings.* Every record the vault may restore is verified only by an answered test with its key,
  and a test that holds the current generation was started with the current key.
- *Filters.* Rejections only grow, and every pattern of a rule stands on enough of them; while a
  request of the user waits, reviews can only switch its rule off.
- *Sync.* `WInv` says of each run that whatever is absent now is among what it may miss: for each
  part of the lists it has read, what it did not get was absent at some time of the reading. `VInv`
  bounds versions: what a run read and what an event reported is not newer than Canvas's and than the
  row's bytes (`Bytes`, `NoticedWithBytes`). `UInv`, for one run at a time, says that the row a run
  looked up is the item's only row, as it is (`RowIsFresh`, `OnlyRow`).
- *Plan and progress.* Whatever opens or closes a task leaves a request that has yet to rebuild, so
  the property carries itself; the fence is that no step writes progress without advancing the
  task's revision.
- *Sources.* The deadline's part of `EvidenceIsRanked` is inductive with its types; what a withdrawn
  deadline falls back to is again one of least rank. The submission's part is the step of `Import`.
- *Google.* `Fits` says of every actor what its answer is worth: an entry is as Google has it but for
  changes after the token that came with it (`AnswerFits`), or was left alone because it did not
  change between the two tokens (`CommitFits`); who was not overlapped holds the row's token and has
  loaded the copy as it is. A commit then either knows an entry or may keep what the copy said of it.
- *Links.* A task that exists is its own assignment's (`TasksAreOwn`), so no way leads an assignment
  without a link to the task of its own name; whoever holds bindings holds confirmed ones (`Known`).
- *Study calendar.* A removal that nothing overlapped knows every event of its source
  (`RemovalKnowsAll`); what is near a window is so whether it was loaded for it or for the day. That
  the minutes counted are the free ones is about the code's loops, which the model writes as folds;
  the lemmas say what these compute for any number of intervals:
  - a number for which something fails has a least one (`LeastNumber`, from the library's
    well-foundedness of `<`), which gives induction about sets of numbers (`CountingUp`), that the
    equation of a fold has a solution (`FoldExists`), and that a sum over a set has one value
    (`SumIsUnique`);
  - `sorted` lists each interval once, after those that come before it (`InOrderIsSorted`);
  - the invariant of `merge_busy` (`Merged`): after k intervals the last block ends where the last of
    them ends, and is a class if and only if all are that touch the run of taken slots before that
    end. The code keeps only this bit, so the invariant has to say which intervals it stands for.
    Then a gap is bridged just when the reference calls it short (`GapIsBridged`, `BridgedIsGap`), and
    the blocks cover what is taken and the short gaps (`MergeCovers`);
  - `subtract_intervals` leaves pieces that are apart and hold what no block covers
    (`SubtractLeaves`), so their lengths add up to the number of free slots (`SizesAddUp`,
    `FreeIsFree`);
  - if everything busy is a class, it is what is drawn as classes (`OnlyClasses`), so that a gap drawn
    inside a block is covered, and not offered.

  `CalendarAssumption` has events end after they start (`app/schemas.py:580-582`,
  `app/services/ics_calendar.py:141`) and ways to class that are not negative
  (`app/schemas.py:562`); it bounds neither their number nor that of recurrences.
- *Web site.* `AccessFits` says nothing while an edit is between store and commit, so `SiteInv` says
  what each request holds: an edit without a password keeps the credential that was there, and only
  for the origin it was for (`EditFits`); a set that was told of no change is for the site as it is,
  or the site stopped to use an empty slot (`SetFits`); and an edit that waits for its commit stands
  between a slot that holds its candidate and one that fits the old row (`CommitFits`), beside sets
  that see the same credential before and after. `SessionInv` is about the fetches: a cached session logs in
  with the credential it is cached beside, so that who compares the one gets the other.

Only model-checked: liveness (`EveryAttemptEnds`, `EveryReadEnds`, `ClaimsEnd`, `DisabledStops`,
`EveryFileIsRetried`), with everything else under fairness, and `ENABLED`, which are beyond the
prover. So are the library's induction theorems and those about folds, whose parameters are
operators; where data needs induction, as in the study calendar, the proofs take a least
counterexample instead.
## 6. Findings

Shown by runs that are expected to be violated:

1. *A late read can remove a healthy replacement* (`CanvasPreempted`, `app/sources/canvas_routing.py:38`).
   The slot and its generation are read under two acquisitions of the store's lock. A replacement
   installed in between by another thread pairs the old secret with the new generation, and the
   read's failure then passes the generation check. `CredentialStore` shows that reading both at
   once (`Hold`) is sufficient.
2. *A purge can drop another tenant's fstab entry* (`TenantFstab`, `ops/azure/aw_provision.py:373`).
   `purge` reads and replaces `/etc/fstab` without a lock while `reconcile` appends to it.
3. *A sign-in that succeeded is shown as failed* (`SuccessIsShown`, `aw_gateway/main.py:500`). The
   gateway drops the outer challenge when the inner one is accepted; the page polls it afterwards.
4. *A disconnected calendar fills up again* (`DisconnectedIsEmpty`, `app/services/google_calendar.py:570`).
   A sync or a callback that awaits Google commits events, or a refresh token, after the disconnect.

Met while modelling, not run on their own; where a property would fail because of one, its
definition names the case:

- *Connecting Canvas.* Two first connections that overlap may bind methods of different accounts;
  a profile may stay in VERIFYING after a crash; `set_canvas_and_verify` installs a PAT after its
  probe without comparing the generation (`auth.py:422`); a late `auth_required` row of a sync clears
  a newer credential (`auth.py:628-671`, `sync.py:474`). The callback commits the profile before it installs
  the token (`api/canvas_oauth.py:69-70`): if the vault refuses it, the profile stays ACTIVE, of the new
  account, without a token of it.
- *Sign-in.* A double click on Cancel settles the next attempt; a cancel that races the claim leaves
  the login window open.
- *Web sites.* Verification clears whatever is in the slot by then; a slot that is filled and
  cleared during a probe looks untouched; a crash between store and commit leaves the new credential
  with the old row, though `website_access.py:1` says "transactional"; edits that overlap leave a
  stale `credential_id`; a clear during a set leaves the profile ACTIVE without a credential. A
  profile keeps its address when its site becomes public and moves on
  (`source_connections.py:508-509`): a credential that is then set for it (`auth.py:311-358`) is
  verified at the old address and, when the site is protected again without a password, used at the
  new one, although `website_access.py:150-152` asks for a password at another origin. It takes four
  requests in a row; the proof of `AccessFits` found it where three did not, and the property now
  names the case.
- *Runs of web sites.* With a limit of one URL, or as many pending files as the limit, retries and new
  links are never read; one file that fails to be saved blocks the rows after it; an unconfirmed
  Gradescope assignment blocks the rows after it; a run that ends writes `source.state` over DISABLED.
- *Sync.* Runs that overlap insert one item twice (`sync.py:989`); one that read earlier overwrites
  what one that read later stored.
- *Analysis.* A change whose push is taken but not answered is pushed again, and once more at most
  (`notifier.py:49-58`); a failed commit after the push marks an approved change as failed. The job of an
  older input that is given up shows the task as failed while the job of a newer one is due, because
  `_mark_failed` does not compare inputs (`queue.py:226-227`, `314-338`); `AttemptsAreCounted` says only that
  some job of the task was given up before.
- *Chat.* A confirmed tool commits before its proposal is marked (`ai_chat.py:1046-1055`): after a failure or
  a restart in between, the proposal is still pending and a second confirmation carries it out again.
- *Tasks, rules.* Gradescope's bindings and a rule's version are read, changed and written back:
  concurrent changes are lost. A completed task may keep a running timer (`DoneHasNoTimer`).
  `PlanFollowsTasks` and `ProgressIsFenced` go by a task's status: a report on stale progress may overwrite a
  submission that a sync has imported meanwhile, until the next sync imports it again.
- *Settings.* A key saved for one provider beside the test of another leaves a vault record that the
  next start refuses (`RestartIsPossible`).
- *Files.* A crash during the audit's renaming leaves a record MISSING whose digest is never
  downloaded again; a failed save leaves its files; two items of equal content share an export and
  then overwrite each other; a user's changes of an export are overwritten; an error while exporting or
  auditing stops the start-up.
- *Study calendar.* Rules that overlap count twice; short gaps are drawn between classes only, though
  `calendar_view.py:58` speaks of the "same merge rule used by capacity"; the order of rows matters;
  importing the same file again does nothing even when the range moved on; a removal that overlaps
  an import leaves events of no source.
- *Owner.* A crash between shredding the key and unlocking leaves the slot locked, and re-running the
  import is no longer possible, although that is what the message asks for (`import_owner.py:210`,
  `260-264`); an import whose removal of the former data stops after the database went
  leaves files that the next import does not remove but extracts over, as it takes the missing database for
  an empty slot (`import_owner.py:225-234`); whether systemd stopped the instance is not looked at
  (`import_owner.py:223`); the account is created before its code is written; a bootstrap session that ends after
  the claim leaves no way to set a password (`main.py:203`).

## 7. Limits

Syncs that overlap: nothing keeps the scheduler's run and a requested one apart
(`app/scheduler.py:39`, `app/api/routes.py:1577`), and `source_items` has no unique constraint
(`app/db.py:149-171`). With two runs the state space of `SyncEngine` is beyond an exhaustive run.
`RemovalIsReal` and `DownloadsKeepUp` are proved for any number of overlapping runs;
`NothingUnreported` is claimed, and proved, for one run at a time only, because it fails otherwise: a
file both runs find no row for is inserted twice, and a grade's observation is overwritten by a run
that read the course earlier.

The models are written from the code at one commit and say nothing of the libraries below it: SQLite
transactions are atomic steps, `os.replace` is atomic, `fsync` does what it says. Two events of the
same instant are ordered either way. Each component is checked on its own; they meet in the
interfaces named above (the store's generations in `CanvasRouting` and `BrokerChallenges`, the
register between vault and store), not in one composed run. Texts, presentation, HTTP and HTML
formats, database migrations, the older sync and the wire protocols of the providers are not
modelled.
