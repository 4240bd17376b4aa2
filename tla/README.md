# nextupdate in TLA+

A verification development of nextupdate, the self-hosted updater of Docker
containers in this repository. TLA+ modules model its core, TLC checks them on
small instances, and TLAPS proves the most important theorems for all
instances. Paths below are relative to `src/`; `internal/` is left out where
it is clear.

## The system

nextupdate is one Go process, `nextupdate serve`, with one SQLite database. It
finds updates, announces them, applies them by policy or by hand, and undoes
those that do not come up healthy.

| Component | State it keeps | Operations | Interacts with |
|---|---|---|---|
| `updater/run.go`, the adapter for `docker run` | local variables of one update | `Update`: journal, pull, stop, rename, create, start, verify, remove; a rollback inside | Docker, journal, verifier |
| `updater/compose.go`, the adapter for Compose | same | `Update`: journal, pull, up, find, verify; a rollback by re-tagging | Docker, compose CLI, journal |
| `updater/reconcile.go` | none | `Reconcile`: at the start, finish or undo every open journal entry | journal, Docker |
| `store/journal.go` | table `journal` | `Begin`, `Step`, `Close`, `Open` | |
| `engine/engine.go` | mutex `mu` | `Check` (without `mu`), `Update`, `Rollback` (with it), `Cleanup` (without) | discovery, registry, GitHub, adapters, store |
| `scheduler/scheduler.go` | locals of one cycle | `Run`, `RunOnce`, `announce`, `apply` | engine, store, notifier |
| `api/jobs.go`, `api/updates.go` | running jobs by key, last 20 failures | check, update, rollback, save settings | engine, store |
| `store` | `available`, `available_info`, `seen`, `history`, `old_images`, `container_settings`, notifiers, users, sessions, settings | one transaction per call | |
| `semver`, `classify`, `policy`, `changelog` | table `changelog_cache` | parse and compare versions, pick notes, judge, decide | GitHub |
| `verify` | none | poll state and health until a deadline, then HTTP | Docker |
| `discovery`, `docker`, `registry` | none | clients | Docker, registries |
| `notify`, `push` | notifiers, push subscriptions, key pair | send an event to every target | outside services |
| `auth`, `api/notifiers.go`, `web` | users, sessions, attempts, widget token | sign in, settings, UI | store |

Who runs concurrently: the scheduler, one job for the key `check`, one job for
each container, and the HTTP handlers. `Engine.mu` serialises updates and
rollbacks; checks, clean-ups and settings are not under it. The policy of the
container that runs nextupdate restarts the process when it dies or exits.

What is hard: a crash between any two Docker calls of an update; a call whose
effect happened although an error came back; a failing rollback; checks and
updates that interleave through the tables; the registry moving a tag between
the check and the pull; keeping "announced once" and "tried once" over
crashes. `PROJECT.json` lists these as hazards, at their lines.

What makes each component correct:

- adapters: never two containers of one service running; never without the
  last container that is known to work; the outcome that is returned is true;
- journal and reconcile: while a service is damaged an entry is open, and the
  next start makes it whole again;
- scheduler: announced once, tried once, nothing forgotten, and only safe
  updates applied by itself;
- engine and jobs: updates serial, tables right once nothing changes;
- versions and policy: a total order, and no automatic step across a major
  version;
- retention: an image that an update or a rollback still needs stays, one that
  nobody needs goes;
- startup and end: nothing is served before the repair, and no update is cut
  off or left behind by a signal;
- verification: an answer in time, whatever the container does;
- notifications: everyone is told although others fail, secrets survive edits
  that do not touch them;
- accounts, tokens and keys: interrupted starts make no half key pair, and no
  second account, replaced token or passed login limit comes from anything but
  requests that overlap and, for the limit, the ends of its windows and right
  logins. Those do make them, in the code as in the models.

## Modules

| Module | Models | Status |
|---|---|---|
| `UpdateContract` | what `updater.Adapter`, `Result` and the repair promise the engine | abstract specification |
| `RunUpdate` | `updater/run.go`, `store/journal.go`, `updater/reconcile.go` for one service | complete |
| `ComposeUpdate` | `updater/compose.go` and the compose branch of `updater/reconcile.go` for one service | complete |
| `SemVer` | `semver/semver.go` after parsing | complete |
| `Policy` | `changelog.Between`, `classify.Classify`, `policy.Decide` | complete |
| `UpdateCycle` | `scheduler`, `Engine.Check`, `describe`, `Update`, `Rollback`, jobs, tables | complete but for what `Retention` has |
| `Retention` | `Engine.Cleanup`, `Update` and `Rollback` against the images on disk, table `old_images` | complete |
| `Verify` | `verify/verify.go`, `engine/verifier.go` | complete |
| `Serve` | the command `serve` in `cmd/nextupdate/main.go`, `api/jobs.go`, `Scheduler.Run` | complete |
| `Accounts` | `auth/auth.go`: setup, login, limiter | without sessions |
| `Notifiers` | `api/notifiers.go`, `store/notifiers.go`, `notify/dispatcher.go` | complete |
| `Settings` | `push.EnsureKeys`, the widget token | complete |
| `Notes` | `changelog/github.go` and its cache | complete |

`MCRunUpdate`, `MCComposeUpdate`, `MCUpdateCycle`, `MCAccounts`, `MCParts` and
`MCRunParts` (`MCRunUpdate` and `MCParts` side by side) instantiate them for TLC. `RunUpdateProofs`, `ComposeUpdateProofs`, `PolicyProofs`,
`UpdateCycleProofs`, `RetentionProofs`, `AccountsProofs`, `SettingsProofs` and
`PartsProofs` hold the theorems.

`UpdateCycle` extends `Policy`, which extends `SemVer`. In `UpdateCycle` and in
`Retention` the replacement of a container is a step or a few; `RunUpdate` and
`ComposeUpdate` show what is behind it and what a crash in the middle does, and
`UpdateContract` is what the two have in common.

### UpdateContract

The contract speaks of one service: its image or none, whether it runs, whether
the operator wants it to, whether a journal entry is open, and the outcome that
`Update` returned. `Begin` opens an entry before anything changes. `Return`
may leave the service only in a state the outcome is true of, and never down
without an open entry. `Die` can come at any time; after it the process serves
again (`ServeAgain`) only when the repair has closed every entry and what
should run does. The constant `None` is no image.

`ComposeUpdate` and `RunUpdate` map to it by `Contract`: `Phase` comes from
`pc`, `unfinished` is `Open # {}`, `before` is the image of the update in hand,
and for `RunUpdate` the service is the container that has its name. A step that
changes none of this is a stutter. The journal writes and calls that an update
makes are `Work`, and those of the repair `Repair`. `RunUpdate` keeps the
contract only while Docker answers: `FailureLeavesServiceUp` is a failure that
breaks it.

### RunUpdate

The state is Docker (`live`, `name`, `image`, `up`, `tag`), the table
`journal`, and the process: `pc` and `upd`, the local variables of
`Run.Update` or of `Reconcile`. Each action is one Docker call or one journal
write, with the code that follows it up to the next such call, so a crash can
come between any two. The container that journal entry `k` creates is container `k`;
the original one is 0. `Faults` selects what can go wrong: crashes, calls that
fail, calls that take effect but report an error (`"lost"`), and journal
writes that fail. A `rollback` that fails leaves the entry open, as in the
code; `Reconcile` works through open entries by id and gives up at the first
error (`pc = "exited"`), and the restart policy of the process starts it again.
`wanted`, `good` and `crashes` are history: what the operator wants, which
containers were verified, and the crash budget.

Left out: the settings the new container inherits (`recreate.go`), other
containers, and an operator who removes containers. The verdict of `verify` is
a choice.

### ComposeUpdate

Docker is one container (`image`, `up`) and the reference of its service
(`tag`). `compose up` recreates the container when the reference points to
another image, and starts it. When it fails or a crash cuts it off, it has done
nothing, all, or it has removed the old container and created the new one or
not (`UpPartial`). `Begin` starts from the idle state and takes the image that
a manual rollback has moved the reference to (`skipPull`), or goes on to the
pull. Otherwise actions and failures correspond as in `RunUpdate`: a rollback that
fails (`Abandon`) leaves its entry open until the next start. `wanted`,
`verified` and `gaveUp` are history: what the operator wants, the image of the
last update if it was verified, and whether a rollback has failed. An update
of a stopped service starts it and is not verified, as in the code.

Left out: projects and files of compose, services of more than one container,
failing journal writes, removal of images.

### SemVer and Policy

A version is what `semver.Parse` returns, or `Unknown`. Pre-release suffixes
are compared as text in the code, so they are numbers here, 0 for none.
`InRange` is the range test that `Between` and the flagged versions of
`Classify` share. Whether a release contains one of the keywords, and whether
an image is protected, are inputs.

### UpdateCycle

Processes are `"sched"`, `"check"` and each container, which are the keys of `Jobs`.
A step is one call to the registry, to GitHub or to the database, or the
replacement. The tables are functions of the container. `loc` holds the local
variables: what `Discover` saw (`at`), what the check found (`out`, `infos`),
the container at hand, and what `Update` saw and pulled (`from`, `got`). The
registry is `remote`; `Publish` changes it at any time, also back to an older
image. A call to the registry or to GitHub can fail (`outages`): a container is
then left out of the check, described without version or notes, or not pulled.
A rollback takes the image that the last successful row in `history` replaced.
It reads only the newest 200 rows of all containers, so `Lock` may refuse any
rollback, and so may `BeginRollback` in `Retention`.

The history variables say what was announced (`told`, `everTold`), what was
chosen and tried automatically (`tried`), which digests failed (`rejected`),
and whether anything came between since the scheduler's check began (`quiet`):
a publication, a change of policy, another process writing a table or
replacing a container, or release notes that could not be read.

`AnnouncedOnce` allows one more announcement for each crash: a process that
dies between `Notify` and `MarkSeen` has told what it did not record.
`EventuallyHandled` leaves out an attempt that a crash cut off after it was
recorded: the code then neither tries nor announces that update.
`QuietCycleIsSafe` says what `OnlySafeAutomatic` cannot: it leaves out every
cycle that something came between.

Left out: `Cleanup` and the removal of old images (see `Retention`), containers that come and go
or are called `check` (`KeysAssumption`), database errors, shutdown. The order
of containers in a cycle is free, which allows more than the code does.

### Retention

`onDisk` and `reference` are the images Docker has and the one the tag points
to; the services share the reference, as containers of one image do. A job,
which holds `Engine.mu`, goes through the steps that touch an image: tag (for
a rollback), inspect, replace, verify, restore, record. `heldOf` is the
`<name>-nu-old` container of the run adapter. `Cleanup` (`sweep`) reads the
rows that are due and then removes image by image, with a job running between
any two of its calls, because it does not take the mutex. Docker refuses to
remove an image in use. `promised` and `exposed` are history: for how long the
image of the last update must stay, and which updates left an image that a
sweep had already read.

Two exceptions are in the properties because they are in the code. Compose
keeps no old container, so an image that a rollback brought back, and whose row
is due, can go while the update that replaces it again is being verified; the
rollback of that update then fails (`job.listed`). And a sweep that has read
the row of an image removes it although an update has just renewed that row
(`exposed`).

### Verify

The container goes its own way: it starts, ends, is restarted or not, its
health check decides. The verifier inspects, judges what it saw, and sleeps;
time is counted in intervals of the poll, and a call takes up to `Slack` of
them. Without a health check a container that is `created` or `restarting` when
the window ends is accepted, as in the code.

### Serve

`phase` is how far `serve` is: repair, keys, serving, closing (Shutdown),
waiting for jobs, joining the scheduler, exited. `Signal` cancels the context
of the scheduler but not that of the jobs. `Shutdown` waits ten seconds for
handlers; one that outlives it (`outlived`) may start a job that nobody waits
for. The comment on `main.go:163`, "it never gets cancelled halfway", is true
of the jobs; an update of the scheduler has the context that the signal
cancels, so its calls fail from then on, which `RunUpdate` has as failing calls
and `Verify` as a verdict.

### Accounts, Notifiers, Settings, Notes

Each is a handler or a start that reads, works and writes, with nothing that
spans the three. `Accounts`: a setup looks for an account, hashes, inserts; a
login asks the limiter, compares, reports to it. Browsers share addresses, and
the limiter's clock is the age of the first failure; `failedAgo` is history: how
long ago each of the last failed attempts of an address was. `Notifiers`: an
edit reads the row, takes from it the secret that the browser sent as a mask,
and writes it back; the dispatcher works through the notifiers and then the
subscriptions it listed, and a test push does the same with the subscriptions
alone: for each it sends, and deletes one that is gone in a step of its own. `Settings`: the two halves of the key pair are two writes, numbered
by the start that made them, and the widget token is made on first use or by a
rotation. `Notes`: a call reads the cache, asks GitHub with the ETag and saves;
a set of notes is the number of changes before it.

The history variables say what a property has to forgive because the code
allows it: setups that had found no account (`late`), edits that were under way
when a secret was saved (`crossed`), first requests for a token that overlap
(`lateReads`). So these properties are weaker than the repository's words, and
say how much:

- `OneAccountUnlessLate`: `auth.go` speaks of a single admin. Two first visits
  that overlap make two; nothing else does.
- `FailuresBounded`: the README limits an address to five failed attempts in
  fifteen minutes. That is `FailuresLimited`, which the code violates. What it
  does keep an address to that sends `n` requests at a time is fewer than
  `2 * (MaxFails + n - 1)` in less than a window, without a right login between
  them, and the code puts no limit on `n`.
- `SecretIsLastTyped`: an edit that was under way when a secret was saved may
  put the one before it back.
- `TokensBounded`: first requests that overlap each make a token.

Left out: sessions, presentation and checking of JSON, what the senders of
notifications transmit.

## Runs

| Run | Instance | Shows |
|---|---|---|
| `run_faults` | 3 updates, 2 crashes, failing and lost Docker calls | `TypeOK`, `AtMostOneRunning`, `KnownGoodSurvives`, `OutcomeIsTrue` |
| `run_repair_fails` | 1 update, 1 crash | violates `RepairNeverFails` |
| `run_leftover` | 1 update, failing calls | violates `NoLeftover` |
| `run_stop_lost` | 1 update, lost replies | violates `FailureLeavesServiceUp` |
| `compose_faults` | 3 images, 3 updates, 2 crashes, failing calls | `TypeOK`, `OutcomeIsTrue`, `DownIsCovered`, `RepairCompletes`, `CleanRepairKeepsVerified`, `KeepsContract` |
| `compose_stale` | 3 images, 2 updates, 1 crash, failing calls | violates `VerifiedStays` |
| `cycle_safe` | 3 images, 2 publications, 1 request, 1 outage, 1 crash | `TypeOK`, `ReplacesWhatItSaw`, `AnnouncedOnce`, `RecordedWasTold`, `TriedOnce`, `QuietCycleIsSafe` |
| `cycle_live` | 2 images, 1 of each event | `EventuallyHandled`, `TablesConverge` |
| `cycle_unsafe` | 2 publications only | violates `OnlySafeAutomatic` |
| `cycle_retried` | 2 publications only | violates `FailedNotRetried` |
| `login_limit` | 2 browsers at one address, a limit of 2 | violates `FailuresLimited` |
| `parts` | docker run: 2 updates, 2 crashes, no other fault; the rest: 2 of each actor | the properties below |

What `parts` checks, beside the types of the parts:

| Module | Properties |
|---|---|
| `RunUpdate` | `JournalCoversDamage`, `RepairFailsOnlyOnOrphan`, `RepairCompletes`, `KeepsContract` |
| `Retention` | `UndoImageKept`, `RollbackStaysPossible`, `OldImagesGo` |
| `Accounts` | `FailuresBounded`, `OneAccountUnlessLate`, `LockEnds` |
| `Serve` | `ExitLeavesNoWork`, `ShutdownEnds` |
| `Notifiers` | `SecretIsLastTyped`, `EveryoneTold`, `DeletedStaysDeleted`, `GoneIsForgotten` |
| `Settings` | `KeysMatch`, `KeysStay`, `TokensBounded` |
| `Verify` | `VerdictInTime` |
| `Notes` | `NotesWereCurrent` |

These components share no variable, so a behaviour of `MCParts` runs one of
them and leaves the others where they began: to interleave them would multiply
the states and show nothing more. `MCRunParts` adds the docker run adapter
in the same way, for what it promises only while Docker answers; `run_faults`
has what it promises whatever fails.

**Bounds.** Every update of a service starts from an idle state, and what it
leaves behind for a later one is a container or an open entry. Two entries
show how one update meets the remains of another, three also with a second
crash in the repair. The runs in which Docker calls fail switch the
deadlock check off: a rollback that fails may leave no container to update, and
once the crash budget is spent nothing more happens. In the cycle two publications are what it takes to move a
tag between check and pull and to bring an old digest back; one request is
enough for a check or a job to run beside the scheduler at every point; one
container is enough because rows of different containers do not interact but
for the mutex, which the job and the scheduler contend for already.

In `parts` two services, one of each adapter, share a reference to three
images; three jobs are an update, a rollback and an update again, which is what
the exceptions of `Retention` take. Two browsers at one address with a limit of
two (which the windows allow up to five failures in less than one),
two handlers and two jobs, two editors of one notifier, two requests for
the token and two callers of the notes are the smallest numbers that overlap;
the theorems say that more of them change nothing. Four starts are two that are
cut off and two that serve. The window, the restarts and the deaths of `Verify`
are chosen so that each can come before the other. The deadlock check is off
there too, because `serve` ends, and jobs and starts are bounded.

**Fairness.** `RunUpdate`: weak fairness of what the process does by itself
once it runs, including its start, because Docker restarts it
(`restart: unless-stopped` in `README.md`); not of the operator and of new
updates. `ComposeUpdate`: the same, and strong fairness of the two calls of the
repair: the process is restarted again and again, and a call that is tried
again and again succeeds in the end. `UpdateCycle`: weak fairness of the scheduler (its ticker fires, calls
have timeouts or return, verification has a deadline), of the check job and of
each container's job (goroutines run). Nothing is assumed of users, the
registry or crashes. `MCParts`: time passes, jobs, calls and login requests
end, cycles and events come again, main goes on; strong fairness where a lock
is handed out (`JobLocks`, `CycleLocks`: a Go mutex starves nobody), where
`select` chooses between two ready channels (`CycleStops`), and for removing an
image that is tried again in every cycle. Handlers may hang. The budgets make the environment calm down in the end,
which is what the liveness properties are about.

### What the violations show

- **`RepairNeverFails`.** `CreateContainer` (`updater/run.go:108`) gives the new
  container the service's name before the journal knows its ID. After a crash
  in between, `Reconcile` cannot remove it and its rename fails; `serve` then
  exits at every start. `RepairFailsOnlyOnOrphan` shows that this is the only
  way a repair fails while Docker answers.
- **`NoLeftover`.** When the old container cannot be removed after a verified
  update, `run.go:125-128` closes the entry all the same. The leftover keeps
  the name `<name>-nu-old`, and no later update can rename its own.
- **`FailureLeavesServiceUp`.** A stop that took effect but reported an error
  ends the update (`run.go:93-95`) with the service down and the entry closed.
- **`VerifiedStays`.** A rollback that fails leaves its entry open
  (`compose.go:108-113`). A later update of the service is verified and closes
  its own entry; the next start brings back the old image of the first one.
  `CleanRepairKeepsVerified` shows that this takes a failed rollback.
- **`OnlySafeAutomatic`.** The verdict is about the digest and labels at the
  time of the check; the pull is by tag. The run has publications and nothing
  else, so the moved tag alone does it. `QuietCycleIsSafe` shows that without
  any interference only allowed steps are installed; it says nothing of a change
  of policy, of a second check or of missing notes in between.
- **`FailedNotRetried`.** The attempted digest is the one the check found, the
  failed digest is the one that was pulled.
- **`FailuresLimited`.** `Login` asks the limiter, compares the password and
  then reports the failure (`auth/auth.go:79-95`). Logins that overlap all pass
  before the first is counted. `FailuresBounded` shows how far it goes.

## Proofs

`RunUpdateProofs` (any set of images, any number of updates and crashes):

- `TypeCorrect`: `Spec => []TypeOK`, by the invariant `TInv`, which adds that
  the process works on an entry that exists and that a new container in hand
  is the entry's own.
- `NeverTwoRunning`: `Spec => []AtMostOneRunning` under all faults. The
  property is not inductive: it needs that names are unique, that a container
  which is kept aside runs only if nothing else exists, and where each step of
  an update leaves the old and the new one (`RInv`). That the container an
  entry creates is not there before needs `FInv`: containers belong to entries
  that have begun.
- `GoodLostOnlyUnrecorded`: under all faults, failing journal writes among
  them, `KnownGoodSurvives` fails only after a container was verified that the
  journal does not call verified (`Unrecorded`): `run.go:123` ignores the error
  of `Step("verified")`, and a crash after such an error undoes a verified
  update whose old container may be gone. The invariant, `GInv`, is that the
  newest good container lives (`NewestLives`) or a write was lost. It needs
  `EInv`: entries are begun in order and replace what is older (`InOrder`), what
  works belongs to an entry that has begun (`GoodHasEntry`), and where the
  process is with the newest entry, or with the one that it repairs (`AtHand`).
- `GoodSurvives`: `Spec => []KnownGoodSurvives` when journal writes do not
  fail, which follows because then nothing stays unrecorded (`AllRecorded`).
- `OutcomesTrue`: `Spec => []OutcomeIsTrue` under all faults. `OInv` adds to
  `RInv` what the local variables say of the containers at each step
  (`OnTheWay`), until the result is true of them (`ResultTrue`).
- `DamageCovered` and `RepairMeetsOrphan`: `JournalCoversDamage` and
  `RepairFailsOnlyOnOrphan`, while Docker answers and the journal can be
  written (`DockerAnswers`), with any number of crashes. `CInv` says that one
  entry at most is open, that it is right about the containers (`Shape`), that
  nothing is damaged when none is open (`Accounted`), and which containers
  exist at each step of an update and of a repair (`Stage`).
- `FailureIsHarmless`: also under `DockerAnswers`, what `run_leftover` and
  `run_stop_lost` violate holds, so those violations are the work of failing
  calls alone.
- `ContractKept`: `Spec => Contract!Spec` under `DockerAnswers`, the refinement
  of `UpdateContract`. Each action is one of the contract or a stutter: `CInv`
  gives what a repair may close and what is up again when the process serves,
  `ReturnOK` what `Update` returns.
- `UpdatesEnd`: under all faults, each step the process takes by itself lowers
  `StepsLeft`, a number that is never above `6 * MaxUpdates + 16`. It counts down
  to the end of an update and its rollback, or over the open entries of a
  repair, which works on an open entry until it closes it (`RepairsOpen`).

`ComposeUpdateProofs` (any images, faults, number of updates and crashes):
`TypeCorrect`, `DamageCovered`, `OutcomesTrue` and `VerifiedKept`, all from one
invariant, `IInv`. Its parts say that the entry in hand is open and agrees with
the local variables (`CursorOK`), where container and reference are between
two calls (`ImageOK`), that what is down waits for an entry that is only closed
after an `up` (`CoverOK`, stronger than `DownIsCovered`, which also counts
verified entries that the repair merely closes), and that without a failed
rollback one entry at most is open and its old image is the verified one
(`VerifiedOK`). `ContractKept` is the refinement, `Spec => Contract!Spec`: with
`IInv` and what `Update` returns (`ReturnOK`) each step is one of
`UpdateContract` or a stutter. `UpdatesEnd` is as in `RunUpdateProofs`.

`UpdateCycleProofs` (any containers, images, releases, users' requests,
publications, outages and crashes):

- `TypeCorrect`: with what each process has at hand where it is (`AtHand`).
- `ReplacesSeen`: `ReplacesWhatItSaw`, by `MutexInv`: a process is between
  `Lock` and its return exactly if it holds the mutex, and nobody else touches
  a container meanwhile.
- `ToldOnce`, `RecordedTold`, `AttemptedOnce`: `SeenInv` relates the table
  `seen` to what was told and tried. What is told is recorded, but for one
  announcement on its way or one crash (`AnnounceInv`); what is tried is
  recorded before (`AttemptInv`).
- `QuietCycleSafe`: `QuietInv` says that while nothing disturbs the cycle, what
  the scheduler saw is what runs, its rows are what `describe` makes of the
  images themselves (`AllJudged`), a container it has taken up may be updated
  (`Allowed`), and what it pulled is what it judged. That it is done with a
  container it takes up is `PlanInv`.
- `WorkEnds`: for finitely many containers, whatever anybody does, a process at
  work stays where it is or lowers its `StepsLeft`. Publications, requests and
  other processes cannot prolong a cycle, a check or a job; only waiting for the
  mutex can, whose holder is at work itself.

The components of `parts`, for any number of their actors:

- `RetentionProofs`: `UndoAlwaysPossible`, `RollbackAlwaysPossible`. `RInv`
  says that images in use are on disk, which container holds the image a job
  may go back to, that a sweep works on rows only, that an image without a row
  is safe, and that a promised image has no row that is due too early.
- `AccountsProofs`: `FailuresStayBounded` counts the failures that are recorded
  and those that are still being compared (`FailuresToCome`): no more fit into
  one window of the limiter than `WindowHolds`. `Spans` says that the failures
  an address has in the limiter are its latest, that the window began with the
  oldest of them, and that those of the window before are a window away;
  `AccountsStayBounded` says that once there is an account, only late setups
  insert (`InsertsAreLate`). Both count finite sets.
- `SettingsProofs`: `KeysAlwaysMatch`, `KeysNeverChange` from `KeysWhole`, what
  the two settings can be at each step of a start; `TokensStayBounded` from
  `TokensPaid`, which has a reason for each token that is made or about to be.
- `PartsProofs`, the other four:
  - `Notifiers`: `SecretStays` from `EditsInv`, which says that an edit keeps
    the secret typed last or is one of those that were crossed; `AllTold` from
    `ToldInv`: who is still to be told is on the list at hand or will be on the
    next; `DeletedForGood`, a property of steps.
  - `Verify`: `VerdictAlwaysInTime` from `PollInv`, which says at which time
    each step of a poll can be reached.
  - `Notes`: `NotesAlwaysCurrent` from `NotesInv`: an ETag and the notes next to
    it belong together, in the cache and in every call (`NotesBelong`).
  - `Serve`: `NoWorkLeft` from `SInv`. After each stage of the end, what it
    waited for is over and can start again only by a handler that outlived
    `Shutdown` (`NothingNew`).
  - `PartsAreTheComponents`: `PartsSpec` implies the specifications of all seven
    components, which carries their theorems over to `MCParts`;
    `PartsTypeCorrect` is `TypesOK`.

`PolicyProofs` (all versions, notes and flags): the order of versions is
transitive (`BeforeTransitive`), antisymmetric (`CompareReverses`) and total
(`CompareEqual`); what `Decide` updates is a step up within one major version
(`UpdateIsSafe`); what `Classify` lets pass is no major step
(`MajorIsBreaking`), so the last branch of `Decide` is never taken for rows
that `describe` wrote; notes that are missing can only make a verdict milder
(`NotesOnlyAdd`).

The theorems rest on the named assumptions of the modules about their
constants (such as `ImagesAssumption`, `BoundsAssumption`,
`BrowsersAssumption`), which TLC evaluates in the runs; `WorkEnds` also on
`IsFiniteSet(Containers)`, which holds because a host has finitely many.

Only model-checked is what the prover cannot reach: liveness (`RepairCompletes`,
`EventuallyHandled`, `TablesConverge`, `OldImagesGo`, `LockEnds`,
`ShutdownEnds`, `GoneIsForgotten`), with `ENABLED` and the fairness it rests
on, and induction over data. `UpdatesEnd` and `WorkEnds` prove the part of it
that needs no fairness. Every safety property that a passing run checks is the
subject of a theorem.

## Not modelled

- The commands that run in a second process (`update`, `reconcile`, `check`,
  `policy`): nothing in the repository says whether they may be used while the
  server runs. `reconcile` repairs the entry of an update that the server is
  just making, and `policy` reads and writes a row that the settings page may
  write in between.
- Several services under one journal, and compose services of more than one
  container: `Reconcile` stops at the first entry that fails, which
  `RunUpdate` has for one service.
- Failing database calls, except for the journal of `RunUpdate`.
- The container that nextupdate runs in, which it refuses to update, and
  containers that come and go during a check.
- `recreate.go`, `docker/ref.go`, `discovery`, `changelog/mapping.go`, parsing
  of versions and of notes: translations of data without state, which the
  models take as inputs or leave out.
- Sending notifications, HTTP, HTML and the browser's code, sessions, the text
  of logs and reasons, the demo server and the icon generator.

Next in line would be a second process in `RunUpdate` and `ComposeUpdate`, and
several services under one journal.
