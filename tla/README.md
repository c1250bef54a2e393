# ActiveDecoy in TLA+

ActiveDecoy is a console that plants decoys ("honey objects") in Active
Directory and watches for anyone who touches them. This directory models it in
TLA+, checks small instances with TLC and proves the main invariants with
TLAPS. Paths below are relative to the repository.

## Inventory

The console is one FastAPI process. Request handlers are plain functions run on
a pool of worker threads, so any two requests interleave except where a lock
says otherwise. State is kept in module-level objects (`app/main.py:80-96`) and
in JSON files under `data/`.

| Component | State | Operations | What is hard | What makes it correct |
|---|---|---|---|---|
| Monitoring engine and store (`app/core/monitoring_engine.py`, `monitoring_store.py`) | events, uid counter, honey registry, subscribers; `data/monitoring_events.json` | restore, seed, register_deployment, record_event, ingest_events, simulate, acknowledge(_all), _persist | state is copied under one lock and written under another; events are shared objects; publish precedes persist; a restart at any point | no uid skipped or repeated, no event dropped early, file and feed one history, acknowledgements last |
| Monitoring routes (`app/api/monitoring.py`) | a queue of 100 entries per stream | stream, ingest, simulate, acknowledge | full queue, order of delivery, check of the registry before registering | every announced alert is in the feed |
| Deploy and teardown (`app/core/deception_service.py`, `ad_provisioner.py`, `deployment_history.py`) | the directory; `data/deployments.json` | deploy (plan, blocked, live, dry run), teardown (live, dry run), preflight | LDAP requests that fail or whose answer is lost, exceptions half way, concurrent calls, settings that change between starts, capped history | the history is faithful, what is in the directory can be torn down, nothing outside the honey OU is touched |
| Washu agent (`washu_agent/`) | file offset, last record, count of forwarded events | poll, ingest, heartbeat | offsets advance before the ingest is answered; batches over 100 are refused | every collected event reaches the feed, or its loss is visible |
| Agent registry (`app/core/agent_registry.py`, `app/api/agents.py`) | one record per agent; `data/agents.json` | heartbeat, note_ingest, summary | heartbeat and ingest race on one counter | counter and health describe the agent |
| Connection profile and vault (`app/core/connection_profile.py`, `secret_store.py`, `connection_service.py`, `connection_manager.py`, `app/api/connection.py`) | signed session cookie; passwords in the process | save, test, retest, disconnect, enumerate, logout | the last response's cookie wins; the vault dies with the process; logout against save; the cookie expires and the vault's entry does not | a password is used only with the profile it was saved for |
| Login and password reset (`app/core/rate_limit.py`, `console_auth.py`, `console_credentials.py`, `password_reset.py`) | attempts per address; `data/admin_password.json` | check, hit, reset, login, request and complete a reset | check and hit are separate; a reset token can be used again; the file is written in place | bounded attempts per window, one password in force |
| Directory import and graph (`app/core/directory_enumerator.py`, `directory_service.py`, `graph_store.py`, `graph_view.py`, `app/api/graph.py`) | Neo4j | enumerate, replace, merge, filter | paging limits, failure between delete and merge, concurrent imports | an import is complete or reported incomplete |
| Policy and settings (`app/core/policy.py`, `config.py`) | settings, read once per start | startup guards, evaluate, gate_provision, stamp and prefix rules | three pieces of code decide what a safe name is; settings change between a deployment and its teardown | stamp, gate and provisioner agree |
| Playbooks and exports (`playbooks.py`, `export.py`, `app/api/policy.py`) | none | reports | - | - |
| Live page (`app/static/js/app.js`) | the table it shows | loadEvents, startStream | requests answered out of order, broken streams; 50 rows by timestamp | every alert is shown in the end, unless the page has no row for it |
| Application shell (`app/main.py`, `audit.py`, `logging_config.py`, middleware), templates, scripts, lab files | - | wiring | - | - |

How they interact: the agent posts events to `/api/monitoring/ingest`, which
calls the engine and then the registry. A deploy provisions the directory,
replaces the engine's honey registry, synchronises the graph and files a
record; a teardown works from that record alone. The engine correlates events
with its registry and hands each event to the subscribers of the live stream.

The page follows the live stream and asks for the events again whenever
something comes. A session's profile and vaulted password are what import,
preflight, deploy and teardown connect with. Policy and settings decide, at the
start and before each live write, whether the directory may be changed.

## Modules

| Module | What it holds |
|---|---|
| `Monitoring` | engine, store and the monitoring routes that change state |
| `EventLog` | what the feed promises: an append-only log with a window, and a durable state that may lag behind |
| `MonitoringProofs` | theorems of `Monitoring`, with the refinement of `EventLog` |
| `Stream`, `StreamProofs` | subscribers, queues and generators of the live stream, and the page that follows it; theorems |
| `Deployment`, `DeploymentProofs` | deploy, teardown, provisioner, history and the directory; theorems |
| `Agent`, `AgentProofs` | the Washu agent with its two collectors, the ingest and heartbeat routes, the agent registry; theorems |
| `Access`, `AccessProofs` | login, rate limiter, password file, password reset; theorems |
| `Session`, `SessionProofs` | session cookie, password vault, connection routes, directory test; theorems |
| `DirectoryImport`, `DirectoryImportProofs` | paged search, snapshot, rewriting of the graph; theorems |
| `Policy`, `PolicyProofs` | settings, startup guards, gate, name and OU rules; theorems |
| `MCMonitoring`, `MCStream`, `MCDeployment`, `MCSession`, `MCDirectoryImport`, `MCPolicy` | small instances; the other modules are instantiated by their `.cfg` alone |

### Monitoring

One action per section of a call. A section is what happens under one hold of
`MonitoringEngine._lock` or of `MonitoringStore._lock`; between two sections
`pc[t]` says where thread t is and any other thread may run.

* `IngestCall`, `Correlate` (the lock of `_correlate`), `RecordEvent` (the lock
  of `record_event`), `Notify`, then the three steps of a save, once per item;
  `SkipInvalidItem` is the `continue` of a bad item.
* `SimulateCall`, `EnsureRegistered`, `RegisterFromSession`, `SimulateBurst` or
  `SimulateRefused`. Counts are clamped by `Clamp`.
* `RegisterDeployment`, `Acknowledge`, `AcknowledgeAll`.
* `CopyState` is the section of `_persist`, `Serialise` takes the store lock and
  reads the events, `ReplaceFile` is the rename that releases it, `SaveFails`
  the exception when the file cannot be written: it ends the call and leaves
  memory as it is.
* `BootRestore`, `BootSeed`, `Crash`. A crash loses memory and calls and keeps
  the file, which is always whole since it is replaced by a rename.

The list that `_persist` copies holds references. So `copy[t].acked` is filled
only by `Serialise`, with the flags of that moment: this is why an
acknowledgement survives although an older copy may be written after a newer
one. The field `boot` of an event is not in the code; it tells two events with
one uid apart. Event data is reduced to the uid and the decoy the event was
correlated with; what an item matches is free, among the registered decoys.
Subscribers are one stream that receives everything published; the streams
themselves are in `Stream`.

`EventLog` is the abstract specification. `Monitoring` substitutes the set of
its feed's events for the log and the file's for the durable state; its threads,
locks, copies and flags are stuttering. An engine that is still restoring is not
yet running. A save of an older copy is a `Save` of an earlier state.

### Deployment

One action per request to the directory and per hold of the history lock.

* A deploy starts as `DeployPlan`, `DeployBlocked` or `DeployToDirectory`. The
  last is guarded as the route and `gate_provision` guard it: live only with
  the feature flag on and a compliant policy, dry always.
* `PreflightFails`, `DryProvision`, then per object `Probe`, and `Modify` or
  `Add` or `AddRefused`. `ProvisionRaises` is the exception handler; the request
  at hand may have been carried out. `DeployRaises` is an exception after
  provisioning, `FileRecord` is `history.add`.
* `TeardownCall` reads the record (a copy, as `get` parses the file),
  `DeleteObject`, `DeleteFails`, `TeardownRaises` per object, then
  `TeardownKeepsRecord`, `MarkTornDown` or `MarkRaises`. `TeardownAnswered` is
  every early answer; it changes nothing.
* `Restart` stops the process between two requests and starts it with any of
  `Settings`; the directory and the history stay.

`maxRecords`, the capacity of the history, is chosen at the beginning from
`Capacities` and never changes: `MAX_RECORDS` is 100 in the code.

A plan is its sequence of provisionable names, after the prefix is applied; a
name may occur twice, as the names are drawn with repetition. A DN is a name
and an OU; OUs nested in the honey OU, which `_is_safe_dn` also accepts, are not
distinguished from it, and the prefix is taken to stay the same. `filed`,
`marked`, `creator` and `removed` are history variables: they record what
happened and no action reads them.

### Agent

The agent is sequential: `pc` says where its loop is, and in "hello", "ingest"
and "beat" it waits for an answer. Requests are in `net` and are served in any
order; one the agent no longer waits for (`awaited` false) is a stray.

* `StartAgent` constructs the collectors (the file's offset is the end of the
  file, `_last_record` is None), `SendHello` is the heartbeat before the loop.
  `Collect` is a poll of both collectors and the sending of what they found;
  `SkipHeartbeat` or `SendHeartbeat` ends the cycle. `Answer` and `CycleFails`
  are the two outcomes of each `try`. `FileRaises` and `WinlogRaises` are the
  exceptions that `collect_events` swallows.
* The file is a sequence of lines of two units each, so that an offset can be in
  the middle of one; `WriteLine` may leave its line half written. `Rotate`
  empties or removes the file. The Security log is its count of watched records,
  read by the loop of `WinlogCollector.poll` from the newest back (`ReadBack`).
* The console serves with `RecordBatch`, then `NoteIngest`, or `Refuse`, or
  `ServeHeartbeat`. `RecordFails`, `PersistFails`, `Reject`, `TimeOut` and
  `RestartConsole` are the failures. A batch is recorded in one step: only
  strays run beside it, and what the steps in between look like is `Monitoring`.

`rotated` and `excused` are history variables. An item of blanks, which the
engine counts as an error and skips, is not modelled; a batch the route cannot
parse is `Reject`. The clock is abstracted: whether a heartbeat is due is free,
except that a failed one stays due.

### Stream

* The engine: `AppendBurst` (under the lock), then per event `CopySubscribers`
  (under the lock), `CallSubscriber` for each, `Published`. A subscriber puts a
  callback on the event loop, `RunCallback` runs it: `Put` drops the event when
  the queue is full, which is what `QueueFull` in a callback amounts to.
* A generator: `Subscribe`, then `StillConnected` or `EndStream`, and `Send` or
  `KeepAlive` (the 15 seconds are over), again and again.
* The page: `Receive` asks for the events, `ServeEvents` answers from the feed of
  that moment, `Show` replaces the table, `LoseAnswer` shows an error,
  `Reconnect` gives the connection up for a new one or for none.
* The answer has the `Rows` of `list_events`: of the events the feed keeps
  (`FeedSize`, 500 in the code) the first `Limit` (50) by the events' own
  timestamps, the latest first. An agent gives its events their timestamps, so
  that an event may be older than one appended before it (`stamp`, `Clocks`).
  Timestamps are numbers in the order of their strings, by which the code sorts.

An answer is named by the last event appended before it was given; events do not
change, so this says which rows it has. Nor does the page promise to show every
event: `Displaced(e, n)` says that after `n` events `e` has no place in an
answer, because the feed dropped it or `Limit` others have timestamps that are
no older. An alert of a batch of more than 50, or with an old timestamp, is
never shown in this way. `caught` has the events that were shown, and those
displaced in an answer that was shown; the properties say that an alert is
caught. Whether the answer's rows are the right ones is part of that: with the
order of the timestamps turned round an alert would be neither. Since a message
says only that there is something new, a late answer may put an older table in
the place of a newer one; what was caught stays caught.

### Access

* A login is `Login`, `Admit` or `Refuse` (`check`), `Hit`, `Verify`, and
  `Welcome` if it succeeds. A forgotten password is `Forgot`, then check and hit
  with a limiter of its own, then `Mail`.
* `Reset` (any valid token, used or not), `Truncate` and `Write`: `write_text`
  opens the file, which empties it, and then fills it.
* Time is kept as ages; `Tick` makes everything one unit older. `check` and
  `hit` read the clock before they wait for the lock, so a call may take an
  entry for younger than it is by up to `lag[t]`, chosen by `\E l`.
* `Restart` loses limiters and calls and keeps the file and the tokens, which
  are signed and not stored.

### Session

* `Arrive` copies the cookie into the handler's session, `Respond` writes it
  back, `LoseResponse` does not. In between: `Login`, `Logout`, `Disconnect`, or
  `Load` and what the handler goes on to: `Save`, `Hypervisor`, `Bind` with its
  retries, `Conclude`, or `Connect` for every handler that works in the
  directory. A retest loads twice, as the code does.
* The vault is a function of ids; `Restart` empties it, cookies stay: the browser
  keeps them, and the key they are signed with comes from the settings.
  `docs/TROUBLESHOOTING.md:23` says the opposite of both (cookies "in-memory per
  process", passwords that "remain in server secret store"). The property
  `SequentialUseIsCoherent` says what the code does, and `PROJECT.json` lists the
  disagreement.
* `Expire` drops a cookie that no response has renewed for the `max_age` of
  `SessionMiddleware`, at any moment: time is not counted. The vault has no such
  limit, so the entry stays until the process stops (`expired`).
* A cookie may hold a password of an older version (`legacy`, with a profile of
  `LegacyProfiles`), which `Load` moves into the vault.

After a restart `lost` says that the vault lost the password a browser saved
last, until one is saved again. With it the property speaks of uses after a
restart too: the profile is the one saved last, the password is blank or that
of the settings, and never another one.

With a profile that has no host the settings stand in for it, and a legacy
password that is then moved to the vault takes the place of the settings'
password. `Expected` admits this; in the run the settings have no password, so
that there is one expected pair.

`typed`, `saved`, `lost`, `owner`, `mixed`, `expired` and `bound` are history
variables.

### DirectoryImport

* `Import`, then for each category `Search` once per page, `SearchFails` (the
  error ends the category and keeps what was read), `EndCategory`; `GiveUp` is an
  exception, `Health` the check of Neo4j after which statements are computed.
* `Delete` and `DeleteFails`, `Write` and `WriteFails` run one statement each;
  `Answer` reports. `SyncHoney` runs the statements of a deployment or of the
  sample file. `Change` is an administrator, `Restart` a stop at any step.
* A failed statement does not stop the others (`execute_queries`), a failed
  delete stops the import.

Of a membership the model knows whether the entry's `memberOf` shows it, and
whether the group's `member` spells the DN as the entry does: the graph matches
DNs exactly, while `_dedupe_memberships` compares them in lower case.

### Policy

A name is a sequence of tokens, the prefixes put before it and the name the
deception engine chose; `Exact` and `Folded` say which tokens begin with which
prefix, with and without regard to case. `Odd` prefixes contain a character
that `_ensure_prefix` removes. `Stamped`, `EnsurePrefix`, `Begins` (the gate)
and `BeginsFolded` (provisioner, teardown) are the four rules. A DN has the name
as `_escape_cn` leaves it (`EscapeCn`, with `Escaped` for the prefixes that have
a special character of DNs), and `Safe` compares the prefix with that form, as
`_is_safe_dn` does: with a prefix like `h+` the DN begins with `h\+`, and
teardown refuses an object it has just made. `RefusedOnlyAfterEdit` states this
exception. `Start` applies
the startup guards, `Edit` is a change of the environment with a restart to
come, `Deploy` writes one object live if the gate lets it, `Teardown` deletes it
if `Safe`. Dry runs and several objects are in `Deployment`.

## Runs

| Run | Checks | Instance | Result |
|---|---|---|---|
| `monitoring` | `TypeOK`, `FeedIsNewestWindow`, `FileBelongsToHistory`, `AcknowledgementSticks`, `PublishedIsListed`, `ImplementsLog` | 2 threads, 1 decoy, an empty and a non-empty deployment, feed of 2, bursts of 1 and 2, 2 events offered, 2 starts | hold |
| `monitoring_live` | `CallsReturn` | the same with one start | holds |
| `deployment` | `LedgerIsFaithful`, `TornDownMeansRemoved`, `OrphansAreExplained`, `ChangesStayInOu`, `ChangesAreLive` | 2 threads, 2 names, plans (a,b) and (a,a), 2 OUs, 3 settings, histories of 1 and of 2 records, 2 deployments, 1 fault, 2 starts | hold |
| `agent` | `TypeOK`, `NothingIsFedTwice`, `AwaitedBatchIsNewest`, `LossIsExplained`, `CountsAreBacked`, `AgentSettles` | 2 lines, 1 record, batches of at most 2, 1 rotation, 1 fault, 2 starts of the agent | hold |
| `stream` | `TypeOK`, `NoAlertIsMissed`, `AlertsAreShown`, `StreamsAreReleased` | 2 threads, a queue of 1, 3 events, the second older than the first or all of one time, 1 row of a feed of 2, 1 connection | hold |
| `access` | `AttemptsAreBounded`, `RetryAfterSuffices`, `OldPasswordIsOut`, `RoomRecurs` | 2 threads, window 2, limit 1, tokens that expire at once, clock read up to 1 early | hold |
| `session` | `VaultHoldsOwnSecrets`, `LogoutTakesTheEntry`, `SequentialUseIsCoherent`, `ReadyMeansBound` | 2 threads, 2 browsers, 2 profiles and that of the settings, 1 password, 2 ids, 3 requests, cookies that expire | hold |
| `directory_import` | `TypeOK`, `CompleteUnlessTruncated`, `GraphMirrorsSnapshot`, `EntriesAreAttached`, `HoneyStays` | page of 1, at most 2 objects, 2 calls, 1 change of the directory | hold |
| `policy` | `ProductionHasItsUnit`, `StampedNamesPass`, `DirectoryKnowsTheName`, `LiveWritesAreMarked`, `RefusedOnlyAfterEdit` | all settings, 5 kinds of prefix (none, the default, one a name has in another case, one that is cleaned, one that is escaped in a DN) | hold |
| `agent_winlog` | `RecordsAreNotSkipped` | 2 records, no fault | violated |
| `access_reset` | `ConfirmedPasswordOpens` | a password with white space | violated |
| `directory_lab` | `CompleteUnlessTruncated` | lab mode, 2 objects at most | violated |

Why these bounds are enough to be interesting.

* `Monitoring`: with a seed of one event, a feed of two and two events offered,
  the feed fills, overflows and is restored; two threads are enough for saves
  that cross.
* `Deployment`: two deployments of two names on two threads share a name, so that
  one probes what the other creates and tears down what the other made; the
  second plan holds one name twice; one fault can hit any request; a restart can
  change the OU under a record; on a history of one record the second displaces
  the first before, during and after its teardown.
* `Agent`: two lines and a record exceed the batch limit of two; two lines are
  enough to rotate the file and grow it past the old offset, to tear a line, and
  to be refused, late or partly recorded; stopping the agent makes strays beside
  the one fault.
* `Stream`: a queue of one is full after one of three events, so events are
  dropped, and a burst can meet a subscription, a reload or a broken connection.
  With one row and a feed of two, an event is in an answer until a later or an
  equal one comes, an older event has no place at once, and the feed drops the
  first of three.
* `Access`: with a limit of one and a window of two, two logins that passed
  `check` together exceed the limit; ages up to the window and a lag of one let
  an entry expire between two readings of the clock.
* `Session`: three requests are a save, a test that overtakes it and a logout or
  a use, of one browser or two; a restart may come at any point, and so may the
  end of a cookie's time.
* `DirectoryImport`: with pages of one and a limit of two a category is cut
  between pages, at its end and not at all, and the second call meets the graph
  of the first, whole or half rewritten.
* `Policy`: the settings and the kinds of prefix are enumerated completely.

The bounds that are not in the code are `MaxBatch`, `MaxOffered` and `MaxBoots`
in `Monitoring`; `MaxDeploys`, `MaxFaults` and `MaxBoots` in `Deployment`;
`MaxWritten`, `MaxRecorded`, `MaxRotations`, `MaxFaults` and `MaxStarts` in
`Agent`; `MaxIds` and `MaxRequests` in `Session`; those of `Stream`, `Access` and
`DirectoryImport` are marked `bound:` at their CONSTANTS. Each only guards the
action that counts it. Thread and browser symmetry is used in invariant runs
only. A run that switches the check for deadlock off is one in which the
modelled calls may be used up or a process stopped for good.

What the violated runs show, all of them errors of the code:

* `agent_winlog`: the Security log is read from the newest record back, and the
  first one taken raises `_last_record`, so the rest of the new records are
  passed over. One event per poll is forwarded.
* `access_reset`: the login removes white space from the password typed, the
  reset stores it as it came. A new password with a blank in it is confirmed and
  then refused.
* `directory_lab`: the server is asked for `max_objects` entries and the result
  is called truncated when there are more than that, which cannot be.

What the models contain and no run refutes, since nothing in the repository
promises otherwise: a save that crosses another may leave an older file until
the next change; an event published before it is saved loses its uid to another
one when the process stops in between; a live teardown of a dry run's record
deletes decoys of the same names that another deployment created; a graph sync
that raises ends a deployment before its record is filed (one of the cases of
`OrphansAreExplained`); a failed ingest is forgotten by the agent's status after
the next cycle with nothing to send; a late answer puts an older table on the
page until the next message; an alert of a batch of more than 50, or with an old
timestamp, has no row and is never shown; the vault's entry outlives a cookie
that expires; a save that is answered after a logout brings the vault's entry
back; a profile saved after a test is shown with the verdict of the profile
tested; teardown refuses its own objects when the prefix has a character that a
DN escapes.

One divergence between a document and the code is shown by a run that passes:
`session` checks, with `SequentialUseIsCoherent`, that after a restart a browser
connects with the profile it had saved and without the password, where
`docs/TROUBLESHOOTING.md:23` lets the profile go and the password stay.

Fairness.

* `CallsReturn` assumes strong fairness of `Section(t)` for each thread: the
  operating system keeps scheduling a running thread (weak fairness), and a
  thread waiting for the store lock is not passed over for ever, since each
  holder releases the lock and handlers do not loop.
* `AgentSettles` assumes that the agent's loop (`Cycle`) and the console's
  handlers go on (weak fairness), and that a heartbeat is sent again and again
  (strong fairness of `SendHeartbeat`): every cycle sleeps, so the interval
  elapses. It speaks of runs in which the agent is up from some moment on.
* `AlertsAreShown` and `StreamsAreReleased` assume weak fairness of worker
  threads, event loop, generators, the server's answers and the page: each is a
  loop of the runtime that runs what is ready. Of the answers under way some one
  arrives or is lost at a time; answers are finitely many.
* `RoomRecurs` assumes that time passes (`Tick`) and that calls go on (`Serve`).

New calls, failures and stops are never assumed.

## Proofs

Every theorem holds for all values of the constants that satisfy the named
assumptions of its module.

| Module | Theorems |
|---|---|
| `MonitoringProofs` | `TypeCorrect`, `FeedWindow`, `FileHistory`, `StreamHistory`, `AcknowledgementsStick`, `FeedImplementsLog` |
| `DeploymentProofs` | `TypeCorrect`, `StayInOu`, `LiveChanges`, `FaithfulLedger`, `TornDownIsRemoved`, `OrphansExplained` |
| `StreamProofs` | `TypeCorrect`, `NoneIsMissed` |
| `SessionProofs` | `TypeCorrect`, `OwnSecretsOnly`, `ReadyIsTested`, `LogoutEndsEntries`, `UseIsCoherent` |
| `AgentProofs` | `AgentIsWellTyped`, `FedAtMostOnce`, `AwaitedIsNewest`, `CountsNeverRunAhead`, `EveryLossHasAReason` |
| `DirectoryImportProofs` | `TypeCorrect`, `NodesHangOn`, `HoneyIsKept`, `PagedSearchComplete`, `GraphMirrors` |
| `AccessProofs` | `TypeCorrect`, `OldPassword`, `WaitSuffices`, `AttemptsBounded` |
| `PolicyProofs` | `TypeCorrect`, `ProductionUnit`, `StampAndGate`, `OneName`, `WritesMarked`, `OwnTeardown` |

`MonitoringProofs` is a chain of inductive invariants, each using the ones before.

* `Inv1`: types, and that calls run only while the process is up.
* `Inv2`: not only feed and file are windows of consecutive uids, but every copy
  a thread is about to save. `FeedIsNewestWindow` alone is not inductive: the
  file is replaced by a copy about which it says nothing. That `Newest` of an
  extended window is again a window is the lemma `AppendWindow`, and
  `RestoreWindow` says that restoring a window gives back the same list and
  counter.
* `Inv3`: whatever is kept anywhere (file, copies, events waiting to be
  published) is in the feed or displaced by it. The key fact is that an event
  leaves the feed only when `MaxEvents` newer uids exist.
* `Inv4`: `Covered`, what a thread is about to write carries the flags of every
  acknowledgement confirmed so far or by itself; mutual exclusion of the store
  lock; and that flags are set before they are confirmed. Without the store lock
  a thread could serialise, another acknowledge and save, and the first
  overwrite the flag.
* `FeedImplementsLog` maps every step to a step of `EventLog` or a stutter, with
  `Inv2` and `Inv3`: an append extends the log, the end of a save writes a copy
  that is an earlier window, a start reads the durable window back.

`DeploymentProofs`:

* `Inv1`: types, and the shape of what a loop has left: names for a deploy, DNs
  for a teardown, nothing to be recorded at a start.
* `Inv2`: a call that writes is live and was admitted under settings that are
  still in force, because a restart ends every call.
* `Inv3`: one record per deployment, which nobody marks before it is filed; two
  running deployments have different ids. Without the uniqueness of ids neither
  the displacement nor the marking of a record could be followed in `filed`.
* `Inv4`: while a live teardown has met no failure, what its record lists is
  removed or still in its loop. At the end the loop is empty.
* `Inv5`: a decoy in the directory is among what its creator has made so far,
  or in its record, and no teardown saw it go. With `Inv4` a decoy cannot belong
  to a record that is torn down, which is the last case of `OrphansAreExplained`.

`AccessProofs`:

* `Inv2`: a reset that was reported stands in the file, unless the file is being
  written or a write was cut short.
* `Inv3`: while an announced wait runs, a full bucket has its oldest entry leave
  the window within that wait.
* `Inv4` is the reason for the bound of `AttemptsAreBounded`, for every number of
  ticks up to a window: the logins let through in that time, and those that
  passed `check` before the bucket was full and have yet to pass `hit`, are at
  most `Workers` for every entry of that time and `Workers - 1` more. A login that
  `hit` counts adds an entry, and so room for the others that were let past it;
  one it does not count was among those. It is assumed that there is a thread and
  that threads are finitely many.

`PolicyProofs` needs that a name carries at most two prefixes, which makes the
four rules comparable, and that escaping changes tokens and not their number.

`StreamProofs`: an event that is published is in the feed already, so a message
about it makes the page ask for an answer given after its append. The lemma
`AnswerCatches` says that in such an answer every event is a row or is displaced:
one that comes after `Limit` others in the order of `list_events` has as many
with timestamps no older. `NoAlertIsMissed` is inductive beside three facts: a thread has subscribers to call only for an event
it has to publish (`Handed`), a connection subscribes once and is not over while
the page has it (`Alive`), and what threads publish was appended before.

`SessionProofs`:

* `IdsLeft`: the calls that may still take an id are admitted only while ids are
  left, so that the next id is one nobody has (an id is random in the code).
* `Owned` and `OwnSecrets`: every cookie and every call of a browser carries an
  id that was given to that browser, and every password on its way to the vault
  was typed there. `Working` says what a call holds at each of its steps.
* `Bound`: a verdict on its way, in a call or in the cookie, names a profile
  that this browser's tests bound. The theorem says no more than this: a profile saved
  after the test is shown with the old verdict, whether it was tested or not.
* `Apart`: a browser that keeps its requests apart and gets every response has
  one call at most. Its session, in that call or without a call in the cookie,
  `Agrees` with what is `Left` of what was saved last (the profile, the password
  kept for it unless the process was restarted, no vault entries under other ids
  than its own but those of expired cookies), and `Prepared` says what a call
  holds at each of its steps. `LogoutEndsEntries` and `UseIsCoherent` follow. A blank password on the form changes nothing in the vault, because the
  stored one was filled in first.

`AgentProofs`:

* `Budgeted`: what an event has in the feed, in requests not yet recorded and
  still to come from its source is at most one for a line of the file, and one
  per start of the agent for a record of the Security log. Recording a batch, a
  late stray included, only moves an event from one of these places to another;
  reading takes it from what is to come, which for a line it never enters again
  (`Position`, `FileShape`, and that the offset of a new agent is the file's end).
* `Ordered`: what is still to be read is newer than all that left the file, and
  an awaited batch is newer than the feed and than every stray, so that the order
  is kept by the agent although requests are served in any order.
* `Backed`: an event counted was recorded before, and the batches that wait to be
  counted still fit under the length of the feed; `Waits` says that of these only
  the awaited one can be counted by the agent.
* `EveryLossHasAReason` follows a line from the file to a batch, which is awaited
  (`Waits`) until it was recorded or its request failed and its lines are
  excused.
* The lemma `NewestRecordOnly` says what the loop over the Security log yields
  for any number of records: the newest record if it is new, and nothing else.
  It is the reason why `agent_winlog` is violated. A smallest counterexample
  stands for the induction.

`DirectoryImportProofs`:

* `Planned` and `Attached`: a snapshot is written domain first, and each
  statement that merges an entry attaches it. A delete empties the directory
  part of the graph, and the plan that follows begins with the domain again;
  another import in the middle of its plan is what `crossed` records.
* `Pledged`: while a sync has not failed, each honey object is in the graph or
  in a statement still to come; a delete keeps honey nodes.
* `Paged`, for paged searches: what a call has read of a category has no gap in
  the server's order, and what it has of the earlier categories is everything.
  The lemma `PageContinues` says that the next page goes on where the last ended.
  It is assumed that the mode is not lab mode, in which the statement is false.
* `Room`, for `TypeOK`: what is read of a category is within the cap before the
  snapshot takes it, and the snapshot has no entry of the category yet.
* `Showing`: while an import writes, whatever of its snapshot is not in the graph
  is in a statement still to come, a link after the entries it joins, and no
  statement writes anything else; after the delete nothing else is there. It
  speaks of calls that have not failed and while no other import wrote
  (`crossed`); `GraphMirrorsSnapshot` is what is left of it at the end.
* The order in which a snapshot's entries are written is given by the number of
  entries read before each one (`Place`). The lemmas `Ranks` and `InOrderLists`
  show that these numbers are 1 to n, each once, by counting, so that every entry
  is in the list at one place.

Only model-checked: liveness (`CallsReturn`, `AgentSettles`, `AlertsAreShown`,
`StreamsAreReleased`, `RoomRecurs`), which is out of the prover's reach. Every
other property of the passing runs is a theorem. What a violated run refutes is
refuted by TLC.

The type invariants of `Deployment`, `Access`, `Policy` and `Session` are proved and not
among the properties of a run.

## Not modelled

* Texts: event severities, titles, filters and statistics; Cypher and attributes
  of decoys; reports, playbooks, exports, warnings; page rendering; audit lines.
* Read-only views: `fetch_topology`, `fetch_nodes`, `graph_view`.
* The calls of a hypervisor bridge run without a limit of time (the wrapper for
  UTM); the model gives them one answer.
* Each query of Neo4j is one step. Two clients that merge the same node at the
  same time are not followed further.
* Files damaged by other programs (the stores then start empty), the size limit
  of cookies, the check of tokens and signatures on entry.
* The demo collector and the one-shot commands of the agent.

The components that remain `partly` or `not_modelled` are listed with the reason
in `PROJECT.json`.

## Plan

1. `Console`: `Deployment` and `Monitoring` composed over the honey registry, to
   follow a decoy from its creation to the event that names it.
2. An abstract ledger of deployments that `Deployment` implements.
