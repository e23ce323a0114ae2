# A TLA+ model of Nodeglow

Nodeglow (this repository) monitors hosts, devices and logs of a small network:
a FastAPI backend with a scheduler, PostgreSQL for configuration and incidents,
ClickHouse for logs and time series, an optional Redis for several instances, a
sidecar that updates the installation, agents in Rust and Python on the monitored
machines, and a web frontend. This directory holds TLA+ modules that model it, the
TLC configurations that check them, and theorems about them checked by TLAPS.

Sections 1 and 2 are the inventory and the plan; 3 says how each module corresponds
to the code; 4 what each run checks, with its bounds and fairness; 5 where the code
and its documentation differ; 6 what is proved and how; 7 what is not covered.

## 1. Inventory

| Part | State it keeps | Operations | Hard because |
|---|---|---|---|
| Correlation engine, `services/correlation.py`, `services/topology.py` | hit counters in memory, incidents in PostgreSQL | one run a minute: ten rules, `_auto_resolve`, pruning, commits | memory survives a rolled-back transaction; thresholds in two places; editors write the same rows |
| Incident requests, `routers/api_v1.py` | the row read before an `await` | acknowledge, resolve, feedback | check-then-act over an `await`, no version column |
| Update sidecar, `sidecar/` | worker thread, state in memory and in a file | run six steps | every step may be cut off half-way; the database moves forward only |
| Container start and migrations, `entrypoint.sh`, `migrate.py`, `alembic/` | schema and its revision | create or upgrade, then serve | two paths to one schema; two containers at a time; SKIP_MIGRATIONS |
| Scheduler leadership, `scheduler.py`, `services/shared_state.py` | a lease in Redis, `_is_leader` per instance | acquire/renew, resume, pause | lost calls, expiry, slow loops, running jobs |
| Syslog receiver, `services/syslog.py` | one buffer, one lock, a flush task | accept, buffer, flush, retry, stop | inserts that fail, order, cap, cancellation |
| Log intelligence, `services/log_intelligence.py` | template counts and a cache of stored hashes in memory, baselines, patterns | count, flush, learn, retain, score | memory and database drift apart; passes that depend on each other |
| Ping job, `scheduler.py`, `utils/ping.py` | streaks and grace tracking in memory, flags in the row | check, latch `port_error`, notify | memory lost at restart, hysteresis, grace |
| Self-check and disk job | incidents | raise and clear | share the table with `_auto_resolve` |
| Alert rules and notifications, `services/rules.py`, `notifications.py` | match counters, cooldowns | evaluate, fire, send | marked before sent, reset before committed |
| Integration polling, `scheduler.py`, `services/snapshot.py` | snapshots, cluster owner per run | poll, elect, stand by | failover between members, one transaction per type |
| Host table, importers, subnet scan | rows of `ping_hosts` | insert, edit, import, resolve, merge | every writer has its own idea of what one machine is |
| Remote probes, `services/probes.py`, `agent/src/checks.rs` | assignments, last results, a bounded buffer | check, report, judge | late reports, reassignment, two implementations of one check |
| Agents: enrollment, reports, commands, `routers/agents.py` | tokens, a pending command | enroll, report, deliver | requests that outlive their caller |
| Agents: log tailing and self-update, `static/`, `agent/` | positions, the agent's own file | read, advance; check, download, swap | rotation, bursts; replacing oneself while running |
| Shared counters, `services/shared_state.py`, `ratelimit.py` | windows in Redis or memory | check, record, clean up | two steps, fallback to memory |
| Users, sessions, setup, `routers/auth.py`, `users.py`, `setup.py` | users, sessions, a flag | log in, reset, demote, delete, set up | read-decide-commit at READ COMMITTED |
| API keys, `routers/api_v1.py`, `settings/api_keys.py` | hash and algorithm per key | authenticate, migrate, disable | a hash replaced while others look it up |
| Backup monitoring, `services/backup_monitor.py` | a row per guest | sync on poll and on request | partial snapshots, overlapping syncs |
| Export and restore, `services/backup.py` | none of its own | download, restore | one transaction over many tables, dropped tables |
| Port discovery, `services/port_discovery.py`, `routers/ping.py` | a row per port | scan, decide | scans overlap each other and decisions |
| Bandwidth, `services/bandwidth.py` | samples in ClickHouse | stamp, look up, rate, store | polls overlap, counters start again |
| SNMP names, `services/snmp.py`, `routers/snmp.py` | MIB tables, a cached copy | import, seed, delete, poll | a copy refreshed by polls that overlap |
| The rest: plugins, SSL, predictions, digest, settings, WebSocket, frontend | mostly none of their own | request/response | little concurrency |

How they interact. The jobs of the scheduler share the databases and the
module-level dictionaries of one process. Ping job, probes and pollers write what the
engine reads; the engine, the self-check, the disk job, the alert rules and the API
write the incident table, each in a session and a transaction of its own. Importers,
scans, agents and operators write one host table, which the ping job and the probes'
assignments are read from. The leadership loop decides whether an instance's scheduler
runs at all; two instances may believe that they lead, so every job may overlap with
itself. The update replaces the process under all of this, and the start of the
container that follows it migrates the schema.

What makes them correct:

* engine: an incident for what lasts, none for what does not; one per rule and hosts;
  nothing an operator did is undone;
* update and start: the database never falls behind the code that serves, a dump
  before every migration, an honest state, rerunning is safe, and a container that
  was started serves in the end;
* leadership: never two leases, and always a leader again;
* logs: nothing accepted is overtaken or lost while it can be kept, and nothing is
  counted twice;
* checks: no host page is green that nobody saw; no alert that no outage has earned, no
  storm, and no lasting problem that falls silent; a merge keeps what was watched;
* agents: a command once, a retired token never, no line passed over, never without a
  copy of itself;
* accounts, keys, limits: sessions stand on passwords, an administrator remains, keys
  that have authenticated a request stay, admissions are bounded;
* kept data: healthy means backed up, a restore is all or nothing, a rate is backed
  by bytes, a name is fresh, a list shows what a scan saw.

`PROJECT.json` lists every component with its status, and under `hazards` each
place where the code can go wrong in a way a test would hardly reach, with the
properties that would notice.

## 2. Plan

Done, in this order:

1. `IncidentStore`, `Correlation`, `CorrelationProofs`
2. `Upgrade` (abstract), `UpdateOrchestrator` (implements it), `UpdateProofs`
3. `LeaderLease`, `LeaderLeaseProofs`
4. `LogBuffer`
5. `SelfWatch`, `PingChecks`, `AlertRules` with `Notifications`, `Polling`
6. `ProbeStatus`, `ProbeAgent`, `RemoteChecks`, `AgentSession`, `AgentTail`,
   `AgentUpdate`
7. `SchemaModels`, `Migrations`
8. `HostTable`, `LogTemplates`, `LogPatterns`, `LogBaselines`, `SharedCounters`
9. `Accounts`, `ApiKeys`, `BackupMonitor`, `DataExport`, `PortDiscovery`
10. `Bandwidth`, `SnmpNames`
11. the proofs about 4 to 10, by area: `MonitoringProofs` (checks, polling, host table,
    alerts), `AgentProofs` (agents and probes), `LogProofs`, `AdminProofs` (accounts,
    keys, restore, backups, rate limits), `NetworkProofs` (bandwidth, SNMP, ports), and
    the start of containers in `UpdateProofs`

Left, most important first: two engines on one `IncidentStore` (what an overlap of
leaders can do to the table); TOTP and lockout in `Accounts`; the schedule of SNMP
polls; the predictor and its evaluation. No safety property of a run is left without a
theorem (section 6).

## 3. Modules and code

Every definition that stands for code is listed with its lines in `PROJECT.json`
under `map`. In each module the definitions named "Mutant of X" are variations of
X with a plausible bug; they belong to no specification and exist to show that
the properties notice them. Each module has a next-state relation `...Next`, a
specification `...Spec` and, where it is not the invariant of a run, a type
invariant `...TypeOK` that documents the variables.

### The incident table and its writers

**IncidentStore** is the `incidents` table and the requests of an editor. `rows` are
the committed rows, `held` what an acknowledgement has read and not yet written. The
hash of the affected hosts is modelled as the set of hosts. Acknowledging takes two
actions, `ReadForAcknowledge` and `CommitAcknowledge`, because the route awaits the
request's body between reading the status and writing; the `UPDATE` goes by primary
key and does not look at the status again. A request whose body never arrives ends
without a commit (`DropAcknowledge`). `locked` are rows the engine has flushed and
not committed: PostgreSQL makes another writer wait. A resolved row that no request
holds is read by nobody any more and its slot is reused (`Remembered`), so `Slots`
bounds the rows that are active or held at a time, not the incidents of a history.

**Correlation**: one run is `StartRun`, then per rule `NextRule` and one of
`HoldBack`, `Refresh`, `Create`, `FailOnDuplicate` for each match, then `AutoResolve`
(with the pruning of the counters, which follows without an `await`) and `Commit`.
What a rule finds is computed when the rule starts, as the rules query once, and its
matches are handled in any order. `work` and `dirty` are what the run has flushed: it
reads its own writes (`View`), others do not. `CommitFleet` is the commit in the
middle of the run that the fleet-pattern rule makes: what the rules before it wrote
stays even if the run fails later. `Fail` is an exception at any point: rows are
rolled back to the last commit, `seen` is cleared, `hits` stays. `Restart` loses the
memory. The world changes between any two steps: ping results, maintenance, syslog
errors, service checks, integration snapshots, log sources. The six log-based rules
differ in what they query and are one phase with `Sources`; `SignalOf` says under
which name a source is counted and `SignalKey` which incident it raises. Counters are
not told apart above `MinCycles`, failed pings not above the larger threshold; ages
are counted in runs and stop at `StaleAfter`.

**SelfWatch** is `run_self_check` and `check_disk_space`, which write incidents beside
the engine: all problems of one rule share one key, the first problem found names the
incident, `_auto_resolve` has no branch for `disk_space` and resolves it in the next
run, and editors resolve and acknowledge.

**AlertRules** and **Notifications**: `StartRuleRun` takes the enabled rules, each is
evaluated, counted in `_consecutive_matches`, fired and committed; a rule on syslog
raises an incident, the others notify by themselves. A condition compares a reading (of
the newest ping of one host or of all, of a field of the newest snapshot, or a count of
log lines of the last minute) with a threshold that editors change. `Admit` marks the title for
`_COOLDOWN_SECONDS` before anything is sent, `Deliver` sends to the channels that want
the severity, any of which may fail.

### Checking hosts

**PingChecks** is one host in `run_ping_checks`: maintenance that ends by itself, the
`port_error` latch with its two thresholds, the grace period. Streaks, the outage being
tracked and whether it was announced are kept per process: a restart forgets them, but a
lease that is lost and regained (`ChangeLeader`) finds them as they were. What an
announcement must have been earned by is said for the process that makes it and, for an
outage first seen in its present term, for all of them.
**RemoteChecks** gives `check_host` of the server and `run_one` of a probe as functions
of one row and one network, where a web server may answer well, with a missing page, with
an error, with a certificate nobody trusts, or not at all; `rmcInsecure` is the probe's
`allow_insecure_tls`. `Divergent` names the differences that are known (section 5), and
`ProbeJudgesLikeServer` says that nothing else the module tells apart makes one. Timeouts
are not told apart: the server waits 2 s for a ping, 3 s for a connection and 5 s for a page,
the probe 5 s for each check. **ProbeStatus** is the server's
view: `host_status` of the host page over the latest result and its age, and the
expression of `GET /hosts`, which looks at no age (`ListStatus`), with hosts that move
between core and probe. **ProbeAgent** is the loop of the
Rust agent with its bounded buffer, and the handlers that store what it reports,
including those that go on after the agent has given up waiting. `PagOrder` is the order
of the results within a round.
**Polling** is `run_integration_checks`: type by type, one session per type, the
members of a cluster group in order, standby markers, hooks that fail and roll a type
back, with rows that are created, edited and deleted between the list a run reads and
the answer of the poll; the interval of a row is the one of its plugin, since neither
`api_create` nor `api_edit` ever stores another. **HostTable** has the rows that stand for one machine and everything that writes
them: operators, enrolling agents, the importers of Proxmox, UniFi and phpIPAM, subnet
scans, and `resolve_host_dns`, which merges duplicates. A row may be disabled: the ping
job passes it over, the DNS job does not. Each job reads first and commits later, and
writes the columns it changed.

### Agents

**AgentSession** keeps the install tokens and the scripts made with them, the tokens of
one hostname, the legacy hash and the pending command; every request (the script, an
enrollment, a report, a submission of logs) is a handler that reads, awaits and commits, and a timed-out
handler runs beside its successor. **AgentTail** keeps a position for each log by the
kind of its source. **AgentUpdate** keeps the files of a self-update for the three
agents and the Windows wrapper, from the hash comparison to the swap, with truncated
downloads, failed renames and crashes in between. `Promoted` says who gives a staged file
the agent's name, and `updCut` remembers that a swap was cut off where nobody does.

### Logs

**LogBuffer** is the buffer of the syslog receiver. All tasks run in one event loop, so
what happens between two awaits is one action; the insert is the only await under
`_buffer_lock`. `ready` are the tasks of datagrams that have not run, `waiting` is the
queue of the lock (asyncio serves it in order), `batch` is on its way to ClickHouse. A
datagram becomes a task; a line of a TCP sender goes to the lock without one, so the
two may overtake each other, and the order properties compare only messages of the same
transport. An insert ends, fails, or fails after the rows were stored. `Stop`, `Closed`
and `LastFlush` are the three stages of `stop_syslog_server`.

**LogTemplates** counts templates in memory and flushes them; which hash is stored is
known from a cache that only the start of the process loads. **LogPatterns** has the
noise scores and the fleet-wide patterns with their confirmation by the engine, whose
runs may fail before or after the rows of patterns are committed; the daily volume of
a template is fixed within a behaviour. **LogBaselines** computes the hourly baselines
of one slot of the week, which stands for all, and the trend and usual severity of one
template.

### Schema, update, leadership

**Upgrade** states what an update promises about four things only: the release that is
live, whether it serves, the schema, and the schemas that can be restored.
**UpdateOrchestrator** is the sidecar. `StartRun` is `start_run`; `Begin`, `StartStep`,
`EndStep`/`FailStep` and `Finish` are the body of `run_update`, each with its
`write_state`, which may fail and leave the old file; `Retire` ends the worker.
`Run(n)` is what a step does, `Cut(n)` what may be left of it when it raises or the
sidecar dies: a truncated dump, a pull whose check failed, some of the images, a
migration that was committed after all or whose container outlived the client that was
killed (`stray`), some of the containers. `Entrypoint` is the start of the backend
container, restarted by docker whenever it exits; `StopApp`, `RestoreDump`, `StartApp`
are the operator's restore, which he does not do during a run. Alembic upgrades in one
transaction and refuses a revision it does not know. Dumps are ordered by time; the
clock of the host is assumed not to go back between two updates. `current_status`
prefers the file to the state in memory, also when the file is older, so `ChainStops`
speaks of the worker's state, the file and the last result alike.

**SchemaModels** declares what `create_all` makes, **Migrations** has each of the 34
revisions as what it does to tables, columns, indices and constraints and what makes it
fail, and the start of a container: `create_all` and stamp for an empty database, the
adoption of one without a revision, `upgrade head`, and the `create_all` of the
application's lifespan, which runs even under `SKIP_MIGRATIONS`. Between the look at the
tables and the transaction of `create_all`, and between the read of the version row and
the statements of the upgrade (`ReadVersion`, `UpgradeHead`), other containers act. The
assumption `RevisionsReachModels` is a closed formula about the 34 revisions and the
models, which TLC evaluates before each run of `MCRecovery`: it is true or the run fails.

**LeaderLease** has one lease with what is left of its TTL, and per instance the
position in `_leadership_loop`, the rest of its sleep, whether its scheduler is resumed
and whether a job runs. A call to Redis is three steps (`Ask`, `Grant` or `Refuse`,
`Answer`), so that time passes between the script and its answer, and `Lost` may end it
at any of them: the instance keeps the leadership it had. Redis itself is taken to keep
its key until it expires. `age` and `calm` are history variables.

### Accounts, limits, kept data

**Accounts** has users, sessions and the setup form. A request is begun with what it
reads (the password it compared, the administrators it counted, whether there were
users), and commits later; one that sets a password deletes sessions first (`EndSessions`)
and commits then (`CommitPassword`), with the user's row locked and logins free to commit
in between. **ApiKeys** has the two look-ups of `require_api_key`, the
replacement of a legacy hash, and the nightly job in its two steps; early keys may be
old or new, used or not, as the release before revision 028 left them.
**SharedCounters** has check and record of a limit, in memory one step and with Redis
two, the buckets, the fallback and the cleanup. Hits are pairs of an age and a number, so
that a count is the size of a set; older ones than the longest window are in no count.
**BackupMonitor** has the snapshots of
a cluster (either list may be missing), the sync as a function of the row and the
snapshot, and its two callers. **DataExport** has the download table by table and the
restore in its phases; an aborted transaction of PostgreSQL fails every later
statement, one of SQLite does not; `Cascade` is what a TRUNCATE empties with a table,
the least set of tables closed under references. **PortDiscovery** has scans that look,
read and write, and decisions that read the port and the host and write both; `prtSeen`
is a history variable, what the scans that overlapped last have found. **Bandwidth** has
a counter, polls that read, stamp, look up and store, and the two queries of the
dashboard; `moved` and `span` are the bytes a rate speaks of and those that passed.
A node is assumed to take longer to start than the server to stamp what it has been
given. **SnmpNames** has imports, seeds and deletions of MIBs and polls that use or
refresh the cached copy; a query of the table is assumed to take less than the 300 s.

## 4. Runs

| Run | Instance | Checks | Shows |
|---|---|---|---|
| `correlation_races` | 1 host, 2 editors, maintenance, 1 restart, any number of failed runs | `DuplicatesAreRevivals`, `AcknowledgementKept` | One host with a service check, two editors, maintenance, failing runs and a restart: whatever their order, incidents for one key are duplicated only by a late acknowledgement, and acknowledgements last. |
| `correlation_rules` | 3 hosts in a subnet, 2 integrations on one of them, thresholds 1 and 2 | `RaisedSurvivesRun`, `RaisedAfterMinCycles` | Three hosts of one subnet and two integrations on one of them, where a host counts as offline for the rules one failure before it does for _auto_resolve: however the host, network and integration rules interact, an incident waits for its own runs (for fewer only as matches of one run share its counter), and no run closes one it has confirmed for hosts that are down by both thresholds. |
| `correlation_duplicate` | 1 host, 1 editor | `OneActivePerKey` | Finding: an acknowledgement that read the incident before it was resolved makes it active again after a run has raised a new one: two active incidents for one rule and host. |
| `update` | 2 releases, 2 services, retention 1 | `ImplementsUpgrade`, `MigratesWithFreshDump`, `RerunDeploys` | Two releases with a migration each, steps that fail half-way, crashes of the sidecar and the backend, unwritable state files, stray migrations and restores: the update keeps the promises of module Upgrade, reports what it did, and can be rerun. |
| `update_serving` | the same | `FailedRunKeepsServing` | Finding: a migration that was committed by a step that failed afterwards leaves the old code unable to start again: the next restart of the container never serves. |
| `backend` | 1 host, 1 source, 2 slots; 3 instances, TTL 4, renewal 2; 4 messages, flush at 2, cap 3; fairness | `OverlapOnlyAfterExpiry`, `Converges`, `NoOvertaking`, `OutageRaised`, `RecoveryResolves`, `Delivered` | The three loops of the backend, one in each behaviour: the correlation engine with a host and a log source under fair runs that may fail any finite number of times, three instances that contend for the scheduler's lease, and the buffer of the syslog receiver with inserts that fail before or after the rows are stored. What lasts is raised for good and what is over is resolved for good; two schedulers run at a time only after a lease ran out, and one leader is left one TTL and one renew period after the last disturbance; no message overtakes another, and while the server runs every accepted one is stored or dropped by the cap. |
| `services` | 10 components | `CommandReceivedOnce`, `OnlyNewestTokenWorks`, `NoFalseGreen`, `NothingPassedOver`, `OneWriterPerCluster`, `RateIsBacked`, `AdmissionsBounded`, `NoResultVanishes`, `AlertsMatchOutages`, `NoAlertStorm`, `NamesAreFresh` | Agents and their commands and tokens, log tailing, probe freshness and the buffer of unsent results, ping checks of processes that lose and regain the lease, polled clusters, request counters with and without Redis, notifications of rules, bandwidth samples and the names of SNMP objects, one in each behaviour: overlapping requests, restarts and late answers never deliver a command twice, bring a retired token back, show the host page of a dead host green, skip lines, lose a result unaccounted for, send an alert that no outage has earned, let two members of a cluster write, let through more requests than the bound, report a rate nothing backs, keep a retired name, or repeat an alert within its cooldown. |
| `recovery` | 4 components, fairness | `NeverWithoutACopy`, `HeadMatchesModels`, `ReachesPublished`, `LastingProblemReturns`, `AlertsKeepComing`, `EventuallyServes` | An agent that updates itself in any of its four packagings, self-checks and disk incidents, alert rules and their channels, and containers that start against one database from any of twelve revisions, one in each behaviour: through crashes, failed downloads and races the agent keeps a file that something starts, unless its swap was cut off in one of the named windows, and the published version, the incident, the alert and the service all come in the end. |
| `data` | 10 components | `NoMessageCountedTwice`, `ProbeJudgesLikeServer`, `SessionsAreCurrent`, `HealthyMeansBackedUp`, `ListIsTrue`, `RaisesOnlyAfterFailure`, `MergeKeepsCover`, `AdminRemains`, `UsedKeysStayEnabled`, `RestoreIsAllOrNothing` | What is gathered and kept, one component in each behaviour: templates, fleet patterns and baselines of logs, how a probe and the server judge one check, the host table and its importers, users and their sessions, API keys, backups, the export and restore of the database, and the list of open ports: late commits, failures half-way and retries count nothing twice, and lose, revive or misjudge nothing that is promised. |
| `backup_download` | 4 tables, one of them dropped | `DownloadIsAnswered` | Finding: the download of a backup of a PostgreSQL installation, which reads tables that a revision has dropped: it is answered with an error. |
| `hosts_list` | 1 host of a probe | `StaleReadsUnknown` | Finding: GET /api/v1/hosts shows the newest row of a probe's host at any age: a host whose results are older than the window is still listed as up or down, not as unknown. |
| `baselines` | 1 sender, 4 weeks | `BaselinesAreLearned` | Finding: the query of compute_baselines has one row for each slot of the week, so that a baseline never has the three samples its consumers ask for, however many weeks pass. |

`backend`, `services`, `recovery` and `data` each hold several components that share no
variable. One of them, the `focus`, is chosen initially and moves; the others rest in
an initial state. A behaviour of the run is thus a behaviour of one component, every
property of the run is checked in all of them, and nothing is lost by not
interleaving components that cannot see each other. Where components do share state
they are composed in one module: `IncidentStore` with `Correlation`, `Notifications`
with `AlertRules`, `SchemaModels` with `Migrations`.

Why the bounds are enough.

* *Correlation*: three slots hold an active row, a held resolved row and a newly
  created one, which is the worst two editors and one key can need; with two
  confirmations a counter can be below, at and beyond the threshold; three hosts are
  the least that make a network issue. In `correlation_rules` the rules ask for one
  failure and `_auto_resolve` for two, the least thresholds that differ the way the code's
  do when the setting is below three, and two integrations on one host share a counter; in
  the other runs one failure suffices, because the world changes between any two steps.
* *Update*: with two releases there is an old and a new schema, and everything further
  repeats it; retention 1 is the hardest value allowed, `MaxDumps` 2 leaves room for
  one dump that could not be pruned. *Lease*: three instances have a leader, a stale
  leader and a waiting one; of the times only TTL > renewal matters. *Buffer*: the cap
  is reached when the third and fourth message meet a batch that failed twice.
* *Pings*: two processes, two changes of the leader or restarts, and six minutes: one
  leads, loses the lease, and leads again with an outage in its memory that the other has
  seen end.
* *Requests and jobs* (`AgentSession`, `Accounts`, `ApiKeys`, `PortDiscovery`,
  `Bandwidth`, `SnmpNames`, `SharedCounters`): two slots, since every race in them is
  between one that has read and one that commits; two names or keys, so that one can
  be told from another; of the sessions, two of one user, so that his own form ends the
  other one, or one between two users. Tokens, commands, passwords and edits are bounded by the
  number that lets a retired one return.
* *Clocks* (`PingChecks`, `ProbeStatus`, `Notifications`, `BackupMonitor`, `Bandwidth`)
  run at least one tick longer than the longest window they are compared with.
* *Polling*: two members of a cluster with different intervals and an integration by
  itself; three runs let the group be discovered, fail over and come back, and one edit
  or deletion meets every step of a run. *AlertRules*: a rule on the pings of all hosts
  where the notifications are in question, rules on a snapshot and on syslog where the
  alert must come.
* *Migrations*: the twelve revisions around which the two paths of the schema differ,
  two containers and one stop. *AgentUpdate*: three releases, of which one changes the
  kind of file; four faults, so that a repair of a repair can be interrupted. *HostTable*:
  two rows, each enabled or not, and one request beside every job.
* *LogTemplates*: two messages per template and two templates, one of which can expire
  while the other is a precursor; one flush that fails and one restart. *LogBaselines*:
  four weeks, one more than the three samples that the consumers ask for.

Symmetry is used for slots, names, machines and requests, only in runs without
temporal formulas under fairness. `CHECK_DEADLOCK FALSE` stands where the system may
stop: a buffer whose process has ended, a release that is the last, a clock or a
number of edits at its bound.

### Fairness

* `Correlation`: `WF(Engine)`. The job is on an interval, and a run proceeds unless it
  fails; `Fail` and `Restart` are not fair, and the liveness properties assume that
  failures end (`EventuallyNoFailure`).
* `UpdateOrchestrator`: weak fairness of the worker (threads are scheduled, commands
  have timeouts), of the container (docker restarts it) and of the operator who starts
  what he stopped; `RetriedSpec` adds that he runs the update again. `RerunDeploys`
  assumes that crashes and failed steps end.
* `LogBuffer`: the loop runs what is ready, the interval ends, an insert ends within
  the client's timeout; `SF(InsertDone)` says that ClickHouse accepts a batch again and
  again. A batch with a row that ClickHouse refuses each time does not satisfy that: it
  returns to the buffer for ever, and `Delivered` says nothing of such a history.
* `BackendFairSpec` is the conjunction of the fairness of its three components.
* `RecoveryFairSpec`: the agent's main loop looks for an update again and again (weak),
  the scheduler starts each job again and again and a job that was started goes on
  (weak), of the evaluations and commits of a rule that fail some succeed (strong, per
  rule), and docker starts a container that has exited (weak). Failures, crashes,
  editors and stops are not fair, and are bounded where a bound is named.

`Converges` is a safety property: it counts the time since anything last went wrong.

## 5. Where the code differs from what is said of it

Five places are shown by a run and are in `PROJECT.json` under `findings`:

* `correlation_duplicate`: an acknowledgement commits after its incident was resolved
  and raised anew; two incidents of one key are active, and every later run that
  confirms the key is rolled back.
* `update_serving`: a migration that was committed by a step that failed keeps the old
  code from starting again.
* `backup_download`: in PostgreSQL every download of a backup ends in an error, because
  revision 026 has dropped tables that `EXPORT_TABLES` lists.
* `hosts_list`: `GET /api/v1/hosts` shows the newest row of a host at whatever age
  (`api_v1.py:293`), where the design of the probes promises `unknown` once the result is
  stale; only the host page asks `host_status`.
* `baselines`: each slot of the week has one count (`log_intelligence.py:497`), while the
  grouping below it speaks of weeks and every consumer asks for three samples: no baseline
  is ever learned, so that neither spikes nor silence are noticed.

Others were met while modelling; the modules have them as the code has them.

*Engine and logs.* Upstream failures are resolved by `_auto_resolve` in the transaction
that raises them. With `correlation_min_failures` below three the same befalls a host that
is down for the rules and not yet for `_auto_resolve`, which asks for three failures
whatever the setting says (`correlation.py:792`, `:157`, `:911`): its incident is raised and
closed by each run until the third failure. Two integrations on one host count one hit key
twice in a run, so that one run confirms. The fleet rule asks for a pattern that is both
new and confirmed (`correlation.py:549`), and raises only after a run that failed between
the two, so in practice never: `RaisesOnlyAfterFailure`. Messages are missing from the
stored count of a template when a flush fails or the process ends, when they arrive while
its first flush is running, and all of them, until the process restarts, once retention has
deleted it (`log_intelligence.py:415`, `:427`, `:1341`); a pattern learned from a deleted
one aborts the pass that learns. After the final flush of a shutdown a datagram whose task
had not run is lost (`syslog.py:651`).

*Leadership.* Between the expiry of a lease and the next look at it two instances run
jobs, where a comment promises that only the holder does; the handover takes the TTL and
one renewal, where a comment at the end of `scheduler.py` says the TTL.

*Checks and probes.* `check_http` counts every answer below 500 as success, its
docstring says "Success = 2xx/3xx.", and the probe's `run_http` does what it says; the
server ignores the port of an `http(s)` check, pings what it does not know and does not
lower-case types; a probe reports no `port_error`. The server ignores certificates
(`utils/ping.py:129`), the probe does not unless `allow_insecure_tls` is set
(`checks.rs:190`): a host with a certificate of its own is up for one and down for the
other. "only notify after host has been offline for N minutes" says a comment
(`scheduler.py:465`), but the outage is measured from the first failure that this process
remembers: one that regains the lease, or a host that comes out of maintenance, may be
announced at once, and a recovery is announced by a process that answers an outage another
one has seen end. The DNS job calls a row "covered by" another that may be disabled
(`scheduler.py:1109`): an enabled row merged into it takes the last watcher of its address
along. A report is answered with success
although its results could not be stored, and the agent then drops them; a timed-out
handler may overwrite `check_detail` by that of an older round; the comment at
`main.rs:110` is not true of it.

*Polling.* A comment says that an explicit `poll_interval_seconds` wins over the one of
the plugin (`integrations/_base.py:73`), but no request stores one.

*Agents.* On Windows the staged file is written in place (`updater.rs:159`), and the
wrapper installs whatever `.new` it finds, a truncated one included (`agents.py:902`).
The frozen Windows agent is left without its file when its second rename fails, or when
the machine stops between the two or before the batch file has run: `.old` and `.new` are
there, and nothing gives either the name (`nodeglow-agent-windows.py:1175`). A
script agent is offered a native binary once the server publishes one. Rust agents
advance their cursors although the report fails. A log that grows faster than it is read
is read again in parts.

*Accounts and keys.* Two demotions, or a demotion and a login by the directory, may
leave no administrator; a login under way during a reset keeps a session on the old
password (it may open it between the deletion of the sessions and the commit,
`users.py:118`, `:146`, `:242`); a user with any session row cannot be deleted; a setup form sent late makes a
second administrator. A key whose hash is replaced between the two look-ups of another
request is refused there once (`api_v1.py:93`). The nightly job is said to disable keys
that have "not been touched in 30 days", in its docstring, its log and the audit entry, but
looks at when they were created (`scheduler.py:1200`): a key in daily use under the release
before revision 028 is disabled the first night, unless a request comes before the job.

*Kept data.* `last_run_at` of a backup may go back when the newest file of the last
storage is older; a failed newest backup is forgotten when the task list is missing;
overlapping syncs mix their columns, and two first ones make two rows. A restore writes
timestamps as strings, fails at tables that are gone, empties unexported children by
CASCADE, and commits an aborted transaction without noticing that it was rolled back.
An export is not one snapshot. A `warning` status of a backup is derived nowhere.

*Bandwidth and SNMP.* No agent ever gives a sample: the report handler looks for keys
(`agents.py:298`) that neither the script agents (`rx_mb`, `tx_mb`) nor the Rust agent
(`network_interfaces`) send; Proxmox guests are not sampled either, since the extractor
reads names that `parse_cluster_data` does not give. A reading stamped late overstates
the next rate per second, though not its bytes. The history query keeps the oldest 2000
samples, not the newest (`clickhouse_client.py:639`). `run_snmp_polls` sets `last_poll`
on detached rows (`routers/snmp.py:433`), so every device is polled every 30 s whatever
its interval. Deleting a MIB while it is imported again leaves objects without a MIB; an
object of two MIBs belongs to the first, and loses its name with it.

## 6. Proofs

All theorems hold for every value of the constants that satisfies the assumptions in
the modules.

| Theorem | Establishes |
|---|---|
| `TypeCorrect` (`CorrelationProofs`) | The correlation engine's variables keep their types, and its transaction's copy holds exactly the rows the run has written, for any hosts, rules, editors and thresholds. |
| `TableCorrect` (`CorrelationProofs`) | The inductive invariant about the table and the run's view of it, on which the two theorems below rest. |
| `DuplicatesOnlyByRevival` (`CorrelationProofs`) of `DuplicatesAreRevivals` | Two active incidents share a rule and hosts only if one of them had been resolved and was revived. |
| `AcknowledgementsLast` (`CorrelationProofs`) of `AcknowledgementKept` | No step of any actor turns an acknowledged incident back into an open one. |
| `RaisesSurvive` (`CorrelationProofs`) of `RaisedSurvivesRun` | For any two thresholds, of the setting and of _auto_resolve: no run closes an incident it has updated and whose rule it would still find, unless it is an upstream failure or one of its hosts has failed less often than _auto_resolve asks. |
| `UpdateTypes` (`UpdateProofs`) | The update's variables keep their types for any number of releases, services and dumps. |
| `FailedStepStopsChain` (`UpdateProofs`) | In memory, in the file and in the last result, a step has begun only after all before it ended well, and a run has failed exactly when a step has. |
| `UpdateImplementsUpgrade` (`UpdateProofs`) of `ImplementsUpgrade` | Every behaviour of the orchestrator, with its crashes, half-done steps, strays and restores, is one of the abstract upgrade: no code serves on an older schema than it knows, and no migration runs without a dump. |
| `LeaseTypes` (`LeaderLeaseProofs`) | The lease's variables keep their types for any instances and any TTL and renew period. |
| `NoTwoLeases` (`LeaderLeaseProofs`) of `OverlapOnlyAfterExpiry` | Of two instances that lead at a time, one leads on a lease that has run out: Redis never grants two. |
| `UsedKeysAreSpared` (`AdminProofs`) of `UsedKeysStayEnabled` | For any keys and any number of overlapping requests, deletions and runs of the nightly job: a key that has authenticated a request since revision 028, before the job selected, is not disabled by it, whatever its age and however it was used under the release before. |
| `RatesAreBacked` (`NetworkProofs`) of `RateIsBacked` | For any number of overlapping polls, in whatever order they are stamped and stored and with restarts of the node in between: no sample speaks of more bytes than passed between its two readings. |
| `AccountsCorrect` (`AdminProofs`) | The inductive invariant on which the next two rest: the tables' types, what each kind of request has read, sessions that stand on a password, and only administrators before the setup is complete. |
| `SessionsStandOnPasswords` (`AdminProofs`) of `SessionsAreCurrent` | For any users, slots and bounds: a session outlives a change of its user's password only as the one that came with the change, or when its login was under way during it: begun before its commit and committed after the sessions were deleted. |
| `AnAdminRemains` (`AdminProofs`) of `AdminRemains` | For any number of overlapping requests: an installation that is set up loses its last administrator only by the directory's role or by a request whose count was stale. |
| `LeadershipConverges` (`LeaderLeaseProofs`) of `Converges` | For any number of instances: one lease and one renew period after the last start, death, stall or lost call exactly one instance leads, if any is up, and holds the lease, provided the renew period is shorter than the lease. |
| `MigrationsHaveFreshDumps` (`UpdateProofs`) of `MigratesWithFreshDump` | For any releases, services and retention: while a run migrates, the schema moves only with a complete dump at hand that this run has taken. |
| `RaisesAreEarned` (`CorrelationProofs`) of `RaisedAfterMinCycles` | For any hosts, rules and settings, and however many matches share a counter: an incident is raised only when its rule has matched in so many runs, with no completed run between them in which it did not, that their number times the sharers of its counter makes min_cycles. |
| `ClustersHaveOneWriter` (`MonitoringProofs`) of `OneWriterPerCluster` | For any integrations, groups and intervals, with members created, regrouped and deleted during a poll and sessions rolled back: two members of a cluster never have data of one run, and none stands by without one that has. |
| `ShownUpWasSeenUp` (`MonitoringProofs`) of `NoFalseGreen` | For any window and interval, with probes that fall silent and hosts that are handed over: the host page shows a probe's host up only if it was seen up within the window and one interval, and GET /hosts, which looks at no age (section 5), only if it was seen up since its newest row was taken. |
| `AlertsAnswerOutages` (`MonitoringProofs`) of `AlertsMatchOutages` | For any thresholds and grace period, any number of processes, restarts and changes of the leader: a process announces an outage only after the grace period in which it has not found the host up, and a recovery only of an outage it has announced; of what began in its present term nobody has found the host up, or answered the announcement, in between. |
| `MergesKeepCover` (`MonitoringProofs`) of `MergeKeepsCover` | For any rows, enabled or not, and any importers and operators between the read and the commit of the DNS job: an address watched by a row that nobody has touched meanwhile is still watched, unless the row that is said to cover it was disabled, changed or deleted. |
| `TitlesStayQuiet` (`MonitoringProofs`) of `NoAlertStorm` | For any rules, alerts, titles and cooldown: no message is delivered for a title whose cooldown runs. |
| `StoredUnderFreshNames` (`NetworkProofs`) of `NamesAreFresh` | For any MIBs, imports, deletions and overlapping polls: a value is stored under a name that was in force within the last SnmFresh seconds. |
| `PortListIsTrue` (`NetworkProofs`) of `ListIsTrue` | For any ports, scans and editors that overlap: the list says of a port what one of the scans that overlapped last has seen, and what was last decided about it. |
| `RestoresAreAtomic` (`AdminProofs`) of `RestoreIsAllOrNothing` | For any tables and references, in PostgreSQL and SQLite: a restore leaves either what was there or exactly what the archive and the cascades of its tables make of it. |
| `HealthyIsBackedUp` (`AdminProofs`) of `HealthyMeansBackedUp` | For any number of days, any frequency and any order in which backups are stored: a job shown healthy has a last run that ended well and is recent, and no newer run was in the answer it was judged by, unless two syncs have mixed its row. |
| `AdmissionsAreBounded` (`AdminProofs`) of `AdmissionsBounded` | For any keys, windows, limits and number of requests at a time, in memory and with Redis: how many requests of a key are let through in one window. |
| `CommandsAreReceivedOnce` (`AgentProofs`) of `CommandReceivedOnce` | For any machines, slots and numbers of commands, with reports repeated while their first handler still runs: no agent receives a command twice. |
| `RetiredTokensStayRetired` (`AgentProofs`) of `OnlyNewestTokenWorks` | For any machines and tokens, legacy ones included: of the tokens issued for a host only the newest opens it. |
| `PositionsArePromises` (`AgentProofs`) of `NothingPassedOver` | For any sources and sizes, with rotation, bursts and restarts: every line behind an agent's position has been read, unless it was there before the agent or fell out of a burst. |
| `CopiesSurvive` (`AgentProofs`) of `NeverWithoutACopy` | For any releases and all four packagings, wherever a download, a rename or the machine fails: the agent's name never gets an incomplete file, and there is always a complete one that something starts, except in the named windows where a swap was cut off. |
| `ResultsAreAccountedFor` (`AgentProofs`) of `NoResultVanishes` | For any hosts and any size of the buffer, with answers that are late or lost: a result of a probe is stored, waits to be sent, or was given up in one of the named ways. |
| `HandoverKeepsTheState` (`AgentProofs`) of `ProbeJudgesLikeServer` | For any ports and any answers of the network, certificates the probe does not trust included, and rows of one or two checks: outside the named differences a probe gives the verdict the server would give. |
| `LogsKeepTheirOrder` (`LogProofs`) of `NoOvertaking` | For any number of messages, flush size and cap, with inserts that fail in both ways and a shutdown: of one transport nothing is stored before an older message that is kept, and the cap drops the oldest. |
| `SchemaTypes` (`UpdateProofs`) | The inductive invariant on which the next two rest: below head the schema is as the revisions left it or filled once by create_all after a start that skipped them, and every container on its way has decided on such a schema. |
| `HeadMatches` (`UpdateProofs`) of `HeadMatchesModels` | For any number of containers that start together, fail half-way, stop or skip the migrations, from an empty database or any revision: a database recorded at head has exactly the objects of the models. |
| `UpgradesGoThrough` (`UpdateProofs`) | For the same: unless a start skipped the migrations below revision 028, no statement of an upgrade fails that meets the version it has read; the safe half of EventuallyServes. |
| `LineIsKept` (`LogProofs`) | The inductive invariant of the syslog buffer on which the next two and LogsKeepTheirOrder rest: batch, buffer, queue of the lock and new tasks are one line in the order of arrival, and what was stored or dropped was ahead of it. |
| `NoMessageVanishes` (`LogProofs`) | For any number of messages, flush size and cap: every accepted message is stored, dropped by the cap, still in the line or lost, and none is lost while the server runs; the safe half of Delivered. |
| `MemoryIsBounded` (`LogProofs`) | For any number of messages and however long ClickHouse fails: neither the buffer nor the batch under way exceeds the cap. |
| `FleetRuleNeedsFailure` (`LogProofs`) of `RaisesOnlyAfterFailure` | For any templates and settings: where a rule has to match in two runs or more, the fleet-wide rule raises an incident only in a run whose predecessor failed, so never while runs succeed. |
| `TemplatesAreNotOvercounted` (`LogProofs`) of `NoMessageCountedTwice` | For any templates and numbers of messages, with flushes that fail, retention and restarts: what is stored of a template, being flushed and waiting together never exceed the messages that arrived. |

The shape is always the same. An invariant, a conjunction of named parts, is shown to
hold initially and to be preserved by each action; the property follows from it, or, where
it speaks of steps, from it and one more look at the actions that matter. What the parts
say beyond the property is the reason why it holds:

**CorrelationProofs.** `TypeCorrect` is inductive by itself. The invariant behind
the others is `TableInv`: not only the committed table but also the table as the
running transaction sees it has twins only by revival, since committing replaces
one by the other; a resolved row is marked closed, and a held row is never absent,
so what a late acknowledgement makes active was closed; and a row acknowledged while
the run holds it is not written back as open. `DuplicatesOnlyByRevival` follows at
once, `AcknowledgementsLast` step by step. `RaisesSurvive` takes the two thresholds as
they come: where a host has failed as often as both ask, what the rules find offline is
what `_auto_resolve` finds offline, whichever is the larger. Its invariant says that a
log-based row written by the running transaction is fresh. Behind `RaisesAreEarned` the
invariant `EarnInv` says that a counter, with what this run may still add to it (`Owed`),
is at most the number of runs that saw the key times the matches that share it
(`Sharers`); the matches still to be handled are all of the rule in turn, and what this
run has seen belongs to that rule or to one before it.

**UpdateProofs.** `FailedStepStopsChain` carries the order of the steps from the
worker's state to the file and the result, which are only ever copies of it; no run
lists `ChainStops`, which the proof covers for every instance.
`UpdateImplementsUpgrade` rests on `InstallInv`: an application that is ready or
serving finds every revision its code knows in the database, and whatever may still
raise the schema (a live container older than the database needs, or a migration
left running by a killed step) has a usable dump behind it. Why a step preserves it
depends on where the run stands, so the invariant also says what each step may
count on when it begins: from the end of `backup` there is a dump of a schema not
newer than the present one; from the end of `migrate` the schema has what the built
images need, and nobody lowers it, because the operator does not restore during a
run. `MigrationsHaveFreshDumps` adds that once the step `backup` is done in the present
run, a complete dump newer than its start is there: pruning keeps the newest one, and
nothing else removes dumps.

`HeadMatches` and `UpgradesGoThrough` are about the schema. `HeadMatchesModels` alone is
not inductive: it does not say what an upgrade starts from. `MigInv` (theorem
`SchemaTypes`) says that below head the schema is the one that the revisions built, or
that one filled once by `create_all`, and the latter of a database under alembic only
after a start with `SKIP_MIGRATIONS` at this revision or before; and that every container
on its way has decided on such a schema: one that creates or stamps found no version row,
so that the database is empty or complete, and the tables it found missing are those the
filling adds, so that a second `create_all` adds nothing or fails. What the revisions make
of these two schemas is a matter of evaluating them, stated as `RevisionsReachModels` and
evaluated by TLC; the theorems carry it to any number of containers, stops and starting
revisions, of which the run has two, one and twelve.

**LeaderLeaseProofs.** The inductive invariant of `NoTwoLeases` says that whoever was
granted the lease less than a TTL ago is its holder, with exactly the rest of its TTL
left; two leaders with running leases would both be the holder. `LeadershipConverges`
measures everything in the time since the last disturbance (`calm`). An instance whose
answer is newer than that and which leads holds the lease, with what is left of it fixed
by how long it will still sleep (`LeadersHold`). A held lease is either older than the
disturbance, and then runs out in time (`left + calm =< TTL`), or its holder is alive and
leads or is about to (`HolderLives`). A lease that is free was not asked for since it ran
out, and the next to ask wakes up within one renew period (`FreeIsTaken`). Together: after
one TTL and one renew period the lease is neither free nor in dead hands. The theorem
assumes `Renew < TTL`, as the code has it (10 s and 30 s); otherwise a leader would lose
its lease while it sleeps.

**MonitoringProofs.** `OneWriterPerCluster` speaks of committed rows; the invariant
`PolInv` also says of the session under way that its writers are recorded as owners of
their groups and that its standby members have a writer beside them, that owners of the
type in turn are in this very session and so are rolled back with it, that rows not yet
reached in this run are older than it, and that only an editor puts a row in a group
other than its cluster. For `ShownUpWasSeenUp` both the row and the result that the probe
carries are witnessed: up only if the host was up when checked. For `AlertsAnswerOutages`
an outage a process tracks began after it last found the host up (`PngRemembered`), and if
it began in the present term, after anybody did, with its announcement still unanswered
(`PngTermKept`). `MergesKeepCover` needs that ids identify rows, in the table and in what
the job has read: then, if no address a merge relies on was let down, each removed row
leaves behind an enabled row with the same address that the merge does not remove.
For `TitlesStayQuiet` every alert
under way has just set the mark of its title and is the only one of it, and the mark is
never shorter than the quiet that the history counts.

**NetworkProofs.** For `RatesAreBacked`, compare two readings not by their counts but by
their *base*, the bytes that had passed before the node last started (`total - bytes`). It
never falls, and a reading has the base of the moment it is stamped in, so of two readings
the one stamped later does not have the smaller base, whatever order they are stored in. A
rate is computed only between counts that did not fall, and then the difference of the
counts is at most that of the totals. For `StoredUnderFreshNames` the copy was in force at
its own time stamp or later (`SnmCopied`), although a slower poll may overwrite a newer
copy, and a poll that has decided to read the table has a time not older than the window.
For `PortListIsTrue` a scan that has read a row that is still there finds it again when it
writes, rows are never deleted, and as long as nothing was written since the scans began,
what they have read is what the table holds.

**AdminProofs.** The invariant of `Accounts` gives each kind of request what it has read:
a request that would take an administrator away carries a set of administrators with more
than that one in it, and before the setup is complete there is nobody but administrators
and no request but forms. `SessionsStandOnPasswords` adds that a session belongs to a user
and stands on the password it was opened with unless it was kept or late. Between the DELETE and the
COMMIT a request holds the row of its user, and every session of that user it has not
deleted is the one it keeps or a late one (`EndingHolds`).
`AnAdminRemains` then goes over the steps: a commit that leaves no administrator must
have counted a set that is no longer the present one, or be the directory's. An API key
that has authenticated a request since revision 028 has its algorithm noted (`UsedAreMarked`), and the job selects only keys
without one. That mark must outlive requests that had read the row before it was set: the
unit of work writes what a request changed, and no request changes the algorithm of a row
that it read with one; so the invariant says of every request that has found a row: if the
copy it read has the algorithm, so has the table. For `RestoresAreAtomic` the invariant
gives the contents of every table in the middle of a restore: while tables are emptied in
the reverse of their order, those behind the present one and all that refers to them are
empty (`DxpTruncating`); while they are filled, those before it hold what the archive has
(`DxpInserting`), because an insert touches no other table. For `HealthyIsBackedUp` the
invariant `BkpKnown` says that no row, stored or computed by a sync, has a last run newer
than the newest task of the snapshot that was saved: `since` is yesterday or later, so a
snapshot with any task also has every newer run. The newest task therefore always tells
(`SyncedIsGood`), and where there are no tasks the file stored last rewrites the row, which
exists by a least counterexample (`LastStore`). A sync whose row nobody changed commits
exactly what it has computed; the property leaves out the rows marked `torn`, of which two
overlapping syncs have written one column each. For `AdmissionsAreBounded` the invariant
has a half for each way to count. In memory (`InMemory`) the hits in a window are the
admissions in it, as long as no key has less than half that window: only a caller with such
a key can forget a hit that still counts. With Redis (`InRedis`) the admissions of the
present bucket are at most its counter, and together with the requests that wait between
check and record at most one less than limit and slots together, since the check that let
the last of them wait saw a counter below the limit; a bucket that ends passes its
bound on to the last bucket, and a window lies in the two. `Older` and `OneHit` are the
lemmas about aging and counting; a failure of Redis empties both sets, because only what was
let through since is in them.

**AgentProofs.** Of commands: one that was received is no longer in the row, and no
request of the machine that received it carries it; a handler answers with a command only
after the row has lost it (`SesCommandsKnown`, `SesReceived`). That a machine has one
request at a time is part of the invariant (`SesOneRequest`), since a report that timed out
leaves its handler behind with nobody to hear it. Of tokens: the row has the newest one or
the legacy one, and a handler that will write a legacy row was authenticated by it. Of
positions: one beyond the end of a file promises nothing, because reading began there
(`TailBeyond`). Of copies: at each step of a self-update the file that is about to replace
another is complete (`UpdSound`), and each packaging reaches only its own steps
(`UpdWays`); the agent's own file is complete, or gone between the two renames of a
Windows executable or where a `.new` is promoted at the next start. The ends that no start
takes up, a write in place and a move cut off, are marked (`updCut`). Of results: the handler that the agent listens to has exactly the pending
results (`PagHeard`), one past its first step has stored them if it could (`PagTaken`),
and the pending ones are in the order of their rounds, so that those the cap drops are the
oldest (`PagSorted`). Of verdicts: the two functions agree check by check outside the
named differences (`RmcSameCheck`), so their summaries agree.

**LogProofs.** Batch, buffer, the queue of the lock and the tasks not yet run are one line
in the order of arrival, for each transport (`LbLine`): every message in one of them is
older than those behind. What was stored is older than what still waits for the lock, and
what was dropped is older than what is kept (`LbPast`). A batch that fails returns to the
head of the buffer, where it came from, and the cap cuts the head. The lemmas `Slice`,
`Joined` and their like say what cutting and joining does to such a line.
`TemplatesAreNotOvercounted` rests on `TplInv`: a message is counted in memory, in the
flush that runs or in the row of its template, in one of them at a time; a new row is
inserted with its count and gets none added, and a flush that fails, a row that retention
deletes or a restart only loses.

`NoMessageVanishes` and `MemoryIsBounded` count what is in that line: `Delivered` says
that a message is stored or dropped in the end, the theorem that it is never anywhere
else than in the line, the database, among the dropped or, once the server stops, among
the lost. `FleetRuleNeedsFailure` rests on `FlpInv`: a completed run gives a row to every
template it counts and forgets the others, so that a counter without an active row is
left over from a run that failed after the rows were committed. That such a run lets the
rule raise indeed is a behaviour of the model. No run lists `NoMessageVanishes` and
`MemoryIsBounded`, which the proofs cover for every instance.

Only model-checked. Every liveness property (`OutageRaised`, `RecoveryResolves`,
`RerunDeploys`, `Delivered`, `ReachesPublished`, `LastingProblemReturns`,
`AlertsKeepComing`, `EventuallyServes`) is beyond TLAPS here, which proves nothing under
fairness. What 34 concrete revisions make of a schema (`RevisionsReachModels`) is
evaluated by TLC.
Every safety property of the runs has a theorem.

## 7. Not modelled

`PROJECT.json` gives the reason per component. SSL monitoring keeps nothing between two
requests; the integration plugins are clients of external APIs behind `Polling`;
settings, predictions, the digest, AI summaries, GeoIP, tracing and metrics are reports
over stored data that no other part acts on; the WebSocket broadcast is best effort and
corrected by the next poll; the frontend presents the API's data. Of the modelled
components the note of each says what is left out: mostly formats, queries for display,
the contents of reports, the regular expressions that turn a message into a template,
and the arithmetic of scores. Contents of messages, titles and severities are left out
wherever no property depends on them.

What the checks and proofs do not reach within the modelled components, by choice of the
instance or of the property: the liveness of the engine is checked without editors, so that
a write that keeps an incident open is met by the safety runs only; a `BACKUP_RETENTION` of
0 is excluded by an assumption; `Delivered` speaks of the set of stored messages, so that a
message inserted twice is not told from one inserted once, and assumes that an insert which
is tried again and again succeeds at some time; `NothingPassedOver` says that a reader of a log does
not pass over a line outside the named cases, and not that it goes on; a delivery counts as
repeated although every channel failed, since the job marks it the same way, and a message
template with an unknown placeholder, which raises before anything is sent, is not modelled; deliveries
of one tick end before the next; backup tasks that end with WARNINGS and lists of storages
that are cut short are not modelled; `AdminRemains` names the overlap of two demotions that
each counted the other's administrator, and speaks of every other way to lose the last one.
