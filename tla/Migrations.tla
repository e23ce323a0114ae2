----------------------------- MODULE Migrations -----------------------------
(***************************************************************************)
(* The schema of the PostgreSQL database through the 34 alembic revisions, *)
(* and the two paths that bring it up to date when a container starts:     *)
(* migrate.py (create_all and stamp, or upgrade) and the create_all of the *)
(* application's lifespan, which runs even when SKIP_MIGRATIONS is set.    *)
(* DDL is transactional: a transaction takes effect as a whole or not.     *)
(***************************************************************************)
EXTENDS SchemaModels, Integers, FiniteSets

On(table, members) == {<<table, m>> : m \in members}
TablesOf(objs) == {o[1] : o \in objs}

(***************************************************************************)
(* A revision: objects it creates without looking, objects it creates      *)
(* unless a guard object exists, tables it drops, tables dropped and       *)
(* indexes removed only if they exist.                                     *)
(***************************************************************************)
Migration(create, unless, drop, dropIf) ==
  [create |-> create, unless |-> unless, drop |-> drop, dropIf |-> dropIf]
Creates(objs) == Migration(objs, {}, {}, {})
Unless(guard, objs) == [guard |-> guard, objs |-> objs]
UnlessTable(objs) == Unless(<<CHOOSE t \in TablesOf(objs) : TRUE, "">>, objs)

\* The tables create_all made before any revision knew them.
CreateAllTables ==
  {UnlessTable(Table("agents",
     {"id", "name", "hostname", "token", "platform", "arch", "agent_version",
      "enabled", "last_seen", "created_at", "ix_agents_token"})),
   UnlessTable(Table("log_templates",
     {"id", "template_hash", "template", "example", "count", "first_seen", "last_seen",
      "noise_score", "tags", "avg_rate_per_hour", "ix_log_templates_template_hash"})),
   UnlessTable(Table("host_baselines",
     {"id", "host_key", "hour_of_day", "day_of_week", "avg_rate", "std_rate",
      "sample_count", "updated_at", "ix_baseline_host_time"})),
   UnlessTable(Table("precursor_patterns",
     {"id", "template_id", "precedes_event", "confidence", "avg_lead_time_sec",
      "occurrence_count", "total_checked", "updated_at", "ix_precursor_tpl_event"})),
   UnlessTable((AiUsageLog \ On("ai_usage_logs", {"ix_ai_usage_ts DESC"}))
     \union On("ai_usage_logs", {"ix_ai_usage_ts"})),
   UnlessTable(DiscoveredPort \ On("discovered_ports", {"fk host_id"})),
   UnlessTable(SyslogView)}

R001 == Migration(
  Table("settings", {"key", "value", "encrypted"})
  \union Table("users", {"id", "username", "password_hash", "role", "created_at"})
  \union Table("sessions", {"token", "user_id", "expires_at"})
  \union Table("ping_hosts",
    {"id", "name", "hostname", "enabled", "check_type", "port", "latency_threshold_ms",
     "maintenance", "ssl_expiry_days", "source", "source_detail", "mac_address",
     "created_at"})
  \union Table("ping_results",
    {"id", "host_id", "timestamp", "success", "latency_ms", "ix_ping_results_timestamp"})
  \union Table("integration_configs",
    {"id", "type", "name", "config_json", "enabled", "created_at",
     "ix_integration_configs_type"})
  \union Table("snapshots",
    {"id", "entity_type", "entity_id", "timestamp", "ok", "data_json", "error",
     "ix_snap_type_entity_ts"}),
  CreateAllTables, {}, {})

R002 == Creates(
  Table("syslog_messages",
    {"id", "timestamp", "received_at", "source_ip", "hostname", "facility", "severity",
     "app_name", "message", "host_id", "search_vector", "ix_syslog_ts",
     "ix_syslog_host_ts", "ix_syslog_severity_ts", "ix_syslog_source_ip",
     "ix_syslog_fts"})
  \union Table("incidents",
    {"id", "rule", "title", "severity", "status", "host_ids_hash", "created_at",
     "updated_at", "resolved_at", "acknowledged_by", "ix_incident_status",
     "ix_incident_rule_hash"})
  \union Table("incident_events",
    {"id", "incident_id", "timestamp", "event_type", "summary", "detail",
     "ix_incident_event_ts"}))
R003 == Creates(On("agents", {"ix_agents_hostname_lower"}))
R004 == Creates(On("agents", {"log_levels"}))
R005 == Creates(
  On("syslog_messages", {"ix_syslog_app_name", "ix_syslog_hostname"})
  \union On("snapshots", {"ix_snap_type_ts"})
  \union On("log_templates", {"ix_log_tpl_noise", "ix_log_tpl_first_seen"})
  \union On("incidents", {"ix_incident_updated"})
  \union On("ping_hosts", {"ix_ping_hosts_source"}))
R006 == Creates(Credential \union SnmpMib \union SnmpOid \union SnmpHostConfig
                \union SnmpResult \union SubnetScanSchedule)
R007 == Creates(ApiKey \ On("api_keys", {"hash_algo"}))
R008 == Creates(SubnetScanLog)
R009 == Creates(NotificationLog)
R010 == Creates(AlertRule \ On("alert_rules", {"notify_channels", "required_consecutive"}))
R011 == Creates(On("alert_rules", {"notify_channels"}))
R012 == Creates(On("agents", {"log_channels", "log_file_paths"}))
R013 == Migration({}, {}, {"syslog_messages"}, {})
R014 == Creates(On("ping_hosts", {"maintenance_until"}))
R015 == Creates(On("agents", {"agent_log_level"}))
R016 == Creates(On("agents", {"pending_command"}))
R017 == Creates(On("agents", {"watched_services"}))
R018 == Creates(AuditLog)
R019 == Migration({},
  {Unless(<<"log_templates", "trend_direction">>,
     On("log_templates", {"trend_direction", "trend_score", "severity_mode"})),
   Unless(<<"host_baselines", "avg_template_count">>,
     On("host_baselines", {"avg_template_count", "std_template_count"})),
   Unless(<<"precursor_patterns", "min_lead_time_sec">>,
     On("precursor_patterns", {"min_lead_time_sec", "max_lead_time_sec"})),
   UnlessTable(FleetPattern)}, {}, {})
R020 == Migration({},
  {Unless(<<"incidents", "postmortem">>,
     On("incidents", {"postmortem", "postmortem_generated_at"}))}, {}, {})
R021 == Creates(On("users", {"auth_source", "display_name"}))
R022 == Creates(On("ping_hosts", {"ip_address"}))
R023 == Creates(BackupJob \union BackupHistory)
R024 == Creates(Table("bandwidth_samples",
  {"id", "timestamp", "source_type", "source_id", "interface_name", "rx_bytes",
   "tx_bytes", "rx_rate_bps", "tx_rate_bps", "ix_bw_timestamp", "ix_bw_source_ts",
   "ix_bw_source_iface"}))
R025 == Creates(On("alert_rules", {"required_consecutive"}))
R026 == Migration({}, {}, {}, {"ping_results", "agent_snapshots", "bandwidth_samples"})
R027 == Creates(On("integration_configs",
                   {"cluster_group", "ix_integration_configs_cluster_group"}))
R028 == Creates(AgentInstallToken \union On("api_keys", {"hash_algo"}))
R029 == Creates(On("incidents", {"feedback", "feedback_at", "feedback_by",
                                 "precursor_template", "ix_incident_feedback"}))
R030 == Creates(On("incident_events", {"ix_incident_event_type_ts"}))
R031 == Creates(On("snapshots", {"ix_snap_failed_ts", "ix_snap_latest_per_entity"}))
\* 032 changes storage settings of four tables and no object.
R032 == Creates({})
R033 == Migration({},
  {Unless(<<"ping_hosts", "port_error">>, On("ping_hosts", {"port_error"})),
   Unless(<<"ping_hosts", "check_detail">>, On("ping_hosts", {"check_detail"})),
   Unless(<<"ping_hosts", "parent_id">>, On("ping_hosts", {"parent_id", "fk parent_id"})),
   Unless(<<"discovered_ports", "fk host_id">>, On("discovered_ports", {"fk host_id"})),
   Unless(<<"snapshots", "ok NOT NULL">>, On("snapshots", {"ok NOT NULL"})),
   Unless(<<"snapshots", "ix_snap_entity_id">>, On("snapshots", {"ix_snap_entity_id"})),
   Unless(<<"log_templates", "ix_log_templates_noise_score">>,
          On("log_templates", {"ix_log_templates_noise_score"})),
   Unless(<<"ai_usage_logs", "ix_ai_usage_ts DESC">>,
          On("ai_usage_logs", {"ix_ai_usage_ts DESC"}))},
  {}, {"ix_log_tpl_noise", "ix_ai_usage_ts"})
R034 == Migration({},
  {Unless(<<"agents", "is_probe">>, On("agents", {"is_probe"})),
   Unless(<<"agents", "probe_interval_seconds">>, On("agents", {"probe_interval_seconds"})),
   Unless(<<"ping_hosts", "probe_id">>,
          On("ping_hosts", {"probe_id", "ix_ping_hosts_probe_id", "fk probe_id"}))}, {}, {})

Revisions ==
  <<R001, R002, R003, R004, R005, R006, R007, R008, R009, R010, R011, R012, R013,
    R014, R015, R016, R017, R018, R019, R020, R021, R022, R023, R024, R025, R026,
    R027, R028, R029, R030, R031, R032, R033, R034>>
HeadRevision == 34

Guarded(rev, db) == UNION {u.objs : u \in {x \in rev.unless : x.guard \notin db}}
Dropped(rev, db) == {o \in db : o[1] \in rev.drop \union rev.dropIf \/ o[2] \in rev.dropIf}
Added(rev, db) == rev.create \union Guarded(rev, db)

\* The statements of a revision succeed: nothing it creates exists, every table
\* it alters or drops does.
Applies(rev, db) ==
  /\ Added(rev, db) \intersect db = {}
  /\ \A t \in TablesOf(Added(rev, db)) : <<t, "">> \in db \union Added(rev, db)
  /\ \A t \in rev.drop : <<t, "">> \in db
Applied(rev, db) == (db \ Dropped(rev, db)) \union Added(rev, db)

\* alembic upgrade: the schema at head, from revision r; UpgradeFailed when a statement
\* of some revision does not go through.
UpgradeFailed == {}
Upgrades[r \in 0..HeadRevision, objs \in SUBSET (STRING \X STRING)] ==
  IF r = HeadRevision THEN objs
  ELSE IF Applies(Revisions[r + 1], objs)
       THEN Upgrades[r + 1, Applied(Revisions[r + 1], objs)]
       ELSE UpgradeFailed
Upgraded(r, objs) == Upgrades[r, objs]

\* The schema of a database that only the first r revisions built.
Chain[r \in 0..HeadRevision] == IF r = 0 THEN {} ELSE Applied(Revisions[r], Chain[r - 1])

MissingTables(db) == {t \in TablesOf(Metadata) : <<t, "">> \notin db}
ModelTables(names) == {o \in Metadata : o[1] \in names}

\* What create_all makes of a schema.
Filled(db) == db \union ModelTables(MissingTables(db))

\* What the revisions come to, a matter of evaluating them: from any of them the others
\* lead to the schema of the models. If create_all has filled the schema before, they
\* lead there or stop at a statement that fails, and from 028 on they do not stop.
ASSUME RevisionsReachModels ==
  /\ Chain[HeadRevision] = Metadata
  /\ \A r \in 1..HeadRevision :
       /\ Upgraded(r, Chain[r]) = Metadata
       /\ Upgraded(r, Filled(Chain[r]))
            \in IF r >= 28 THEN {Metadata} ELSE {Metadata, UpgradeFailed}

CONSTANTS Containers,    \* containers that start against one database
          Olds,          \* revisions an existing installation may be at
          MaxStops       \* bound: container stops in a behaviour

ASSUME MigrationsAssumption == Olds \subseteq 1..HeadRevision /\ MaxStops \in Nat

VARIABLES
  migDb,       \* the objects of the schema
  migVersion,  \* the row of alembic_version; 0: no such table
  migPc,       \* where each container's start is
  migSeen,     \* the version its alembic read
  migMissing,  \* the model tables its create_all found missing
  migForced,   \* history: the version at the oldest start with SKIP_MIGRATIONS,
               \* or HeadRevision
  migStops     \* container stops so far

migVars == <<migDb, migVersion, migPc, migSeen, migMissing, migForced, migStops>>

MigInit ==
  /\ \/ migDb = {} /\ migVersion = 0
     \/ \E r \in Olds : migDb = Chain[r] /\ migVersion = r
  /\ migPc = [c \in Containers |-> "down"]
  /\ migSeen = [c \in Containers |-> 0]
  /\ migMissing = [c \in Containers |-> {}]
  /\ migForced = HeadRevision
  /\ migStops = 0

\* Mutant: a database that is not at head counts as a fresh one.
ProbeDatabaseForHead(c) ==
  /\ migPc[c] = "down"
  /\ migMissing' =
       [migMissing EXCEPT ![c] = IF migVersion < HeadRevision THEN MissingTables(migDb) ELSE {}]
  /\ migPc' = [migPc EXCEPT ![c] = IF migVersion < HeadRevision THEN "create" ELSE "upgrade"]
  /\ UNCHANGED <<migDb, migVersion, migSeen, migForced, migStops>>

\* entrypoint.sh runs migrate.py: has_alembic_version, and on a fresh database
\* the existence checks of create_all.
ProbeDatabase(c) ==
  /\ migPc[c] = "down"
  /\ migMissing' = [migMissing EXCEPT ![c] = IF migVersion = 0 THEN MissingTables(migDb) ELSE {}]
  /\ migPc' = [migPc EXCEPT ![c] = IF migVersion = 0 THEN "create" ELSE "upgrade"]
  /\ UNCHANGED <<migDb, migVersion, migSeen, migForced, migStops>>

\* entrypoint.sh with SKIP_MIGRATIONS=1.
SkipMigrations(c) ==
  /\ migPc[c] = "down"
  /\ migPc' = [migPc EXCEPT ![c] = "lifespan"]
  /\ migForced' = IF migVersion \in 1..migForced THEN migVersion ELSE migForced
  /\ UNCHANGED <<migDb, migVersion, migSeen, migMissing, migStops>>

\* The transaction of create_all: a table someone else created meanwhile makes
\* it fail as a whole.
CreateAll(c, next) ==
  /\ migMissing' = [migMissing EXCEPT ![c] = {}]
  /\ \/ /\ migMissing[c] \subseteq MissingTables(migDb)
        /\ migDb' = IF migMissing[c] = {} THEN migDb
                 ELSE migDb \union ModelTables(migMissing[c])
        /\ migPc' = [migPc EXCEPT ![c] = next]
     \/ /\ ~(migMissing[c] \subseteq MissingTables(migDb))
        /\ migDb' = migDb
        /\ migPc' = [migPc EXCEPT ![c] = "down"]

CreateSchemaFromModels(c) ==
  /\ migPc[c] = "create"
  /\ CreateAll(c, "stamp")
  /\ UNCHANGED <<migVersion, migSeen, migForced, migStops>>

\* alembic stamp head. When another container stamps meanwhile, the row that this one
\* inserts may exist.
StampHead(c) ==
  /\ migPc[c] = "stamp"
  /\ \/ /\ migVersion' = HeadRevision
        /\ migPc' = [migPc EXCEPT ![c] = "lifespan"]
     \/ /\ migVersion = HeadRevision
        /\ migPc' = [migPc EXCEPT ![c] = "down"]
        /\ migVersion' = migVersion
  /\ UNCHANGED <<migDb, migSeen, migMissing, migForced, migStops>>

\* do_run_migrations begins its transaction and reads the version row.
ReadVersion(c) ==
  /\ migPc[c] = "upgrade"
  /\ migSeen' = [migSeen EXCEPT ![c] = migVersion]
  /\ migPc' = [migPc EXCEPT ![c] = "migrate"]
  /\ UNCHANGED <<migDb, migVersion, migMissing, migForced, migStops>>

\* Mutant: a failed upgrade is retried from the version read before.
UpgradeHeadRetries(c) ==
  /\ migPc[c] = "migrate"
  /\ migSeen' = [migSeen EXCEPT ![c] = IF migVersion = migSeen[c] THEN 0 ELSE migSeen[c]]
  /\ \E done \in {Upgraded(migSeen[c], migDb)} :
       \/ /\ migVersion = migSeen[c] /\ done /= UpgradeFailed
          /\ migDb' = done /\ migVersion' = HeadRevision
          /\ migPc' = [migPc EXCEPT ![c] = "lifespan"]
       \/ /\ migVersion /= migSeen[c] \/ done = UpgradeFailed
          /\ migPc' = [migPc EXCEPT ![c] = IF migVersion = migSeen[c] THEN "down" ELSE "migrate"]
          /\ UNCHANGED <<migDb, migVersion>>
  /\ UNCHANGED <<migMissing, migForced, migStops>>

\* alembic upgrade head, one transaction: it fails when a statement does, and
\* when another container moved the version row meanwhile.
UpgradeHead(c) ==
  /\ migPc[c] = "migrate"
  /\ migSeen' = [migSeen EXCEPT ![c] = 0]
  /\ \E done \in {Upgraded(migSeen[c], migDb)} :
       \/ /\ migVersion = migSeen[c] /\ done /= UpgradeFailed
          /\ migDb' = done /\ migVersion' = HeadRevision
          /\ migPc' = [migPc EXCEPT ![c] = "lifespan"]
       \/ /\ migVersion /= migSeen[c] \/ done = UpgradeFailed
          /\ migPc' = [migPc EXCEPT ![c] = "down"]
          /\ UNCHANGED <<migDb, migVersion>>
  /\ UNCHANGED <<migMissing, migForced, migStops>>

\* lifespan: init_db looks which tables exist, then creates the others.
InitDbLook(c) ==
  /\ migPc[c] = "lifespan"
  /\ migMissing' = [migMissing EXCEPT ![c] = MissingTables(migDb)]
  /\ migPc' = [migPc EXCEPT ![c] = "init_db"]
  /\ UNCHANGED <<migDb, migVersion, migSeen, migForced, migStops>>
InitDb(c) ==
  /\ migPc[c] = "init_db"
  /\ CreateAll(c, "serving")
  /\ UNCHANGED <<migVersion, migSeen, migForced, migStops>>

\* The container is killed or stopped anywhere; a transaction in flight is lost.
StopContainer(c) ==
  /\ migPc[c] /= "down" /\ migStops < MaxStops
  /\ migPc' = [migPc EXCEPT ![c] = "down"]
  /\ migSeen' = [migSeen EXCEPT ![c] = 0]
  /\ migMissing' = [migMissing EXCEPT ![c] = {}]
  /\ migStops' = migStops + 1
  /\ UNCHANGED <<migDb, migVersion, migForced>>

StartContainer(c) == ProbeDatabase(c) \/ CreateSchemaFromModels(c) \/ StampHead(c)
                     \/ ReadVersion(c) \/ UpgradeHead(c) \/ InitDbLook(c) \/ InitDb(c)
MigNext == \E c \in Containers : StartContainer(c) \/ SkipMigrations(c) \/ StopContainer(c)

\* The restart policy starts a container that ended again, and a started one
\* runs on. Nothing makes an operator set SKIP_MIGRATIONS.
MigFairness == \A c \in Containers : WF_migVars(StartContainer(c))
MigSpec == MigInit /\ [][MigNext]_migVars /\ MigFairness
-----------------------------------------------------------------------------
(***************************************************************************)
(* Properties                                                              *)
(***************************************************************************)

\* Whichever path a database took, one that is recorded at head has exactly the
\* objects the models declare: fresh installs and migrated ones do not drift
\* apart, whatever starts raced, failed half-way or skipped the migrations.
HeadMatchesModels == migVersion = HeadRevision => migDb = Metadata

\* Unless new code was started with SKIP_MIGRATIONS below revision 028 (create_all then
\* makes tables that a later revision creates without looking), a container that was
\* started serves in the end, in this start or a later one: two that race do not make
\* each other fail for ever.
EventuallyServes ==
  [](migForced >= 28) => \A c \in Containers : migPc[c] # "down" ~> migPc[c] = "serving"
=============================================================================
