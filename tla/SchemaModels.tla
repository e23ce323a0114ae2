---------------------------- MODULE SchemaModels ----------------------------
(***************************************************************************)
(* What backend/models declares: per class the table with its columns and  *)
(* named indexes, and the constraints the migrations create separately.    *)
(* An object is a pair <<table, name>>; <<table, "">> is the table itself. *)
(* Types and defaults are left out.                                        *)
(***************************************************************************)

Table(name, members) == {<<name, "">>} \union {<<name, m>> : m \in members}

Agent == Table("agents",
  {"id", "name", "hostname", "token", "platform", "arch", "agent_version", "enabled",
   "log_levels", "log_channels", "log_file_paths", "agent_log_level",
   "pending_command", "is_probe", "probe_interval_seconds", "watched_services",
   "last_seen", "created_at", "ix_agents_token", "ix_agents_hostname_lower"})

AgentInstallToken == Table("agent_install_tokens",
  {"id", "token_hash", "prefix", "note", "hostname_pattern", "expires_at", "revoked",
   "used_count", "last_used_at", "created_at", "created_by",
   "ix_agent_install_tokens_token_hash"})

AiUsageLog == Table("ai_usage_logs",
  {"id", "timestamp", "feature", "model", "input_tokens", "output_tokens", "cost_usd",
   "metadata_json", "ix_ai_usage_ts DESC", "ix_ai_usage_feature"})

AlertRule == Table("alert_rules",
  {"id", "name", "enabled", "source_type", "source_id", "field_path", "operator",
   "threshold", "severity", "notify_channels", "message_template", "cooldown_minutes",
   "required_consecutive", "last_triggered_at", "created_at"})

ApiKey == Table("api_keys",
  {"id", "name", "key_hash", "prefix", "role", "enabled", "last_used", "created_at",
   "created_by", "note", "hash_algo", "ix_api_keys_key_hash"})

AuditLog == Table("audit_logs",
  {"id", "timestamp", "user_id", "username", "action", "target_type", "target_id",
   "target_name", "details", "ip_address", "ix_audit_logs_timestamp"})

BackupJob == Table("backup_jobs",
  {"id", "name", "source_type", "source_config_id", "target_name", "target_vmid",
   "storage_name", "last_run_at", "last_status", "last_duration_sec",
   "last_size_bytes", "last_error", "expected_frequency_hours", "enabled",
   "created_at", "updated_at", "ix_backup_jobs_source_type", "ix_backup_jobs_source"})

BackupHistory == Table("backup_history",
  {"id", "job_id", "timestamp", "status", "duration_sec", "size_bytes", "error",
   "details_json", "ix_backup_history_job_id", "ix_backup_history_timestamp",
   "ix_backup_history_job_ts"})

Credential == Table("credentials",
  {"id", "name", "type", "data_json", "created_at", "ix_credentials_type"})

DiscoveredPort == Table("discovered_ports",
  {"id", "host_id", "port", "protocol", "service", "status", "has_ssl", "ssl_issuer",
   "ssl_subject", "ssl_expiry_days", "ssl_expiry_date", "ssl_status", "first_seen",
   "last_seen", "last_open", "ix_disc_port_host", "ix_disc_port_host_port",
   "fk host_id"})

Incident == Table("incidents",
  {"id", "rule", "title", "severity", "status", "host_ids_hash", "created_at",
   "updated_at", "resolved_at", "acknowledged_by", "postmortem",
   "postmortem_generated_at", "feedback", "feedback_at", "feedback_by",
   "precursor_template", "ix_incident_status", "ix_incident_rule_hash",
   "ix_incident_updated", "ix_incident_feedback"})

IncidentEvent == Table("incident_events",
  {"id", "incident_id", "timestamp", "event_type", "summary", "detail",
   "ix_incident_event_ts", "ix_incident_event_type_ts"})

IntegrationConfig == Table("integration_configs",
  {"id", "type", "name", "config_json", "enabled", "cluster_group", "created_at",
   "ix_integration_configs_type", "ix_integration_configs_cluster_group"})

Snapshot == Table("snapshots",
  {"id", "entity_type", "entity_id", "timestamp", "ok", "data_json", "error",
   "ok NOT NULL", "ix_snap_type_entity_ts", "ix_snap_entity_id", "ix_snap_type_ts",
   "ix_snap_failed_ts", "ix_snap_latest_per_entity"})

LogTemplate == Table("log_templates",
  {"id", "template_hash", "template", "example", "count", "first_seen", "last_seen",
   "noise_score", "tags", "avg_rate_per_hour", "trend_direction", "trend_score",
   "severity_mode", "ix_log_templates_template_hash", "ix_log_templates_noise_score",
   "ix_log_tpl_first_seen"})

HostBaseline == Table("host_baselines",
  {"id", "host_key", "hour_of_day", "day_of_week", "avg_rate", "std_rate",
   "sample_count", "avg_template_count", "std_template_count", "updated_at",
   "ix_baseline_host_time"})

PrecursorPattern == Table("precursor_patterns",
  {"id", "template_id", "precedes_event", "confidence", "avg_lead_time_sec",
   "min_lead_time_sec", "max_lead_time_sec", "occurrence_count", "total_checked",
   "updated_at", "ix_precursor_tpl_event"})

FleetPattern == Table("fleet_patterns",
  {"id", "template_hash", "host_count", "source_ips", "first_seen", "last_checked",
   "is_baseline", "status", "ix_fleet_patterns_template_hash", "ix_fleet_hash_status"})

NotificationLog == Table("notification_logs",
  {"id", "timestamp", "channel", "title", "message", "severity", "status", "error",
   "ix_notif_log_ts", "ix_notif_log_channel"})

PingHost == Table("ping_hosts",
  {"id", "name", "hostname", "enabled", "check_type", "port", "latency_threshold_ms",
   "maintenance", "maintenance_until", "ssl_expiry_days", "port_error",
   "check_detail", "ip_address", "source", "source_detail", "mac_address",
   "parent_id", "probe_id", "created_at", "ix_ping_hosts_source",
   "ix_ping_hosts_probe_id", "fk parent_id", "fk probe_id"})

SubnetScanSchedule == Table("subnet_scan_schedules",
  {"id", "name", "cidr", "interval_m", "auto_add", "enabled", "last_scan",
   "last_alive", "last_total", "last_added", "created_at"})

SubnetScanLog == Table("subnet_scan_logs",
  {"id", "schedule_id", "timestamp", "cidr", "alive", "total", "added",
   "hosts_added", "error", "ix_scan_log_schedule_ts"})

Setting == Table("settings", {"key", "value", "encrypted"})

User == Table("users",
  {"id", "username", "password_hash", "role", "auth_source", "display_name",
   "created_at"})

Session == Table("sessions", {"token", "user_id", "expires_at"})

SnmpMib == Table("snmp_mibs",
  {"id", "name", "filename", "oid_count", "raw_text", "uploaded_at"})

SnmpOid == Table("snmp_oids",
  {"id", "oid", "name", "mib_name", "syntax", "description", "is_table",
   "ix_snmp_oids_mib_name"})

SnmpHostConfig == Table("snmp_host_configs",
  {"id", "host_id", "credential_id", "port", "oids_json", "thresholds_json",
   "poll_interval", "enabled", "last_poll", "last_ok"})

SnmpResult == Table("snmp_results",
  {"id", "host_id", "timestamp", "data_json", "ix_snmp_results_timestamp",
   "ix_snmp_results_host_ts"})

SyslogView == Table("syslog_views", {"id", "name", "filters_json", "created_at"})

\* Base.metadata once models/__init__.py is imported.
Models ==
  {Agent, AgentInstallToken, AiUsageLog, AlertRule, ApiKey, AuditLog, BackupJob,
   BackupHistory, Credential, DiscoveredPort, Incident, IncidentEvent,
   IntegrationConfig, Snapshot, LogTemplate, HostBaseline, PrecursorPattern,
   NotificationLog, PingHost, SubnetScanSchedule, SubnetScanLog, Setting, User,
   Session, SnmpMib, SnmpOid, SnmpHostConfig, SnmpResult, SyslogView, FleetPattern}

Metadata == UNION Models
=============================================================================
