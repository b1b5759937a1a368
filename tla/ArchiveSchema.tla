--------------------------- MODULE ArchiveSchema ---------------------------
(***************************************************************************)
(* The schema of the usage archive (store/usage/schema.rs and the quota,   *)
(* benefit, Git and price schemas): the objects each block of SQL creates, *)
(* and, apart from them, the contract each version is validated against.   *)
(* An object is its kind, its name and the version its SQL comes from;     *)
(* columns, checks and index keys are what that version stands for.        *)
(***************************************************************************)
EXTENDS Integers, Sequences, FiniteSets

Objects(kind, shape, names) == {[kind |-> kind, name |-> n, shape |-> shape] : n \in names}

Names(objects) == {o.name : o \in objects}

EventIndexes == {"usage_event_model_time", "usage_event_time_desc"}

RevisionIndexes == {"usage_replay_revision_one_current", "usage_replay_revision_one_staging"}

DatasetTriggers == {"usage_event_dataset_generation_after_delete",
                    "usage_event_dataset_generation_after_insert",
                    "usage_event_dataset_generation_after_update"}

SessionTriggers == {"usage_event_aggregate_session_after_delete",
                    "usage_event_aggregate_session_after_insert",
                    "usage_event_aggregate_session_after_update"}

\* The triggers that take an event out of the time rollups, rewritten in version 14.
TimeRewritten == {"usage_event_aggregate_time_after_delete", "usage_event_aggregate_time_after_update"}

PriceTimeRewritten == {"usage_event_price_time_after_delete", "usage_event_price_time_after_update"}

PriceSessionTriggers == {"usage_event_price_session_after_delete",
                         "usage_event_price_session_after_insert",
                         "usage_event_price_session_after_update"}

AggregateTriggers == SessionTriggers \cup TimeRewritten \cup {"usage_event_aggregate_time_after_insert"}

PriceTriggers == PriceSessionTriggers \cup PriceTimeRewritten \cup {"usage_event_price_time_after_insert"}

LegacyTriggers == {"usage_legacy_event_no_delete", "usage_legacy_event_no_insert",
                   "usage_legacy_event_no_update"}

\* What goes away with usage_event.
OfEvents == EventIndexes \cup DatasetTriggers \cup AggregateTriggers \cup PriceTriggers
              \cup {"usage_event_session_time"}

\* The table an index or a trigger goes away with, where a migration drops the table.
On(name) ==
    CASE name \in OfEvents -> "usage_event"
      [] name \in RevisionIndexes -> "usage_replay_revision"
      [] name = "usage_scan_one_running_scope" -> "usage_scan"
      [] OTHER -> "another table"

\* DROP TABLE
Dropped(objects, table) == {o \in objects : o.name # table /\ On(o.name) # table}

-----------------------------------------------------------------------------
(* The blocks of SQL.                                                       *)

V1_SCHEMA ==
    Objects("table", 1, {"usage_scan", "usage_source", "usage_generation", "usage_source_chunk",
                         "usage_observation", "usage_event"})
    \cup Objects("index", 0, {"usage_generation_one_current", "usage_generation_one_staging",
                              "usage_observation_fingerprint"} \cup EventIndexes)

REPLAY_AUX_SCHEMA ==
    Objects("table", 2, {"usage_legacy_snapshot", "usage_legacy_event"})
    \cup Objects("index", 0, {"usage_legacy_event_time_desc", "usage_legacy_event_model_time"})

REPLAY_REVISION_SCHEMA(v) == Objects("table", v, {"usage_replay_revision"})

REPLAY_CHILD_SCHEMA ==
    Objects("table", 2, {"usage_replay_source", "usage_replay_session", "usage_replay_observation",
                         "usage_replay_selection", "usage_replay_work"})
    \cup Objects("index", 0, {"usage_replay_observation_parent", "usage_replay_observation_children",
                              "usage_replay_observation_disposition",
                              "usage_replay_observation_fingerprint"} \cup RevisionIndexes)

LEGACY_IMMUTABILITY_TRIGGERS == Objects("trigger", 2, LegacyTriggers)

V5_SCAN_SET_SCHEMA == Objects("table", 5, {"usage_scan_set"})

\* The indexes migrate_scan_authority_v5 creates when its copies have their names.
V5_INDEXES ==
    Objects("index", 0, RevisionIndexes \cup {"usage_scan_one_running_scope",
                                              "usage_scan_set_one_running",
                                              "usage_source_scope_missing"})

ARCHIVE_STATE_SCHEMA(v) == Objects("table", v, {"usage_archive_state"})

DATASET_TRIGGERS(v) == Objects("trigger", v, DatasetTriggers)

V8_AGGREGATE_SCHEMA ==
    Objects("table", 8, {"usage_aggregate_state", "usage_time_rollup", "usage_session_rollup"})
    \cup Objects("index", 0, {"usage_event_session_time", "usage_session_rollup_page",
                              "usage_time_rollup_scope_range"})

V9_PRICE_ROLLUP_SCHEMA ==
    Objects("table", 9, {"usage_price_time_rollup", "usage_price_session_rollup"})
    \cup Objects("index", 0, {"usage_price_time_scope_range", "usage_price_session_scope"})

V10_QUOTA_SCHEMA ==
    Objects("table", 10, {"quota_state", "quota_window_definition", "quota_sample",
                          "quota_epoch_current", "quota_epoch_history", "quota_transition",
                          "quota_window_current"})
    \cup Objects("index", 0, {"quota_definition_scope_revision", "quota_sample_retention",
                              "quota_epoch_history_retention", "quota_transition_window_sequence",
                              "quota_window_current_scope"})
    \cup Objects("trigger", 10, {"quota_state_no_delete", "quota_window_definition_no_update",
                                 "quota_sample_no_update", "quota_epoch_history_no_update",
                                 "quota_transition_no_update"})

V11_BENEFIT_SCHEMA ==
    Objects("table", 11, {"benefit_state", "benefit_scope", "benefit_lot_revision",
                          "benefit_lot_current", "benefit_change", "benefit_reminder_profile",
                          "benefit_reminder_threshold", "benefit_reminder_due",
                          "benefit_reminder_delivery"})
    \cup Objects("index", 0, {"benefit_change_scope_sequence", "benefit_delivery_scope_time",
                              "benefit_due_next", "benefit_lot_current_expiry",
                              "benefit_lot_revision_retention", "benefit_profile_scope"})
    \cup Objects("trigger", 11, {"benefit_state_no_delete", "benefit_lot_revision_no_update",
                                 "benefit_change_no_update", "benefit_delivery_no_update"})

V12_BENEFIT_ACK_SCHEMA ==
    Objects("table", 12, {"benefit_reminder_ack"}) \cup Objects("trigger", 12, {"benefit_ack_no_update"})

V13_GIT_SCHEMA ==
    Objects("table", 13, {"git_installation_state", "git_repository", "git_activity_association",
                          "git_day_aggregate", "git_category_aggregate",
                          "git_day_category_aggregate", "git_warning"})
    \cup Objects("index", 0, {"git_association_repository_activity", "git_day_repository_range",
                              "git_day_category_repository_range", "git_repository_observed"})
    \cup Objects("trigger", 13, {"git_category_no_update", "git_day_no_update",
                                 "git_day_category_no_update", "git_installation_state_no_delete",
                                 "git_warning_no_update"})
EVENT_SCHEMA(v) == Objects("table", v, {"usage_event"})

V5_USAGE_SCAN_SCHEMA == Objects("table", 5, {"usage_scan"})

\* The three tables as they are once a reported cost column was added to them.
V9_REPORTED_COST_TABLE_SCHEMA ==
    Objects("table", 9, {"usage_observation", "usage_event", "usage_legacy_event"})

V9_AGGREGATE_STATE_SCHEMA == Objects("table", 9, {"usage_aggregate_state"})

-----------------------------------------------------------------------------
(* The contract of a version.                                               *)

V1Tables == {"usage_scan", "usage_source", "usage_generation", "usage_source_chunk",
             "usage_observation", "usage_event"}

UsageTables ==
    V1Tables \cup {"usage_legacy_snapshot", "usage_legacy_event", "usage_replay_revision",
                   "usage_replay_source", "usage_replay_session", "usage_replay_observation",
                   "usage_replay_selection", "usage_replay_work"}

QuotaTables == {"quota_state", "quota_window_definition", "quota_sample", "quota_epoch_current",
                "quota_epoch_history", "quota_transition", "quota_window_current"}

BenefitTables == {"benefit_state", "benefit_scope", "benefit_lot_revision", "benefit_lot_current",
                  "benefit_change", "benefit_reminder_profile", "benefit_reminder_threshold",
                  "benefit_reminder_due", "benefit_reminder_delivery"}

GitTables == {"git_installation_state", "git_repository", "git_activity_association",
              "git_day_aggregate", "git_category_aggregate", "git_day_category_aggregate",
              "git_warning"}

RollupTables == {"usage_aggregate_state", "usage_time_rollup", "usage_session_rollup"}

PriceTables == {"usage_price_time_rollup", "usage_price_session_rollup"}

From(v, first, names) == IF v >= first THEN names ELSE {}

\* The tables a version has, and no other.
TableNames(v) ==
    (IF v = 1 THEN V1Tables ELSE UsageTables)
    \cup From(v, 5, {"usage_scan_set"}) \cup From(v, 6, {"usage_archive_state"})
    \cup From(v, 8, RollupTables) \cup From(v, 9, PriceTables) \cup From(v, 10, QuotaTables)
    \cup From(v, 11, BenefitTables) \cup From(v, 12, {"benefit_reminder_ack"})
    \cup From(v, 13, GitTables)

V1Indexes == {"usage_event_model_time", "usage_event_time_desc", "usage_generation_one_current",
              "usage_generation_one_staging", "usage_observation_fingerprint"}

\* USAGE_INDEX_CONTRACTS
UsageIndexes ==
    V1Indexes \cup {"usage_legacy_event_model_time", "usage_legacy_event_time_desc",
                    "usage_replay_observation_disposition", "usage_replay_observation_fingerprint",
                    "usage_replay_observation_parent", "usage_replay_revision_one_current",
                    "usage_replay_revision_one_staging"}

\* V14_USAGE_INDEX_CONTRACTS
V14UsageIndexes == UsageIndexes \cup {"usage_replay_observation_children"}

QuotaIndexes == {"quota_definition_scope_revision", "quota_epoch_history_retention",
                 "quota_sample_retention", "quota_transition_window_sequence",
                 "quota_window_current_scope"}

BenefitIndexes == {"benefit_change_scope_sequence", "benefit_delivery_scope_time",
                   "benefit_due_next", "benefit_lot_current_expiry",
                   "benefit_lot_revision_retention", "benefit_profile_scope"}

GitIndexes == {"git_association_repository_activity", "git_day_category_repository_range",
               "git_day_repository_range", "git_repository_observed"}

IndexNames(v) ==
    (IF v = 1 THEN V1Indexes ELSE IF v <= 14 THEN V14UsageIndexes ELSE UsageIndexes)
    \cup From(v, 5, {"usage_scan_one_running_scope", "usage_scan_set_one_running",
                     "usage_source_scope_missing"})
    \cup From(v, 8, {"usage_event_session_time", "usage_session_rollup_page",
                     "usage_time_rollup_scope_range"})
    \cup From(v, 9, {"usage_price_session_scope", "usage_price_time_scope_range"})
    \cup From(v, 10, QuotaIndexes) \cup From(v, 11, BenefitIndexes) \cup From(v, 13, GitIndexes)

QuotaTriggers == {"quota_epoch_history_no_update", "quota_sample_no_update",
                  "quota_state_no_delete", "quota_transition_no_update",
                  "quota_window_definition_no_update"}

BenefitTriggers == {"benefit_change_no_update", "benefit_delivery_no_update",
                    "benefit_lot_revision_no_update", "benefit_state_no_delete"}

GitTriggers == {"git_category_no_update", "git_day_category_no_update", "git_day_no_update",
                "git_installation_state_no_delete", "git_warning_no_update"}

Triggers(v, first, shape, names) == Objects("trigger", shape, From(v, first, names))

ExpectedTriggers(v) ==
    Triggers(v, 2, 2, LegacyTriggers)
    \cup Triggers(v, 7, IF v = 7 THEN 7 ELSE 8, DatasetTriggers)
    \cup Triggers(v, 8, 8, SessionTriggers \cup {"usage_event_aggregate_time_after_insert"})
    \cup Triggers(v, 8, IF v < 14 THEN 8 ELSE 14, TimeRewritten)
    \cup Triggers(v, 9, 9, PriceSessionTriggers \cup {"usage_event_price_time_after_insert"})
    \cup Triggers(v, 9, IF v < 14 THEN 9 ELSE 14, PriceTimeRewritten)
    \cup Triggers(v, 10, 10, QuotaTriggers) \cup Triggers(v, 11, 11, BenefitTriggers)
    \cup Triggers(v, 12, 12, {"benefit_ack_no_update"}) \cup Triggers(v, 13, 13, GitTriggers)

\* table_schema_sources: the first block that creates a table says what it looks like.
Sources(v) ==
    CASE v = 1 -> <<V1_SCHEMA>>
      [] v \in 2..3 -> <<V1_SCHEMA, REPLAY_AUX_SCHEMA, REPLAY_REVISION_SCHEMA(v), REPLAY_CHILD_SCHEMA>>
      [] v = 4 -> <<EVENT_SCHEMA(4), V1_SCHEMA, REPLAY_AUX_SCHEMA, REPLAY_REVISION_SCHEMA(3),
                    REPLAY_CHILD_SCHEMA>>
      [] OTHER ->
           (IF v >= 9 THEN <<V9_REPORTED_COST_TABLE_SCHEMA, V9_AGGREGATE_STATE_SCHEMA,
                             V9_PRICE_ROLLUP_SCHEMA>> ELSE <<>>)
           \o (IF v >= 8 THEN <<V8_AGGREGATE_SCHEMA>> ELSE <<>>)
           \o <<EVENT_SCHEMA(IF v >= 8 THEN 8 ELSE 4), ARCHIVE_STATE_SCHEMA(IF v >= 7 THEN 7 ELSE 6),
                V5_SCAN_SET_SCHEMA, V5_USAGE_SCAN_SCHEMA, REPLAY_REVISION_SCHEMA(5),
                V1_SCHEMA, REPLAY_AUX_SCHEMA, REPLAY_CHILD_SCHEMA,
                V10_QUOTA_SCHEMA, V11_BENEFIT_SCHEMA, V12_BENEFIT_ACK_SCHEMA, V13_GIT_SCHEMA>>

\* expected_table_sql
ExpectedTable(v, name) ==
    LET has(i) == name \in Names(Sources(v)[i])
        first  == CHOOSE i \in 1..Len(Sources(v)) : has(i) /\ \A j \in 1..(i - 1) : ~has(j)
    IN CHOOSE o \in Sources(v)[first] : o.name = name

\* The objects a version is made of, version by version.
Contract == [v \in 1..15 |->
    {ExpectedTable(v, n) : n \in TableNames(v)}
    \cup Objects("index", 0, IndexNames(v)) \cup ExpectedTriggers(v)]

\* validate_schema, validate_named_sql and validate_triggers: all of it, and nothing else.
SchemaValid(objects, v) == objects = Contract[v]
=============================================================================
