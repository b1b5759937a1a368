----------------------------- MODULE Migration -----------------------------
(***************************************************************************)
(* Opening the usage archive (store/usage/migration.rs, mod.rs): every     *)
(* connection reads the version, then takes the archive from version to    *)
(* version, one transaction each, and finally validates it.  The version   *)
(* is validated before each transaction and again at its end, so a crash,  *)
(* a failed statement or another connection doing the same may come        *)
(* between any two steps.                                                  *)
(*                                                                         *)
(* An archive is its schema objects and the rows migrations read or write: *)
(*   sources    file -> [provider, profile, scan], scan the last that saw it*)
(*   events     fingerprint -> [file, profile, projection, origin, retained,*)
(*              provider]; 0, FALSE and "" before the column exists         *)
(*   legacy, snapshot   the copied rows of version 1 and their count, or -1*)
(*   revisions  id -> [status, set];  scans  id -> [state, done, profile,  *)
(*              provider, set];  sets  id -> [state, scopes]               *)
(*   archive, agg       the two state rows, or None                        *)
(*   rolled, priced     the events the usage and the price rollups count   *)
(***************************************************************************)
EXTENDS ArchiveSchema, TLC

CONSTANTS Openers,      \* the connections that open the archive
          Archives,     \* the archives they may find
          Faults        \* how many crashes and failed statements there are

VARIABLES db, conn, original, faults

vars == <<db, conn, original, faults>>

None == [none |-> TRUE]

Failed(d) == [ok |-> FALSE, db |-> d]

Items(d) == {<<"current", f>> : f \in DOMAIN d.events} \cup {<<"legacy", f>> : f \in d.legacy}

CurrentRevision(d) ==
    IF \E r \in DOMAIN d.revisions : d.revisions[r].status = "current"
    THEN CHOOSE r \in DOMAIN d.revisions : d.revisions[r].status = "current" ELSE 0

ScansOf(d, set) == {s \in DOMAIN d.scans : d.scans[s].set = set}

\* A scan set all of whose scopes completed.
SetComplete(d, set) ==
    /\ set \in DOMAIN d.sets
    /\ d.sets[set].state = "complete"
    /\ Cardinality(ScansOf(d, set)) = d.sets[set].scopes
    /\ \A s \in ScansOf(d, set) : d.scans[s].state = "complete"

-----------------------------------------------------------------------------
(* Validation.                                                              *)

\* pragma_foreign_key_check, for the keys between the rows kept here.
KeysHold(d) ==
    /\ \A f \in DOMAIN d.events : {d.events[f].projection, d.events[f].origin} \ {0}
                                    \subseteq DOMAIN d.revisions
    /\ \A r \in DOMAIN d.revisions : {d.revisions[r].set} \ {0} \subseteq DOMAIN d.sets
    /\ \A s \in DOMAIN d.scans : {d.scans[s].set} \ {0} \subseteq DOMAIN d.sets

\* validate_legacy_snapshot
LegacyValid(d) == IF d.snapshot = -1 THEN d.legacy = {} ELSE Cardinality(d.legacy) = d.snapshot

\* validate_archive_publication
PublicationValid(d) ==
    LET a == d.archive
    IN /\ a # None
       /\ a.revision # 0 => a.revision = CurrentRevision(d)
       /\ a.set # 0 => SetComplete(d, a.set) /\ d.revisions[a.revision].set = a.set
       /\ a.quality = "empty" => a.revision = 0 /\ a.set = 0
       /\ a.quality = "complete" => a.revision # 0 /\ a.set # 0
       /\ a.quality \in {"partial", "recovery_pending"} => a.revision # 0

\* validate_aggregate_state
AggregateValid(d, schema) ==
    LET g == d.agg
    IN /\ g # None
       /\ g.expected = d.archive.generation
       /\ g.schema = schema
       /\ g.total = g.current + g.legacy
       /\ g.legacy = IF d.snapshot = -1 THEN 0 ELSE d.snapshot

\* validate_archive_version: validate_v1 .. validate_v15.
Validate(d, v) ==
    /\ SchemaValid(d.objects, v)
    /\ KeysHold(d)
    /\ v >= 2 => LegacyValid(d)
    /\ v >= 6 => PublicationValid(d)
    /\ v >= 8 => AggregateValid(d, IF v = 8 THEN 1 ELSE 2)

\* The end of a transaction: the version is written and the result validated.
Finish(d, next, v) ==
    IF Validate(next, v) THEN [ok |-> TRUE, db |-> [next EXCEPT !.version = v]] ELSE Failed(d)

\* CREATE of objects none of which is there yet.
Creating(d, new, v, next) ==
    IF Names(new) \cap Names(d.objects) # {} THEN Failed(d)
    ELSE Finish(d, [next EXCEPT !.objects = @ \cup new], v)

\* A table copied into one of a new shape, dropped, and the copy renamed.
Reshaped(objects, table, shape) == Dropped(objects, table) \cup Objects("table", shape, {table})

-----------------------------------------------------------------------------
(* The steps.                                                               *)

\* Mutant: only the rows of known sources are copied.
CopiedV8Joined(d) ==
    [f \in {f \in DOMAIN d.events : d.events[f].file \in DOMAIN d.sources} |->
       [d.events[f] EXCEPT !.provider = d.sources[d.events[f].file].provider]]

\* migrate_usage_event_v8: the rows, each with the provider of its source.
CopiedV8(d) ==
    [f \in DOMAIN d.events |->
       [d.events[f] EXCEPT !.provider = IF d.events[f].file \in DOMAIN d.sources
                                        THEN d.sources[d.events[f].file].provider ELSE "unknown"]]

\* migrate_usage_event_v4: every row belongs to the current revision, if there is one.
EventsV4(d) ==
    [d EXCEPT
       !.objects = Reshaped(@, "usage_event", 4) \cup Objects("index", 0, EventIndexes),
       !.events = [f \in DOMAIN @ |-> [@[f] EXCEPT !.projection = CurrentRevision(d),
                                                   !.origin = CurrentRevision(d),
                                                   !.retained = FALSE]]]

CreateFreshV4(d) ==
    IF d.objects # {} THEN Failed(d)
    ELSE LET made == [d EXCEPT !.objects = V1_SCHEMA \cup REPLAY_AUX_SCHEMA
                                \cup REPLAY_REVISION_SCHEMA(3) \cup REPLAY_CHILD_SCHEMA
                                \cup LEGACY_IMMUTABILITY_TRIGGERS]
         IN Finish(d, EventsV4(made), 4)

\* The rows of version 1 are kept as an immutable snapshot next to the live ones.
MigrateV1(d) ==
    IF ~Validate(d, 1) THEN Failed(d)
    ELSE LET made == [d EXCEPT !.objects = @ \cup REPLAY_AUX_SCHEMA \cup REPLAY_REVISION_SCHEMA(3)
                                \cup REPLAY_CHILD_SCHEMA \cup LEGACY_IMMUTABILITY_TRIGGERS,
                               !.snapshot = Cardinality(DOMAIN d.events),
                               !.legacy = DOMAIN d.events]
         IN Finish(d, EventsV4(made), 4)

MigrateV2(d) ==
    Finish(d, [d EXCEPT !.objects = Reshaped(@, "usage_replay_revision", 3)
                                      \cup Objects("index", 0, RevisionIndexes)], 3)

MigrateV3(d) == Finish(d, EventsV4(d), 4)

\* The scans version 5 has no way to hold.
ScansInvalid(d) ==
    LET seen(s) == {d.sources[f] : f \in {f \in DOMAIN d.sources : d.sources[f].scan = s}}
    IN \/ \E s \in DOMAIN d.scans :
            \/ d.scans[s].state = "running" /\ d.scans[s].done # "no"
            \/ d.scans[s].state # "running" /\ d.scans[s].done = "no"
            \/ d.scans[s].done = "before the start"
            \/ \E x \in seen(s) : x.profile # d.scans[s].profile
            \/ Cardinality({x.provider : x \in seen(s)}) > 1
       \/ Cardinality({s \in DOMAIN d.scans : d.scans[s].state = "running"}) > 1

ScanProvider(d, s) ==
    LET seen == {d.sources[f].provider : f \in {f \in DOMAIN d.sources : d.sources[f].scan = s}}
    IN IF seen = {} THEN "legacy-unverified" ELSE CHOOSE p \in seen : TRUE

\* What scan a revision came from was never recorded.
Authority(d) == [r \in DOMAIN d.revisions |-> [d.revisions[r] EXCEPT !.set = 0]]

\* migrate_scan_authority_v5: each scan becomes a scan set of one scope.
MigrateV4(d) ==
    IF ScansInvalid(d) \/ "usage_scan_set" \in Names(d.objects) THEN Failed(d)
    ELSE LET set(s) == [state |-> d.scans[s].state, scopes |-> 1]
             scan(s) == [d.scans[s] EXCEPT !.set = s, !.provider = ScanProvider(d, s)]
         IN Finish(d, [d EXCEPT
              !.objects = Reshaped(Reshaped(@, "usage_scan", 5), "usage_replay_revision", 5)
                            \cup V5_SCAN_SET_SCHEMA \cup V5_INDEXES,
              !.sets = [s \in DOMAIN d.scans |-> set(s)],
              !.scans = [s \in DOMAIN d.scans |-> scan(s)],
              !.revisions = Authority(d)], 5)

\* The archive state row: complete only where the recorded scan set proves it.
MigrateV5(d) ==
    LET current == CurrentRevision(d)
        set     == IF current = 0 THEN 0 ELSE d.revisions[current].set
        exact   == set # 0 /\ SetComplete(d, set)
        row     == [revision |-> current, set |-> IF exact THEN set ELSE 0, generation |-> 0,
                    quality |-> IF current = 0 THEN "empty"
                                ELSE IF exact THEN "complete" ELSE "recovery_pending"]
    IN Creating(d, ARCHIVE_STATE_SCHEMA(6), 6, [d EXCEPT !.archive = row])

MigrateV6(d) ==
    IF d.archive = None THEN Failed(d)
    ELSE Creating([d EXCEPT !.objects = Dropped(@, "usage_archive_state")],
           ARCHIVE_STATE_SCHEMA(7) \cup DATASET_TRIGGERS(7), 7,
           [d EXCEPT !.objects = Dropped(@, "usage_archive_state"),
                     !.archive.generation = IF d.archive.revision = 0 THEN 0
                                            ELSE Cardinality(DOMAIN d.events)])

\* The aggregate state row that says what is counted so far: nothing.
AggregateRow(d, schema, active) ==
    LET current == Cardinality(DOMAIN d.events)
        legacy  == Cardinality(d.legacy)
    IN [schema |-> schema, state |-> IF current = 0 /\ legacy = 0 THEN "ready" ELSE "rebuild_required",
        expected |-> d.archive.generation, active |-> active,
        current |-> current, legacy |-> legacy, total |-> current + legacy]

ProfilesAgree(d) ==
    \A f \in DOMAIN d.events : d.events[f].file \in DOMAIN d.sources
                                 => d.sources[d.events[f].file].profile = d.events[f].profile

MigrateV7(d) ==
    IF ~ProfilesAgree(d) \/ d.archive = None THEN Failed(d)
    ELSE LET moved == [d EXCEPT !.objects = Reshaped(@, "usage_event", 8)
                                              \cup Objects("index", 0, EventIndexes)]
         IN Creating(moved, V8_AGGREGATE_SCHEMA \cup Objects("trigger", 8, AggregateTriggers)
                              \cup DATASET_TRIGGERS(8), 8,
              [moved EXCEPT !.events = CopiedV8(d), !.agg = AggregateRow(d, 1, 0), !.rolled = {}])

\* The aggregate state of version 9: the price rollups are still empty.
Repriced(d) ==
    [AggregateRow(d, 2, d.agg.active) EXCEPT
       !.current = d.agg.current, !.legacy = d.agg.legacy, !.total = d.agg.current + d.agg.legacy,
       !.state = IF d.agg.current = 0 /\ d.agg.legacy = 0 THEN "ready" ELSE "rebuild_required"]

\* Three tables get a column in place; the triggers are dropped before and made again.
MigrateV8(d) ==
    LET dropped == {o \in d.objects : o.name \notin AggregateTriggers \cup DatasetTriggers}
        altered == {o \in dropped : o.name \notin Names(V9_REPORTED_COST_TABLE_SCHEMA)}
                     \cup V9_REPORTED_COST_TABLE_SCHEMA
        base    == [d EXCEPT !.objects = Dropped(altered, "usage_aggregate_state")]
    IN IF ~(AggregateTriggers \cup DatasetTriggers \subseteq Names(d.objects)) \/ d.agg = None
          \/ V9_REPORTED_COST_TABLE_SCHEMA \subseteq d.objects
       THEN Failed(d)
       ELSE Creating(base, V9_AGGREGATE_STATE_SCHEMA \cup V9_PRICE_ROLLUP_SCHEMA
                             \cup Objects("trigger", 8, AggregateTriggers) \cup DATASET_TRIGGERS(8)
                             \cup Objects("trigger", 9, PriceTriggers), 9,
              [base EXCEPT !.agg = Repriced(d), !.priced = {}])

MigrateV9(d) == Creating(d, V10_QUOTA_SCHEMA, 10, d)

MigrateV10(d) == Creating(d, V11_BENEFIT_SCHEMA, 11, d)

MigrateV11(d) == Creating(d, V12_BENEFIT_ACK_SCHEMA, 12, d)

MigrateV12(d) == Creating(d, V13_GIT_SCHEMA, 13, d)

\* Mutant: the superfluous index stays.
RewrittenOnly(objects) ==
    {o \in objects : o.name \notin TimeRewritten \cup PriceTimeRewritten}
    \cup Objects("trigger", 14, TimeRewritten \cup PriceTimeRewritten)

\* The time triggers are replaced and the index on children dropped.
Rewritten(objects) ==
    {o \in objects : o.name \notin TimeRewritten \cup PriceTimeRewritten
                                     \cup {"usage_replay_observation_children"}}
    \cup Objects("trigger", 14, TimeRewritten \cup PriceTimeRewritten)

MigrateV13(d) ==
    IF ~(TimeRewritten \cup PriceTimeRewritten \cup {"usage_replay_observation_children"}
           \subseteq Names(d.objects))
    THEN Failed(d) ELSE Finish(d, [d EXCEPT !.objects = Rewritten(@)], 15)

MigrateV14(d) ==
    IF "usage_replay_observation_children" \notin Names(d.objects) THEN Failed(d)
    ELSE Finish(d, [d EXCEPT !.objects = {o \in @ : o.name # "usage_replay_observation_children"}], 15)

\* The transaction that takes version v further.
Migrated(d, v) ==
    CASE v = 0 -> CreateFreshV4(d)  [] v = 1 -> MigrateV1(d)    [] v = 2 -> MigrateV2(d)
      [] v = 3 -> MigrateV3(d)      [] v = 4 -> MigrateV4(d)    [] v = 5 -> MigrateV5(d)
      [] v = 6 -> MigrateV6(d)      [] v = 7 -> MigrateV7(d)    [] v = 8 -> MigrateV8(d)
      [] v = 9 -> MigrateV9(d)      [] v = 10 -> MigrateV10(d)  [] v = 11 -> MigrateV11(d)
      [] v = 12 -> MigrateV12(d)    [] v = 13 -> MigrateV13(d)  [] v = 14 -> MigrateV14(d)

\* The version migrate_schema goes on with after the one of v.
Following(v) == CASE v \in 0..1 -> 4 [] v \in 13..14 -> 15 [] OTHER -> v + 1
-----------------------------------------------------------------------------
(* The connections.                                                         *)

Closed == [at |-> "closed", version |-> 0, keys |-> FALSE]

Init ==
    /\ db \in Archives
    /\ conn = [o \in Openers |-> Closed]
    /\ original = db
    /\ faults = Faults

Refused(o) == conn' = [conn EXCEPT ![o].at = "refused", ![o].keys = TRUE]

\* UsageStore::open: the policy is applied and the version read; the current version is
\* validated at once, a version that is not known is refused.
Begin(o) ==
    /\ conn[o].at = "closed"
    /\ conn' = [conn EXCEPT ![o] =
                   [at |-> IF db.version = 15 THEN IF Validate(db, 15) THEN "ready" ELSE "refused"
                           ELSE IF db.version \in 0..14 THEN "step" ELSE "refused",
                    version |-> db.version, keys |-> TRUE]]
    /\ UNCHANGED <<db, original, faults>>

\* Before its transaction a step validates what it found; two of them turn the foreign
\* keys off.  Versions 0 and 1 are looked at inside the transaction.
Check(o) ==
    LET v == conn[o].version
    IN /\ conn[o].at = "step"
       /\ IF v \in 0..1 \/ Validate(db, v)
          THEN conn' = [conn EXCEPT ![o].at = "checked", ![o].keys = v \notin {2, 4}]
          ELSE Refused(o)
       /\ UNCHANGED <<db, original, faults>>

\* The transaction, of whatever the archive is by now; then the foreign keys are on again.
Committed(o, done, next) ==
    IF done.ok
    THEN /\ db' = done.db
         /\ conn' = [conn EXCEPT ![o] = [at |-> IF next = 15 THEN "ready" ELSE "step",
                                         version |-> next, keys |-> TRUE]]
    ELSE UNCHANGED db /\ Refused(o)

Commit(o) ==
    /\ conn[o].at = "checked"
    /\ Committed(o, Migrated(db, conn[o].version), Following(conn[o].version))
    /\ UNCHANGED <<original, faults>>

\* restore_foreign_keys fails after the commit: the step counts, the connection does not.
Unrestored(o, done) == done.ok /\ db' = done.db /\ Refused(o)

CommitUnrestored(o) ==
    /\ conn[o].at = "checked" /\ conn[o].version \in {2, 4}
    /\ faults > 0 /\ faults' = faults - 1
    /\ Unrestored(o, Migrated(db, conn[o].version))
    /\ UNCHANGED original

\* A statement fails, or the archive stays locked too long: the transaction is undone.
Fail(o) ==
    /\ conn[o].at \in {"step", "checked"}
    /\ faults > 0 /\ faults' = faults - 1
    /\ Refused(o)
    /\ UNCHANGED <<db, original>>

\* Whoever could not open the archive opens it anew at its next attempt.
Reopen(o) ==
    /\ conn[o].at = "refused"
    /\ conn' = [conn EXCEPT ![o] = Closed]
    /\ UNCHANGED <<db, original, faults>>

\* The process ends; what was not committed is gone.
Crash ==
    /\ faults > 0 /\ faults' = faults - 1
    /\ conn' = [o \in Openers |-> Closed]
    /\ UNCHANGED <<db, original>>

Step(o) == Begin(o) \/ Check(o) \/ Commit(o) \/ Reopen(o)

Next == (\E o \in Openers : Step(o) \/ CommitUnrestored(o) \/ Fail(o)) \/ Crash

Spec == Init /\ [][Next]_vars

FairSpec == Spec /\ \A o \in Openers : WF_vars(Step(o))

-----------------------------------------------------------------------------
(* Properties.                                                              *)

\* An archive of a supported version whose rows the steps can carry over.
Upgradable(d) ==
    \/ d.version = 0 /\ d.objects = {}
    \/ /\ d.version \in 1..15 /\ Validate(d, d.version)
       /\ d.version <= 4 => ~ScansInvalid(d)
       /\ d.version <= 7 => ProfilesAgree(d)

\* Whatever is interrupted, and however the steps of two connections interleave, the
\* archive a later start finds is a valid archive of the version it says it has:
\* migrate_schema's next dispatch always has a step that fits (migration.rs validates
\* before and at the end of each transaction).
AlwaysReopens == Upgradable(original) => Upgradable(db)

\* No usage is lost or changed on the way: the live rows keep their source, their
\* profile and, once they have it, their retained mark and their provider; the rows of
\* version 1 are all in the snapshot; revisions and scans keep their states
\* (the copies of migrate_usage_event_v4, _v8, migrate_scan_authority_v5, LEGACY_COPY_SQL).
UsageSurvives ==
    /\ DOMAIN db.events = DOMAIN original.events
    /\ \A f \in DOMAIN db.events :
          /\ db.events[f].file = original.events[f].file /\ db.events[f].profile = original.events[f].profile
          /\ original.version >= 4 => /\ db.events[f].retained = original.events[f].retained
                                   /\ db.events[f].projection = original.events[f].projection
          /\ db.version >= 8 =>
                db.events[f].provider = IF db.events[f].file \in DOMAIN db.sources
                                        THEN db.sources[db.events[f].file].provider ELSE "unknown"
    /\ db.legacy = IF original.version = 1 /\ db.version > 1 THEN DOMAIN original.events ELSE original.legacy
    /\ DOMAIN db.revisions = DOMAIN original.revisions /\ DOMAIN db.scans = DOMAIN original.scans
    /\ \A r \in DOMAIN db.revisions : db.revisions[r].status = original.revisions[r].status
    /\ \A s \in DOMAIN db.scans : db.scans[s].state = original.scans[s].state

\* A migration never claims more than it did: usage is published as complete only if the
\* scans recorded for it were when the archive was written, and the rollups are called
\* ready only when every stored event is in all of them (migrate_v5, migrate_v7 and
\* migrate_v8 seed the two state rows).
NothingOverclaimed ==
    /\ db.archive # None /\ db.archive.quality = "complete" =>
          \/ original.archive # None /\ original.archive.quality = "complete"
          \/ original.version = 5 /\ SetComplete(original, original.revisions[db.archive.revision].set)
    /\ db.agg # None /\ db.agg.state = "ready" =>
          /\ Items(db) = db.rolled
          /\ db.version >= 9 => Items(db) = db.priced

\* An archive that can be upgraded is, once crashes and failures stop: some connection
\* gets through to the current version (the loop of steps in migrate_schema, and the
\* attempts of the runtimes that open the archive anew).
UpgradeEnds == Upgradable(original) ~> \E o \in Openers : conn[o].at = "ready"

\* Whatever interrupts the steps of two connections, the archive stays a valid one of the
\* version it says it has, no usage is lost or changed, and nothing is published as
\* complete or rolled up that is not.
UpgradeIsSafe == AlwaysReopens /\ UsageSurvives /\ NothingOverclaimed
=============================================================================
