---------------------------- MODULE UsageRollups ----------------------------
(***************************************************************************)
(* The rollups of the usage archive (store/usage: schema.rs,               *)
(* price_schema.rs, aggregate.rs).  Four tables are kept beside the event  *)
(* table, by triggers while the aggregate state is "ready" and by a paged  *)
(* rebuild otherwise.  A database is                                       *)
(*   events   fingerprint -> event, the rows of usage_event                *)
(*   legacy   fingerprint -> event, the frozen snapshot of schema 1        *)
(*   gen      dataset_generation                                           *)
(*   revision current_revision_id, 0 when there is none                    *)
(*   agg      the row of usage_aggregate_state                             *)
(*   time, session, ptime, psession   the rollups, key -> row              *)
(*   span     the first and last instant of the 'all' rows of session      *)
(*   aborted  a trigger raised                                             *)
(* Widths and buckets are in seconds; of the additive columns the five     *)
(* token counts and the tool activity stand for all.                       *)
(***************************************************************************)
EXTENDS Integers, Sequences, FiniteSets, FiniteSetsExt, SequencesExt, TLC

CONSTANTS Minute, Hour   \* the seconds of the two bucket widths, Minute divides Hour

Absent == -1

NoProject == ""

Fields == {"input", "cached", "output", "reasoning", "total"}

Widths == {"minute", "hour"}

Dimensions == {"all", "model", "project"}

Seconds(width) == IF width = "minute" THEN Minute ELSE Hour

\* t - (((t % w) + w) % w)
Bucket(t, width) == t - (t % Seconds(width))

Value(e, dim) == CASE dim = "all" -> "" [] dim = "model" -> e.model [] dim = "project" -> e.project

\* One row's worth of an event in usage_time_rollup and usage_session_rollup.
EventMetrics(e) ==
    [events   |-> 1,
     known    |-> [f \in Fields |-> IF e.tokens[f] = Absent THEN 0 ELSE 1],
     sum      |-> [f \in Fields |-> IF e.tokens[f] = Absent THEN 0 ELSE e.tokens[f]],
     activity |-> e.activity]

NoMetrics == [events |-> 0, known |-> [f \in Fields |-> 0], sum |-> [f \in Fields |-> 0],
              activity |-> 0]

PlusMetrics(a, b) ==
    [events |-> a.events + b.events, known |-> [f \in Fields |-> a.known[f] + b.known[f]],
     sum |-> [f \in Fields |-> a.sum[f] + b.sum[f]], activity |-> a.activity + b.activity]

MinusMetrics(a, b) ==
    [events |-> a.events - b.events, known |-> [f \in Fields |-> a.known[f] - b.known[f]],
     sum |-> [f \in Fields |-> a.sum[f] - b.sum[f]], activity |-> a.activity - b.activity]

\* NEW_CALCULABLE, OLD_CALCULABLE and PAGE_CALCULABLE: the token counts determine
\* what a price needs, and do not contradict each other.
Calculable(t) ==
    /\ t.input # Absent /\ t.cached # Absent /\ t.cached <= t.input
    /\ \/ /\ t.total # Absent /\ t.total >= t.input
          /\ \/ t.output = Absent \/ t.reasoning = Absent
             \/ t.output + t.reasoning = t.total - t.input
       \/ t.total = Absent /\ t.output # Absent /\ t.reasoning # Absent

PriceMetrics(e) ==
    LET t  == e.tokens
        ok == Calculable(t)
    IN [events     |-> 1,
        calculable |-> IF ok THEN 1 ELSE 0,
        uncached   |-> IF ok THEN t.input - t.cached ELSE 0,
        cached     |-> IF ok THEN t.cached ELSE 0,
        output     |-> IF ~ok THEN 0 ELSE IF t.total # Absent THEN t.total - t.input
                       ELSE t.output + t.reasoning,
        reported   |-> IF e.cost = Absent THEN 0 ELSE 1,
        cost       |-> IF e.cost = Absent THEN 0 ELSE e.cost]

PriceNames == {"events", "calculable", "uncached", "cached", "output", "reported", "cost"}

NoPrice == [n \in PriceNames |-> 0]

PlusPrice(a, b) == [n \in PriceNames |-> a[n] + b[n]]

MinusPrice(a, b) == [n \in PriceNames |-> a[n] - b[n]]

(***************************************************************************)
(* The keys an event is counted under.                                     *)
(***************************************************************************)
TimeKeys(gen, kind, e) ==
    {[gen |-> gen, kind |-> kind, width |-> w, start |-> Bucket(e.at, w),
      provider |-> e.provider, profile |-> e.profile, dim |-> d, value |-> Value(e, d)] :
        w \in Widths, d \in Dimensions}

SessionKeys(gen, kind, e) ==
    {[gen |-> gen, kind |-> kind, provider |-> e.provider, profile |-> e.profile,
      session |-> e.session, dim |-> d, value |-> Value(e, d)] : d \in Dimensions}

\* NEW_TIER and OLD_TIER
Tier(e) == CASE e.tier = "" -> "standard_assumed"
             [] e.tier \in {"standard", "default"} -> "standard_reported"
             [] e.tier \in {"priority", "fast"} -> "priority"
             [] OTHER -> "unknown"

PriceKey(e) == [model |-> e.model, project |-> e.project, tier |-> Tier(e),
                context |-> e.context, reported |-> e.cost # Absent]

PriceTimeKeys(gen, kind, e) ==
    {[gen |-> gen, kind |-> kind, width |-> w, start |-> Bucket(e.at, w),
      provider |-> e.provider, profile |-> e.profile, price |-> PriceKey(e)] : w \in Widths}

PriceSessionKeys(gen, kind, e) ==
    {[gen |-> gen, kind |-> kind, provider |-> e.provider, profile |-> e.profile,
      session |-> e.session, price |-> PriceKey(e)]}

(***************************************************************************)
(* The insert and delete triggers.  A delete first checks that every row   *)
(* it is about to change exists, drops the rows that count nothing else    *)
(* and decrements the others.                                              *)
(***************************************************************************)
Upserted(table, keys, m, Plus(_, _)) ==
    [k \in DOMAIN table \cup keys |->
        IF k \notin keys THEN table[k]
        ELSE IF k \in DOMAIN table THEN Plus(table[k], m) ELSE m]

Decremented(table, keys, m, Minus(_, _)) ==
    [k \in DOMAIN table \ {j \in keys : table[j].events = 1} |->
        IF k \in keys THEN Minus(table[k], m) ELSE table[k]]

\* V8_TIME_INSERT_TRIGGER
TimeInsert(db, e) ==
    [db EXCEPT !.time = Upserted(@, TimeKeys(db.agg.active, "current", e), EventMetrics(e),
                                 PlusMetrics)]

\* usage_event_aggregate_time_after_delete, the form of schema 15.
TimeDelete(db, e) ==
    LET keys == TimeKeys(db.agg.active, "current", e)
    IN IF ~(keys \subseteq DOMAIN db.time) THEN [db EXCEPT !.aborted = TRUE]
       ELSE [db EXCEPT !.time = Decremented(@, keys, EventMetrics(e), MinusMetrics)]

AllKey(keys) == CHOOSE k \in keys : k.dim = "all"

Spanned(span, k, first, last) ==
    (k :> IF k \in DOMAIN span
          THEN [first |-> Min({span[k].first, first}), last |-> Max({span[k].last, last})]
          ELSE [first |-> first, last |-> last]) @@ span

\* V8_SESSION_INSERT_TRIGGER
SessionInsert(db, e) ==
    LET keys == SessionKeys(db.agg.active, "current", e)
    IN [db EXCEPT !.session = Upserted(@, keys, EventMetrics(e), PlusMetrics),
                  !.span = Spanned(@, AllKey(keys), e.at, e.at)]

\* Mutant: deleting an event leaves the session's first and last instant.
RespannedKeeping(db, all) ==
    [db EXCEPT !.span = [k \in DOMAIN @ \cap DOMAIN db.session |-> @[k]]]

\* The last statement of V8_SESSION_DELETE_TRIGGER: first and last instant are read
\* back from the events that remain.
Respanned(db, all) ==
    LET mine == {f \in DOMAIN db.events : /\ db.events[f].provider = all.provider
                                          /\ db.events[f].profile = all.profile
                                          /\ db.events[f].session = all.session}
        at   == {db.events[f].at : f \in mine}
    IN IF all \notin DOMAIN db.session
       THEN [db EXCEPT !.span = [k \in DOMAIN @ \ {all} |-> @[k]]]
       ELSE [db EXCEPT !.span[all] = [first |-> Min(at), last |-> Max(at)]]

\* V8_SESSION_DELETE_TRIGGER
SessionDelete(db, e) ==
    LET keys == SessionKeys(db.agg.active, "current", e)
    IN IF ~(keys \subseteq DOMAIN db.session) THEN [db EXCEPT !.aborted = TRUE]
       ELSE Respanned([db EXCEPT !.session = Decremented(@, keys, EventMetrics(e), MinusMetrics)],
                      AllKey(keys))

\* price_time_insert_trigger
PriceTimeInsert(db, e) ==
    [db EXCEPT !.ptime = Upserted(@, PriceTimeKeys(db.agg.active, "current", e), PriceMetrics(e),
                                  PlusPrice)]

\* v14_price_time_delete_trigger
PriceTimeDelete(db, e) ==
    LET keys == PriceTimeKeys(db.agg.active, "current", e)
    IN IF ~(keys \subseteq DOMAIN db.ptime) THEN [db EXCEPT !.aborted = TRUE]
       ELSE [db EXCEPT !.ptime = Decremented(@, keys, PriceMetrics(e), MinusPrice)]

\* price_session_insert_trigger
PriceSessionInsert(db, e) ==
    [db EXCEPT !.psession = Upserted(@, PriceSessionKeys(db.agg.active, "current", e),
                                     PriceMetrics(e), PlusPrice)]

\* price_session_delete_trigger
PriceSessionDelete(db, e) ==
    LET keys == PriceSessionKeys(db.agg.active, "current", e)
    IN IF ~(keys \subseteq DOMAIN db.psession) THEN [db EXCEPT !.aborted = TRUE]
       ELSE [db EXCEPT !.psession = Decremented(@, keys, PriceMetrics(e), MinusPrice)]

AllInserted(db, e) ==
    PriceSessionInsert(PriceTimeInsert(SessionInsert(TimeInsert(db, e), e), e), e)

AllDeleted(db, e) ==
    PriceSessionDelete(PriceTimeDelete(SessionDelete(TimeDelete(db, e), e), e), e)

(***************************************************************************)
(* The dataset triggers: every change of an event is a new dataset         *)
(* generation, and sends an unfinished rebuild back to its start.          *)
(***************************************************************************)
Invalidated(db, current) ==
    [db EXCEPT !.gen = @ + 1,
               !.agg = [@ EXCEPT !.state = IF @ = "ready" THEN "ready" ELSE "rebuild_required",
                                 !.expected = db.gen + 1, !.current = current,
                                 !.target = 0, !.kind = "none", !.cursor = 0, !.processed = 0,
                                 !.total = current + db.agg.legacy]]

\* V8_DATASET_INSERT_TRIGGER
DatasetInsert(db) == Invalidated(db, db.agg.current + 1)

\* V8_DATASET_DELETE_TRIGGER
DatasetDelete(db) ==
    IF db.agg.current = 0 THEN [db EXCEPT !.aborted = TRUE]
    ELSE Invalidated(db, db.agg.current - 1)

\* V8_DATASET_UPDATE_TRIGGER
DatasetUpdate(db) == Invalidated(db, db.agg.current)

\* An INSERT into usage_event, with its triggers.
EventInserted(db, f, e) ==
    LET with == [db EXCEPT !.events = (f :> e) @@ @]
    IN DatasetInsert(IF db.agg.state = "ready" THEN AllInserted(with, e) ELSE with)

\* A DELETE.
EventDeleted(db, f) ==
    LET without == [db EXCEPT !.events = [g \in DOMAIN @ \ {f} |-> @[g]]]
    IN DatasetDelete(IF db.agg.state = "ready" THEN AllDeleted(without, db.events[f]) ELSE without)

\* An UPDATE: the bodies of the delete and of the insert trigger in one
\* (combine_aggregate_update_trigger, combine_update), when the row is already new.
EventUpdated(db, f, e) ==
    LET with == [db EXCEPT !.events[f] = e]
    IN DatasetUpdate(IF db.agg.state = "ready"
                     THEN AllInserted(AllDeleted(with, db.events[f]), e) ELSE with)

(***************************************************************************)
(* The paged rebuild.                                                      *)
(***************************************************************************)
\* CURRENT_PAGE and LEGACY_PAGE: the next rows by fingerprint.
PageRows(rows, cursor, limit) ==
    {f \in DOMAIN rows : /\ f > cursor
                         /\ Cardinality({g \in DOMAIN rows : cursor < g /\ g < f}) < limit}

\* LEGACY_PAGE: the provider of a legacy event is its source's, if the source is
\* still there and of the same profile.
LegacyEvent(e) == [e EXCEPT !.provider = IF e.matched THEN @ ELSE "unknown"]

RowsOf(db, kind) ==
    IF kind = "current" THEN db.events ELSE [f \in DOMAIN db.legacy |-> LegacyEvent(db.legacy[f])]

\* A page grouped by key, and added to what the table holds.
Grouped(table, rows, page, KeysOf(_), MetricsOf(_), Plus(_, _), none) ==
    LET keys  == UNION {KeysOf(rows[f]) : f \in page}
        of(k) == FoldSet(LAMBDA f, m : Plus(m, MetricsOf(rows[f])), none,
                         {f \in page : k \in KeysOf(rows[f])})
    IN [k \in DOMAIN table \cup keys |->
          IF k \notin keys THEN table[k]
          ELSE IF k \in DOMAIN table THEN Plus(table[k], of(k)) ELSE of(k)]

\* time_page_sql
TimePage(table, gen, kind, rows, page) ==
    Grouped(table, rows, page, LAMBDA e : TimeKeys(gen, kind, e), EventMetrics, PlusMetrics,
            NoMetrics)

\* session_page_sql
SessionPage(table, gen, kind, rows, page) ==
    Grouped(table, rows, page, LAMBDA e : SessionKeys(gen, kind, e), EventMetrics, PlusMetrics,
            NoMetrics)

\* first_rank and last_rank of session_page_sql
SpanPage(span, gen, kind, rows, page) ==
    LET keys == {AllKey(SessionKeys(gen, kind, rows[f])) : f \in page}
        at(k) == {rows[f].at : f \in {g \in page : k \in SessionKeys(gen, kind, rows[g])}}
    IN [k \in DOMAIN span \cup keys |->
          IF k \notin keys THEN span[k] ELSE Spanned(span, k, Min(at(k)), Max(at(k)))[k]]

\* price_time_page_sql
PriceTimePage(table, gen, kind, rows, page) ==
    Grouped(table, rows, page, LAMBDA e : PriceTimeKeys(gen, kind, e), PriceMetrics, PlusPrice,
            NoPrice)

\* price_session_page_sql
PriceSessionPage(table, gen, kind, rows, page) ==
    Grouped(table, rows, page, LAMBDA e : PriceSessionKeys(gen, kind, e), PriceMetrics, PlusPrice,
            NoPrice)

\* materialize_page
Materialized(db, gen, kind, page) ==
    LET rows == RowsOf(db, kind)
    IN [db EXCEPT !.time = TimePage(@, gen, kind, rows, page),
                  !.session = SessionPage(@, gen, kind, rows, page),
                  !.span = SpanPage(@, gen, kind, rows, page),
                  !.ptime = PriceTimePage(@, gen, kind, rows, page),
                  !.psession = PriceSessionPage(@, gen, kind, rows, page)]

\* DELETE ... WHERE rowid IN (SELECT rowid ... ORDER BY rowid LIMIT n): n rows go, and
\* a cleanup goes on until none is left, so which ones go first does not matter.
Cleaned(table, n) ==
    LET gone[i \in 0..Min({n, Cardinality(DOMAIN table)})] ==
            IF i = 0 THEN {}
            ELSE LET s == gone[i - 1] IN s \cup {CHOOSE k \in DOMAIN table \ s : TRUE}
    IN [k \in DOMAIN table \ gone[Min({n, Cardinality(DOMAIN table)})] |-> table[k]]

Empty(db) == DOMAIN db.time = {} /\ DOMAIN db.session = {} /\ DOMAIN db.ptime = {}
             /\ DOMAIN db.psession = {}

\* finish_rebuild: published under the dataset generation it was built for, or not.
FinishRebuild(db, processed) ==
    IF db.agg.expected # db.gen \/ processed # db.agg.total
    THEN [db |-> db, code |-> "stale"]
    ELSE [db |-> [db EXCEPT !.agg = [@ EXCEPT !.state = "ready", !.active = db.agg.target, !.target = 0,
                                              !.kind = "none", !.cursor = 0, !.processed = 0]],
          code |-> "ready"]

\* The state a rebuild starts in.
Started(db) ==
    [db EXCEPT !.agg = [@ EXCEPT !.state = "rebuilding", !.expected = db.gen,
                                 !.target = db.agg.active + 1, !.kind = "cleanup", !.cursor = 0,
                                 !.processed = 0, !.total = db.agg.current + db.agg.legacy]]

CleanupPage(db, limit) ==
    LET n     == limit * 12
        clean == [db EXCEPT !.time = Cleaned(@, n), !.session = Cleaned(@, n),
                            !.ptime = Cleaned(@, n), !.psession = Cleaned(@, n)]
        spans == [clean EXCEPT !.span = [k \in DOMAIN @ \cap DOMAIN clean.session |-> @[k]]]
    IN IF ~Empty(db) THEN [db |-> spans, code |-> "rebuilding"]
       ELSE IF db.agg.total = 0 THEN FinishRebuild(db, 0)
       ELSE [db |-> [db EXCEPT !.agg.kind = IF db.agg.current = 0 THEN "legacy" ELSE "current",
                               !.agg.cursor = 0],
             code |-> "rebuilding"]

Advanced(agg, page, processed) ==
    [agg EXCEPT !.cursor = Max(page), !.processed = processed]

EventsPage(db, limit) ==
    LET kind      == db.agg.kind
        page      == PageRows(RowsOf(db, kind), db.agg.cursor, limit)
        built     == Materialized(db, db.agg.target, kind, page)
        processed == db.agg.processed + Cardinality(page)
    IN IF processed > db.agg.total THEN [db |-> db, code |-> "invalid"]
       ELSE IF Cardinality(page) = limit
       THEN [db |-> [built EXCEPT !.agg = Advanced(@, page, processed)], code |-> "rebuilding"]
       ELSE IF kind = "current" /\ db.agg.legacy > 0
       THEN [db |-> [built EXCEPT !.agg.kind = "legacy", !.agg.cursor = 0,
                                  !.agg.processed = processed],
             code |-> "rebuilding"]
       ELSE IF processed # db.agg.total THEN [db |-> db, code |-> "invalid"]
       ELSE FinishRebuild(built, processed)

\* reset_rebuild: the events changed since the rebuild began.
ResetRebuild(db) ==
    [db EXCEPT !.agg = [@ EXCEPT !.state = "rebuild_required", !.expected = db.gen, !.target = 0,
                                 !.kind = "none", !.cursor = 0, !.processed = 0,
                                 !.total = db.agg.current + db.agg.legacy]]

\* rebuild_aggregates_page: one transaction.
RebuildPage(db, limit) ==
    IF db.agg.state = "ready" THEN [db |-> db, code |-> "ready"]
    ELSE LET kept  == IF db.agg.state = "rebuilding" /\ db.gen # db.agg.expected
                      THEN ResetRebuild(db) ELSE db
             begun == IF kept.agg.state = "rebuilding" THEN kept ELSE Started(kept)
         IN IF begun.agg.kind = "cleanup" THEN CleanupPage(begun, limit)
            ELSE EventsPage(begun, limit)
=============================================================================
