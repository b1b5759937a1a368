---------------------------- MODULE UsageQueries ----------------------------
(***************************************************************************)
(* The reads over the rollups: the captures of the store                   *)
(* (store/usage/query) and the plans and mappings of the query crate       *)
(* around them.  An operator is one read transaction, or a computation     *)
(* between two.  A range is a set of segments of bucket rows; a dataset    *)
(* identity names the events an answer is about.  The time zone is a       *)
(* function of the instant (external); names are ordered by Rank.          *)
(***************************************************************************)
EXTENDS Integers, Sequences, FiniteSets, FiniteSetsExt, UsageRollups

(***************************************************************************)
(* The pricing crate: the embedded catalog, the overrides a user may lay   *)
(* over it, and the selection of a cost for a set of price rows.  A price  *)
(* row is a group of events of one model, tier, context and reported       *)
(* state, with the sums UsageRollups keeps for it.  Rates are micro-USD    *)
(* per Million tokens.                                                     *)
(***************************************************************************)
CONSTANTS Catalog,        \* [model -> [aliases, rates: slot -> rates or NoRates]]
          Million,        \* TOKENS_PER_MILLION
          MaxMicros,      \* the largest amount, u64::MAX
          ConflictMicros, \* the difference two amounts may always have, 10_000
          MaxOverrides    \* MAX_OVERRIDE_ENTRIES

NoRates == [none |-> TRUE]

Slots == {"standard_short", "standard_long", "priority_short", "priority_long"}

Columns == {"uncached", "cached", "output"}

Unset == -1

\* embedded_rule
Embedded(model) == model \in DOMAIN Catalog

\* embedded_alias_target, or the name itself
AliasTarget(name) ==
    IF \E m \in DOMAIN Catalog : name \in Catalog[m].aliases
    THEN CHOOSE m \in DOMAIN Catalog : name \in Catalog[m].aliases ELSE name

(***************************************************************************)
(* OverrideSnapshot::build.  A draft is a model with patches for some      *)
(* slots (a column Unset keeps the base's) or an alias with its target.    *)
(***************************************************************************)
\* merge_rates: a patch over the base, complete or refused.
Merged(base, patch) ==
    IF patch = NoRates THEN [ok |-> TRUE, rates |-> base]
    ELSE LET value(c) == IF patch[c] # Unset THEN patch[c]
                         ELSE IF base # NoRates THEN base[c] ELSE Unset
         IN [ok |-> \A c \in Columns : value(c) # Unset,
             rates |-> [c \in Columns |-> value(c)]]

Base(model, slot) == IF Embedded(model) THEN Catalog[model].rates[slot] ELSE NoRates

HasPatch(draft) ==
    \E s \in Slots : draft.rates[s] # NoRates /\ \E c \in Columns : draft.rates[s][c] # Unset

ModelRefusal(draft) ==
    IF ~HasPatch(draft) THEN "incomplete"
    ELSE IF \E s \in Slots : ~Merged(Base(draft.key, s), draft.rates[s]).ok THEN "incomplete"
    ELSE IF Merged(Base(draft.key, "standard_short"), draft.rates["standard_short"]).rates = NoRates
    THEN "incomplete" ELSE "none"

\* The first loop of build.
KeyRefusal(drafts, i) ==
    IF \E j \in 1..(i - 1) : drafts[j].key = drafts[i].key THEN "duplicate"
    ELSE IF \/ AliasTarget(drafts[i].key) # drafts[i].key
            \/ drafts[i].kind = "alias" /\ Embedded(drafts[i].key)
    THEN "conflict" ELSE "none"

AliasRefusal(drafts, draft) ==
    LET aliases == {drafts[j].key : j \in {k \in DOMAIN drafts : drafts[k].kind = "alias"}}
        models  == {drafts[j].key : j \in {k \in DOMAIN drafts : drafts[k].kind = "model"}}
    IN IF draft.target \in aliases \/ AliasTarget(draft.target) # draft.target THEN "chain"
       ELSE IF ~Embedded(draft.target) /\ draft.target \notin models THEN "target" ELSE "none"

FirstRefusal(seq) ==
    IF \E i \in DOMAIN seq : seq[i] # "none"
    THEN seq[CHOOSE i \in DOMAIN seq : seq[i] # "none" /\ \A j \in 1..(i - 1) : seq[j] = "none"]
    ELSE "none"

NoOverrides == [code |-> "none", models |-> <<>>, aliases |-> <<>>]

BuildOverrides(drafts) ==
    LET pass1 == FirstRefusal([i \in DOMAIN drafts |-> KeyRefusal(drafts, i)])
        pass2 == FirstRefusal([i \in DOMAIN drafts |->
                    IF drafts[i].kind = "model" THEN ModelRefusal(drafts[i]) ELSE "none"])
        pass3 == FirstRefusal([i \in DOMAIN drafts |->
                    IF drafts[i].kind = "alias" THEN AliasRefusal(drafts, drafts[i]) ELSE "none"])
        code  == IF Len(drafts) > MaxOverrides THEN "too many"
                 ELSE FirstRefusal(<<pass1, pass2, pass3>>)
        of(k, key) == CHOOSE i \in DOMAIN drafts : drafts[i].kind = k /\ drafts[i].key = key
        keys(k) == {drafts[i].key : i \in {j \in DOMAIN drafts : drafts[j].kind = k}}
    IN IF code # "none" THEN [NoOverrides EXCEPT !.code = code]
       ELSE [code |-> "none",
             models |-> [m \in keys("model") |->
                           [s \in Slots |-> Merged(Base(m, s), drafts[of("model", m)].rates[s]).rates]],
             aliases |-> [a \in keys("alias") |-> drafts[of("alias", a)].target]]

(***************************************************************************)
(* Resolution and selection.                                               *)
(***************************************************************************)
\* select_rule_rates, on the rates of one rule.
SelectRuleRates(rates, override, tier, context) ==
    LET slot == IF tier = "priority"
                THEN IF context = "no" THEN "priority_short" ELSE "priority_long"
                ELSE IF context = "no" THEN "standard_short" ELSE "standard_long"
        code == CASE tier = "unknown"        -> "tier unknown"
                  [] context = "unavailable" -> "context unavailable"
                  [] rates[slot] = NoRates   -> "tier context unsupported"
                  [] OTHER                   -> "none"
    IN [code |-> code, rates |-> IF code = "none" THEN rates[slot] ELSE NoRates,
        override |-> override]

\* resolve: an override alias, then an embedded alias, then an override model before
\* the embedded one.
ResolveCanonical(engine, canonical, tier, context) ==
    IF canonical \in DOMAIN engine.models
    THEN SelectRuleRates(engine.models[canonical], TRUE, tier, context)
    ELSE IF Embedded(canonical)
    THEN SelectRuleRates(Catalog[canonical].rates, FALSE, tier, context)
    ELSE [code |-> "model unpriced", rates |-> NoRates, override |-> FALSE]

Resolve(engine, model, tier, context) ==
    LET named == IF model \in DOMAIN engine.aliases THEN engine.aliases[model] ELSE model
    IN ResolveCanonical(engine, AliasTarget(named), tier, context)

\* calculate_numerator
Numerator(rates, row) == rates["uncached"] * row.uncached + rates["cached"] * row.cached
                         + rates["output"] * row.output

\* round_numerator: to the nearest micro.
Rounded(numerator) == (numerator + Million \div 2) \div Million

\* calculate_row
Calculated(row, rule) ==
    [code |-> rule.code, override |-> rule.override,
     numerator |-> IF rule.code = "none" THEN Numerator(rule.rates, row) ELSE 0]

CalculateRow(engine, row) ==
    IF row.calculable = 0 THEN [code |-> "token basis unavailable", numerator |-> 0,
                                override |-> FALSE]
    ELSE Calculated(row, Resolve(engine, row.model, row.tier, row.context))

\* validate_row
ValidRow(row) == /\ row.events > 0 /\ row.calculable <= row.events
                 /\ row.reported \in {0, row.events}

\* cost_values_conflict
ValuesConflict(a, b) ==
    LET delta == IF a > b THEN a - b ELSE b - a
        large == IF a > b THEN a ELSE b
    IN delta > ConflictMicros /\ delta * 100 > large * 2

\* select_reported
ReportedSelected(engine, mode, row) == mode = "reported" \/ (mode = "auto" /\ row.reported > 0)

\* What one row adds to the result.
CostOf(row, rep, c) ==
    LET fine == c.code = "none"
        none == [numerator |-> 0, priced |-> 0, reported |-> 0, assumed |-> 0, unpriced |-> 0,
                 override |-> FALSE, missing |-> {},
                 conflict |-> IF /\ row.reported = row.events /\ row.calculable = row.events
                                 /\ fine /\ Rounded(c.numerator) <= MaxMicros
                                 /\ ValuesConflict(row.cost, Rounded(c.numerator))
                              THEN row.events ELSE 0]
    IN CASE rep /\ row.reported > 0 ->
              [none EXCEPT !.numerator = row.cost * Million, !.reported = row.reported]
         [] rep /\ row.reported = 0 ->
              [none EXCEPT !.unpriced = row.events,
                           !.missing = {[why |-> "reported cost missing", key |-> row.model]}]
         [] ~rep /\ fine ->
              [none EXCEPT !.numerator = c.numerator, !.priced = row.calculable,
                           !.assumed = IF row.tier = "standard_assumed" THEN row.calculable ELSE 0,
                           !.unpriced = row.events - row.calculable, !.override = c.override,
                           !.missing = IF row.calculable < row.events
                                       THEN {[why |-> "token basis unavailable", key |-> row.model]}
                                       ELSE {}]
         [] OTHER ->
              [none EXCEPT !.unpriced = row.events,
                           !.missing = {[why |-> c.code, key |-> row.model]}]

RowCost(engine, mode, row) ==
    CostOf(row, ReportedSelected(engine, mode, row), CalculateRow(engine, row))

Counted(costs, name) == MapThenSumSet(LAMBDA i : costs[i][name], DOMAIN costs)

\* The availability a result is given.
Availability(failed, total, selected, unpriced, omitted, amount) ==
    CASE failed                          -> "unavailable"
      [] total = 0                       -> "zero"
      [] selected = 0                    -> "unavailable"
      [] unpriced = 0 /\ omitted = 0     -> IF amount = 0 THEN "zero" ELSE "complete"
      [] OTHER                           -> "partial"

\* select_cost, rows a sequence; omitted counts the events of keys that did not fit.
CostTotals(rows, costs, omitted) ==
    LET total    == omitted + Counted(rows, "events")
        selected == Counted(costs, "priced") + Counted(costs, "reported")
        micros   == Rounded(Counted(costs, "numerator"))
        failed   == (selected > 0 \/ total = 0) /\ micros > MaxMicros
        amount   == IF ~failed /\ (selected > 0 \/ total = 0) THEN micros ELSE Unset
        count(n) == IF failed THEN 0 ELSE Counted(costs, n)
        unpriced == IF failed THEN total - omitted ELSE Counted(costs, "unpriced")
    IN IF \E i \in DOMAIN rows : ~ValidRow(rows[i])
       THEN [code |-> "invalid", availability |-> "unavailable", amount |-> Unset, total |-> 0,
             priced |-> 0, reported |-> 0, assumed |-> 0, unpriced |-> 0, omitted |-> 0,
             conflict |-> 0, missing |-> {}, override |-> FALSE]
       ELSE [code |-> "none", amount |-> amount, total |-> total, omitted |-> omitted,
             availability |-> Availability(failed, total, IF failed THEN 0 ELSE selected, unpriced,
                                           omitted, amount),
             priced |-> count("priced"), reported |-> count("reported"),
             assumed |-> count("assumed"), unpriced |-> unpriced,
             conflict |-> Counted(costs, "conflict"),
             missing |-> UNION {costs[i].missing : i \in DOMAIN costs}
                         \cup (IF omitted > 0 THEN {[why |-> "key limit reached", key |-> ""]} ELSE {})
                         \cup (IF failed THEN {[why |-> "overflow", key |-> ""]} ELSE {}),
             override |-> ~failed /\ \E i \in DOMAIN costs : costs[i].override]

SelectCost(engine, mode, rows, omitted) ==
    CostTotals(rows, [i \in DOMAIN rows |-> RowCost(engine, mode, rows[i])], omitted)

-----------------------------------------------------------------------------
CONSTANTS Offset,     \* [instant -> offset of local time at it]
          DayHours,   \* hours of a day
          WeekDays,   \* days of a week
          Rank,       \* [name -> Nat], the order of strings
          MaxItems,   \* MAX_USAGE_BREAKDOWN_ITEMS
          MaxKeys     \* MAX_USAGE_PRICE_BASIS_KEYS

None == [none |-> TRUE]

Lex(a, b) == \E i \in DOMAIN a : a[i] < b[i] /\ \A j \in 1..(i - 1) : a[j] = b[j]

\* A set in the order of the tuples Key gives its members.
Ordered(S, Key(_)) ==
    [i \in 1..Cardinality(S) |-> CHOOSE x \in S : Cardinality({y \in S : Lex(Key(y), Key(x))}) = i - 1]

Prefix(seq, n) == SubSeq(seq, 1, Min({n, Len(seq)}))

(***************************************************************************)
(* Calendar (query/calendar.rs).  Local time is instant plus offset.       *)
(***************************************************************************)
Day == DayHours * Hour

\* rhythm_minute_key
RhythmKey(t) ==
    LET local == t + Offset[t]
    IN [date |-> local \div Day, hour |-> (local % Day) \div Hour,
        weekday |-> (local \div Day) % WeekDays, offset |-> Offset[t]]

\* zone.to_timestamp(midnight): the first instant whose local time is not before it
\* and that does not follow a later one (external).
Midnight(date) ==
    CHOOSE t \in DOMAIN Offset :
        /\ t + Offset[t] >= date * Day
        /\ \A u \in DOMAIN Offset : u < t => u + Offset[u] < date * Day

\* Mutant: the hours in the middle of a range reach to its end.
ComposeSegmentsWide(start, end) ==
    LET middleStart == start + ((Hour - (start % Hour)) % Hour)
        middleEnd   == end - (end % Hour)
    IN IF start = end THEN {}
       ELSE IF middleStart >= middleEnd THEN {[width |-> "minute", start |-> start, end |-> end]}
       ELSE {s \in {[width |-> "minute", start |-> start, end |-> middleStart],
                    [width |-> "hour", start |-> middleStart, end |-> end]} : s.start < s.end}

\* compose_segments: minutes up to the first full hour, hours, minutes after the last.
ComposeSegments(start, end) ==
    LET middleStart == start + ((Hour - (start % Hour)) % Hour)
        middleEnd   == end - (end % Hour)
    IN IF start = end THEN {}
       ELSE IF middleStart >= middleEnd THEN {[width |-> "minute", start |-> start, end |-> end]}
       ELSE {s \in {[width |-> "minute", start |-> start, end |-> middleStart],
                    [width |-> "hour", start |-> middleStart, end |-> middleEnd],
                    [width |-> "minute", start |-> middleEnd, end |-> end]} : s.start < s.end}

\* bucket: the days from start up to but not including end.
CalendarBucket(startDate, endDate) ==
    LET a == Midnight(startDate)
        b == Midnight(endDate)
    IN [start |-> a, end |-> b, dates |-> startDate..(endDate - 1), segs |-> ComposeSegments(a, b)]

\* build_rhythm_plan and append_rhythm_occurrence: maximal runs of minutes with one key.
RhythmPlan(bucket) ==
    LET minutes  == {t \in bucket.start..(bucket.end - 1) : (t - bucket.start) % Minute = 0}
        starts   == {t \in minutes : t = bucket.start \/ RhythmKey(t - Minute) # RhythmKey(t)}
        endOf(t) == Min({u \in starts : u > t} \cup {bucket.end})
    IN {[key |-> RhythmKey(t), start |-> t, end |-> endOf(t),
         segs |-> ComposeSegments(t, endOf(t))] : t \in starts}

\* build_plan, for a range of dates: the overview, a point a day, and the rhythm.
BuildPlan(startDate, endDate) ==
    LET overview == CalendarBucket(startDate, endDate)
    IN [overview |-> overview,
        series   |-> [i \in 1..(endDate - startDate) |->
                        CalendarBucket(startDate + i - 1, startDate + i)],
        rhythm   |-> RhythmPlan(overview)]

(***************************************************************************)
(* Publication and gate.                                                   *)
(***************************************************************************)
AnyDataset == [kind |-> "any", rev |-> 0, gen |-> 0]

\* RawPublication::dataset_identity
Identity(db) ==
    IF db.revision # 0 THEN [kind |-> "current", rev |-> db.revision, gen |-> db.gen]
    ELSE IF DOMAIN db.legacy # {} THEN [kind |-> "legacy", rev |-> 0, gen |-> 0]
    ELSE [kind |-> "empty", rev |-> 0, gen |-> 0]

Fresh(db, expected) == expected = AnyDataset \/ expected = Identity(db)

\* load_ready_aggregate_generation
ReadyGeneration(db) ==
    IF db.agg.state # "ready" THEN "rebuild required"
    ELSE IF db.agg.expected # db.gen THEN "invalid" ELSE "ok"

\* What every capture over the rollups starts with.
Gate(db, expected) == IF ~Fresh(db, expected) THEN "stale" ELSE ReadyGeneration(db)

(***************************************************************************)
(* capture_usage_analytics: overview, series, breakdowns and rhythm.       *)
(***************************************************************************)
InSegments(k, segs) == \E s \in segs : s.width = k.width /\ s.start <= k.start /\ k.start < s.end

InScope(k, scopes) == scopes = {} \/ <<k.provider, k.profile>> \in scopes

TimeRows(db, kind, dim, segs, scopes) ==
    {k \in DOMAIN db.time : /\ k.gen = db.agg.active /\ k.kind = kind /\ k.dim = dim
                            /\ InSegments(k, segs) /\ InScope(k, scopes)}

SumMetrics(table, keys) == FoldSet(LAMBDA k, m : PlusMetrics(m, table[k]), NoMetrics, keys)

\* load_range_metrics and load_aggregate_metrics
RangeMetrics(db, kind, segs, scopes) ==
    IF kind = "empty" THEN NoMetrics
    ELSE SumMetrics(db.time, TimeRows(db, kind, "all", segs, scopes))

BreakdownId(k, what) == CASE what \in {"model", "project"} -> <<k.value, "">>
                          [] what = "provider"             -> <<k.provider, "">>
                          [] what = "profile"              -> <<k.provider, k.profile>>

\* ORDER BY total DESC, events DESC, key1, key2
ItemOrder(item) == <<0 - item.m.sum["total"], 0 - item.m.events, Rank[item.id[1]], Rank[item.id[2]]>>

\* The rows grouped by what names them.
Itemized(table, names) ==
    LET items == {[id |-> id, m |-> SumMetrics(table, {k \in DOMAIN names : names[k] = id})] :
                    id \in {names[k] : k \in DOMAIN names}}
    IN [items |-> Prefix(Ordered(items, ItemOrder), MaxItems), truncated |-> Cardinality(items) > MaxItems]

\* load_breakdown
Breakdown(db, kind, what, segs, scopes) ==
    LET dim == IF what \in {"model", "project"} THEN what ELSE "all"
    IN IF kind = "empty" THEN [items |-> <<>>, truncated |-> FALSE]
       ELSE Itemized(db.time, [k \in TimeRows(db, kind, dim, segs, scopes) |-> BreakdownId(k, what)])

\* load_rhythm_dimension
RhythmDimension(db, kind, scopes, index, indices) ==
    [i \in indices |->
        FoldSet(LAMBDA o, m : PlusMetrics(m, RangeMetrics(db, kind, o.segs, scopes)), NoMetrics,
                {o \in DOMAIN index : index[o] = i})]

AllMetrics(f) == FoldSet(LAMBDA i, m : PlusMetrics(m, f[i]), NoMetrics, DOMAIN f)

\* load_rhythm: refused when a view does not add up to the overview.
Rhythm(db, kind, plan, scopes, overview) ==
    LET hours == RhythmDimension(db, kind, scopes, [o \in plan |-> o.key.hour], 0..(DayHours - 1))
        days  == RhythmDimension(db, kind, scopes, [o \in plan |-> o.key.weekday], 0..(WeekDays - 1))
        cells == RhythmDimension(db, kind, scopes,
                                 [o \in plan |-> o.key.weekday * DayHours + o.key.hour],
                                 0..(WeekDays * DayHours - 1))
    IN [ok |-> \A f \in {AllMetrics(hours), AllMetrics(days), AllMetrics(cells)} : f = overview,
        hours |-> hours, days |-> days, cells |-> cells]

\* capture_usage_analytics, over a plan.
CaptureAnalytics(db, expected, plan, whats, scopes) ==
    LET id       == Identity(db)
        gate     == Gate(db, expected)
        overview == RangeMetrics(db, id.kind, plan.overview.segs, scopes)
        rhythm   == Rhythm(db, id.kind, plan.rhythm, scopes, overview)
    IN IF gate # "ok" THEN [code |-> gate]
       ELSE IF ~rhythm.ok THEN [code |-> "invalid"]
       ELSE [code |-> "ok", id |-> id, overview |-> overview,
             series |-> [i \in DOMAIN plan.series |->
                           RangeMetrics(db, id.kind, plan.series[i].segs, scopes)],
             breakdowns |-> [w \in whats |-> Breakdown(db, id.kind, w, plan.overview.segs, scopes)],
             rhythm |-> rhythm]

(***************************************************************************)
(* The price batches: for every target its rows by descending size, the    *)
(* targets taking turns until MaxKeys rows are out.                        *)
(***************************************************************************)
\* GROUP BY model, service_tier, long_context, reported_state
PriceGroups(table, keys) ==
    LET group(k) == [model |-> k.price.model, tier |-> k.price.tier, context |-> k.price.context,
                     reported |-> k.price.reported]
    IN {[g |-> g, m |-> FoldSet(LAMBDA k, m : PlusPrice(m, table[k]), NoPrice,
                                {k \in keys : group(k) = g})] : g \in {group(k) : k \in keys}}

GroupOrder(x) ==
    <<0 - x.m.events, 0 - x.m.calculable, 0 - x.m.reported, 0 - x.m.uncached, 0 - x.m.cached,
      0 - x.m.output, 0 - x.m.cost, Rank[x.g.model], Rank[x.g.tier], Rank[x.g.context],
      IF x.g.reported THEN 1 ELSE 0>>

\* map_price_row
PriceRow(x) == [model |-> x.g.model, tier |-> x.g.tier, context |-> x.g.context,
                events |-> x.m.events, calculable |-> x.m.calculable, uncached |-> x.m.uncached,
                cached |-> x.m.cached, output |-> x.m.output, reported |-> x.m.reported,
                cost |-> x.m.cost]

\* ranked_batch_sql and load_batch_rows, for the key sets of the targets.
Batch(table, targets) ==
    LET ranked   == [t \in DOMAIN targets |-> Ordered(PriceGroups(table, targets[t]), GroupOrder)]
        turn(t, r) == Cardinality({<<u, q>> \in (DOMAIN targets) \X (1..MaxKeys) :
                                     q <= Len(ranked[u]) /\ (q < r \/ (q = r /\ u < t))})
        taken(t) == Cardinality({r \in 1..Len(ranked[t]) : turn(t, r) < MaxKeys})
    IN [t \in DOMAIN targets |->
          LET rows  == Prefix(ranked[t], taken(t))
              all   == MapThenSumSet(LAMBDA r : ranked[t][r].m.events, DOMAIN ranked[t])
              shown == MapThenSumSet(LAMBDA r : rows[r].m.events, DOMAIN rows)
          IN [rows |-> [r \in DOMAIN rows |-> PriceRow(rows[r])], included |-> shown,
              omitted |-> IF rows = <<>> THEN 0 ELSE all - shown]]

PriceTimeRows(db, kind, segs, scopes) ==
    {k \in DOMAIN db.ptime : /\ k.gen = db.agg.active /\ k.kind = kind
                             /\ InSegments(k, segs) /\ InScope(k, scopes)}

\* capture_range_batch
RangePrices(db, expected, plan, scopes) ==
    LET gate == Gate(db, expected)
        kind == Identity(db).kind
        segs == <<plan.overview.segs>> \o [i \in DOMAIN plan.series |-> plan.series[i].segs]
    IN IF gate # "ok" THEN [code |-> gate]
       ELSE [code |-> "ok", id |-> Identity(db),
             targets |-> Batch(db.ptime, [t \in DOMAIN segs |->
                                            IF kind = "empty" THEN {}
                                            ELSE PriceTimeRows(db, kind, segs[t], scopes)])]

PriceId(k, what) == CASE what = "model"    -> <<k.price.model, "">>
                      [] what = "project"  -> <<k.price.project, "">>
                      [] what = "provider" -> <<k.provider, "">>
                      [] what = "profile"  -> <<k.provider, k.profile>>

\* capture_breakdown_batch, for the items the capture showed.
BreakdownPrices(db, expected, what, items, segs, scopes) ==
    LET gate == Gate(db, expected)
        keys == PriceTimeRows(db, Identity(db).kind, segs, scopes)
    IN IF gate # "ok" THEN [code |-> gate]
       ELSE [code |-> "ok", id |-> Identity(db),
             targets |-> Batch(db.ptime, [i \in DOMAIN items |->
                                            {k \in keys : PriceId(k, what) = items[i].id}])]

\* map_cost_parts: the prices must be about as many events as the counts are.
MapCost(target, events, engine, mode) ==
    IF target.included + target.omitted # events THEN [code |-> "corrupt"]
    ELSE SelectCost(engine, mode, target.rows, target.omitted)

\* map_breakdown
MapBreakdown(breakdown, prices, engine, mode) ==
    [i \in DOMAIN breakdown.items |->
        [id |-> breakdown.items[i].id, m |-> breakdown.items[i].m,
         cost |-> MapCost(prices.targets[i], breakdown.items[i].m.events, engine, mode)]]

\* map_capture
Mapped(capture, prices, breakdownPrices, overviewCost, series, breakdowns) ==
    LET costs == {overviewCost} \cup {series[i].cost : i \in DOMAIN series}
                 \cup UNION {{breakdowns[w][i].cost : i \in DOMAIN breakdowns[w]} :
                                w \in DOMAIN breakdowns}
    IN IF \/ prices.id # capture.id
          \/ \E w \in DOMAIN breakdownPrices : /\ capture.breakdowns[w].items # <<>>
                                               /\ breakdownPrices[w].id # capture.id
          \/ \E c \in costs : c.code # "none"
       THEN [code |-> "corrupt"]
       ELSE [code |-> "ok", id |-> capture.id, overview |-> capture.overview,
             overviewCost |-> overviewCost, series |-> series, breakdowns |-> breakdowns,
             rhythm |-> capture.rhythm]

MapCapture(capture, prices, breakdownPrices, engine, mode) ==
    Mapped(capture, prices, breakdownPrices,
           MapCost(prices.targets[1], capture.overview.events, engine, mode),
           [i \in DOMAIN capture.series |->
              [m |-> capture.series[i],
               cost |-> MapCost(prices.targets[i + 1], capture.series[i].events, engine, mode)]],
           [w \in DOMAIN capture.breakdowns |->
              MapBreakdown(capture.breakdowns[w], breakdownPrices[w], engine, mode)])

(***************************************************************************)
(* Sessions and activity: pages of one dataset.                            *)
(***************************************************************************)
SessionName(k) == <<k.provider, k.profile, k.session>>

SessionOrder(row) == <<0 - row.last, Rank[row.name[1]], Rank[row.name[2]], Rank[row.name[3]]>>

SessionRows(db, kind, scopes) ==
    {[name |-> SessionName(k), first |-> db.span[k].first, last |-> db.span[k].last,
      m |-> db.session[k]] :
        k \in {j \in DOMAIN db.session : /\ j.gen = db.agg.active /\ j.kind = kind
                                         /\ j.dim = "all" /\ InScope(j, scopes)}}

\* capture_usage_session_page: from after the cursor, with one row of lookahead.
CaptureSessions(db, expected, cursor, size, scopes) ==
    LET gate == Gate(db, expected)
        kind == Identity(db).kind
        rows == IF kind = "empty" THEN {} ELSE SessionRows(db, kind, scopes)
        rest == {r \in rows : cursor = None \/ Lex(SessionOrder(cursor), SessionOrder(r))}
        page == Prefix(Ordered(rest, SessionOrder), size)
    IN IF gate # "ok" THEN [code |-> gate]
       ELSE [code |-> "ok", id |-> Identity(db), rows |-> page,
             more |-> Cardinality(rest) > size,
             next |-> IF Cardinality(rest) > size
                      THEN [name |-> Last(page).name, last |-> Last(page).last] ELSE None]

PriceSessionRows(db, kind, name) ==
    {k \in DOMAIN db.psession : k.gen = db.agg.active /\ k.kind = kind /\ SessionName(k) = name}

\* capture_session_batch, for the sessions of a page.
SessionPrices(db, expected, rows) ==
    LET gate == Gate(db, expected)
        kind == Identity(db).kind
    IN IF gate # "ok" THEN [code |-> gate]
       ELSE [code |-> "ok", id |-> Identity(db),
             targets |-> Batch(db.psession, [i \in DOMAIN rows |->
                                               PriceSessionRows(db, kind, rows[i].name)])]

\* map_page_capture
MappedPage(page, rows) ==
    IF \E i \in DOMAIN rows : rows[i].cost.code # "none" THEN [code |-> "corrupt"]
    ELSE [code |-> "ok", id |-> page.id, rows |-> rows, more |-> page.more, next |-> page.next]

MapSessions(page, prices, engine, mode) ==
    MappedPage(page,
               [i \in DOMAIN page.rows |->
                  [name |-> page.rows[i].name, first |-> page.rows[i].first,
                   last |-> page.rows[i].last, m |-> page.rows[i].m,
                   cost |-> MapCost(prices.targets[i], page.rows[i].m.events, engine, mode)]])

\* capture_usage_session_detail and the prices of its two breakdowns.
CaptureDetail(db, expected, name) ==
    LET gate == Gate(db, expected)
        kind == Identity(db).kind
        rows(dim) == {k \in DOMAIN db.session : /\ k.gen = db.agg.active /\ k.kind = kind
                                                /\ k.dim = dim /\ SessionName(k) = name}
    IN IF gate # "ok" THEN [code |-> gate]
       ELSE IF rows("all") = {} THEN [code |-> "none"]
       ELSE LET all == CHOOSE k \in rows("all") : TRUE
            IN [code |-> "ok", id |-> Identity(db), name |-> name, m |-> db.session[all],
                first |-> db.span[all].first, last |-> db.span[all].last,
                breakdowns |-> [what \in {"model", "project"} |->
                                  Itemized(db.session, [k \in rows(what) |-> <<k.value, "">>])]]

\* capture_session_breakdown_batch
DetailPrices(db, expected, name, what, items) ==
    LET gate == Gate(db, expected)
        keys == PriceSessionRows(db, Identity(db).kind, name)
    IN IF gate # "ok" THEN [code |-> gate]
       ELSE [code |-> "ok", id |-> Identity(db),
             targets |-> Batch(db.psession, [i \in DOMAIN items |->
                                               {k \in keys : PriceId(k, what) = items[i].id}])]

ActivityOrder(r) == <<0 - r.at, 0 - r.fp>>

\* capture_activity_page: raw events, newest first; a legacy event without its source
\* is refused.
CaptureActivity(db, expected, cursor, size) ==
    LET id   == Identity(db)
        rows == CASE id.kind = "empty" -> <<>> [] id.kind = "current" -> db.events
                  [] id.kind = "legacy" -> db.legacy
        all  == {[fp |-> f, at |-> rows[f].at] : f \in DOMAIN rows}
        rest == {r \in all : cursor = None \/ Lex(ActivityOrder(cursor), ActivityOrder(r))}
        page == Prefix(Ordered(rest, ActivityOrder), size)
    IN IF ~Fresh(db, expected) THEN [code |-> "stale"]
       ELSE IF id.kind = "legacy" /\ \E i \in DOMAIN page : ~db.legacy[page[i].fp].matched
       THEN [code |-> "invalid"]
       ELSE [code |-> "ok", id |-> id, rows |-> page, more |-> Cardinality(rest) > size,
             next |-> IF Cardinality(rest) > size THEN Last(page) ELSE None]

\* lifetime_totals: the newest generation in the table, whatever the state.
LifetimeTotals(db) ==
    LET gens == {k.gen : k \in DOMAIN db.time}
        keys == {k \in DOMAIN db.time : /\ gens # {} /\ k.gen = Max(gens) /\ k.kind = "current"
                                        /\ k.width = "hour" /\ k.dim = "all"}
        m    == SumMetrics(db.time, keys)
    IN [events |-> m.events, known |-> m.known["total"], total |-> m.sum["total"]]

\* load_aggregate_status, against the dataset generation of the identity.
AggregateStatus(db) ==
    LET gen == IF Identity(db).kind = "current" THEN db.gen ELSE 0
    IN IF \/ db.agg.expected # gen
          \/ db.agg.processed > db.agg.total
          \/ db.agg.state \in {"ready", "rebuild_required"} /\ db.agg.processed # 0
       THEN "invalid" ELSE db.agg.state
=============================================================================
