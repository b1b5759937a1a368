-------------------------- MODULE UsageQueryService --------------------------
(***************************************************************************)
(* The usage archive with one writer and one reader on connections of      *)
(* their own: promotions and appends of events with the triggers on them,  *)
(* the pages of a rebuild, and the queries of QueryService, each of which  *)
(* is several read transactions with the writer's in between.              *)
(***************************************************************************)
EXTENDS UsageQueries

CONSTANTS Days,      \* scenarios: a database, budgets and the reader's request
          Versions,  \* [fingerprint -> the events it may stand for]
          Limit,     \* rows of a rebuild page
          PageSize   \* rows of a page the reader asks for

VARIABLES db,      \* the database, see UsageRollups
          reader,  \* the query in progress: its step and what it captured
          answer,  \* what the reader was last told
          pages,   \* the pages of the listing it is reading
          seen,    \* the events the dataset held when the query captured it
          left     \* what the scenario still allows

vars == <<db, reader, answer, pages, seen, left>>

Whats == <<"model", "project", "provider", "profile">>

NoQuery == [step |-> "idle"]

NoAnswer == [code |-> "nothing"]

Engine == BuildOverrides(left.drafts)

Plan == BuildPlan(left.dates[1], left.dates[2])

Init == /\ left \in Days
        /\ db = left.db
        /\ reader = NoQuery /\ answer = NoAnswer /\ pages = <<>> /\ seen = <<>>

Spend(what) == left[what] > 0 /\ left' = [left EXCEPT ![what] = @ - 1]

(***************************************************************************)
(* The writer.                                                             *)
(***************************************************************************)
\* ON CONFLICT(fingerprint) DO UPDATE
Upsert(d, f, e) == IF f \in DOMAIN d.events THEN EventUpdated(d, f, e) ELSE EventInserted(d, f, e)

\* materialize_replay_selection: replays are deleted, the rest is carried to the new
\* revision, the selection is written over it.
Rematerialized(d, gone, chosen) ==
    LET deleted == FoldSet(LAMBDA f, x : EventDeleted(x, f), d, gone)
        carried == FoldSet(LAMBDA f, x : EventUpdated(x, f, x.events[f]), deleted,
                           DOMAIN deleted.events)
    IN FoldSet(LAMBDA f, x : Upsert(x, f, chosen[f]), carried, DOMAIN chosen)

\* promote_replay_revision; a raise of a trigger would roll it back.  The first one
\* deletes every event, which no revision has projected yet.
Promote ==
    /\ Spend("promotes")
    /\ \E gone \in (IF db.revision = 0 THEN {DOMAIN db.events} ELSE SUBSET DOMAIN db.events),
          f \in DOMAIN Versions : \E e \in Versions[f] :
          db' = [Rematerialized(db, gone, (f :> e)) EXCEPT !.revision = @ + 1]
    /\ UNCHANGED <<reader, answer, pages, seen>>

\* apply_current_replay_append_batches: an event of the current revision, new or
\* selected anew.
AppendCurrent ==
    /\ db.revision # 0 /\ Spend("appends")
    /\ \E f \in DOMAIN Versions : \E e \in Versions[f] : db' = Upsert(db, f, e)
    /\ UNCHANGED <<reader, answer, pages, seen>>

\* rebuild_aggregates_page
Rebuild ==
    /\ db.agg.state # "ready" /\ Spend("rebuilds")
    /\ db' = RebuildPage(db, Limit).db
    /\ UNCHANGED <<reader, answer, pages, seen>>

(***************************************************************************)
(* The reader.                                                             *)
(***************************************************************************)
DatasetEvents(d) == CASE Identity(d).kind = "current" -> d.events
                      [] Identity(d).kind = "legacy"  -> RowsOf(d, "legacy")
                      [] OTHER                        -> <<>>

Told(a) == answer' = a /\ reader' = NoQuery

\* A capture that refuses ends the query with its code.
Captured(result, next) ==
    IF result.code # "ok" THEN Told([code |-> result.code])
    ELSE reader' = next /\ answer' = NoAnswer

\* usage_analytics: the counts.
AnalyticsCapture ==
    /\ reader.step = "idle" /\ left.ask = "analytics" /\ Spend("queries")
    /\ LET c == CaptureAnalytics(db, AnyDataset, Plan, {Whats[i] : i \in 1..4}, left.scopes)
       IN Captured(c, [step |-> "prices", capture |-> c])
    /\ seen' = DatasetEvents(db) /\ UNCHANGED <<db, pages>>

\* The prices of the same ranges, in a transaction of their own.
AnalyticsPrices ==
    /\ reader.step = "prices"
    /\ LET p == RangePrices(db, reader.capture.id, Plan, left.scopes)
       IN Captured(p, [step |-> "breakdowns", capture |-> reader.capture, prices |-> p, bp |-> <<>>])
    /\ UNCHANGED <<db, pages, seen, left>>

\* The prices of one breakdown; a breakdown without items needs none.
AnalyticsBreakdown ==
    /\ reader.step = "breakdowns" /\ Cardinality(DOMAIN reader.bp) < Len(Whats)
    /\ LET what  == Whats[Cardinality(DOMAIN reader.bp) + 1]
           items == reader.capture.breakdowns[what].items
           p     == IF items = <<>> THEN [code |-> "ok", id |-> reader.capture.id, targets |-> <<>>]
                    ELSE BreakdownPrices(db, reader.capture.id, what, items, Plan.overview.segs,
                                         left.scopes)
       IN Captured(p, [reader EXCEPT !.bp = (what :> p) @@ @])
    /\ UNCHANGED <<db, pages, seen, left>>

ToldAnalytics(a) == Told(IF a.code = "ok" THEN [a EXCEPT !.code = "analytics"] ELSE a)

AnalyticsAnswer ==
    /\ reader.step = "breakdowns" /\ Cardinality(DOMAIN reader.bp) = Len(Whats)
    /\ ToldAnalytics(MapCapture(reader.capture, reader.prices, reader.bp, Engine, left.mode))
    /\ UNCHANGED <<db, pages, seen, left>>

\* The expected dataset and the cursor of the next page: those of the page before.
Continuation == IF pages = <<>> THEN [id |-> AnyDataset, cursor |-> None]
                ELSE [id |-> Last(pages).id, cursor |-> Last(pages).next]

MayPage(what) == /\ reader.step = "idle" /\ left.ask = what /\ Spend("queries")
                 /\ (pages # <<>> => Last(pages).more)

\* usage_sessions: a page of rows, refused when the dataset is another one by now.
SessionsCapture ==
    /\ MayPage("sessions")
    /\ LET c == CaptureSessions(db, Continuation.id, Continuation.cursor, PageSize, left.scopes)
       IN Captured(c, [step |-> "session prices", capture |-> c])
    /\ seen' = IF pages = <<>> THEN DatasetEvents(db) ELSE seen
    /\ UNCHANGED <<db, pages>>

ToldPage(a) ==
    IF a.code # "ok" THEN Told(a) /\ UNCHANGED pages
    ELSE Told([code |-> "sessions"]) /\ pages' = Append(pages, a)

ToldSessions(p) ==
    IF p.code # "ok" THEN Told([code |-> p.code]) /\ UNCHANGED pages
    ELSE ToldPage(MapSessions(reader.capture, p, Engine, left.mode))

SessionsAnswer ==
    /\ reader.step = "session prices"
    /\ ToldSessions(SessionPrices(db, reader.capture.id, reader.capture.rows))
    /\ UNCHANGED <<db, seen, left>>

\* usage_session_detail, for a row of the pages: summary, its price, two breakdowns.
DetailCapture ==
    /\ reader.step = "idle" /\ left.ask = "sessions" /\ pages # <<>> /\ Spend("details")
    /\ \E i \in DOMAIN Last(pages).rows :
          LET c == CaptureDetail(db, Last(pages).id, Last(pages).rows[i].name)
          IN Captured(c, [step |-> "detail price", capture |-> c])
    /\ UNCHANGED <<db, pages, seen>>

DetailPrice ==
    /\ reader.step = "detail price"
    /\ LET p == SessionPrices(db, reader.capture.id, <<reader.capture>>)
       IN Captured(p, [step |-> "detail breakdowns", capture |-> reader.capture, prices |-> p,
                       bp |-> <<>>])
    /\ UNCHANGED <<db, pages, seen, left>>

DetailBreakdown ==
    /\ reader.step = "detail breakdowns" /\ Cardinality(DOMAIN reader.bp) < 2
    /\ LET what == Whats[Cardinality(DOMAIN reader.bp) + 1]
           p    == DetailPrices(db, reader.capture.id, reader.capture.name, what,
                                reader.capture.breakdowns[what].items)
       IN Captured(p, [reader EXCEPT !.bp = (what :> p) @@ @])
    /\ UNCHANGED <<db, pages, seen, left>>

\* map_detail_capture
MappedDetail(c, cost, maps) ==
    IF \/ cost.code # "none"
       \/ \E w \in DOMAIN maps : \E i \in DOMAIN maps[w] : maps[w][i].cost.code # "none"
    THEN [code |-> "corrupt"]
    ELSE [code |-> "detail", name |-> c.name, m |-> c.m, first |-> c.first, last |-> c.last,
          cost |-> cost, breakdowns |-> maps]

DetailAnswer ==
    /\ reader.step = "detail breakdowns" /\ Cardinality(DOMAIN reader.bp) = 2
    /\ Told(MappedDetail(reader.capture,
                         MapCost(reader.prices.targets[1], reader.capture.m.events, Engine, left.mode),
                         [w \in DOMAIN reader.capture.breakdowns |->
                            MapBreakdown(reader.capture.breakdowns[w], reader.bp[w], Engine, left.mode)]))
    /\ UNCHANGED <<db, pages, seen, left>>

\* latest_activity
Activity ==
    /\ MayPage("activity")
    /\ LET c == CaptureActivity(db, Continuation.id, Continuation.cursor, PageSize)
       IN IF c.code # "ok" THEN Told([code |-> c.code]) /\ UNCHANGED pages
          ELSE Told([code |-> "activity"]) /\ pages' = Append(pages, c)
    /\ seen' = IF pages = <<>> THEN DatasetEvents(db) ELSE seen
    /\ UNCHANGED db

\* lifetime_totals
Lifetime ==
    /\ reader.step = "idle" /\ left.ask = "lifetime" /\ Spend("queries")
    /\ Told([code |-> "lifetime", totals |-> LifetimeTotals(db)])
    /\ seen' = db.events /\ UNCHANGED <<db, pages>>

\* product_data_status, the part about the aggregates.
Status ==
    /\ reader.step = "idle" /\ left.ask = "status" /\ Spend("queries")
    /\ Told([code |-> "status", state |-> AggregateStatus(db)])
    /\ seen' = DatasetEvents(db) /\ UNCHANGED <<db, pages>>

Next == \/ Promote \/ AppendCurrent \/ Rebuild
        \/ AnalyticsCapture \/ AnalyticsPrices \/ AnalyticsBreakdown \/ AnalyticsAnswer
        \/ SessionsCapture \/ SessionsAnswer
        \/ DetailCapture \/ DetailPrice \/ DetailBreakdown \/ DetailAnswer
        \/ Activity \/ Lifetime \/ Status

Spec == Init /\ [][Next]_vars

(***************************************************************************)
(* Properties.  Their side of every equation is computed from the events.  *)
(***************************************************************************)
Total(Of(_), S) == MapThenSumSet(Of, S)

Counts(events, S, m) ==
    /\ m.events = Cardinality(S)
    /\ \A n \in Fields :
          LET known == {f \in S : events[f].tokens[n] # Absent}
          IN m.known[n] = Cardinality(known) /\ m.sum[n] = Total(LAMBDA f : events[f].tokens[n], known)
    /\ m.activity = Total(LAMBDA f : events[f].activity, S)

TimeRowOf(k, e) == /\ k.start <= e.at /\ e.at < k.start + Seconds(k.width)
                   /\ k.provider = e.provider /\ k.profile = e.profile
                   /\ k.dim = "model" => k.value = e.model
                   /\ k.dim = "project" => k.value = e.project

SessionRowOf(k, e) == /\ k.provider = e.provider /\ k.profile = e.profile /\ k.session = e.session
                      /\ k.dim = "model" => k.value = e.model
                      /\ k.dim = "project" => k.value = e.project

\* The rollups a reader may use are exact: whatever promotions, appends and rebuild
\* pages came before, every row of a table the triggers maintain counts the events
\* under its key, every event is counted, sessions span their first and last event,
\* and no trigger ever raised.  (schema.rs, price_schema.rs, aggregate.rs)
RollupsAreExact ==
    /\ ~db.aborted
    /\ db.agg.current = Cardinality(DOMAIN db.events)
    /\ db.agg.state = "ready" =>
       /\ db.agg.expected = db.gen
       /\ \A k \in DOMAIN db.time :
             LET ev == RowsOf(db, k.kind)
                 S  == {f \in DOMAIN ev : TimeRowOf(k, ev[f])}
             IN k.gen = db.agg.active /\ S # {} /\ Counts(ev, S, db.time[k])
       /\ \A k \in DOMAIN db.session :
             LET ev == RowsOf(db, k.kind)
                 S  == {f \in DOMAIN ev : SessionRowOf(k, ev[f])}
             IN /\ k.gen = db.agg.active /\ S # {} /\ Counts(ev, S, db.session[k])
                /\ k.dim = "all" => db.span[k] = [first |-> Min({ev[f].at : f \in S}),
                                                  last  |-> Max({ev[f].at : f \in S})]
       /\ \A kind \in {"current", "legacy"} :
             LET ev    == RowsOf(db, kind)
                 mine(t) == {k \in DOMAIN t : k.kind = kind}
             IN \A f \in DOMAIN ev :
                  /\ Cardinality({k \in mine(db.time) : TimeRowOf(k, ev[f])}) = 6
                  /\ Cardinality({k \in mine(db.session) : SessionRowOf(k, ev[f])}) = 3
       /\ \A w \in Widths : Total(LAMBDA k : db.ptime[k].events,
                                  {k \in DOMAIN db.ptime : k.width = w})
                            = db.agg.current + db.agg.legacy
       /\ Total(LAMBDA k : db.psession[k].events, DOMAIN db.psession)
          = db.agg.current + db.agg.legacy

\* The micros an event stands for, before rounding; Unset when it has no price.
EventNumerator(e) ==
    LET r == Resolve(Engine, e.model, Tier(e), e.context)
        m == PriceMetrics(e)
    IN IF left.mode = "reported" \/ (left.mode = "auto" /\ e.cost # Absent)
       THEN IF e.cost = Absent THEN Unset ELSE e.cost * Million
       ELSE IF m.calculable = 0 \/ r.code # "none" THEN Unset
       ELSE Numerator(r.rates, m)

\* A cost that leaves no key out is the rounded sum over the events.
CostIsExact(S, cost) ==
    LET priced == {f \in S : EventNumerator(seen[f]) # Unset}
    IN /\ cost.total = Cardinality(S)
       /\ cost.omitted = 0 =>
            /\ cost.priced + cost.reported = Cardinality(priced)
            /\ cost.unpriced = Cardinality(S \ priced)
            /\ priced # {} =>
                 cost.amount = Rounded(Total(LAMBDA f : EventNumerator(seen[f]), priced))

InRange(a, b) ==
    {f \in DOMAIN seen : /\ a <= seen[f].at /\ seen[f].at < b
                         /\ left.scopes = {} \/ <<seen[f].provider, seen[f].profile>> \in left.scopes}

ItemEvents(S, what, id) ==
    {f \in S : CASE what = "model"    -> seen[f].model = id[1]
                 [] what = "project"  -> seen[f].project = id[1]
                 [] what = "provider" -> seen[f].provider = id[1]
                 [] what = "profile"  -> <<seen[f].provider, seen[f].profile>> = id}

ItemsAreExact(S, what, items) ==
    \A i \in DOMAIN items : LET T == ItemEvents(S, what, items[i].id)
                            IN T # {} /\ Counts(seen, T, items[i].m) /\ CostIsExact(T, items[i].cost)

\* An analytics answer is about one moment: its counts, its days, its local hours and
\* weekdays, its breakdowns and all its costs, read in six transactions, agree with
\* the events the archive held at the first; a writer in between can only make the
\* query fail.  (query/service.rs usage_analytics, usage_session_detail)
AnswerIsOneSnapshot ==
    /\ answer.code \notin {"corrupt", "invalid"}
    /\ answer.code = "analytics" =>
       LET S == InRange(Plan.overview.start, Plan.overview.end)
       IN /\ Counts(seen, S, answer.overview) /\ CostIsExact(S, answer.overviewCost)
          /\ \A i \in DOMAIN answer.series :
                LET T == InRange(Plan.series[i].start, Plan.series[i].end)
                IN Counts(seen, T, answer.series[i].m) /\ CostIsExact(T, answer.series[i].cost)
          /\ \A w \in DOMAIN answer.breakdowns : ItemsAreExact(S, w, answer.breakdowns[w])
          /\ \A h \in DOMAIN answer.rhythm.hours :
                Counts(seen, {f \in S : RhythmKey(seen[f].at).hour = h}, answer.rhythm.hours[h])
          /\ \A d \in DOMAIN answer.rhythm.days :
                Counts(seen, {f \in S : RhythmKey(seen[f].at).weekday = d}, answer.rhythm.days[d])
    /\ answer.code = "detail" =>
       LET S == {f \in DOMAIN seen : SessionName(seen[f]) = answer.name}
       IN /\ Counts(seen, S, answer.m) /\ CostIsExact(S, answer.cost)
          /\ answer.first = Min({seen[f].at : f \in S}) /\ answer.last = Max({seen[f].at : f \in S})
          /\ \A w \in DOMAIN answer.breakdowns : ItemsAreExact(S, w, answer.breakdowns[w])

\* The pages of a listing are pages of one list: no row twice, and once there is no
\* further page every session or event of the first page's dataset was on one, with
\* its counts.  (query/session.rs, query.rs capture_activity_page)
PagesAreWhole ==
    LET rows == FlattenSeq([i \in DOMAIN pages |-> pages[i].rows])
        done == pages # <<>> /\ ~Last(pages).more
        inScope == {f \in DOMAIN seen : left.scopes = {} \/
                                        <<seen[f].provider, seen[f].profile>> \in left.scopes}
    IN /\ left.ask = "sessions" =>
          /\ \A i, j \in DOMAIN rows : rows[i].name = rows[j].name => i = j
          /\ \A i \in DOMAIN rows :
                LET S == {f \in inScope : SessionName(seen[f]) = rows[i].name}
                IN Counts(seen, S, rows[i].m) /\ CostIsExact(S, rows[i].cost)
          /\ done => {rows[i].name : i \in DOMAIN rows} = {SessionName(seen[f]) : f \in inScope}
       /\ left.ask = "activity" =>
          /\ \A i, j \in DOMAIN rows : i < j => rows[i].at >= rows[j].at /\ rows[i].fp # rows[j].fp
          /\ done => {rows[i].fp : i \in DOMAIN rows} = DOMAIN seen

\* An answer read in six transactions is about one moment, or the query fails; and the
\* pages of a listing are pages of one list, none of its rows twice or missing.
AnswersAreExact == AnswerIsOneSnapshot /\ PagesAreWhole
=============================================================================
