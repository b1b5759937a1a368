-------------------------------- MODULE MCUsage -------------------------------
(*****************************************************************************)
(* The usage archive as its readers and its upgrades meet it: the rollups    *)
(* and the queries over them, and the migration of older archives.  A        *)
(* behaviour is one of one of the Parts.                                     *)
(*****************************************************************************)
EXTENDS ArchiveSchema, TLC

CONSTANTS
    Parts,   \* the components this instance runs
    Minute, Hour, Catalog, Million, MaxMicros, ConflictMicros, MaxOverrides, Offset,
    DayHours, WeekDays, Rank, MaxItems, MaxKeys, Days, Versions, Limit, PageSize,
    Openers, Archives, Faults

VARIABLES
    part,    \* the component that runs in this behaviour
    queryDb, queryReader, queryAnswer, queryPages, querySeen, queryLeft, migrationDb,
    migrationConn, migrationOriginal, migrationFaults

Queries == INSTANCE UsageQueryService WITH
    db <- queryDb, reader <- queryReader, answer <- queryAnswer, pages <- queryPages,
    seen <- querySeen, left <- queryLeft

Migration == INSTANCE Migration WITH
    db <- migrationDb, conn <- migrationConn, original <- migrationOriginal,
    faults <- migrationFaults

Rollups == INSTANCE UsageRollups

-----------------------------------------------------------------------------
(* The instance of UsageQueryService.                                        *)

LocalOffset == [t \in 0..30 |-> IF t < 9 THEN 1 ELSE -1]

Ranks == [n \in {"", "a", "b", "codex", "m1", "m2", "no", "other", "priority", "s", "standard_assumed",
                 "standard_reported", "t", "unknown", "x", "y", "yes"} |->
            CASE n = "" -> 0 [] n = "a" -> 1 [] n = "b" -> 2 [] n = "codex" -> 3 [] n = "m1" -> 4
              [] n = "m2" -> 5 [] n = "no" -> 6 [] n = "other" -> 7 [] n = "priority" -> 8
              [] n = "s" -> 9 [] n = "standard_assumed" -> 10 [] n = "standard_reported" -> 11
              [] n = "t" -> 12 [] n = "unknown" -> 13 [] n = "x" -> 14 [] n = "y" -> 15
              [] n = "yes" -> 16]

Tokens(i, c, o, r, t) == [input |-> i, cached |-> c, output |-> o, reasoning |-> r, total |-> t]

E1 == [provider |-> "codex", profile |-> "a", session |-> "s", at |-> 6, model |-> "m1",
       project |-> "x", tier |-> "", context |-> "no", tokens |-> Tokens(5, 2, 3, 1, 9),
       cost |-> -1, activity |-> 1, matched |-> TRUE]

EventVersions ==
    (1 :> {E1, [E1 EXCEPT !.cost = 4, !.project = "", !.tokens = Tokens(5, 2, 3, 1, -1)]})
    @@ (2 :> {[E1 EXCEPT !.at = 9, !.tier = "fast", !.tokens["total"] = 8],
              [E1 EXCEPT !.at = 19, !.model = "m2", !.activity = 0]})
    @@ (3 :> {[E1 EXCEPT !.profile = "b", !.at = 13, !.tokens = Tokens(1, 0, -1, -1, 2)]})

QueriesNoPrice == [none |-> TRUE]
AnyRates(i, c, o) == [uncached |-> i, cached |-> c, output |-> o]

Prices == [m1 |-> [aliases |-> {"x1"},
                   rates |-> [standard_short |-> AnyRates(7, 3, 9), standard_long |-> QueriesNoPrice,
                              priority_short |-> AnyRates(9, 4, 12), priority_long |-> QueriesNoPrice]]]

Fresh0 == [events |-> <<>>, legacy |-> <<>>, gen |-> 0, revision |-> 0,
           agg |-> [state |-> "ready", expected |-> 0, active |-> 0, current |-> 0, legacy |-> 0,
                    target |-> 0, kind |-> "none", cursor |-> 0, processed |-> 0, total |-> 0],
           time |-> <<>>, session |-> <<>>, span |-> <<>>, ptime |-> <<>>, psession |-> <<>>,
           aborted |-> FALSE]

\* An archive whose events were promoted once.
Used == [Rollups!EventInserted(Rollups!EventInserted(Fresh0, 1, E1), 3, CHOOSE e \in EventVersions[3] : TRUE)
         EXCEPT !.revision = 1]

\* The same after migrate_v8: the rollups of schema 8 stay, prices have none yet.
Migrated == [Used EXCEPT !.agg.state = "rebuild_required", !.agg.total = 2,
                         !.ptime = <<>>, !.psession = <<>>]

\* The events of schema 1 after its migration: frozen, and still in usage_event until
\* the first promotion; and the same when a source has another profile now.
OldEvents == (1 :> E1) @@ (2 :> [E1 EXCEPT !.session = "t"])

Old == [Fresh0 EXCEPT !.events = OldEvents, !.legacy = OldEvents,
                      !.agg.state = "rebuild_required", !.agg.current = 2, !.agg.legacy = 2,
                      !.agg.total = 4]

OldMoved == [Old EXCEPT !.legacy[2].matched = FALSE]

Day0 == [db |-> Fresh0, promotes |-> 0, appends |-> 0, rebuilds |-> 0, queries |-> 0, details |-> 0,
        ask |-> "analytics", dates |-> <<1, 3>>, scopes |-> {}, mode |-> "auto", drafts |-> <<>>]

Patch(r) == [kind |-> "model", key |-> "m2", target |-> "",
             rates |-> [standard_short |-> r, standard_long |-> QueriesNoPrice,
                        priority_short |-> QueriesNoPrice, priority_long |-> QueriesNoPrice]]

ReadDays ==
    {[Day0 EXCEPT !.promotes = 2, !.queries = 1],
     [Day0 EXCEPT !.db = Used, !.promotes = 1, !.appends = 1, !.queries = 1,
                  !.drafts = <<Patch(AnyRates(2, 1, 3))>>],
     [Day0 EXCEPT !.db = Used, !.appends = 1, !.queries = 1, !.mode = "calculated",
                  !.scopes = {<<"codex", "a">>}, !.dates = <<1, 2>>],
     [Day0 EXCEPT !.db = Used, !.promotes = 1, !.appends = 1, !.queries = 2, !.details = 1,
                  !.ask = "sessions"],
     [Day0 EXCEPT !.db = Used, !.promotes = 1, !.appends = 1, !.queries = 3, !.ask = "activity"]}

RebuildDays ==
    {[Day0 EXCEPT !.db = Migrated, !.rebuilds = 11, !.promotes = 1, !.appends = 1, !.queries = 1, !.mode = "reported"],
     [Day0 EXCEPT !.rebuilds = 11, !.db = OldMoved, !.promotes = 1, !.queries = 2, !.ask = "sessions"],
     [Day0 EXCEPT !.rebuilds = 11, !.db = Old, !.promotes = 1, !.queries = 2, !.ask = "activity"],
     [Day0 EXCEPT !.rebuilds = 11, !.db = Old, !.appends = 0, !.queries = 1, !.ask = "status"],
     [Day0 EXCEPT !.db = Used, !.promotes = 1, !.queries = 1, !.ask = "lifetime"]}

AllDays == ReadDays \cup RebuildDays

-----------------------------------------------------------------------------
(* The instance of Migration.                                                *)

NewEvent == [file |-> "a", profile |-> "p", projection |-> 0, origin |-> 0, retained |-> FALSE, provider |-> ""]

Blank(v) ==
    [version |-> v, objects |-> IF v \in 1..15 THEN Contract[v] ELSE {},
     sources |-> <<>>, events |-> <<>>, legacy |-> {}, snapshot |-> -1,
     revisions |-> <<>>, scans |-> <<>>, sets |-> <<>>,
     archive |-> IF v >= 6 THEN [revision |-> 0, set |-> 0, generation |-> 0, quality |-> "empty"] ELSE [none |-> TRUE],
     agg |-> IF v >= 8 THEN [schema |-> IF v = 8 THEN 1 ELSE 2, state |-> "ready", expected |-> 0,
                             active |-> 0, current |-> 0, legacy |-> 0, total |-> 0] ELSE [none |-> TRUE],
     rolled |-> {}, priced |-> {}]

\* Two files of two providers; the second was not seen by the last scan.
MigrationUsed(v) ==
    LET b == [Blank(v) EXCEPT
                !.sources = "a" :> [provider |-> "codex", profile |-> "p", scan |-> 1]
                            @@ "b" :> [provider |-> "other", profile |-> "p", scan |-> 2],
                !.events = 1 :> NewEvent @@ 2 :> [NewEvent EXCEPT !.file = "b"]
                           @@ 3 :> [NewEvent EXCEPT !.file = "gone"],
                !.scans = 1 :> [state |-> "complete", done |-> "yes", profile |-> "p", provider |-> "", set |-> 0]
                          @@ 2 :> [state |-> "running", done |-> "no", profile |-> "p", provider |-> "", set |-> 0]]
    IN b

\* Published: revision 1 is current, 2 is being staged; event 2 is retained from before.
Published(v, covered) ==
    LET u == MigrationUsed(v)
        set == IF v >= 5 /\ covered # 0 THEN covered ELSE 0
        done == set # 0 /\ u.scans[set].state = "complete"
    IN [u EXCEPT
          !.revisions = 1 :> [status |-> "current", set |-> set] @@ 2 :> [status |-> "staging", set |-> 0],
          !.events = [f \in DOMAIN @ |-> IF v < 4 THEN @[f]
                        ELSE [@[f] EXCEPT !.projection = 1, !.origin = 1, !.retained = f = 2,
                                          !.provider = IF v < 8 THEN "" ELSE
                                             IF @ = "" THEN (<<"codex", "other", "unknown">>)[f] ELSE @]],
          !.scans = IF v < 5 THEN @ ELSE [s \in DOMAIN @ |-> [@[s] EXCEPT !.set = s,
                                             !.provider = IF s = 1 THEN "codex" ELSE "other"]],
          !.sets = IF v < 5 THEN <<>> ELSE [s \in DOMAIN u.scans |-> [state |-> u.scans[s].state, scopes |-> 1]],
          !.archive = IF v < 6 THEN [none |-> TRUE] ELSE
             [revision |-> 1, set |-> IF done THEN set ELSE 0, generation |-> IF v >= 7 THEN 3 ELSE 0,
              quality |-> IF done THEN "complete" ELSE "partial"],
          !.agg = IF v < 8 THEN [none |-> TRUE] ELSE
             [schema |-> IF v = 8 THEN 1 ELSE 2, state |-> "ready", expected |-> 3, active |-> 1,
              current |-> 3, legacy |-> 0, total |-> 3],
          !.rolled = IF v < 8 THEN {} ELSE {<<"current", f>> : f \in 1..3},
          !.priced = IF v < 9 THEN {} ELSE {<<"current", f>> : f \in 1..3}]

\* Archives the steps refuse: two running scans, a row of another profile than its file,
\* an unknown version, a file that is not an archive.
TwoRunning == [MigrationUsed(3) EXCEPT !.scans[1].state = "running", !.scans[1].done = "no"]

Misfiled == [Published(4, 0) EXCEPT !.events[1].profile = "q"]

MCArchives ==
    {Blank(0), MigrationUsed(1), Blank(1), MigrationUsed(2), TwoRunning, Misfiled, Blank(16),
     [Blank(0) EXCEPT !.objects = Objects("table", 0, {"notes"})]}
    \cup {Published(v, 1) : v \in {2, 5, 6, 8, 9, 13, 14, 15}}
    \cup {Published(v, 2) : v \in {3, 4, 5, 7}}
    \cup {Published(2, 0)}

queryVars == <<queryDb, queryReader, queryAnswer, queryPages, querySeen, queryLeft>>
migrationVars == <<migrationDb, migrationConn, migrationOriginal, migrationFaults>>
allVars == <<part, queryVars, migrationVars>>

\* One component runs; the others stay in one of their initial states.
AllInit ==
    /\ part \in Parts
    /\ Queries!Init
    /\ part # "queries" => queryLeft = CHOOSE d \in Days : TRUE
    /\ Migration!Init
    /\ part # "migration" => migrationDb = CHOOSE d \in Archives : d.version = 15

AllNext ==
    \/ part = "queries" /\ Queries!Next /\ UNCHANGED <<part, migrationVars>>
    \/ part = "migration" /\ Migration!Next /\ UNCHANGED <<part, queryVars>>
    \/ part \in {"queries", "migration"} /\ UNCHANGED allVars

AllSpec == AllInit /\ [][AllNext]_allVars

\* The fairness of each component, while it is the one that runs.
FairAllSpec ==
    /\ AllSpec
    /\ \A o \in Openers : WF_migrationVars(part = "migration" /\ Migration!Step(o))

-----------------------------------------------------------------------------
\* The rollups a reader may use are exact: whatever promotions, appends and rebuild pages
\* came before, every row counts the events under its key, every event is counted once in
\* every table, and no trigger raised (schema.rs, price_schema.rs, aggregate.rs).
RollupsAreExact == part = "queries" => Queries!RollupsAreExact

\* An answer read in six transactions is about one moment, or the query fails; and the
\* pages of a listing are pages of one list, none of its rows twice or missing
\* (query/service.rs usage_analytics, query/session.rs, query.rs capture_activity_page).
AnswersAreExact == part = "queries" => Queries!AnswersAreExact

\* Whatever interrupts the steps of two connections, the archive stays a valid one of the
\* version it says it has, no usage is lost or changed, and nothing is published as
\* complete or rolled up that is not (migration.rs: migrate_schema and its steps).
UpgradeIsSafe == part = "migration" => Migration!UpgradeIsSafe

\* An archive that can be upgraded is, once crashes and failures stop: some connection
\* gets through to the current version (the loop of steps in migrate_schema).
UpgradeEnds == part = "migration" => Migration!UpgradeEnds
=============================================================================
