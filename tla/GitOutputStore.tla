--------------------------- MODULE GitOutputStore ---------------------------
(***************************************************************************)
(* What one run of Git over one repository yields (crates/git), and the    *)
(* Git tables of the usage archive it is published into.                   *)
(*                                                                         *)
(* A run of Git: the commit graph and the branch heads Git sees, the field *)
(* stream "git log" prints for them, the parser of that stream, the        *)
(* classifier of paths and the accumulator of commits, days and            *)
(* categories.  A header, a raw and a numstat entry are one element of the *)
(* stream each; line counts carry one number where the code carries added  *)
(* and removed side by side.  The graph and the mailmap are constants: a   *)
(* commit never changes, refs do.                                          *)
(***************************************************************************)
EXTENDS Integers, Sequences, FiniteSets, SequencesExt, FiniteSetsExt

CONSTANTS Commit,      \* [1..n -> commit records], parents before children
          Features,    \* [path -> set of features its name has]
          Alias,       \* [mailmap -> [author -> author]], what .mailmap says
          ShallowCut,  \* the commits a shallow clone does not hold
          MaxDays,     \* MAX_GIT_OUTPUT_DAYS
          MaxPaths,    \* MAX_GIT_PATHS_PER_COMMIT
          MaxRepositories, MaxAssociations

None == [none |-> TRUE]

NoCommit == 0

\* The eight output categories.
Categories == {"vendor", "schema", "test", "docs", "config", "asset",
               "code", "other"}

Order == <<"vendor", "schema", "test", "docs", "config", "asset", "code">>

\* classify_destination_path: the first rule of the fixed order that fits.
Classify(path) ==
    IF \E i \in 1..Len(Order) : Order[i] \in Features[path]
    THEN Order[CHOOSE i \in 1..Len(Order) :
                 /\ Order[i] \in Features[path]
                 /\ \A j \in 1..(i - 1) : Order[j] \notin Features[path]]
    ELSE "other"

(***************************************************************************)
(* Git itself (external): ancestry, and what "git log" prints.             *)
(***************************************************************************)
Ancestors[c \in DOMAIN Commit] ==
    {c} \cup UNION {Ancestors[p] : p \in Range(Commit[c].parents)}

\* The heads of a refs function, which maps a branch to a commit or NoCommit.
Heads(refs) == {refs[b] : b \in DOMAIN refs} \ {NoCommit}

Reachable(refs, shallow) ==
    UNION {Ancestors[h] : h \in Heads(refs)} \ (IF shallow THEN ShallowCut ELSE {})

\* merge-base --is-ancestor
IsAncestor(old, new) == old \in Ancestors[new]

RawEntry(p) == [f |-> "raw", submodule |-> p.kind = "submodule",
                paths |-> IF p.renamed THEN <<p.from, p.path>> ELSE <<p.path>>]

\* The "-" numstat prints instead of a count.
Dash == -1

NumEntry(p) == [f |-> "num", v |-> IF p.kind = "binary" THEN Dash ELSE p.lines,
                paths |-> IF p.renamed THEN <<p.from, p.path>> ELSE <<p.path>>]

\* "%x1e%H%x00%at%x00%ae%x00%aE%x00%P%x00" then raw entries, then numstat and a last
\* NUL; --diff-merges=off leaves a merge without entries.
Printed(c, mailmap) ==
    LET paths == IF Len(Commit[c].parents) > 1 THEN <<>> ELSE Commit[c].paths
    IN <<[f |-> "header", day |-> Commit[c].day, author |-> Commit[c].author,
          canonical |-> Alias[mailmap][Commit[c].author], parents |-> Commit[c].parents]>>
       \o [i \in 1..Len(paths) |-> RawEntry(paths[i])]
       \o [i \in 1..Len(paths) |-> NumEntry(paths[i])]
       \o IF paths = <<>> THEN <<>> ELSE <<[f |-> "nul"]>>

\* The stream for a set of commits, children before parents.
LogOf(commits, mailmap) ==
    LET n    == Cardinality(commits)
        line == [i \in 1..n |-> CHOOSE c \in commits :
                                  Cardinality({d \in commits : d > c}) = i - 1]
    IN FlattenSeq([i \in 1..n |-> Printed(line[i], mailmap)])

(***************************************************************************)
(* GitScanAccumulator: totals over all commits, rows for the newest days.  *)
(***************************************************************************)
NoLines == [k \in Categories |-> 0]

Plus(a, b) == [k \in Categories |-> a[k] + b[k]]

Lines(cats) == MapThenSumSet(LAMBDA k : cats[k], Categories)

NewSummary == [commits |-> 0, merges |-> 0, lines |-> 0, cats |-> NoLines,
               binary |-> 0, submodules |-> 0, days |-> <<>>, truncated |-> FALSE]

NoDay == [commits |-> 0, merges |-> 0, lines |-> 0, cats |-> NoLines]

AddToDay(days, c) ==
    LET old == IF c.day \in DOMAIN days THEN days[c.day] ELSE NoDay
    IN [d \in DOMAIN days \cup {c.day} |->
          IF d # c.day THEN days[d]
          ELSE [commits |-> old.commits + 1,
                merges  |-> old.merges + IF c.merge THEN 1 ELSE 0,
                lines   |-> old.lines + Lines(c.cats),
                cats    |-> Plus(old.cats, c.cats)]]

\* record_day: MaxDays rows are kept; a new day displaces the oldest row unless
\* it is older still.
RecordDay(s, c) ==
    LET full   == c.day \notin DOMAIN s.days /\ Cardinality(DOMAIN s.days) = MaxDays
        oldest == CHOOSE d \in DOMAIN s.days : \A e \in DOMAIN s.days : d <= e
        kept   == [d \in DOMAIN s.days \ {oldest} |-> s.days[d]]
    IN IF ~full THEN [s EXCEPT !.days = AddToDay(@, c)]
       ELSE IF c.day <= oldest THEN [s EXCEPT !.truncated = TRUE]
       ELSE [s EXCEPT !.truncated = TRUE, !.days = AddToDay(kept, c)]

\* push: a finished commit goes into the totals and into its day.
Push(s, c) ==
    RecordDay([s EXCEPT !.commits = @ + 1, !.merges = @ + IF c.merge THEN 1 ELSE 0,
                        !.lines = @ + Lines(c.cats), !.cats = Plus(@, c.cats),
                        !.binary = @ + c.binary, !.submodules = @ + c.submodules], c)

(***************************************************************************)
(* GitLogStreamParser: a state machine over the entries of the stream.     *)
(***************************************************************************)
NewParser == [state |-> "separator", current |-> None, sink |-> NewSummary]

Failed(p) == [p EXCEPT !.state = "failed", !.current = None]

\* finish_current: raw and numstat entries pair up, and a commit of a selected
\* author is emitted.
FinishCurrent(p) ==
    IF p.current.counted # Len(p.current.raws) THEN Failed(p)
    ELSE [p EXCEPT !.state = "separator", !.current = None,
                   !.sink = IF p.current.selected THEN Push(@, p.current) ELSE @]

\* The author is selected by the name in the commit or by its mailmap alias.
Selected(h, author) == h.author = author \/ h.canonical = author

\* HeaderObjectId .. HeaderParents: the header opens a commit.
HeaderStep(p, h, author) ==
    [p EXCEPT !.state = "body",
              !.current = [day |-> h.day, merge |-> Len(h.parents) > 1,
                           selected |-> Selected(h, author), cats |-> NoLines,
                           binary |-> 0, submodules |-> 0,
                           raws |-> <<>>, counted |-> 0, closed |-> FALSE]]

\* RawMetadata .. finish_raw_path: the destination is the last path of the entry.
FinishRawPath(p, entry) ==
    IF p.current.closed \/ Len(p.current.raws) = MaxPaths THEN Failed(p)
    ELSE [p EXCEPT !.current.raws = Append(@, [path |-> Last(entry.paths),
                                               submodule |-> entry.submodule])]

\* GitCommitAccumulator::record
RecordPath(c, path, kind, lines) ==
    CASE kind = "text"      -> [c EXCEPT !.cats[Classify(path)] = @ + lines]
      [] kind = "binary"    -> [c EXCEPT !.binary = @ + 1]
      [] kind = "submodule" -> [c EXCEPT !.submodules = @ + 1]

\* finish_numstat_path: the entry must name the path its raw entry named.
FinishNumstatPath(p, entry) ==
    LET at   == p.current.counted + 1
        raw  == p.current.raws[at]
        kind == IF raw.submodule THEN "submodule"
                ELSE IF entry.v = Dash THEN "binary" ELSE "text"
    IN IF \/ p.current.closed
          \/ at > Len(p.current.raws)
          \/ raw.path # Last(entry.paths)
          \/ p.current.selected /\ p.current.merge
       THEN Failed(p)
       ELSE [p EXCEPT !.current = [RecordPath(@, raw.path, kind, entry.v) EXCEPT !.counted = at]]

\* A NUL where an entry could start closes the commit.
CloseBody(p) ==
    IF p.current.closed \/ p.current.counted # Len(p.current.raws) THEN Failed(p)
    ELSE [p EXCEPT !.current.closed = TRUE]

\* push_byte, one entry at a time.
ParseStep(p, entry, author) ==
    CASE p.state = "failed" -> p
      [] p.state = "separator" ->
           IF entry.f = "header" THEN HeaderStep(p, entry, author) ELSE Failed(p)
      [] OTHER ->
           CASE entry.f = "header" ->
                  LET q == FinishCurrent(p)
                  IN IF q.state = "failed" THEN q ELSE HeaderStep(q, entry, author)
             [] entry.f = "raw" -> FinishRawPath(p, entry)
             [] entry.f = "num" -> FinishNumstatPath(p, entry)
             [] entry.f = "nul" -> CloseBody(p)

\* finish: only between entries.
Finish(p) == IF p.state = "body" THEN FinishCurrent(p) ELSE p

\* scan_log: the whole stream through parser and accumulator; None is an error.
ScanLog(fields, author) ==
    LET after[i \in 0..Len(fields)] ==
            IF i = 0 THEN NewParser ELSE ParseStep(after[i - 1], fields[i], author)
        end == Finish(after[Len(fields)])
    IN IF end.state = "failed" THEN None ELSE end.sink

Authors == UNION {{Commit[c].author, Alias[m][Commit[c].author]} :
                    c \in DOMAIN Commit, m \in DOMAIN Alias}

\* The summary of every set of commits under every mailmap and author.
Summary == [s \in SUBSET DOMAIN Commit, m \in DOMAIN Alias, a \in Authors |->
              ScanLog(LogOf(s, m), a)]

\* What a commit changes in a category, read off the graph: the reference its counts are
\* compared with.
Changed == [c \in DOMAIN Commit, k \in Categories |->
    LET p == Commit[c].paths
    IN IF Len(Commit[c].parents) > 1 THEN 0
       ELSE MapThenSumSet(LAMBDA i : IF p[i].kind = "text" /\ Classify(p[i].path) = k
                                     THEN p[i].lines ELSE 0, DOMAIN p)]

-----------------------------------------------------------------------------
(***************************************************************************)
(* The Git tables (store/usage/git_*.rs) and the four publications into    *)
(* them, each one transaction.  A database is                              *)
(*   repos  repository -> its row, or None                                 *)
(*   aggs   repository -> generation -> its aggregate rows                 *)
(*   assoc  session -> [repo, project, last], or None                      *)
(*   revision, the installation's publication counter.                     *)
(* Fingerprints are the values they are taken of.  An operation returns    *)
(* [db, code, rev]; code "ok" or the store's error, db unchanged on error. *)
(***************************************************************************)
NoProject == "none"

Refused(db, code) == [db |-> db, code |-> code, rev |-> 0]

EmptyAggregate == [days |-> <<>>, cats |-> NoLines, warnings |-> {}]

\* projection_warnings
Warnings(shallow, summary) ==
    (IF shallow THEN {"shallow"} ELSE {})
    \cup (IF summary.binary > 0 THEN {"binary"} ELSE {})
    \cup (IF summary.submodules > 0 THEN {"submodule"} ELSE {})
    \cup (IF summary.truncated THEN {"truncated"} ELSE {})

\* GitProjectionInput::new with what publish hands it.
Projection(repo, session, project, activity, observed, cache, summary) ==
    LET warnings == Warnings(cache.shallow, summary)
    IN [repo |-> repo, session |-> session, project |-> project, activity |-> activity,
        observed |-> observed, cache |-> cache, summary |-> summary, warnings |-> warnings,
        quality |-> IF warnings = {} THEN "complete" ELSE "partial"]

\* The projection publish_unavailable hands to the store: no data at all.
UnavailableProjection(repo, session, project, activity, observed) ==
    [repo |-> repo, session |-> session, project |-> project, activity |-> activity,
     observed |-> observed, cache |-> None, summary |-> NewSummary, warnings |-> {},
     quality |-> "unavailable"]

\* ensure_association_capacity and upsert_association_values: a session stays with
\* the repository it was first associated with.
Associated(db, input) ==
    LET old == db.assoc[input.session]
        all == {s \in DOMAIN db.assoc : db.assoc[s] # None}
    IN IF old = None
       THEN IF Cardinality(all) = MaxAssociations THEN Refused(db, "capacity")
            ELSE [db |-> [db EXCEPT !.assoc[input.session] =
                            [repo |-> input.repo, project |-> input.project,
                             last |-> input.activity]], code |-> "ok", rev |-> 0]
       ELSE IF old.repo # input.repo THEN Refused(db, "stale")
       ELSE [db |-> [db EXCEPT !.assoc[input.session].project = input.project,
                               !.assoc[input.session].last =
                                  IF input.activity > @ THEN input.activity ELSE @],
             code |-> "ok", rev |-> 0]

\* The end of a publication: the association is written, the old generation deleted
\* and the publication counter advanced, or nothing is.
Committed(db, written, input, row) ==
    LET joined == Associated(written, input)
    IN IF joined.code # "ok" THEN Refused(db, joined.code)
       ELSE [db |-> [joined.db EXCEPT !.revision = @ + 1], code |-> "ok", rev |-> row.rev]

\* write_repository
RebuiltRow(old, input) ==
    [gen |-> IF old = None THEN 1 ELSE old.gen + 1,
     rev |-> IF old = None THEN 1 ELSE old.rev + 1,
     cache |-> input.cache, observed |-> input.observed,
     quality |-> input.quality, state |-> "ready",
     commits |-> input.summary.commits, merges |-> input.summary.merges,
     lines |-> input.summary.lines, binary |-> input.summary.binary,
     submodules |-> input.summary.submodules]

\* write_aggregates
RebuiltAggregate(input) ==
    [days |-> input.summary.days, cats |-> input.summary.cats, warnings |-> input.warnings]

\* The row and the only generation of a repository.
Replaced(db, repo, row, agg) ==
    [db EXCEPT !.repos[repo] = row, !.aggs[repo] = (row.gen :> agg)]

\* publish_git_rebuild
PublishRebuild(db, input) ==
    LET old == db.repos[input.repo]
        row == RebuiltRow(old, input)
    IN IF old = None /\ Cardinality({r \in DOMAIN db.repos : db.repos[r] # None}) = MaxRepositories
       THEN Refused(db, "capacity")
       ELSE IF old # None /\ input.observed <= old.observed THEN Refused(db, "stale")
       ELSE Committed(db, Replaced(db, input.repo, row, RebuiltAggregate(input)), input, row)

\* validate_incremental_authority: the row is the one the frontier was published as.
Authority(row, authority) ==
    row.rev = authority.rev /\ row.cache # None /\ row.cache.refs = authority.refs

\* cache_compatible_for_append
CacheCompatible(a, b) ==
    a.mailmap = b.mailmap /\ a.author = b.author /\ a.shallow = b.shallow

\* prune_oldest_days: the MaxDays newest rows stay.
Pruned(days) ==
    LET rank(d) == Cardinality({e \in DOMAIN days : e > d})
    IN [d \in {e \in DOMAIN days : rank(e) < MaxDays} |-> days[d]]

MergedDay(a, b) == [commits |-> a.commits + b.commits, merges |-> a.merges + b.merges,
                    lines |-> a.lines + b.lines, cats |-> Plus(a.cats, b.cats)]

\* copy_generation and merge_delta_aggregates: the old rows plus the delta.
MergedAggregate(old, delta, warnings) ==
    LET days == [d \in DOMAIN old.days \cup DOMAIN delta.days |->
                   IF d \notin DOMAIN old.days THEN delta.days[d]
                   ELSE IF d \notin DOMAIN delta.days THEN old.days[d]
                   ELSE MergedDay(old.days[d], delta.days[d])]
        kept == Pruned(days)
    IN [days |-> kept, cats |-> Plus(old.cats, delta.cats),
        warnings |-> old.warnings \cup warnings
                     \cup IF DOMAIN kept # DOMAIN days THEN {"truncated"} ELSE {}]

\* write_appended_repository
AppendedRow(old, agg, input) ==
    [old EXCEPT !.gen = @ + 1, !.rev = @ + 1, !.cache = input.cache, !.observed = input.observed,
                !.quality = IF agg.warnings = {} /\ @ = "complete" THEN "complete" ELSE "partial",
                !.commits = @ + input.summary.commits, !.merges = @ + input.summary.merges,
                !.lines = @ + input.summary.lines, !.binary = @ + input.summary.binary,
                !.submodules = @ + input.summary.submodules]

\* publish_git_append
PublishAppend(db, authority, input) ==
    LET old == db.repos[input.repo]
        agg == MergedAggregate(db.aggs[input.repo][old.gen], input.summary, input.warnings)
        row == AppendedRow(old, agg, input)
    IN IF old = None THEN Refused(db, "stale")
       ELSE IF old.cache = None THEN Refused(db, "rebuild")
       ELSE IF ~Authority(old, authority) THEN Refused(db, "stale")
       ELSE IF \/ old.state # "ready"
               \/ input.observed <= old.observed
               \/ input.cache.refs = old.cache.refs
               \/ ~CacheCompatible(input.cache, old.cache)
       THEN Refused(db, "rebuild")
       ELSE Committed(db, Replaced(db, input.repo, row, agg), input, row)

\* refresh_git_unchanged
RefreshUnchanged(db, authority, input) ==
    LET old == db.repos[input.repo]
        row == [old EXCEPT !.rev = @ + 1, !.observed = input.observed]
    IN IF old = None THEN Refused(db, "stale")
       ELSE IF old.cache = None THEN Refused(db, "rebuild")
       ELSE IF \/ ~Authority(old, authority)
               \/ old.state # "ready"
               \/ input.observed <= old.observed
               \/ input.cache.refs # old.cache.refs
               \/ ~CacheCompatible(input.cache, old.cache)
       THEN Refused(db, "stale")
       ELSE Committed(db, [db EXCEPT !.repos[input.repo] = row], input, row)

\* mark_git_rebuild_required: the data stays, the state says it is behind.
MarkRebuildRequired(db, authority, detected) ==
    LET old == db.repos[authority.repo]
    IN IF old = None THEN Refused(db, "stale")
       ELSE IF old.cache = None THEN Refused(db, "rebuild")
       ELSE IF ~Authority(old, authority) \/ old.state # "ready" \/ detected <= old.observed
       THEN Refused(db, "stale")
       ELSE [db |-> [db EXCEPT !.repos[authority.repo].rev = @ + 1,
                               !.repos[authority.repo].state = "rebuild_required",
                               !.revision = @ + 1],
             code |-> "ok", rev |-> old.rev + 1]

(***************************************************************************)
(* Reading the Git tables: the capture of a range of days and of the       *)
(* projects it names (store/usage/git_query.rs), what the query layer      *)
(* makes of it together with the usage of the same range                   *)
(* (query/git_output.rs, git_output in query/service.rs), and the          *)
(* validation every open runs over the tables (validate_git_state).        *)
(* What the usage side answers is a record: failed, the error it stopped   *)
(* with or "none"; complete and at, the quality and time of its data;      *)
(* projects, the project rows in the order of the breakdown; cost, their   *)
(* costs, NoCost for one that cannot be told.                              *)
(***************************************************************************)
CONSTANTS IdOrder,             \* the repositories in the order of their identifiers
          FreshFor, StaleFor   \* QUERY_FRESH_MAX_AGE_MS, QUERY_STALE_MIN_AGE_MS

NoCost == -1

\* sum_days
SumDays(agg, days) ==
    [what \in {"commits", "merges", "lines"} |->
        MapThenSumSet(LAMBDA d : agg.days[d][what], days)]

SessionsOf(db, repo) == {s \in DOMAIN db.assoc : db.assoc[s] # None /\ db.assoc[s].repo = repo}

\* read_association: one project, or none when the sessions disagree.
ProjectOf(db, repo) ==
    LET projects == {db.assoc[s].project : s \in SessionsOf(db, repo)}
    IN IF Cardinality(projects) = 1 /\ NoProject \notin projects
       THEN CHOOSE p \in projects : TRUE ELSE NoProject

\* read_retained_from_day
RetainedFrom(agg) ==
    IF DOMAIN agg.days = {} THEN None
    ELSE [day |-> CHOOSE d \in DOMAIN agg.days : \A e \in DOMAIN agg.days : d <= e]

\* range_complete: nothing that the range covers was pruned.
RangeComplete(row, agg, start) ==
    /\ row.quality # "unavailable"
    /\ \/ "truncated" \notin agg.warnings
       \/ RetainedFrom(agg) # None /\ start >= RetainedFrom(agg).day

\* read_days: the day rows of the range, of the active generation
DaysIn(agg, start, end) == {d \in DOMAIN agg.days : start <= d /\ d <= end}

\* read_range_categories
RangeCategories(agg, days) == [k \in Categories |-> MapThenSumSet(LAMBDA d : agg.days[d].cats[k], days)]

\* The checks capture_repository makes before it answers (InvalidStoredValue).
Coherent(db, repo, start, end) ==
    LET row  == db.repos[repo]
        agg  == db.aggs[repo][row.gen]
        days == DaysIn(agg, start, end)
    IN /\ SessionsOf(db, repo) # {}
       /\ Lines(RangeCategories(agg, days)) = SumDays(agg, days).lines
       /\ row.quality # "unavailable" => Lines(agg.cats) = row.lines
       /\ row.quality = "complete" => agg.warnings = {}
       /\ row.quality = "partial" => agg.warnings # {}
       /\ row.quality = "unavailable" => agg = EmptyAggregate

\* capture_repository: the rows of the days asked for, their sums, and how far they
\* can be relied on.
Capture(db, repo, start, end) ==
    LET row  == db.repos[repo]
        agg  == db.aggs[repo][row.gen]
        days == DaysIn(agg, start, end)
        lone == ProjectOf(db, repo)
        open == lone = NoProject /\ row.quality # "unavailable"
    IN [repo     |-> repo, observed |-> row.observed,
        complete |-> RangeComplete(row, agg, start),
        commits  |-> SumDays(agg, days).commits,
        lines    |-> SumDays(agg, days).lines,
        cats     |-> RangeCategories(agg, days),
        project  |-> lone,
        warnings |-> agg.warnings
                     \cup (IF row.state = "rebuild_required" THEN {"rebuild"} ELSE {})
                     \cup (IF open THEN {"association"} ELSE {}),
        quality  |-> IF row.state = "rebuild_required" \/ open THEN "partial" ELSE row.quality]

\* capture_repositories: the first max repositories; one more is read and checked to
\* tell whether there are more.
CaptureRepositories(db, start, end, max) ==
    LET all  == SelectSeq(IdOrder, LAMBDA r : db.repos[r] # None)
        read == SubSeq(all, 1, IF Len(all) > max THEN max + 1 ELSE Len(all))
        kept == IF Len(read) > max THEN max ELSE Len(read)
    IN IF \E i \in 1..Len(read) : ~Coherent(db, read[i], start, end)
       THEN [code |-> "invalid_stored"]
       ELSE [code |-> "ok", more |-> Len(read) > max,
             rows |-> [i \in 1..kept |-> Capture(db, read[i], start, end)]]

\* capture_git_project_matches: for each key the place of the project it was made of,
\* or 0.
ProjectMatches(keys, projects) ==
    [i \in 1..Len(keys) |->
        IF \E j \in 1..Len(projects) : projects[j] = keys[i]
        THEN CHOOSE j \in 1..Len(projects) : projects[j] = keys[i] ELSE 0]

Keyed(rows) == SelectSeq(rows, LAMBDA c : c.project # NoProject)

\* freshness
Freshness(now, at) ==
    CASE now < at                                     -> "unavailable"
      [] now >= at /\ now <= at + FreshFor            -> "fresh"
      [] now > at + FreshFor /\ now <= at + StaleFor  -> "aging"
      [] OTHER                                        -> "stale"

\* efficiency: cost per hundred added lines of product code, rounded to nearest, or
\* the first reason there is none.
Efficiency(c, now, usage, place) ==
    LET lines == c.cats["code"]
        cost  == usage.cost[usage.projects[place]]
        old(at) == Freshness(now, at) \in {"stale", "unavailable"}
        no(why) == [reason |-> why, value |-> 0]
    IN IF ~c.complete THEN no("range incomplete")
       ELSE IF c.quality # "complete" THEN no("quality incomplete")
       ELSE IF c.project = NoProject THEN no("no association")
       ELSE IF lines = 0 THEN no("no code lines")
       ELSE IF old(c.observed) THEN no("git stale")
       ELSE IF usage.failed # "none" THEN no(usage.failed)
       ELSE IF place = 0 THEN no("project not in usage")
       ELSE IF ~usage.complete THEN no("usage incomplete")
       ELSE IF old(usage.at) THEN no("usage stale")
       ELSE IF cost = NoCost THEN no("usage cost unavailable")
       ELSE [reason |-> "none", value |-> (cost * 100 + lines \div 2) \div lines]

\* map_snapshot and map_repository: the matches are handed out in order to the
\* repositories that have a project.
MapSnapshot(rows, now, usage) ==
    LET found == ProjectMatches([i \in 1..Len(Keyed(rows)) |-> Keyed(rows)[i].project], usage.projects)
        place(i) == IF usage.failed # "none" \/ rows[i].project = NoProject THEN 0
                    ELSE found[Len(Keyed(SubSeq(rows, 1, i)))]
    IN [i \in 1..Len(rows) |->
          [capture    |-> rows[i],
           freshness  |-> Freshness(now, rows[i].observed),
           alias      |-> IF place(i) = 0 THEN NoProject ELSE usage.projects[place(i)],
           efficiency |-> Efficiency(rows[i], now, usage, place(i))]]

\* git_output: a usage side that failed leaves the Git side as it is, with the reason
\* in place of every cost.
GitOutput(db, start, end, max, now, usage) ==
    LET c == CaptureRepositories(db, start, end, max)
    IN IF c.code # "ok" THEN c
       ELSE [code |-> "ok", more |-> c.more, rows |-> MapSnapshot(c.rows, now, usage)]

\* validate_git_state: what every open requires of the tables.  The rows of a
\* generation other than the active one would be there beside it.
ValidGit(db) ==
    \A r \in {x \in DOMAIN db.repos : db.repos[x] # None} :
        LET row == db.repos[r]
            agg == db.aggs[r][row.gen]
            all == SumDays(agg, DOMAIN agg.days)
        IN /\ DOMAIN db.aggs[r] = {row.gen}
           /\ SessionsOf(db, r) # {}
           /\ row.quality = "unavailable" => agg = EmptyAggregate
           /\ row.quality # "unavailable" =>
                /\ Cardinality(DOMAIN agg.days) <= MaxDays
                /\ \A what \in DOMAIN all : all[what] <= row[what]
                /\ "truncated" \in agg.warnings <=>
                      \E what \in DOMAIN all : all[what] # row[what]
                /\ Lines(agg.cats) = row.lines
                /\ \A d \in DOMAIN agg.days : Lines(agg.days[d].cats) = agg.days[d].lines
                /\ row.cache.shallow <=> "shallow" \in agg.warnings
           /\ row.quality = "complete" => agg.warnings = {}
           /\ row.quality = "partial" => agg.warnings # {}
           /\ row.binary > 0 <=> "binary" \in agg.warnings
           /\ row.submodules > 0 <=> "submodule" \in agg.warnings
=============================================================================
