----------------------------- MODULE GitRuntime -----------------------------
(***************************************************************************)
(* The Git runtime (crates/runtime/src/git) over the scans and the tables  *)
(* of GitOutputStore: hints of active sessions name candidate              *)
(* paths, a scheduler and a worker (modelled in detail elsewhere, here one *)
(* due flag and one permit with its follow-up) run attempts that scan every*)
(* hinted candidate and publish the results, while the user commits,       *)
(* rewrites and reconfigures the repositories between any two calls of Git.*)
(* world is where each repository is in its script of states; wrong and    *)
(* the fresh flag of a work item are history variables.                    *)
(***************************************************************************)
EXTENDS GitOutputStore

CONSTANTS Repo, RepoOf,      \* repositories, and the repository of each path
          Hints,             \* [path, session, project, activity] records
          Scripts,           \* script -> repository -> sequence of states
          Days,              \* the budgets a behaviour may start with
          MaxSlots,          \* MAX_GIT_RUNTIME_REPOSITORIES
          MaxHeads,          \* heads that fit in an incremental command line
          Usage,             \* what the usage side answers (see GitOutputStore)
          LastTime, FirstDay, LastDay

VARIABLES world, hints, phase, due, pending, att, db, wall, left, wrong

vars == <<world, hints, phase, due, pending, att, db, wall, left, wrong>>

Sessions == {h.session : h \in Hints}

Idle == [stage |-> "idle", items |-> <<>>, at |-> 1, seen |-> None, kind |-> "none",
         summary |-> None, staged |-> <<>>, cancelled |-> FALSE]

NewHints == [accepting |-> TRUE, seq |-> 0, slots |-> <<>>, dropped |-> 0]

\* start_with_notifier, after the archive was opened for the identity salt.
Init ==
    /\ left \in Days
    /\ world = [r \in Repo |-> 1]
    /\ hints = NewHints
    /\ phase = "Running" /\ due = FALSE /\ pending = FALSE /\ att = Idle
    /\ db = [repos |-> [r \in Repo |-> None], aggs |-> [r \in Repo |-> <<>>],
             assoc |-> [s \in Sessions |-> None], revision |-> 0]
    /\ wall = 1 /\ wrong = FALSE

Spend(what) == left[what] > 0 /\ left' = [left EXCEPT ![what] = @ - 1]

Script(r) == Scripts[left.script][r]

Now(r) == Script(r)[world[r]]

\* The user changes a repository: the next state of its script.
Change(r) ==
    /\ world[r] < Len(Script(r))
    /\ world' = [world EXCEPT ![r] = @ + 1]
    /\ UNCHANGED <<hints, phase, due, pending, att, db, wall, left, wrong>>

\* The clock, where it is read: it has moved past the last observation or not yet.
Tick ==
    /\ wall < LastTime /\ att.stage = "publish"
    /\ \E r \in Repo : db.repos[r] # None /\ db.repos[r].observed = wall
    /\ wall' = wall + 1
    /\ UNCHANGED <<world, hints, phase, due, pending, att, db, left, wrong>>

(***************************************************************************)
(* Hints and the scheduler.                                                *)
(***************************************************************************)
\* The hints lock is held from the first to the last publication of an attempt.
Unlocked == att.stage # "publish"

\* The items of the running attempt that a newer hint or an invalidation outdates.
Outdated(paths) ==
    [att EXCEPT !.items = [i \in DOMAIN @ |->
        [@[i] EXCEPT !.fresh = @ /\ att.items[i].hint.path \notin paths]]]

SlotOf(slots, path) == {i \in DOMAIN slots : slots[i].hint.path = path}

\* GitRepositoryHintIngress::submit: one slot per path, newest last, and its frontier
\* survives the newer hint; the oldest slot makes room.
SubmitHint(h) ==
    LET old  == SlotOf(hints.slots, h.path)
        kept == SelectSeq(hints.slots, LAMBDA s : s.hint.path # h.path)
        full == old = {} /\ Len(hints.slots) = MaxSlots
        slot == [hint |-> h, seq |-> hints.seq + 1,
                 frontier |-> IF old = {} THEN None
                              ELSE hints.slots[CHOOSE i \in old : TRUE].frontier]
    IN /\ Spend("hint") /\ h.path \in left.paths
       /\ Unlocked /\ hints.accepting
       /\ hints' = [hints EXCEPT !.seq = @ + 1, !.dropped = IF full THEN @ + 1 ELSE @,
                                 !.slots = Append(IF full THEN Tail(kept) ELSE kept, slot)]
       /\ att' = Outdated({h.path})
       /\ due' = TRUE
       /\ UNCHANGED <<world, phase, pending, db, wall, wrong>>

\* A periodic poll, or refresh_now.
Poll ==
    /\ Spend("poll")
    /\ phase = "Running" /\ ~due
    /\ due' = TRUE
    /\ UNCHANGED <<world, hints, phase, pending, att, db, wall, wrong>>

\* The scheduler's callback: submit unless admission is closed.
Submit ==
    /\ due /\ phase = "Running"
    /\ due' = FALSE /\ pending' = TRUE
    /\ UNCHANGED <<world, hints, phase, att, db, wall, left, wrong>>

(***************************************************************************)
(* An attempt.                                                             *)
(***************************************************************************)
\* snapshot_work, and resolve_executable failing ends the attempt at once.
Begin ==
    /\ pending /\ att.stage = "idle" /\ phase # "Stopped"
    /\ pending' = FALSE
    /\ IF hints.accepting /\ hints.slots # <<>>
       THEN \/ /\ att' = [Idle EXCEPT !.stage = "item",
                            !.items = [i \in DOMAIN hints.slots |->
                               [hint |-> hints.slots[i].hint, seq |-> hints.slots[i].seq,
                                previous |-> hints.slots[i].frontier, fresh |-> TRUE]]]
               /\ UNCHANGED left
            \/ Spend("fault") /\ UNCHANGED att
       ELSE UNCHANGED <<att, left>>
    /\ UNCHANGED <<world, hints, phase, due, db, wall, wrong>>

Item == att.items[att.at]

Where == RepoOf[Item.hint.path]

\* inspect: identity, author, refs and mailmap of the candidate, as they are now.
Inspect(r) ==
    LET n == Now(r)
    IN [repo |-> r, refs |-> n.refs, author |-> n.author, mailmap |-> n.mailmap,
        shallow |-> n.shallow]

\* A scan result is set aside and the loop goes on.
Staged(result) == [att EXCEPT !.stage = "item", !.at = @ + 1, !.seen = None,
                              !.summary = None, !.kind = "none",
                              !.staged = Append(@, result)]

Skipped == [att EXCEPT !.stage = "item", !.at = @ + 1, !.seen = None, !.summary = None,
                       !.kind = "none"]

\* refresh failed: the repository is published as unavailable if it can still be
\* identified, and skipped otherwise.
Unable ==
    \/ Now(Where).present /\ att' = Staged([kind |-> "unavailable", item |-> Item,
                                            repo |-> Where])
    \/ att' = Skipped

NoAuthor == "nobody"

\* is_compatible_with
Compatible(a, b) == [a EXCEPT !.refs = b.refs] = b

\* is_append_only: every old branch is there and has only grown.
AppendOnly(old, new) ==
    \A b \in DOMAIN old : old[b] # NoCommit =>
        new[b] # NoCommit /\ IsAncestor(old[b], new[b])

\* refresh, up to the log: what kind of scan this will be.
KindFor(previous, f) ==
    IF previous = None \/ ~Compatible(previous.frontier, f) THEN "rebuild"
    ELSE IF previous.frontier.refs = f.refs THEN "unchanged"
    ELSE IF /\ ~f.shallow
            /\ AppendOnly(previous.frontier.refs, f.refs)
            /\ Cardinality(Heads(previous.frontier.refs)) <= MaxHeads
    THEN "append" ELSE "rebuild"

\* The permit was cancelled: the running Git is stopped and the attempt ends.
Cancelled ==
    /\ att.stage \in {"item", "log", "again"}
    /\ att.cancelled
    /\ att' = Idle
    /\ UNCHANGED <<world, hints, phase, due, pending, db, wall, left, wrong>>

\* The first inspection of a candidate.
InspectFirst ==
    LET f == Inspect(Where)
        k == KindFor(Item.previous, f)
    IN /\ att.stage = "item" /\ att.at <= Len(att.items) /\ ~att.cancelled
       /\ \/ ~Now(Where).present /\ att' = Skipped /\ UNCHANGED left
          \/ Now(Where).present /\ Now(Where).author = NoAuthor /\ Unable /\ UNCHANGED left
          \/ Spend("fault") /\ Unable
          \/ /\ Now(Where).present /\ Now(Where).author # NoAuthor
             /\ att' = IF k = "unchanged"
                       THEN Staged([kind |-> k, item |-> Item, frontier |-> f,
                                    summary |-> NewSummary])
                       ELSE [att EXCEPT !.stage = "log", !.seen = f, !.kind = k]
             /\ UNCHANGED left
       /\ UNCHANGED <<world, hints, phase, due, pending, db, wall, wrong>>

\* scan_history: git log over the branches as they are by now, without what the old
\* heads reach when the scan is incremental.
Log ==
    LET n    == Now(Where)
        all  == Reachable(n.refs, n.shallow)
        done == IF att.kind = "append" THEN Reachable(Item.previous.frontier.refs, FALSE) ELSE {}
        sum  == IF Heads(att.seen.refs) = {} THEN NewSummary
                ELSE Summary[all \ done, n.mailmap, att.seen.author]
    IN /\ att.stage = "log" /\ ~att.cancelled
       /\ \/ n.present /\ sum # None /\ UNCHANGED left
             /\ att' = [att EXCEPT !.stage = "again", !.summary = sum]
          \/ (~n.present \/ sum = None) /\ Unable /\ UNCHANGED left
          \/ Spend("fault") /\ Unable
       /\ UNCHANGED <<world, hints, phase, due, pending, db, wall, wrong>>

\* Mutant: the history is not inspected again.
SettledAlways(seen, now) == TRUE

\* The frontier after the log equals the frontier before it.
Settled(seen, now) == seen = now

\* The second inspection.
InspectAgain ==
    /\ att.stage = "again" /\ ~att.cancelled
    /\ IF Now(Where).present /\ Settled(att.seen, Inspect(Where))
       THEN att' = Staged([kind |-> att.kind, item |-> Item, frontier |-> att.seen,
                           summary |-> att.summary])
       ELSE Unable
    /\ UNCHANGED <<world, hints, phase, due, pending, db, wall, left, wrong>>

\* Nothing staged, the lease busy or the archive closed end the attempt; otherwise the
\* hints are locked and looked at once more.
Lease ==
    /\ att.stage = "item" /\ att.at > Len(att.items) /\ ~att.cancelled
    /\ \/ att.staged = <<>> /\ att' = Idle /\ UNCHANGED left
       \/ att.staged # <<>> /\ Spend("busy") /\ att' = Idle
       \/ /\ att.staged # <<>>
          /\ att' = IF hints.accepting THEN [att EXCEPT !.stage = "publish", !.at = 1] ELSE Idle
          /\ UNCHANGED left
    /\ UNCHANGED <<world, hints, phase, due, pending, db, wall, wrong>>

Later(a, b) == IF a > b THEN a ELSE b

AuthorityOf(previous) == [repo |-> previous.frontier.repo, rev |-> previous.rev,
                          refs |-> previous.frontier.refs]

CacheOf(f) == [refs |-> f.refs, author |-> f.author, mailmap |-> f.mailmap,
               shallow |-> f.shallow]

\* publish
PublishResult(s) ==
    LET h     == s.item.hint
        input == Projection(s.frontier.repo, h.session, h.project, h.activity,
                            Later(wall, h.activity), CacheOf(s.frontier), s.summary)
    IN CASE s.kind = "rebuild"   -> PublishRebuild(db, input)
         [] s.kind = "append"    -> PublishAppend(db, AuthorityOf(s.item.previous), input)
         [] s.kind = "unchanged" -> RefreshUnchanged(db, AuthorityOf(s.item.previous), input)

\* publish_unavailable: with a frontier the row is marked, without one the
\* repository is rebuilt as unavailable.
PublishUnavailable(s) ==
    LET h == s.item.hint
        t == Later(wall, h.activity)
    IN IF s.item.previous # None /\ s.item.previous.frontier.repo = s.repo
       THEN MarkRebuildRequired(db, AuthorityOf(s.item.previous), t)
       ELSE PublishRebuild(db, UnavailableProjection(s.repo, h.session, h.project,
                                                     h.activity, t))

\* What a publication leaves in its slot.
FrontierAfter(s, done, old) ==
    IF done.code = "ok"
    THEN IF s.kind = "unavailable" THEN None ELSE [frontier |-> s.frontier, rev |-> done.rev]
    ELSE IF done.code = "stale" THEN None ELSE old

\* One staged result: dropped when its slot has moved on, published otherwise.
Publish ==
    LET s    == att.staged[att.at]
        at   == {i \in DOMAIN hints.slots : /\ hints.slots[i].seq = s.item.seq
                                            /\ hints.slots[i].hint.path = s.item.hint.path}
        done == IF s.kind = "unavailable" THEN PublishUnavailable(s) ELSE PublishResult(s)
        i    == CHOOSE j \in at : TRUE
    IN /\ att.stage = "publish"
       /\ IF at = {} THEN UNCHANGED <<db, hints, wrong>>
          ELSE /\ db' = done.db
               /\ hints' = [hints EXCEPT !.slots[i].frontier = FrontierAfter(s, done, @)]
               /\ wrong' = (wrong \/ ~s.item.fresh)
       /\ att' = IF att.at = Len(att.staged) THEN Idle ELSE [att EXCEPT !.at = @ + 1]
       /\ UNCHANGED <<world, phase, due, pending, wall, left>>

(***************************************************************************)
(* Lifecycle.                                                              *)
(***************************************************************************)

\* Every slot gets a new sequence and loses its frontier.
Invalidated(h) ==
    [h EXCEPT !.seq = @ + Len(h.slots),
              !.slots = [i \in DOMAIN @ |-> [@[i] EXCEPT !.seq = h.seq + i, !.frontier = None]]]

AllPaths == DOMAIN RepoOf

\* pause: admission closes and the scheduler is paused ...
Pause ==
    /\ Spend("pause")
    /\ phase = "Running"
    /\ phase' = "Closing"
    /\ UNCHANGED <<world, hints, due, pending, att, db, wall, wrong>>

\* ... then the hints are invalidated and the active attempt is cancelled ...
PauseHints ==
    /\ phase = "Closing" /\ Unlocked
    /\ phase' = "Draining"
    /\ hints' = [Invalidated(hints) EXCEPT !.accepting = FALSE]
    /\ att' = [Outdated(AllPaths) EXCEPT !.cancelled = att.stage # "idle"]
    /\ UNCHANGED <<world, due, pending, db, wall, left, wrong>>

\* ... and pause returns once the worker has no active attempt.
PauseDone ==
    /\ phase = "Draining" /\ att.stage = "idle"
    /\ phase' = "Paused"
    /\ UNCHANGED <<world, hints, due, pending, att, db, wall, left, wrong>>

\* resume, with the recovery reconcile it forces.
Resume ==
    /\ phase = "Paused"
    /\ phase' = "Running" /\ due' = TRUE
    /\ hints' = [hints EXCEPT !.accepting = TRUE]
    /\ UNCHANGED <<world, pending, att, db, wall, left, wrong>>

\* force_recovery, on resume from sleep while running.
ForceRecovery ==
    /\ Spend("recover")
    /\ phase = "Running" /\ Unlocked
    /\ hints' = Invalidated(hints)
    /\ att' = Outdated(AllPaths)
    /\ due' = TRUE
    /\ UNCHANGED <<world, phase, pending, db, wall, wrong>>

\* shutdown: hints are cleared, and the worker joins its attempt, which it cancels.
Shutdown ==
    /\ Spend("stop")
    /\ phase \in {"Running", "Paused"} /\ Unlocked
    /\ phase' = "Stopped"
    /\ hints' = [hints EXCEPT !.accepting = FALSE, !.slots = <<>>]
    /\ att' = [Outdated(AllPaths) EXCEPT !.cancelled = att.stage # "idle"]
    /\ pending' = FALSE
    /\ UNCHANGED <<world, due, db, wall, wrong>>

\* The process dies between any two steps and starts again; transactions are whole.
Crash ==
    /\ Spend("crash")
    /\ hints' = NewHints /\ phase' = "Running" /\ due' = FALSE /\ pending' = FALSE
    /\ att' = Idle
    /\ UNCHANGED <<world, db, wall, wrong>>

Next ==
    \/ \E r \in Repo : Change(r)
    \/ \E h \in Hints : SubmitHint(h)
    \/ Tick \/ Poll \/ Submit
    \/ Begin \/ Cancelled \/ InspectFirst \/ Log \/ InspectAgain \/ Lease \/ Publish
    \/ Pause \/ PauseHints \/ PauseDone \/ Resume \/ ForceRecovery \/ Shutdown \/ Crash

Spec == Init /\ [][Next]_vars

(***************************************************************************)
(* Properties.                                                             *)
(***************************************************************************)
\* The commits a row speaks for: reachable from the heads it records and written by
\* the author it records, by name or by alias.
Behind(row) ==
    {c \in Reachable(row.cache.refs, row.cache.shallow) :
        row.cache.author \in {Commit[c].author, Alias[row.cache.mailmap][Commit[c].author]}}

TotalChanged(cs, k) == MapThenSumSet(LAMBDA c : Changed[c, k], cs)

Rows == {r \in Repo : db.repos[r] # None /\ db.repos[r].quality # "unavailable"}

\* Whatever sequence of rebuilds, appends and unchanged refreshes produced it, while
\* the repository was changing under the scans: a repository's stored totals, its
\* categories and each retained day are exactly those of the commits its recorded heads
\* reach, the days kept are the newest ones (publish_git_append, publish_git_rebuild,
\* record_day, prune_oldest_days), and the tables pass the validation of the next open
\* (validate_git_state).
OutputIsExact ==
    /\ ValidGit(db)
    /\ \A r \in Rows :
        LET row  == db.repos[r]
            agg  == db.aggs[r][row.gen]
            mine == Behind(row)
            on(d) == {c \in mine : Commit[c].day = d}
            all  == {Commit[c].day : c \in mine}
        IN /\ row.commits = Cardinality(mine)
           /\ row.merges = Cardinality({c \in mine : Len(Commit[c].parents) > 1})
           /\ \A k \in Categories : agg.cats[k] = TotalChanged(mine, k)
           /\ \A d \in DOMAIN agg.days :
                 /\ agg.days[d].commits = Cardinality(on(d))
                 /\ \A k \in Categories : agg.days[d].cats[k] = TotalChanged(on(d), k)
           /\ DOMAIN agg.days \subseteq all
           /\ \A d \in all \ DOMAIN agg.days :
                 /\ \A e \in DOMAIN agg.days : d < e
                 /\ Cardinality(DOMAIN agg.days) = MaxDays

\* Every range asked for between two attempts (an attempt changes the tables in its
\* last step) is answered; a range the answer calls complete counts every commit of it,
\* and a cost per hundred lines is only ever the cost of the repository's
\* own project over the exact lines of product code, rounded to the nearest
\* micro-dollar (capture_repository's range_complete, map_snapshot, efficiency).
RangeIsHonest == att = Idle =>
    \A start, end \in FirstDay..LastDay, max \in 1..Len(IdOrder) : start <= end =>
        LET answer == GitOutput(db, start, end, max, wall, Usage)
            known  == {r \in Repo : db.repos[r] # None}
        IN /\ answer.code = "ok"
           /\ answer.more <=> Cardinality(known) > max
           /\ \A i \in 1..Len(answer.rows) :
                LET c    == answer.rows[i].capture
                    e    == answer.rows[i].efficiency
                    mine == {x \in Behind(db.repos[c.repo]) : Commit[x].day \in start..end}
                    code == TotalChanged(mine, "code")
                IN /\ c.complete =>
                        /\ c.commits = Cardinality(mine)
                        /\ \A k \in Categories : c.cats[k] = TotalChanged(mine, k)
                   /\ e.reason = "none" =>
                        /\ answer.rows[i].alias = ProjectOf(db, c.repo)
                        /\ code > 0
                        /\ 2 * (e.value * code - 100 * Usage.cost[c.project]) \in (1 - code)..code

\* A result is published only if its scan began after the last hint for its path and
\* after the last pause or recovery: those give the slot a new sequence, and a result
\* of the old one is dropped (run, pause, force_recovery).
PublishedIsFresh == ~wrong

\* The stored output is what one scan of the repository yields, a published result is of
\* the request it was made for, and a range is called complete only when it is.
OutputIsSound == OutputIsExact /\ PublishedIsFresh /\ RangeIsHonest
=============================================================================
