---------------------------- MODULE BenefitStore ----------------------------
(***************************************************************************)
(* The benefit tables of the archive as one value, and the transactions    *)
(* over it: applying an observed inventory, changing the reminder          *)
(* profiles, turning due reminders into deliveries, acknowledging them,    *)
(* and trimming the history.  A transaction answers [ok, db]; a refused    *)
(* one leaves the tables as they were and says why.                        *)
(*                                                                         *)
(* A lot is [state, quantity, expiry, other]: "other" stands for the       *)
(* attributes that only tell a correction from the other changes.          *)
(* Expiry 0 is an expiry nobody knows.  Lots and scopes are numbers, which *)
(* gives them the byte order of their identifiers.                         *)
(***************************************************************************)
EXTENDS Integers, FiniteSets, FiniteSetsExt, Sequences

CONSTANTS
    Scopes, Lots,
    Defaults,               \* the profile the schema installs
    MaxLots,                \* MAX_BENEFIT_LOTS_PER_OBSERVATION
    MaxChanges,             \* MAX_BENEFIT_CHANGES_PER_SCOPE
    MaxDeliveries,          \* MAX_BENEFIT_DELIVERIES_PER_SCOPE
    KeptChanges,            \* DEFAULT_BENEFIT_CHANGES_PER_SCOPE
    KeptDeliveries,         \* DEFAULT_BENEFIT_DELIVERIES_PER_SCOPE
    Page,                   \* rows a pass may examine
    MaxScopes,              \* MAX_BENEFIT_OVERVIEW_SCOPES
    MaxOverviewLots         \* MAX_BENEFIT_OVERVIEW_LOTS

Nothing == [none |-> TRUE]

Empty ==
    [revision  |-> 0,
     scope     |-> [s \in Scopes |-> [seq |-> 0, seen |-> 0, at |-> 0, whole |-> FALSE, lots |-> 0]],
     current   |-> [s \in Scopes |-> {}],
     revisions |-> {},
     changes   |-> {},
     global    |-> Defaults,
     override  |-> [s \in Scopes |-> Nothing],
     due       |-> {},
     delivered |-> {},
     acked     |-> {},
     counts    |-> [current |-> 0, changes |-> 0, due |-> 0, delivered |-> 0]]

Refused(db, why) == [ok |-> FALSE, db |-> db, why |-> why]

Done(db) == [ok |-> TRUE, db |-> db, why |-> "none"]

----------------------------------------------------------------------------
(* Reconciling an observed inventory with the stored one.                  *)

is_terminal(state) == state \in {"activated", "expired", "revoked"}

classify_change(before, after) ==
    LET differing == {f \in {"quantity", "state", "expiry", "other"} : before[f] # after[f]}
    IN  IF before.state = "ambiguous" /\ after.state # "ambiguous" THEN "reappeared"
        ELSE CASE differing = {"quantity"} -> "quantity_changed"
               [] differing = {"state"} -> "state_changed"
               [] differing = {"expiry"} -> "expiry_changed"
               [] OTHER -> "corrected"

Latest(db, s, l) ==
    CHOOSE c \in db.changes :
        /\ c.scope = s /\ c.lot = l
        /\ \A d \in db.changes : d.scope = s /\ d.lot = l => d.seq <= c.seq

\* hydrate_retired_observed_lots: what is remembered of a retired lot
Hydrated(db, s, l) ==
    IF /\ \A c \in db.current[s] : c.lot # l
       /\ \E c \in db.changes : c.scope = s /\ c.lot = l
       /\ Latest(db, s, l).kind = "retired_terminal"
    THEN {[lot |-> l, rev |-> Latest(db, s, l).rev,
           is |-> [r.is EXCEPT !.state = "ambiguous"]] :
             r \in {r \in db.revisions : /\ r.scope = s /\ r.lot = l
                                         /\ r.rev = Latest(db, s, l).before}}
    ELSE {}

\* An observation is [id, at, complete, lots], lots a set of [lot, is].
Prior(db, s, o) == db.current[s] \cup UNION {Hydrated(db, s, x.lot) : x \in o.lots}

Of(set, l) == CHOOSE x \in set : x.lot = l

Knows(set, l) == \E x \in set : x.lot = l

Change(l, rev, kind, before, after) ==
    [lot |-> l, rev |-> rev, kind |-> kind, had |-> before, has |-> after]

\* What the observation says of a lot it names
Seen(prior, x) ==
    CASE ~Knows(prior, x.lot) ->
            [next |-> {[lot |-> x.lot, rev |-> 1, is |-> x.is]},
             change |-> {Change(x.lot, 1, "awarded", FALSE, TRUE)}]
      [] Knows(prior, x.lot) /\ Of(prior, x.lot).is = x.is ->
            [next |-> {Of(prior, x.lot)}, change |-> {}]
      [] OTHER ->
            LET rev == Of(prior, x.lot).rev + 1
                kind == classify_change(Of(prior, x.lot).is, x.is)
            IN  [next |-> {[lot |-> x.lot, rev |-> rev, is |-> x.is]},
                 change |-> {Change(x.lot, rev, kind, TRUE, TRUE)}]

\* What a complete observation says of a lot it does not name
Missing(p, complete) ==
    CASE ~complete \/ p.is.state = "ambiguous" -> [next |-> {p}, change |-> {}]
      [] complete /\ is_terminal(p.is.state) ->
            [next |-> {}, change |-> {Change(p.lot, p.rev + 1, "retired_terminal", TRUE, FALSE)}]
      [] OTHER ->
            [next |-> {[lot |-> p.lot, rev |-> p.rev + 1,
                        is |-> [p.is EXCEPT !.state = "ambiguous"]]},
             change |-> {Change(p.lot, p.rev + 1, "disappeared_ambiguous", TRUE, TRUE)}]

Reconciled(prior, o) ==
    LET missing == {p \in prior : ~Knows(o.lots, p.lot)}
        all == {Seen(prior, x) : x \in o.lots} \cup {Missing(p, o.complete) : p \in missing}
    IN  [lots |-> UNION {x.next : x \in all}, changes |-> UNION {x.change : x \in all}]

\* The observed lots come first, then the missing ones, each by identifier.
Position(changes, o, c) ==
    Cardinality({d \in changes :
        \/ Knows(o.lots, d.lot) /\ ~Knows(o.lots, c.lot)
        \/ (Knows(o.lots, d.lot) <=> Knows(o.lots, c.lot)) /\ d.lot <= c.lot})

----------------------------------------------------------------------------
(* The reminder queue.                                                     *)

active_profile(db, s) == IF db.override[s] = Nothing THEN db.global ELSE db.override[s]

\* schedule_reminders
Scheduled(s, lots, profile) ==
    UNION {{[scope |-> s, lot |-> c.lot, rev |-> c.rev, lead |-> lead, channel |-> ch,
             at |-> c.is.expiry - lead, expiry |-> c.is.expiry] :
                lead \in profile.leads, ch \in profile.channels} :
           c \in {c \in lots : c.is.state = "available" /\ c.is.expiry # 0}}

Reminder(d) == [scope |-> d.scope, lot |-> d.lot, rev |-> d.rev,
                lead |-> d.lead, channel |-> d.channel]

\* A receipt that is as urgent as d, or more
Receipted(db, d) ==
    \E r \in db.delivered : /\ r.scope = d.scope /\ r.lot = d.lot /\ r.rev = d.rev
                            /\ r.channel = d.channel /\ r.lead <= d.lead

\* rebuild_due
Rebuilt(db, s, lots, profile) ==
    {d \in db.due : d.scope # s}
        \cup {d \in Scheduled(s, lots, profile) : ~Receipted(db, d)}

\* The schema: every revision a row names is stored.
Referenced(db) ==
    LET stored == {<<r.scope, r.lot, r.rev>> : r \in db.revisions}
    IN  /\ \A s \in Scopes : \A c \in db.current[s] : <<s, c.lot, c.rev>> \in stored
        /\ \A c \in db.changes :
              /\ c.before # 0 => <<c.scope, c.lot, c.before>> \in stored
              /\ c.after # 0 => <<c.scope, c.lot, c.after>> \in stored
              /\ c.after # 0 \/ c.rev = c.before + 1
        /\ \A d \in db.due \cup db.delivered : <<d.scope, d.lot, d.rev>> \in stored

StoredRevisions(db, s, l) == {r.rev : r \in {r \in db.revisions : r.scope = s /\ r.lot = l}}

\* resolve_material_before_revision
Before(db, s, c) ==
    IF c.had THEN Max({0} \cup {v \in StoredRevisions(db, s, c.lot) : v < c.rev}) ELSE 0

\* The rows of the accepted changes
Recorded(db, s, o, rec) ==
    {[scope |-> s, seq |-> db.scope[s].seq + Position(rec.changes, o, c), lot |-> c.lot,
      rev |-> c.rev, kind |-> c.kind, before |-> Before(db, s, c),
      after |-> IF c.has THEN c.rev ELSE 0] : c \in rec.changes}

\* insert_lot_revision: the contents the changes led to
NewRevisions(s, rec) ==
    {[scope |-> s, lot |-> c.lot, rev |-> c.rev, is |-> Of(rec.lots, c.lot).is] :
        c \in {c \in rec.changes : c.has}}

\* update_scope
ScopeAfter(old, o, rec) ==
    [seq |-> old.seq + Cardinality(rec.changes), seen |-> o.id, at |-> o.at,
     whole |-> o.complete, lots |-> Cardinality(rec.lots)]

Observed(db, s) == db.scope[s].seen # 0

DueOf(db, s) == Cardinality({d \in db.due : d.scope = s})

\* checked_replace_count; a negative one is refused by its caller here
ReplacedCount(total, old, new) == total - old + new

\* The counters of benefit_state after an observation.  What the lots replaced are
\* counted by includes the retired ones hydrate_retired_observed_lots brought back.
Recounted(db, s, prior, next) ==
    [current   |-> ReplacedCount(db.counts.current, Cardinality(prior), Cardinality(next.current[s])),
     changes   |-> db.counts.changes + Cardinality(next.changes \ db.changes),
     due       |-> ReplacedCount(db.counts.due, DueOf(db, s), DueOf(next, s)),
     delivered |-> db.counts.delivered]

\* apply_benefit_observation.  A row that breaks a key, and a count that would fall
\* below zero, refuses the write.
Applied(db, s, o) ==
    LET prior == Prior(db, s, o)
        rec == Reconciled(prior, o)
        stale == o.at < db.scope[s].at
        again == db.scope[s].seen = o.id
        changes == Recorded(db, s, o, rec)
        fresh == NewRevisions(s, rec)
        rows == [db EXCEPT
            !.revision = @ + 1,
            !.scope[s] = ScopeAfter(@, o, rec),
            !.current[s] = rec.lots,
            !.revisions = @ \cup fresh,
            !.changes = @ \cup changes,
            !.due = Rebuilt(db, s, rec.lots, active_profile(db, s))]
        next == [rows EXCEPT !.counts = Recounted(db, s, prior, rows)]
        full == Cardinality({c \in db.changes : c.scope = s}) + Cardinality(changes) > MaxChanges
        broken == \/ \E r \in fresh : r.rev \in StoredRevisions(db, s, r.lot)
                  \/ ~Referenced(next)
                  \/ next.counts.current < 0 \/ next.counts.due < 0
    IN  CASE stale -> Done(db)
          [] ~stale /\ Cardinality(rec.lots) > MaxLots -> Refused(db, "capacity")
          [] ~stale /\ Cardinality(rec.lots) <= MaxLots /\ again ->
                IF rec.changes = {} THEN Done(db) ELSE Refused(db, "identity")
          [] OTHER -> IF full THEN Refused(db, "capacity")
                      ELSE IF broken THEN Refused(db, "stored") ELSE Done(next)

\* The row of a scope's own profile: replaced, or deleted (Nothing)
InsertProfileOverride(db, s, profile) ==
    [db EXCEPT !.override[s] = profile, !.revision = @ + 1]

\* The queue with its counter
Requeued(db, due) ==
    [db EXCEPT !.due = due, !.counts.due = @ - Cardinality(db.due) + Cardinality(due)]

\* set_benefit_reminder_override
Overridden(db, s, profile) ==
    LET next == InsertProfileOverride(db, s, profile)
        due == Rebuilt(db, s, db.current[s], active_profile(next, s))
    IN  IF db.revision = 0 THEN Refused(db, "value")
        ELSE IF ~Observed(db, s) THEN Refused(db, "stored")
        ELSE Done(Requeued(next, due))

\* The row of the profile every other scope follows; an archive nothing was observed
\* in keeps revision 0.
InsertGlobalProfile(db, profile) ==
    [db EXCEPT !.global = profile, !.revision = IF @ = 0 THEN 0 ELSE @ + 1]

\* More scopes, or more lots in them, than one pass over the scopes may load
TooMany(db, scopes) ==
    \/ Cardinality(scopes) > MaxScopes
    \/ MapThenSumSet(LAMBDA s : db.scope[s].lots, scopes) > MaxOverviewLots

\* set_benefit_reminder_global_profile: the scopes without their own follow
Globalized(db, profile) ==
    LET following == {s \in Scopes : Observed(db, s) /\ db.override[s] = Nothing}
        due == {d \in db.due : d.scope \notin following}
                  \cup UNION {{d \in Rebuilt(db, s, db.current[s], profile) : d.scope = s} :
                                s \in following}
    IN  CASE profile.rev < db.global.rev -> Refused(db, "stale")
          [] profile.rev = db.global.rev -> IF profile = db.global THEN Done(db) ELSE Refused(db, "value")
          [] profile.rev > db.global.rev /\ TooMany(db, following) -> Refused(db, "capacity")
          [] OTHER -> Done(Requeued(InsertGlobalProfile(db, profile), due))

----------------------------------------------------------------------------
(* Delivering and acknowledging.                                           *)

Unacknowledged(db) == {d \in db.delivered : d.channel = "in_app" /\ Reminder(d) \notin db.acked}

\* The first rows of an order, given by what comes before a row
FirstRows(rows, Earlier(_, _)) ==
    {d \in rows : Cardinality({e \in rows : Earlier(e, d)}) < Page}

EarlierDue(e, d) ==
    \/ e.expiry < d.expiry
    \/ e.expiry = d.expiry /\ e.scope < d.scope
    \/ e.expiry = d.expiry /\ e.scope = d.scope /\ e.lot < d.lot
    \/ e.expiry = d.expiry /\ e.scope = d.scope /\ e.lot = d.lot /\ e.rev < d.rev
    \/ /\ e.expiry = d.expiry /\ e.scope = d.scope /\ e.lot = d.lot /\ e.rev = d.rev
       /\ e.lead < d.lead

\* Delivery identifiers are hashes; their order is taken to be this one.
EarlierId(e, d) ==
    \/ e.scope < d.scope
    \/ e.scope = d.scope /\ e.lot < d.lot
    \/ e.scope = d.scope /\ e.lot = d.lot /\ e.rev < d.rev
    \/ e.scope = d.scope /\ e.lot = d.lot /\ e.rev = d.rev /\ e.lead < d.lead

EarlierDelivery(e, d) ==
    \/ e.expiry < d.expiry
    \/ e.expiry = d.expiry /\ e.when < d.when
    \/ e.expiry = d.expiry /\ e.when = d.when /\ EarlierId(e, d)

DuePage(db, now) ==
    FirstRows({d \in db.due : d.channel = "in_app" /\ d.at <= now}, EarlierDue)

\* One candidate per lot revision: the smallest lead time
MostUrgent(page, now) ==
    {d \in page : /\ d.expiry > now
                  /\ \A e \in page : /\ e.scope = d.scope /\ e.lot = d.lot /\ e.rev = d.rev
                                     => d.lead <= e.lead}

\* The rows of a pass and update_global_counts: the page leaves the queue.
Delivered(db, page, news) ==
    [db EXCEPT !.due = @ \ page, !.delivered = @ \cup news,
               !.counts.due = @ - Cardinality(page),
               !.counts.delivered = @ + Cardinality(news)]

\* process_due_in_app_benefit_reminders: what is not acknowledged comes
\* again before anything new is delivered.
Processed(db, now) ==
    LET page == DuePage(db, now)
        news == {[scope |-> d.scope, lot |-> d.lot, rev |-> d.rev, lead |-> d.lead,
                  channel |-> d.channel, at |-> d.at, expiry |-> d.expiry, when |-> now] :
                    d \in {d \in MostUrgent(page, now) : ~Receipted(db, d)}}
        full == \E s \in Scopes :
                    /\ \E d \in news : d.scope = s
                    /\ Cardinality({d \in db.delivered \cup news : d.scope = s}) > MaxDeliveries
        next == Delivered(db, page, news)
    IN  IF Unacknowledged(db) # {}
        THEN [ok |-> TRUE, db |-> db, batch |-> FirstRows(Unacknowledged(db), EarlierDelivery)]
        ELSE IF full THEN [ok |-> FALSE, db |-> db, batch |-> {}]
             ELSE [ok |-> TRUE, db |-> next, batch |-> news]

NearestDue(db) ==
    LET times == {d.at : d \in {d \in db.due : d.channel = "in_app"}}
    IN  IF times = {} THEN Nothing ELSE [at |-> Min(times)]

\* acknowledge_benefit_reminders: once is enough, twice does no harm
Acknowledged(db, batch) ==
    IF \A d \in batch : d \in db.delivered
    THEN Done([db EXCEPT !.acked = @ \cup {Reminder(d) : d \in batch}])
    ELSE Refused(db, "stored")

----------------------------------------------------------------------------
(* Trimming the history of a scope.                                        *)

Over(n, kept) == IF n > kept THEN n - kept ELSE 0

Least(a, b) == IF a < b THEN a ELSE b

\* Mutant: the newest change of a lot goes like the others.
RemovableAny(db, s) == {c \in db.changes : c.scope = s}

\* A change with a newer one of the same lot
Removable(db, s) ==
    {c \in db.changes : /\ c.scope = s
                        /\ \E d \in db.changes : d.scope = s /\ d.lot = c.lot /\ d.seq > c.seq}

OldestChanges(rows, n) == {c \in rows : Cardinality({d \in rows : d.seq < c.seq}) < n}

\* Revisions nothing names any more
Orphans(db, s) ==
    {r \in db.revisions :
        /\ r.scope = s
        /\ ~\E c \in db.current[s] : c.lot = r.lot /\ c.rev = r.rev
        /\ ~\E c \in db.changes : /\ c.scope = s /\ c.lot = r.lot
                                  /\ r.rev \in {c.before, c.after}
        /\ ~\E d \in db.due \cup db.delivered :
                d.scope = s /\ d.lot = r.lot /\ d.rev = r.rev}

\* By lot and revision
OldestRevisions(rows, n) ==
    {r \in rows : Cardinality({q \in rows : \/ q.lot < r.lot
                                            \/ q.lot = r.lot /\ q.rev < r.rev}) < n}

\* Acknowledged deliveries of a revision that is no longer current
Settled(db, s) ==
    {d \in db.delivered :
        /\ d.scope = s /\ Reminder(d) \in db.acked
        /\ ~\E c \in db.current[s] : c.lot = d.lot /\ c.rev = d.rev}

OldestDeliveries(rows, n) ==
    {d \in rows : Cardinality({e \in rows : \/ e.when < d.when
                                            \/ e.when = d.when /\ EarlierId(e, d)}) < n}

\* update_benefit_state
Trimmed(db, old, gone) ==
    [db EXCEPT !.counts.changes = @ - Cardinality(old),
               !.counts.delivered = @ - Cardinality(gone),
               !.revision = @ + 1]

\* maintain_benefit_history_page: changes, then revisions, then deliveries,
\* from one budget
Maintained(db, s) ==
    LET changed == Cardinality({c \in db.changes : c.scope = s})
        sent == Cardinality({d \in db.delivered : d.scope = s})
        old == OldestChanges(Removable(db, s), Least(Over(changed, KeptChanges), Page))
        db1 == [db EXCEPT !.changes = @ \ old]
        orphans == OldestRevisions(Orphans(db1, s), Page - Cardinality(old))
        db2 == [db1 EXCEPT !.revisions = @ \ orphans]
        left == Page - Cardinality(old) - Cardinality(orphans)
        gone == OldestDeliveries(Settled(db2, s), Least(Over(sent, KeptDeliveries), left))
        db3 == [db2 EXCEPT !.delivered = @ \ gone,
                           !.acked = @ \ {Reminder(d) : d \in gone}]
    IN  IF old = {} /\ gone = {} THEN db3 ELSE Trimmed(db3, old, gone)

(***************************************************************************)
(* Reading the benefit tables: the captures of store/usage/query/benefit.rs *)
(* (each one read transaction), what query/benefit.rs makes of them, and   *)
(* the validation every writable open runs over the tables                 *)
(* (validate_benefit_state).  A capture answers [code |-> "ok", ...] or    *)
(* the store's error.                                                      *)
(***************************************************************************)
CONSTANTS FreshFor, StaleFor,   \* how long an inventory is fresh, and not stale
          PageSize              \* changes on one page

Failed(code) == [code |-> code]

RevisionAt(db, s, l, rev) == {r \in db.revisions : r.scope = s /\ r.lot = l /\ r.rev = rev}

-----------------------------------------------------------------------------
(* The captures.                                                            *)

\* Known expiries first, by expiry and then by identifier (compare_current_lots).
Sooner(a, b) ==
    IF (a.is.expiry = 0) # (b.is.expiry = 0) THEN b.is.expiry = 0
    ELSE a.is.expiry < b.is.expiry \/ (a.is.expiry = b.is.expiry /\ a.lot < b.lot)

\* load_current_lots: the rows joined with their revisions, which must say the same.
LoadCurrentLots(db, s) ==
    LET rows == {c \in db.current[s] : RevisionAt(db, s, c.lot, c.rev) # {}}
        rank(c) == Cardinality({d \in rows : Sooner(d, c)})
    IN IF \/ Cardinality(rows) # db.scope[s].lots
          \/ \E c \in rows : \E r \in RevisionAt(db, s, c.lot, c.rev) : r.is # c.is
       THEN Failed("invalid_stored")
       ELSE [code |-> "ok", lots |-> [i \in 1..Cardinality(rows) |->
                                        CHOOSE c \in rows : rank(c) = i - 1]]

\* load_nearest_due: a reminder due at or after its expiry is no stored value.
LoadNearestDue(db, s) ==
    LET mine == {d \in db.due : d.scope = s}
        first == CHOOSE d \in mine : \A e \in mine : d.at <= e.at
    IN IF mine = {} THEN [code |-> "ok", at |-> 0]
       ELSE IF first.at >= first.expiry THEN Failed("invalid_stored")
       ELSE [code |-> "ok", at |-> first.at]

\* load_profile_snapshot
LoadProfile(db, s) == [profile |-> active_profile(db, s), inherited |-> db.override[s] = Nothing]

ScopeCapture(db, s) ==
    LET got == LoadCurrentLots(db, s)
        due == LoadNearestDue(db, s)
    IN IF got.code # "ok" \/ due.code # "ok" THEN Failed("invalid_stored")
       ELSE [code |-> "ok", scope |-> db.scope[s], lots |-> got.lots, due |-> due.at,
             profile |-> LoadProfile(db, s)]

\* capture_benefit_current: the scope may be absent, and then shows the profile alone.
CaptureCurrent(db, s) ==
    IF Observed(db, s) THEN ScopeCapture(db, s)
    ELSE [code |-> "ok", scope |-> Nothing, lots |-> <<>>, due |-> 0, profile |-> LoadProfile(db, s)]

\* capture_benefit_overview and load_overview_scopes: every scope or none.
CaptureOverview(db) ==
    LET scopes == {s \in Scopes : Observed(db, s)}
        got == [s \in scopes |-> ScopeCapture(db, s)]
    IN IF TooMany(db, scopes) THEN Failed("capacity")
       ELSE IF \E s \in scopes : got[s].code # "ok" THEN Failed("invalid_stored")
       ELSE [code |-> "ok", scopes |-> got, revision |-> db.revision]

\* decode_change_record: both revisions a change names are found, and the change
\* carries the number of what it led to.
ChangeDecodes(db, c) ==
    /\ (c.before # 0) = (RevisionAt(db, c.scope, c.lot, c.before) # {})
    /\ (c.after # 0) = (RevisionAt(db, c.scope, c.lot, c.after) # {})
    /\ c.rev = IF c.after # 0 THEN c.after ELSE c.before + 1

\* load_change_page: the newest changes before a sequence, at most n.
LoadChangePage(db, s, before, n) ==
    LET rows == {c \in db.changes : c.scope = s /\ (before = 0 \/ c.seq < before)}
        rank(c) == Cardinality({d \in rows : d.seq > c.seq})
    IN [i \in 1..Least(n, Cardinality(rows)) |-> CHOOSE c \in rows : rank(c) = i - 1]

FirstPage == [revision |-> 0, before |-> 0]

\* capture_benefit_changes: one row more than asked for tells whether more follow.
CaptureChanges(db, s, cursor) ==
    LET read == LoadChangePage(db, s, cursor.before, PageSize + 1)
        more == Len(read) > PageSize
        page == IF more THEN SubSeq(read, 1, PageSize) ELSE read
    IN IF cursor.revision # 0 /\ cursor.revision # db.revision THEN Failed("stale_revision")
       ELSE IF \E i \in 1..Len(read) : ~ChangeDecodes(db, read[i]) THEN Failed("invalid_stored")
       ELSE [code |-> "ok", page |-> page, more |-> more,
             next |-> IF more THEN [revision |-> db.revision, before |-> page[PageSize].seq]
                              ELSE FirstPage]

-----------------------------------------------------------------------------
(* What the query layer says of a capture.                                  *)

\* map_scope_status: a clock that went back makes the inventory merely older.
Freshness(at, now) ==
    CASE now < at                                     -> "aging"
      [] now >= at /\ now <= at + FreshFor            -> "fresh"
      [] now > at + FreshFor /\ now <= at + StaleFor  -> "aging"
      [] OTHER                                        -> "stale"

\* merge_freshness: the worst of them
WorstFreshness(set) ==
    IF "stale" \in set THEN "stale" ELSE IF "aging" \in set THEN "aging" ELSE "fresh"

\* map_profile_snapshot: only the channel inside the application delivers.
MapProfile(p) ==
    [leads |-> p.profile.leads, inherited |-> p.inherited,
     covered |-> "in_app" \in p.profile.channels,
     warned |-> IF "os" \in p.profile.channels THEN {"os_unavailable"} ELSE {}]

\* map_overview_scope, and map_current_capture for a scope that is there
MapScope(c, now) ==
    LET profile == MapProfile(c.profile)
        known == {i \in 1..Len(c.lots) : c.lots[i].is.expiry # 0}
        ends == {c.lots[i].is.expiry : i \in {i \in known : c.lots[i].is.state = "available"}}
    IN [lots |-> c.lots, profile |-> profile, nearest |-> Min(ends \cup {Max(ends \cup {0})}),
        due |-> c.due, through |-> c.scope.at, freshness |-> Freshness(c.scope.at, now),
        quality |-> IF c.scope.whole THEN "authoritative" ELSE "partial",
        warned |-> profile.warned
            \cup (IF known # 1..Len(c.lots) THEN {"unknown_expiry"} ELSE {})
            \cup (IF c.scope.whole THEN {} ELSE {"partial"})
            \cup (IF now < c.scope.at THEN {"clock"} ELSE {})]

\* map_overview_capture: the oldest time, the worst freshness and quality of the scopes
MapOverview(capture, now) ==
    LET all == [s \in DOMAIN capture.scopes |-> MapScope(capture.scopes[s], now)]
        some == DOMAIN all # {}
    IN [scopes |-> all,
        through |-> IF some THEN Min({all[s].through : s \in DOMAIN all}) ELSE 0,
        freshness |-> IF some THEN WorstFreshness({all[s].freshness : s \in DOMAIN all})
                      ELSE "unavailable",
        quality |-> IF ~some THEN "unknown"
                    ELSE IF \E s \in DOMAIN all : all[s].quality = "partial" THEN "partial"
                    ELSE "authoritative",
        warned |-> IF some THEN UNION {all[s].warned : s \in DOMAIN all} ELSE {"absent"}]

\* benefit_inventory and benefit_overview of the service: a refused capture is the
\* whole answer, an absent scope says so.
BenefitInventoryOf(db, s, now) ==
    LET capture == CaptureCurrent(db, s)
    IN IF capture.code # "ok" THEN capture
       ELSE IF capture.scope = Nothing
       THEN [code |-> "ok", lots |-> <<>>, freshness |-> "unavailable", quality |-> "unknown"]
       ELSE LET m == MapScope(capture, now)
            IN [code |-> "ok", lots |-> m.lots, freshness |-> m.freshness, quality |-> m.quality]

BenefitOverview(db, now) ==
    LET capture == CaptureOverview(db)
    IN IF capture.code # "ok" THEN capture
       ELSE [code |-> "ok", is |-> MapOverview(capture, now)]

\* map_change_capture: a page is accepted in falling order, and full when more follow.
MapChanges(capture) ==
    LET page == capture.page
    IN IF \/ Len(page) > PageSize
          \/ \E i \in 1..(Len(page) - 1) : page[i].seq <= page[i + 1].seq
          \/ capture.more /\ Len(page) # PageSize
       THEN Failed("corrupt")
       ELSE [code |-> "ok", rows |-> page]

\* Following the cursors from the first page; ok is FALSE when a page is refused.
PagedChanges(db, s) ==
    LET pages == Cardinality(db.changes) + 1
        after[n \in 0..pages] ==
            IF n = 0 THEN [cursor |-> FirstPage, rows |-> <<>>, end |-> FALSE, ok |-> TRUE]
            ELSE LET p == after[n - 1]
                     c == CaptureChanges(db, s, p.cursor)
                 IN IF p.end \/ ~p.ok THEN p
                    ELSE IF c.code # "ok" \/ MapChanges(c).code # "ok" THEN [p EXCEPT !.ok = FALSE]
                    ELSE [cursor |-> c.next, rows |-> p.rows \o c.page, end |-> ~c.more, ok |-> TRUE]
    IN after[pages]

-----------------------------------------------------------------------------
\* The rows benefit_state counts, as they are
RowCounts(db) ==
    [current |-> MapThenSumSet(LAMBDA s : Cardinality(db.current[s]), Scopes),
     changes |-> Cardinality(db.changes), due |-> Cardinality(db.due),
     delivered |-> Cardinality(db.delivered)]

\* validate_benefit_state and validate_benefit_ack_state: what every writable open of
\* the archive requires.
ValidBenefit(db) ==
    /\ db.counts = RowCounts(db)
    /\ (db.revision = 0) <=> (\A s \in Scopes : ~Observed(db, s))
    /\ db.acked \subseteq {Reminder(d) : d \in db.delivered}
=============================================================================
