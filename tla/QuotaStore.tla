----------------------------- MODULE QuotaStore -----------------------------
(***************************************************************************)
(* The quota history of one window (quota/detector.rs and store/usage/      *)
(* quota_write.rs, quota_maintenance.rs, quota_schema.rs): how an observed  *)
(* sample is compared with the one before it, when that is a reset, what    *)
(* the one transaction of apply_quota_observation writes, and which samples *)
(* retention may remove.                                                    *)
(*                                                                          *)
(* A sample is a record of its identity, its time, its definition revision  *)
(* and the normalized facts; identities are numbers, and None (-1) or       *)
(* "none" stands for an absent value.  A window is the rows of its six      *)
(* tables.  A transaction that fails leaves the window as it was.           *)
(***************************************************************************)
EXTENDS Integers, FiniteSets, FiniteSetsExt, Sequences, SequencesExt

CONSTANTS MaxSamples,       \* MAX_QUOTA_SAMPLES_PER_WINDOW
          MaxHistory,       \* MAX_QUOTA_{EPOCHS,TRANSITIONS}_PER_WINDOW
          SoftSamples       \* DEFAULT_QUOTA_SAMPLES_PER_WINDOW

None == -1

NoEpoch == [id |-> <<>>]

NoShown == [rev |-> 0]

\* The rows of one window; QuotaTables is a window nothing was observed of.
QuotaTables == [defs |-> {}, samples |-> {}, epoch |-> NoEpoch, closed |-> {}, transitions |-> {}, shown |-> NoShown]

-----------------------------------------------------------------------------
(* The detector.                                                            *)

Usage(s) == [unit |-> s.unit, used |-> s.unitsUsed]

NoUsage == [unit |-> "none", used |-> None]

StartEpoch(d, s, seq) ==
    [id |-> <<d.rev, s.id>>, epochRev |-> d.rev, rev |-> d.rev, first |-> s.id, last |-> s.id,
     lastAt |-> s.at, maxUsed |-> s.used, maxUsedId |-> IF s.used = None THEN None ELSE s.id,
     maxUnits |-> IF s.unitsUsed = None THEN NoUsage ELSE Usage(s),
     maxUnitsId |-> IF s.unitsUsed = None THEN None ELSE s.id,
     provider |-> s.provider, resets |-> s.resets, seq |-> seq]

MaximumRatio(e, s) ==
    IF s.used > e.maxUsed THEN [used |-> s.used, id |-> s.id] ELSE [used |-> e.maxUsed, id |-> e.maxUsedId]

MaximumUnits(e, s) ==
    CASE s.unitsUsed = None                             -> [units |-> e.maxUnits, id |-> e.maxUnitsId]
      [] s.unitsUsed # None /\ e.maxUnits = NoUsage     -> [units |-> Usage(s), id |-> s.id]
      [] s.unitsUsed # None /\ e.maxUnits.unit = s.unit ->
            IF s.unitsUsed > e.maxUnits.used THEN [units |-> Usage(s), id |-> s.id]
                                             ELSE [units |-> e.maxUnits, id |-> e.maxUnitsId]
      [] OTHER                                          -> [units |-> NoUsage, id |-> None]

AdvanceEpoch(d, e, s) ==
    LET ratio == MaximumRatio(e, s)
        units == MaximumUnits(e, s)
    IN [e EXCEPT !.rev = d.rev, !.last = s.id, !.lastAt = s.at, !.maxUsed = ratio.used,
                 !.maxUsedId = ratio.id, !.maxUnits = units.units, !.maxUnitsId = units.id,
                 !.provider = s.provider, !.resets = s.resets]

ThresholdTransition(t, p, s) ==
    /\ t.maxUsed # None => s.used # None /\ s.used <= t.maxUsed
    /\ t.minRemaining # None => s.remaining # None /\ s.remaining >= t.minRemaining
    /\ t.minDrop # None => p.used # None /\ s.used # None /\ p.used - s.used >= t.minDrop
    /\ \/ p.used # None /\ s.used # None /\ s.used < p.used
       \/ p.remaining # None /\ s.remaining # None /\ s.remaining > p.remaining

\* The sign that the allowance was reset between two samples, or "none".
ResetSignal(d, p, s) ==
    CASE s.evidence = "manual"                                              -> "manual"
      [] s.evidence # "manual" /\ p.provider # "none" /\ s.provider # "none"
         /\ p.provider # s.provider                                         -> "epoch"
      [] s.evidence = "explicit"                                            -> "explicit"
      [] OTHER ->
           IF \/ d.semantics # "fixed"
              \/ s.quality \in {"conflict", "unknown"}
              \/ s.confidence \in {"low", "unknown"}
              \/ ~ ThresholdTransition(d.thresholds, p, s)
           THEN "none"
           ELSE IF p.resets = None \/ s.resets = None THEN "threshold_unknown"
           ELSE IF s.resets > p.resets THEN "threshold" ELSE "none"

\* The time a reset is dated by: the moment reported, when it is after the previous sample.
OccurredAt(p, s) == IF s.occurred > p.at THEN s.occurred ELSE s.at

ResetKind(signal, p, s) ==
    CASE signal = "manual"                                          -> "manual_or_banked"
      [] signal = "threshold_unknown" \/ (signal # "manual" /\ p.resets = None) -> "unknown"
      [] OTHER -> IF OccurredAt(p, s) >= p.resets THEN "scheduled" ELSE "early"

ResetConfidence(signal, s) ==
    IF signal = "threshold_unknown" \/ (signal = "threshold" /\ s.quality = "partial")
    THEN "low" ELSE s.confidence

AllowanceChange(p, s) ==
    IF p.cap = None \/ s.cap = None THEN "none"
    ELSE IF p.unit # s.unit THEN "unit_changed"
    ELSE IF s.cap > p.cap THEN "increased"
    ELSE IF s.cap < p.cap THEN "decreased" ELSE "none"

\* A transition row: the two samples, the epochs, and the closed epoch's maxima.
MakeTransition(e, next, p, s, seq, kind, allowance, confidence) ==
    [seq |-> seq, kind |-> kind, rev |-> s.rev, from |-> e.id, to |-> next.id, pre |-> p.id, post |-> s.id,
     maxUsed |-> e.maxUsed, maxUsedId |-> e.maxUsedId, maxUnitsId |-> e.maxUnitsId,
     oldResets |-> p.resets, newResets |-> s.resets, allowance |-> allowance,
     confidence |-> confidence, at |-> OccurredAt(p, s)]

NoTransition == [seq |-> 0]

Evaluation(kind, state, transition) == [kind |-> kind, state |-> state, transition |-> transition]

\* An allowance change takes the epoch's next transition number.
Numbered(state, seq) == [state EXCEPT !.seq = seq]

EvaluateSample(d, e, p, s) ==
    LET allowance == AllowanceChange(p, s)
        signal    == ResetSignal(d, p, s)
        next      == e.seq + 1
        advanced  == AdvanceEpoch(d, e, s)
        restarted == StartEpoch(d, s, next)
    IN CASE e = NoEpoch                                -> Evaluation("started", StartEpoch(d, s, 0), NoTransition)
         [] e # NoEpoch /\ s.id = p.id                 ->
              Evaluation(IF s = p THEN "duplicate" ELSE "conflict", e, NoTransition)
         [] e # NoEpoch /\ s.id # p.id /\ s.at <= p.at -> Evaluation("stale", e, NoTransition)
         [] OTHER ->
              IF signal # "none"
              THEN Evaluation("reset", restarted,
                     MakeTransition(e, restarted, p, s, next, ResetKind(signal, p, s), allowance,
                                    ResetConfidence(signal, s)))
              ELSE IF allowance # "none"
              THEN Evaluation("allowance_changed", Numbered(advanced, next),
                     MakeTransition(e, advanced, p, s, next, "allowance_changed", allowance, s.confidence))
              ELSE Evaluation("advanced", advanced, NoTransition)

-----------------------------------------------------------------------------
(* Retention.                                                               *)

\* The normalized facts by which two samples are interchangeable.
Facts(s) == [rev |-> s.rev, provider |-> s.provider, used |-> s.used, remaining |-> s.remaining,
             unit |-> s.unit, unitsUsed |-> s.unitsUsed, cap |-> s.cap, resets |-> s.resets,
             quality |-> s.quality, confidence |-> s.confidence, evidence |-> s.evidence,
             occurred |-> s.occurred]

EpochRefers(e) == IF e = NoEpoch THEN {} ELSE {e.first, e.last, e.maxUsedId, e.maxUnitsId}

\* Mutant: the samples a closed epoch names are not protected.
ReferencedNow(w) ==
    EpochRefers(w.epoch) \cup {w.shown.sample : x \in {w.shown} \ {NoShown}}
      \cup UNION {{t.pre, t.post} : t \in w.transitions}

\* The samples another row of the window names.
Referenced(w) ==
    EpochRefers(w.epoch) \cup {w.shown.sample : x \in {w.shown} \ {NoShown}}
      \cup UNION {EpochRefers(c.epoch) : c \in w.closed}
      \cup UNION {{t.pre, t.post, t.maxUsedId, t.maxUnitsId} : t \in w.transitions}

\* delete_unprotected_sample.
DeleteUnprotected(w, id) ==
    IF id \in Referenced(w) THEN w ELSE [w EXCEPT !.samples = {s \in @ : s.id # id}]

Newer(a, b) == a.at > b.at \/ (a.at = b.at /\ a.id > b.id)

\* redundant_sample_candidates: unreferenced samples with a newer equivalent.
Redundant(w) ==
    {s \in w.samples : s.id \notin Referenced(w) /\ \E n \in w.samples : Facts(n) = Facts(s) /\ Newer(n, s)}

\* The oldest n of a set of samples.
Oldest(samples, n) == {s \in samples : Cardinality({o \in samples : Newer(s, o)}) < n}

\* maintain_quota_history_page: one page of redundant samples above the soft default.
MaintainPage(w, page) ==
    LET excess == Cardinality(w.samples) - SoftSamples
        budget == Min({page, IF excess < 0 THEN 0 ELSE excess})
    IN [w EXCEPT !.samples = @ \ Oldest(Redundant(w), budget)]

WithinHardCaps(w) ==
    /\ Cardinality(w.samples) <= MaxSamples
    /\ Cardinality(w.transitions) <= MaxHistory
    /\ Cardinality(w.closed) <= MaxHistory

-----------------------------------------------------------------------------
(* apply_quota_observation.                                                 *)

Answer(status, w) == [status |-> status, window |-> w]

\* validate_definition: no older revision, and a stored revision never changes.
DefinitionRefused(w, d) == \E o \in w.defs : o.rev > d.rev \/ (o.rev = d.rev /\ o # d)

\* load_previous_sample: the sample the current epoch ends with.
Previous(w) == CHOOSE s \in w.samples : s.id = w.epoch.last

\* load_previous_sample and validate_current_projection: the rows of the window agree.
ProjectionAgrees(w) ==
    IF w.epoch = NoEpoch THEN w.shown = NoShown
    ELSE /\ \E s \in w.samples : s.id = w.epoch.last /\ s.rev = w.epoch.rev
         /\ w.shown = [rev |-> w.epoch.rev, sample |-> w.epoch.last, epoch |-> w.epoch.id,
                       at |-> w.epoch.lastAt, seq |-> w.epoch.seq]

Shown(e) == [rev |-> e.rev, sample |-> e.last, epoch |-> e.id, at |-> e.lastAt, seq |-> e.seq]

\* The window after the inserts and the pruning of an equivalent previous sample.
Written(w, d, s, ev) ==
    LET rows == [defs        |-> w.defs \cup {d},
                 samples     |-> w.samples \cup {s},
                 epoch       |-> ev.state,
                 closed      |-> IF ev.kind = "reset"
                                 THEN w.closed \cup {[epoch |-> w.epoch, closing |-> ev.transition.seq]}
                                 ELSE w.closed,
                 transitions |-> w.transitions \cup ({ev.transition} \ {NoTransition}),
                 shown       |-> Shown(ev.state)]
        prune == /\ ev.kind = "advanced"
                 /\ w.epoch.rev = d.rev
                 /\ Facts(Previous(w)) = Facts(s)
    IN IF prune THEN DeleteUnprotected(rows, w.epoch.last) ELSE rows

ApplyObservation(w, d, s) ==
    LET known == {o \in w.samples : o.id = s.id}
        prev  == IF w.epoch = NoEpoch THEN s ELSE Previous(w)
        ev    == EvaluateSample(d, w.epoch, prev, s)
        next  == Written(w, d, s, ev)
    IN IF DefinitionRefused(w, d) THEN Answer("stale_revision", w)
       ELSE IF known # {} /\ known # {s} THEN Answer("invalid", w)
       ELSE IF ~ ProjectionAgrees(w) THEN Answer("invalid_stored", w)
       ELSE IF ev.kind \in {"duplicate", "stale"} THEN Answer(ev.kind, w)
       ELSE IF ev.kind = "conflict" \/ known # {} THEN Answer("invalid", w)
       ELSE IF ~ WithinHardCaps(next) THEN Answer("capacity", w)
       ELSE Answer(ev.kind, next)

Applied == {"started", "duplicate", "stale", "advanced", "allowance_changed", "reset"}

(***************************************************************************)
(* Reading the quota tables: the captures of store/usage/query/quota.rs,   *)
(* each one read transaction, what query/quota.rs makes of them, and the   *)
(* validation a launch runs over the tables (validate_quota_state).  A     *)
(* row the SQL joins do not find is not an error of the join: the window   *)
(* or the transition is simply not there.                                  *)
(***************************************************************************)
CONSTANTS MaxWindows,           \* MAX_QUOTA_CURRENT_WINDOWS
          FreshFor, StaleFor,   \* how long a sample is fresh, and not stale
          PageSize              \* transitions on one page

Failed(code) == [code |-> code]

SamplesAt(w, rev, id) == {s \in w.samples : s.rev = rev /\ s.id = id}

-----------------------------------------------------------------------------
(* Restoring stored rows.                                                   *)

\* QuotaEpochState::restore
EpochRestores(e, first) ==
    /\ e.epochRev > 0 /\ e.rev >= e.epochRev
    /\ first.at > 0 /\ first.at <= e.lastAt
    /\ (e.maxUsed = None) <=> (e.maxUsedId = None)
    /\ (e.maxUnits = NoUsage) <=> (e.maxUnitsId = None)
    /\ e.id = <<e.epochRev, e.first>>

\* restore_current_epoch: the epoch begins and ends with the samples joined to it
EpochAgrees(e, current, first) ==
    /\ EpochRestores(e, first)
    /\ first.id = e.first
    /\ current.id = e.last /\ current.at = e.lastAt
    /\ current.provider = e.provider /\ current.resets = e.resets

\* QuotaTransition::restore
TransitionRestores(t) ==
    /\ t.rev > 0 /\ t.seq > 0
    /\ IF t.kind = "allowance_changed" THEN t.from = t.to /\ t.allowance # "none" ELSE t.from # t.to
    /\ t.pre # t.post
    /\ (t.maxUsed = None) <=> (t.maxUsedId = None)

\* QuotaAllowanceChange::restore over the units of the two samples
AllowanceAgrees(kind, pre, post) ==
    CASE kind = "none"         -> TRUE
      [] kind = "increased"    -> pre.unit = post.unit /\ post.cap > pre.cap
      [] kind = "decreased"    -> pre.unit = post.unit /\ post.cap < pre.cap
      [] kind = "unit_changed" -> pre.unit # post.unit

\* valid_transition_projection
TransitionAgrees(t, pre, post) ==
    /\ post.at > pre.at
    /\ t.oldResets = pre.resets /\ t.newResets = post.resets
    /\ t.at > pre.at /\ t.at <= post.at
    /\ AllowanceAgrees(t.allowance, pre, post)
    /\ t.kind = "allowance_changed" \/ t.to = <<t.rev, post.id>>

\* TRANSITION_SELECT_SQL: a transition joined with the samples around it
TransitionRows(w) ==
    UNION {{[row |-> t, pre |-> pre, post |-> post] :
                pre \in {s \in w.samples : s.id = t.pre}, post \in SamplesAt(w, t.rev, t.post)} :
           t \in w.transitions}

\* restore_transition_record
TransitionRecords(w) ==
    {[row |-> r.row, pre |-> r.pre, post |-> r.post,
      ok |-> TransitionRestores(r.row) /\ TransitionAgrees(r.row, r.pre, r.post)] :
        r \in TransitionRows(w)}

-----------------------------------------------------------------------------
(* The captures.                                                            *)

\* validate_current_projection
ProjectionHolds(shown, sample, e) == shown.at = sample.at /\ shown.seq = e.seq

\* CURRENT_WINDOW_SQL: the current sample and the first one of its epoch
CurrentRows(w) ==
    {<<s, f>> \in SamplesAt(w, w.shown.rev, w.shown.sample)
                        \X SamplesAt(w, w.epoch.epochRev, w.epoch.first) :
        /\ \E d \in w.defs : d.rev = w.shown.rev
        /\ w.epoch.rev = w.shown.rev /\ w.epoch.id = w.shown.epoch}

\* load_current_window; "none" when the join is empty.
LoadCurrentWindow(w) ==
    LET rows == CurrentRows(w)
        last == {r \in TransitionRecords(w) : r.row.seq = w.epoch.seq}
    IN IF w.shown = NoShown \/ w.epoch = NoEpoch THEN Failed("none")
       ELSE IF rows = {} THEN Failed("none")
       ELSE IF \/ \E r \in rows : \/ ~ EpochAgrees(w.epoch, r[1], r[2])
                                  \/ ~ ProjectionHolds(w.shown, r[1], w.epoch)
               \/ w.epoch.seq # 0 /\ (last = {} \/ \E r \in last : ~ r.ok)
       THEN Failed("invalid_stored")
       ELSE [code |-> "ok", sample |-> (CHOOSE r \in rows : TRUE)[1], epoch |-> w.epoch]

\* capture_quota_overview and load_overview_window_keys: all windows or none.
CaptureOverview(db) ==
    LET keys == {k \in DOMAIN db : /\ db[k].shown # NoShown
                                   /\ \E d \in db[k].defs : d.rev = db[k].shown.rev}
        got  == [k \in keys |-> LoadCurrentWindow(db[k])]
    IN IF Cardinality(keys) > MaxWindows THEN Failed("capacity")
       ELSE IF \E k \in keys : got[k].code # "ok" THEN Failed("invalid_stored")
       ELSE [code |-> "ok", windows |-> got]

\* capture_quota_windows: what is asked for and is not there is left out.
CaptureWindows(db, asked) ==
    LET got == [k \in asked |-> LoadCurrentWindow(db[k])]
    IN IF \E k \in asked : got[k].code = "invalid_stored" THEN Failed("invalid_stored")
       ELSE [code |-> "ok", windows |-> [k \in {j \in asked : got[j].code = "ok"} |-> got[k]]]

\* load_transition_page: the newest rows before a sequence, at most n.
LoadTransitionPage(w, before, n) ==
    LET rows == {r \in TransitionRecords(w) : before = None \/ r.row.seq < before}
        rank(r) == Cardinality({q \in rows : q.row.seq > r.row.seq})
    IN [i \in 1..Min({n, Cardinality(rows)}) |-> CHOOSE r \in rows : rank(r) = i - 1]

\* capture_quota_transitions: one row more than asked for tells whether more follow.
CaptureTransitions(db, revision, k, cursor) ==
    LET read == LoadTransitionPage(db[k], cursor.before, PageSize + 1)
        more == Len(read) > PageSize
        page == IF more THEN SubSeq(read, 1, PageSize) ELSE read
    IN IF cursor.revision # None /\ cursor.revision # revision THEN Failed("stale_revision")
       ELSE IF \E i \in 1..Len(read) : ~ read[i].ok THEN Failed("invalid_stored")
       ELSE [code |-> "ok", page |-> page, more |-> more,
             next |-> IF more THEN [revision |-> revision, before |-> Last(page).row.seq]
                              ELSE [revision |-> None, before |-> None]]

FirstPage == [revision |-> None, before |-> None]

-----------------------------------------------------------------------------
(* What the query layer says of a capture.                                  *)

\* map_sample_freshness
Freshness(s, now) ==
    CASE now < s.at                                       -> "unavailable"
      [] now >= s.at /\ now <= s.at + FreshFor            -> "fresh"
      [] now > s.at + FreshFor /\ now <= s.at + StaleFor  -> "aging"
      [] OTHER                                            -> "stale"

Rank == [fresh |-> 0, aging |-> 1, stale |-> 2, unavailable |-> 3,
         authoritative |-> 0, partial |-> 3, conflict |-> 4, unknown |-> 5]

\* merge_freshness and merge_quality: the worst of them
Worst(values, best) ==
    CHOOSE v \in values \cup {best} : \A u \in values \cup {best} : Rank[u] <= Rank[v]

\* map_current_capture, for windows asked for by name
MapCurrent(capture, asked, now) ==
    LET got  == DOMAIN capture.windows
        lost == asked \ got
        samples == {capture.windows[k].sample : k \in got}
    IN [shown     |-> got,
        through   |-> IF got = {} THEN None ELSE Min({s.at : s \in samples}),
        freshness |-> IF asked = {} \/ lost # {} THEN "unavailable"
                      ELSE Worst({Freshness(s, now) : s \in samples}, "fresh"),
        quality   |-> IF lost # {} THEN "unknown"
                      ELSE Worst({s.quality : s \in samples}, "authoritative"),
        warned    |-> {s.quality : s \in samples} \ {"authoritative"}]

\* quota_windows and quota_overview of the service: a refused capture is the whole
\* answer; the overview asks for whatever there is.
QuotaWindows(db, asked, now) ==
    LET capture == CaptureWindows(db, asked)
    IN IF capture.code # "ok" THEN capture
       ELSE [code |-> "ok", is |-> MapCurrent(capture, asked, now)]

QuotaOverview(db, now) ==
    LET capture == CaptureOverview(db)
    IN IF capture.code # "ok" THEN capture
       ELSE [code |-> "ok", is |-> MapCurrent(capture, DOMAIN capture.windows, now)]

\* map_transition_capture: a page is accepted in falling order and full when more follow.
MapTransitions(capture, now) ==
    LET page == capture.page
    IN IF \/ Len(page) > PageSize
          \/ \E i \in 1..(Len(page) - 1) : page[i].row.seq <= page[i + 1].row.seq
          \/ capture.more /\ Len(page) # PageSize
       THEN Failed("corrupt")
       ELSE [code |-> "ok", rows |-> [i \in 1..Len(page) |-> page[i].row],
             freshness |-> IF page = <<>> THEN "unavailable" ELSE Freshness(page[1].post, now)]

-----------------------------------------------------------------------------
\* validate_quota_state: what a launch requires of the tables.
ValidQuota(db, stats) ==
    /\ stats.samples = MapThenSumSet(LAMBDA k : Cardinality(db[k].samples), DOMAIN db)
    /\ stats.closed = MapThenSumSet(LAMBDA k : Cardinality(db[k].closed), DOMAIN db)
    /\ stats.transitions = MapThenSumSet(LAMBDA k : Cardinality(db[k].transitions), DOMAIN db)
    /\ \A k \in DOMAIN db : WithinHardCaps(db[k])
    /\ \A k \in DOMAIN db : db[k].epoch # NoEpoch =>
          /\ db[k].shown # NoShown
          /\ db[k].shown = Shown(db[k].epoch)
          /\ \E s \in SamplesAt(db[k], db[k].epoch.rev, db[k].epoch.last) : s.at = db[k].shown.at
    /\ stats.rev = 0 => \A k \in DOMAIN db : db[k].shown = NoShown /\ db[k].epoch = NoEpoch

\* Following the cursors from the first page: the rows, or nothing when a page is refused.
Paged(db, revision, k) ==
    LET pages == Cardinality(db[k].transitions) + 1
        after[n \in 0..pages] ==
            IF n = 0 THEN [cursor |-> FirstPage, rows |-> <<>>, end |-> FALSE, ok |-> TRUE]
            ELSE LET p == after[n - 1]
                     c == CaptureTransitions(db, revision, k, p.cursor)
                 IN IF p.end \/ ~ p.ok THEN p
                    ELSE IF c.code # "ok" THEN [p EXCEPT !.ok = FALSE]
                    ELSE [cursor |-> c.next, rows |-> p.rows \o MapTransitions(c, 0).rows,
                          end |-> ~ c.more, ok |-> TRUE]
    IN after[pages]
=============================================================================
