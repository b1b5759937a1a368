------------------------ MODULE ReplayClassification ------------------------
(***************************************************************************)
(* Replay accounting: crates/accounting/src/replay.rs and the replay       *)
(* overlay of crates/store/src/usage/replay.rs.                            *)
(*                                                                         *)
(* A forked session repeats a prefix of its parent's usage.  Files are     *)
(* read in batches; every usage line is classified when it is appended,    *)
(* from what is known by then, and queued work classifies whole sessions   *)
(* again once all files have been read to their ends.                      *)
(*                                                                         *)
(* A line of a file is a usage event or a session relation.  Its text is   *)
(* abstracted to what the accounting tells apart: usage stands for model   *)
(* and token counts, strong for the presence of cumulative counts.         *)
(* Provider and profile are fixed.  The evidence epoch, on which callers   *)
(* compare and swap, is left to UsageArchive.                              *)
(***************************************************************************)
EXTENDS Integers, SequencesExt

CONSTANTS
    Sessions,     \* session ids, ordered as SQLite orders them
    NoSession,    \* the parent of a root
    MaxOrdinal,   \* bound: the last ordinal of a session
    MaxDepth,     \* MAX_REPLAY_DEPTH
    Fanout,       \* MAX_REPLAY_FANOUT
    MaxBatch,     \* bound: the lines of a batch
    MaxContinuations, \* MAX_REPLAY_CONTINUATIONS_PER_RUN
    Corpora       \* the files, one of these for each behaviour

ClassificationAssumption ==
    /\ Sessions \subseteq Nat /\ NoSession \notin Sessions
    /\ MaxOrdinal \in Nat /\ {MaxDepth, Fanout, MaxBatch, MaxContinuations} \subseteq Nat \ {0}

VARIABLES
    corpus,   \* for each file, in the order of file keys, its lines
    pos,      \* the lines of each file that have been applied
    caught,   \* the files whose last checkpoint was at the end of the file
    mode,     \* whether the revision is "staging" or "current"
    spent,    \* continuations made since work was last settled
    store     \* the replay tables; see Tables

vars == <<corpus, pos, caught, mode, spent, store>>

Disposition == {"eligible", "replay", "pending", "conflict"}
SessionState == {"root", "matching", "diverged", "pending", "conflict"}
WorkKind == {"classify_session", "scan_children"}

Files == DOMAIN corpus
Nowhere == <<0, 0>>
Positions == {<<f, i>> : f \in Files, i \in 1 .. MaxOrdinal + 3}
Line(e) == corpus[e[1]][e[2]]
Lines == {e \in Positions : e[2] <= Len(corpus[e[1]])}
Events == {e \in Lines : Line(e).kind = "event"}

\* (file_key, generation, source_offset): generations are fixed in a revision
Before(a, b) == a[1] < b[1] \/ (a[1] = b[1] /\ a[2] < b[2])
First(S) == IF S = {} THEN Nowhere
            ELSE CHOOSE e \in S : \A o \in S : o = e \/ Before(e, o)
InOrder(S) == SetToSortSeq(S, Before)

\* event_fingerprint and replay_signature
Fingerprint(e) == <<Line(e).session, Line(e).ordinal, Line(e).usage>>
Fingerprints == {Fingerprint(e) : e \in Events}
Signature(e) == <<Line(e).usage, Line(e).strong>>

\* usage_replay_session, a row that is absent being equal to this one
NewRow == [parent |-> NoSession, conflict |-> FALSE, state |-> "root",
           first |-> Nowhere]

\* usage_replay_session, usage_replay_observation, usage_replay_selection,
\* usage_replay_work and, of a current revision, usage_event
Tables == [rows |-> [s \in Sessions |-> NewRow],
           disposition |-> [e \in Events |-> "absent"],
           selection |-> [p \in Fingerprints |-> Nowhere],
           work |-> {},
           visible |-> {}]

\* A file that is empty, or not there yet, is read to its end.
Init ==
    /\ corpus \in Corpora
    /\ pos = [f \in Files |-> 0]
    /\ caught \in SUBSET Files
    /\ mode = "staging"
    /\ spent = 0
    /\ store = Tables

-----------------------------------------------------------------------------
(***************************************************************************)
(* The tables.                                                             *)
(***************************************************************************)
Stored(t) == {e \in Events : t.disposition[e] # "absent"}
OfSession(t, s) == {e \in Stored(t) : Line(e).session = s}
AtOrdinal(t, s, o) == {e \in OfSession(t, s) : Line(e).ordinal = o}
Alike(t, p) == {e \in Stored(t) : Fingerprint(e) = p}
Disposed(t, p, d) == {e \in Alike(t, p) : t.disposition[e] = d}
Children(t, s) == {c \in Sessions : t.rows[c].parent = s}

Refresh(t, p) ==
    [t EXCEPT !.selection[p] = First(Disposed(t, p, "eligible"))]

\* materialize_current_fingerprint
Materialize(t, p) ==
    [t EXCEPT !.visible =
        IF t.selection[p] # Nowhere THEN @ \cup {p}
        ELSE IF Disposed(t, p, "replay") # {} /\ Disposed(t, p, "conflict") = {}
             THEN @ \ {p} ELSE @]

Invalidate(t, s) ==
    [t EXCEPT !.selection = [p \in Fingerprints |->
        IF \E e \in OfSession(t, s) : Fingerprint(e) = p THEN Nowhere ELSE @[p]]]

WorkOf(t, kind, s) == {w \in t.work : w.kind = kind /\ w.session = s}

Dequeue(t, kind, s) == [t EXCEPT !.work = @ \ WorkOf(t, kind, s)]
Place(t, kind, s, reason, next, cursor) ==
    [Dequeue(t, kind, s) EXCEPT !.work = @ \cup
        {[kind |-> kind, session |-> s, reason |-> reason, next |-> next,
          cursor |-> cursor]}]

EarliestOrdinal(queued, next) ==
    IF \E w \in queued : w.next < next
    THEN (CHOOSE w \in queued : TRUE).next ELSE next

\* enqueue_classification and enqueue_missing_parent
Classify(t, s, reason, next) ==
    Place(t, "classify_session", s, reason,
          EarliestOrdinal(WorkOf(t, "classify_session", s), next), NoSession)

ScanChildren(t, s) == Place(t, "scan_children", s, "parent_changed", 0, NoSession)

-----------------------------------------------------------------------------
(***************************************************************************)
(* Ancestry and classification of one observation.                         *)
(***************************************************************************)
\* relation_traversal from s upwards, its parent being p
Traversal(rows, s, p) ==
    LET Ancestor[k \in 1 .. MaxDepth + 1] ==
            IF k = 1 THEN p
            ELSE IF Ancestor[k - 1] = NoSession THEN NoSession
                 ELSE rows[Ancestor[k - 1]].parent
        Root(k) == Ancestor[k] = NoSession
        Cycle(k) == Ancestor[k] = s \/ \E j \in 1 .. k - 1 : Ancestor[j] = Ancestor[k]
        Conflict(k) == rows[Ancestor[k]].conflict
        end == CHOOSE k \in 1 .. MaxDepth + 1 :
                  /\ Root(k) \/ Cycle(k) \/ k > MaxDepth \/ Conflict(k)
                  /\ \A j \in 1 .. k - 1 : ~(Root(j) \/ Cycle(j) \/ Conflict(j))
    IN  CASE Root(end) -> "clear"
          [] ~Root(end) /\ Cycle(end) -> "cycle"
          [] ~Root(end) /\ ~Cycle(end) /\ end > MaxDepth -> "exhausted"
          [] OTHER -> "conflict"

\* load_parent_facts_for_session
ParentFact(t, p, o) == IF p = NoSession THEN Nowhere ELSE First(AtOrdinal(t, p, o))
FactConflict(t, e) == Line(e).conflict \/ t.rows[Line(e).session].conflict

Outcome(d, state) == [disposition |-> d, state |-> state]

StrongPair(e, fact) == Line(e).strong /\ Line(fact).strong

\* classify_matching; absent says what an absent parent ordinal means
ClassifyMatching(e, fact, absent) ==
    CASE fact = Nowhere /\ absent = "open" -> Outcome("pending", "pending")
      [] fact = Nowhere /\ absent = "complete" -> Outcome("eligible", "diverged")
      [] fact # Nowhere /\ ~StrongPair(e, fact) -> Outcome("pending", "matching")
      [] OTHER -> IF Signature(e) = Signature(fact)
                  THEN Outcome("replay", "matching")
                  ELSE Outcome("eligible", "diverged")

StructurallyValid(t, p, prior, fact) ==
    IF p = NoSession THEN prior = "root"
    ELSE prior # "root" /\ (fact # Nowhere => ~FactConflict(t, fact))

\* ReplayClassifier::classify, for an event of a session with parent p
Classification(t, e, p, prior, fact, absent, traversal) ==
    LET refused == \/ prior = "conflict" \/ Line(e).conflict
                   \/ traversal \in {"cycle", "conflict"}
                   \/ ~StructurallyValid(t, p, prior, fact)
    IN  CASE refused -> Outcome("conflict", "conflict")
          [] ~refused /\ (traversal = "exhausted" \/ prior = "pending") ->
                Outcome("pending", "pending")
          [] ~refused /\ traversal = "clear" /\ prior = "matching" ->
                ClassifyMatching(e, fact, absent)
          [] OTHER -> Outcome("eligible", prior)

-----------------------------------------------------------------------------
(***************************************************************************)
(* A batch: its events are applied in order, then its relations.           *)
(***************************************************************************)
\* reconcile_session_relation: the row after an event at e has claimed its
\* parent.  The claim nearest to the start of the files names the parent; two
\* different claims are a conflict for good.
Reconciled(row, e) ==
    LET line == Line(e)
        claims == line.parent # NoSession \/ line.conflict
        isFirst == claims /\ (row.first = Nowhere \/ Before(e, row.first))
        parent == IF isFirst \/ row.parent = NoSession THEN line.parent ELSE row.parent
        disagrees == NoSession \notin {row.parent, line.parent} /\ row.parent # line.parent
        conflict == row.conflict \/ line.conflict \/ disagrees \/ parent = line.session
    IN  [parent |-> parent, conflict |-> conflict,
         state |-> IF conflict THEN "conflict"
                   ELSE IF row.state = "root" /\ parent # NoSession THEN "matching"
                   ELSE row.state,
         first |-> IF isFirst THEN e ELSE row.first]

\* What an appended event is classified as: by its own line's parent, while an
\* absent parent ordinal may still come.  A staging append decides a session in
\* conflict without looking further.
AppendOutcome(t, e) ==
    LET line == Line(e)
        row == t.rows[line.session]
        seen == Traversal(t.rows, line.session, line.parent)
    IN  IF row.conflict THEN Outcome("conflict", "conflict")
        ELSE Classification(t, e, line.parent, row.state,
                            ParentFact(t, line.parent, line.ordinal), "open", seen)

\* Mutant: the children of a session that has grown are left as they are.
NotifyNoChild(t, s) == t

NotifyChildren(t, s) == IF Children(t, s) = {} THEN t ELSE ScanChildren(t, s)

\* One event of apply_replay_append_batch or apply_current_replay_append_batches.
\* A batch of roots (apply_root_session_batch) comes to the same.
\* The row it stores, and what it selects and shows for the fingerprint.
AppendStored(claimed, e, outcome) ==
    LET stored == [claimed EXCEPT !.disposition[e] = outcome.disposition,
                                  !.rows[Line(e).session].state = outcome.state]
    IN  IF mode = "current" THEN Materialize(Refresh(stored, Fingerprint(e)), Fingerprint(e))
        ELSE IF outcome.disposition = "conflict" THEN stored
        ELSE Refresh(stored, Fingerprint(e))

\* The work it leaves.
AppendQueued(claimed, e, outcome, shown) ==
    LET line == Line(e)
        s == line.session
    IN  IF /\ line.parent # NoSession
           /\ ParentFact(claimed, line.parent, line.ordinal) = Nowhere
           /\ outcome.disposition = "pending"
        THEN Classify(shown, s, "missing_parent", line.ordinal)
        ELSE IF /\ Traversal(claimed.rows, s, line.parent) = "exhausted"
                /\ mode = "staging" => ~claimed.rows[s].conflict
        THEN Classify(shown, s, "depth_bound", line.ordinal)
        ELSE shown

AppendClaimed(claimed, e, outcome, conflicted) ==
    LET queued == AppendQueued(claimed, e, outcome, AppendStored(claimed, e, outcome))
    IN  IF mode = "staging" /\ claimed.rows[Line(e).session].conflict /\ conflicted
        THEN queued ELSE NotifyChildren(queued, Line(e).session)

AppendOf(claimed, e, conflicted) ==
    AppendClaimed(claimed, e, AppendOutcome(claimed, e), conflicted)

AppendEvent(t, e) ==
    LET before == t.rows[Line(e).session]
    IN  AppendOf([t EXCEPT !.rows[Line(e).session] = Reconciled(before, e)], e, before.conflict)

\* persist_late_relation
LateRow(t, e) ==
    LET line == Line(e)
        row == t.rows[line.session]
        isFirst == row.first = Nowhere \/ Before(e, row.first)
        parent == IF isFirst \/ row.parent = NoSession THEN line.parent ELSE row.parent
        disagrees == NoSession \notin {row.parent, line.parent} /\ row.parent # line.parent
        seen == Traversal(t.rows, line.session, parent)
        conflict == row.conflict \/ line.conflict \/ disagrees \/ seen \in {"cycle", "conflict"}
    IN  [parent |-> parent, conflict |-> conflict,
         state |-> CASE conflict -> "conflict"
                     [] ~conflict /\ row.state = "diverged" -> "diverged"
                     [] ~conflict /\ row.state # "diverged" /\ seen = "exhausted" ->
                            "pending"
                     [] OTHER -> "matching",
         first |-> IF isFirst THEN e ELSE row.first]

\* apply_replay_relation_in_transaction
ApplyRelation(t, e) ==
    LET s == Line(e).session
    IN  Classify(Invalidate([t EXCEPT !.rows[s] = LateRow(t, e)], s),
                 s, "late_relation", 0)

ApplyBatch(t, batch) ==
    LET events == InOrder({e \in batch : Line(e).kind = "event"})
        relations == InOrder({e \in batch : Line(e).kind = "relation"})
    IN  FoldLeft(ApplyRelation, FoldLeft(AppendEvent, t, events), relations)

\* The end of a file may be anywhere: the file grows later, which a staging
\* revision does not follow.  A refresh of the current revision reads files once
\* it has settled the work that an earlier one left.
AppendBatch(f, n) ==
    LET next == pos[f] + n
    IN  /\ next <= Len(corpus[f])
        /\ IF mode = "staging" THEN f \notin caught ELSE spent = 0
        /\ store' = ApplyBatch(store, {<<f, i>> : i \in pos[f] + 1 .. next})
        /\ pos' = [pos EXCEPT ![f] = next]
        /\ \/ caught' = caught \cup {f}
           \/ next < Len(corpus[f]) /\ caught' = caught \ {f}
        /\ UNCHANGED <<corpus, mode, spent>>

\* try_extend_staging_replay_to_scan_set: a rebuild that was interrupted,
\* between two transactions of its queued work perhaps, is taken up again with a
\* file that has appeared since.
Extend(f) ==
    /\ mode = "staging" /\ f \in caught /\ pos[f] = 0 /\ corpus[f] # <<>>
    /\ caught' = caught \ {f}
    /\ UNCHANGED <<corpus, pos, mode, spent, store>>

-----------------------------------------------------------------------------
(***************************************************************************)
(* Queued work, once every file is read to its end.  One transaction       *)
(* handles at most Fanout observations and children; the rest is left in   *)
(* the queue, with the place to go on from.                                *)
(***************************************************************************)

InitialWalkState(row, next) ==
    IF row.conflict THEN "conflict"
    ELSE IF next > 0 /\ row.state = "diverged" THEN "diverged"
    ELSE IF row.parent # NoSession THEN "matching" ELSE "root"

StateRank(state) ==
    CASE state = "conflict" -> 4 [] state = "diverged" -> 3 [] state = "matching" -> 2
      [] state = "pending" -> 1 [] OTHER -> 0

MergeSessionState(a, b) == IF StateRank(a) >= StateRank(b) THEN a ELSE b

\* The observations of one ordinal are classified one after the other.
WalkObservation(walk, e) ==
    LET s == walk.session
        row == walk.tables.rows[s]
        outcome == Classification(walk.tables, e, row.parent, walk.state,
                       ParentFact(walk.tables, row.parent, Line(e).ordinal), "complete",
                       IF row.conflict THEN "conflict"
                       ELSE Traversal(walk.tables.rows, s, row.parent))
    IN  [walk EXCEPT !.tables.disposition[e] = outcome.disposition,
                     !.state = MergeSessionState(@, outcome.state)]

Reselect(old, new, e) == Refresh(new, Fingerprint(e))

Ended(walk, tables, full) == [walk EXCEPT !.tables = tables, !.more = FALSE, !.full = full]

\* The observations with their dispositions, selected and shown.
WalkShown(old, observations, walk) ==
    LET t == [walk.tables EXCEPT !.rows[walk.session].state = walk.state]
        Show(u, e) == IF mode = "staging" THEN Reselect(old, u, e)
                      ELSE Materialize(Reselect(old, u, e), Fingerprint(e))
    IN  [walk EXCEPT !.tables = FoldLeft(Show, t, observations),
                     !.count = @ + Len(observations)]

\* Where the walk goes from an ordinal it has finished.
WalkOn(walk, o) ==
    LET s == walk.session
        t == walk.tables
        exhausted == Traversal(t.rows, s, t.rows[s].parent) = "exhausted"
        last == \A e \in OfSession(t, s) : Line(e).ordinal <= o
    IN  CASE exhausted ->
                Ended(walk, Place(t, "classify_session", s, "depth_bound", o, NoSession), FALSE)
          [] ~exhausted /\ last ->
                Ended(walk, ScanChildren(Dequeue(t, "classify_session", s), s),
                      walk.count = walk.limit)
          [] ~exhausted /\ ~last /\ walk.count = walk.limit ->
                Ended(walk, Place(t, "classify_session", s, "parent_changed", o + 1, NoSession),
                      TRUE)
          [] OTHER -> walk

WalkObservations(walk, o, observations) ==
    IF walk.count + Len(observations) > walk.limit
    THEN Ended(walk, IF walk.count = 0 THEN walk.tables
                     ELSE Place(walk.tables, "classify_session", walk.session,
                                "parent_changed", o, NoSession), TRUE)
    ELSE WalkOn(WalkShown(walk.tables, observations,
                          FoldLeft(WalkObservation, walk, observations)), o)

WalkOrdinal(walk, o) ==
    IF ~walk.more THEN walk
    ELSE WalkObservations(walk, o, InOrder(AtOrdinal(walk.tables, walk.session, o)))

\* process_session_classification
WalkSession(t, w, limit) ==
    LET ordinals == {o \in w.next .. MaxOrdinal : AtOrdinal(t, w.session, o) # {}}
        walk == [session |-> w.session, tables |-> t, count |-> 0, limit |-> limit,
                 state |-> InitialWalkState(t.rows[w.session], w.next),
                 more |-> TRUE, full |-> FALSE]
    IN  IF ordinals = {}
        THEN Ended(walk, ScanChildren(Dequeue(t, "classify_session", w.session), w.session),
                   FALSE)
        ELSE FoldLeft(WalkOrdinal, walk, SetToSortSeq(ordinals, <))

NextCursor(page, cursor) == Last(page)

\* process_child_scan: a page of children, by session id after the cursor
WalkChildren(t, w, limit) ==
    LET after == {c \in Children(t, w.session) : w.cursor = NoSession \/ w.cursor < c}
        children == SetToSortSeq(after, <)
        page == SubSeq(children, 1, IF Len(children) < limit THEN Len(children) ELSE limit)
        Again(u, c) == IF t.rows[c].state = "conflict" THEN u
                       ELSE Classify(Invalidate(u, c), c, "parent_changed", 0)
        scanned == FoldLeft(Again, t, page)
    IN  [tables |-> IF Len(children) > limit
                    THEN Place(scanned, w.kind, w.session, "fanout_bound", w.next,
                               NextCursor(page, w.cursor))
                    ELSE Dequeue(scanned, w.kind, w.session),
         count |-> Len(page), full |-> Len(page) = limit]

\* load_next_actionable_work: child scans first, then by session; work parked
\* at the depth bound is never taken up again
Actionable(t) ==
    {w \in t.work : \/ w.kind = "scan_children"
                    \/ w.reason \in {"late_relation", "parent_changed", "missing_parent"}}
Precedes(v, w) == \/ v.kind = "scan_children" /\ w.kind = "classify_session"
                  \/ v.kind = w.kind /\ v.session < w.session
NextWork(t) == CHOOSE w \in Actionable(t) : \A v \in Actionable(t) : v = w \/ Precedes(w, v)

\* Its loop, over the items of one transaction
WorkDone(run, done) ==
    [tables |-> done.tables, count |-> run.count + done.count, full |-> done.full]

WorkItem(run, i) ==
    LET w == NextWork(run.tables)
        limit == Fanout - run.count
    IN  IF run.full \/ Actionable(run.tables) = {} THEN run
        ELSE WorkDone(run, IF w.kind = "classify_session" THEN WalkSession(run.tables, w, limit)
                           ELSE WalkChildren(run.tables, w, limit))

\* continue_replay and continue_current_replay
Continue ==
    /\ caught = Files
    /\ Actionable(store) # {}
    /\ store' = FoldLeft(WorkItem, [tables |-> store, count |-> 0, full |-> FALSE],
                         [i \in 1 .. Fanout |-> i]).tables
    /\ spent' = IF Actionable(store') = {} THEN 0 ELSE spent + 1
    /\ UNCHANGED <<corpus, pos, caught, mode>>

-----------------------------------------------------------------------------
Selected(t) == {p \in Fingerprints : t.selection[p] # Nowhere}

\* seal_replay_revision and promote_replay_revision of the complete manifest
Promote ==
    /\ mode = "staging" /\ caught = Files
    /\ store.work = {}
    /\ \A e \in Events : store.disposition[e] # "pending"
    /\ mode' = "current"
    /\ store' = [store EXCEPT !.visible = Selected(store)]
    /\ UNCHANGED <<corpus, pos, caught, spent>>

\* publish_initial_replay_partial: the selection is made anew
PublishPartial ==
    /\ mode = "staging"
    /\ LET t == [store EXCEPT !.selection =
                    [p \in Fingerprints |-> First(Disposed(store, p, "eligible"))]]
       IN  /\ Selected(t) # {}
           /\ store' = [t EXCEPT !.visible = Selected(t)]
    /\ mode' = "current"
    /\ UNCHANGED <<corpus, pos, caught, spent>>

Next ==
    \/ \E f \in Files, n \in 1 .. MaxBatch : AppendBatch(f, n)
    \/ \E f \in Files : Extend(f)
    \/ Continue \/ Promote \/ PublishPartial

Spec == Init /\ [][Next]_vars

-----------------------------------------------------------------------------
(***************************************************************************)
(* What the accounting promises, from the lines applied so far: nothing    *)
(* below looks at rows, states or work.                                    *)
(***************************************************************************)
Applied == {e \in Lines : e[2] <= pos[e[1]]}
Claims(s) == {Line(e).parent : e \in {a \in Applied : Line(a).session = s}} \ {NoSession}
Claimed(s) == IF Claims(s) = {} THEN NoSession ELSE CHOOSE p \in Claims(s) : TRUE
Broken(s) == \/ Cardinality(Claims(s)) > 1
             \/ \E e \in Applied : Line(e).session = s /\ Line(e).conflict

\* The chain of claimed parents: Ancestor[1, s] is the parent of s.
Ancestor[k \in 1 .. MaxDepth + 1, s \in Sessions] ==
    IF k = 1 THEN Claimed(s)
    ELSE LET p == Ancestor[k - 1, s] IN IF p = NoSession THEN p ELSE Claimed(p)

Disputed(s) ==
    \/ Broken(s)
    \/ \E k \in 1 .. MaxDepth + 1 :
          /\ Ancestor[k, s] # NoSession
          /\ \/ k <= MaxDepth /\ Broken(Ancestor[k, s])
             \/ Ancestor[k, s] = s
             \/ \E j \in 1 .. k - 1 : Ancestor[j, s] = Ancestor[k, s]
TooDeep(s) == Ancestor[MaxDepth + 1, s] # NoSession

Observed(s, o) ==
    {e \in Applied \cap Events : Line(e).session = s /\ Line(e).ordinal = o}
Original(e) == LET p == Claimed(Line(e).session)
               IN  IF p = NoSession THEN Nowhere ELSE First(Observed(p, Line(e).ordinal))
Comparable(e) == Original(e) # Nowhere /\ Line(e).strong /\ Line(Original(e)).strong
Repeats(e) == Comparable(e) /\ Signature(e) = Signature(Original(e))
Departs(e) == Original(e) = Nowhere \/ (Comparable(e) /\ ~Repeats(e))
Earlier(e) == {x \in Applied \cap Events :
                /\ Line(x).session = Line(e).session
                /\ \/ Line(x).ordinal < Line(e).ordinal
                   \/ Line(x).ordinal = Line(e).ordinal /\ Before(x, e)}

\* The dispositions the lineage evidence admits: a session's usage counts from
\* its first proved departure from its parent on, and a repetition before that
\* never does.  A dispute about an ancestor is not applied to what had been
\* classified before.
Admitted(e) ==
    LET s == Line(e).session
    IN  CASE Broken(s) -> {"conflict"}
          [] ~Broken(s) /\ Disputed(s) ->
                Disposition \ IF TooDeep(s) THEN {} ELSE {"pending"}
          [] ~Disputed(s) /\ TooDeep(s) -> {"pending", "conflict"}
          [] OTHER -> IF \/ Claimed(s) = NoSession
                         \/ \E x \in Earlier(e) \cup {e} : Departs(x)
                      THEN {"eligible"}
                      ELSE IF Repeats(e) THEN {"replay"} ELSE {"pending"}

-----------------------------------------------------------------------------
(***************************************************************************)
(* Properties.                                                             *)
(***************************************************************************)
Settled == caught = Files /\ Actionable(store) = {}

\* Whatever the order and the batches in which files are read, and wherever a
\* bounded transaction stopped, the work leaves every observation with the
\* disposition that the lineage evidence admits.
SettledIsExact ==
    Settled => \A e \in Stored(store) : store.disposition[e] \in Admitted(e)

\* When no work is left, the selection holds the first eligible observation of
\* every fingerprint and nothing else: validate_replay_overlay does not refuse
\* a revision that has been drained.
DrainedSelectionIsExact ==
    Settled /\ store.work = {} =>
        \A p \in Fingerprints :
            store.selection[p] = First(Disposed(store, p, "eligible"))

Observations(p) == {e \in Stored(store) : Fingerprint(e) = p}
Drained == Settled /\ store.work = {} /\ mode = "current"

\* A drained current revision counts every event that some file shows to be the
\* session's own.
NothingLost ==
    Drained => \A p \in Fingerprints :
        (\E e \in Observations(p) : Admitted(e) = {"eligible"}) => p \in store.visible

\* It does not count an event all of whose observations repeat an ancestor.
NothingCountedTwice ==
    Drained => \A p \in Fingerprints :
        Observations(p) # {} /\ (\A e \in Observations(p) : Admitted(e) = {"replay"}) =>
            p \notin store.visible

\* Usage is suppressed only on proof, at any time: an observation is a replay
\* only if a claimed parent has a strong observation of the same ordinal and
\* signature.
SuppressionIsProved ==
    \A e \in Stored(store) : store.disposition[e] = "replay" =>
        \E x \in Stored(store) :
            /\ Line(x).session \in Claims(Line(e).session)
            /\ Line(x).ordinal = Line(e).ordinal
            /\ Line(e).strong /\ Line(x).strong /\ Signature(x) = Signature(e)

\* Continuation converges, over cycles of sessions and pages of children too,
\* before finish_replay and settle_current give up.
SettlesWithinRun == spent < MaxContinuations

\* Whatever the order and the batches in which files are read, the bounded work settles
\* before a run gives up, gives every observation the disposition its lineage admits,
\* suppresses usage only on proof, and counts every event that is a session's own once.
ClassificationIsExact ==
    /\ SettledIsExact /\ DrainedSelectionIsExact /\ SuppressionIsProved /\ SettlesWithinRun
    /\ NothingLost /\ NothingCountedTwice
=============================================================================
