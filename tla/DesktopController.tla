-------------------------- MODULE DesktopController -------------------------
(***************************************************************************)
(* The desktop of one bundle: crates/desktop/src/controller.rs (a worker   *)
(* that fills the ProductReducer), bridge.rs (one coalesced event-loop     *)
(* task) and the interaction state of presentation.rs.                     *)
(*                                                                         *)
(* Threads: a runtime's completion notifier, which holds the bundle's      *)
(* mutex, observes the runtimes and asks for a refresh; the worker; and    *)
(* the event loop, which runs the bridge task and the window's callbacks.  *)
(* A callback only tries the bundle's mutex.  The worker holds the         *)
(* reducer's mutex from take_work_batch to the end of the attempt.  The    *)
(* archive behind the query source is external: every component has a      *)
(* revision that its own runtime may advance at any moment.                *)
(***************************************************************************)
EXTENDS RefreshCoordinator, ProductReducer, Sequences, TLC

CONSTANTS
    Budgets,     \* how much of each environment action a behaviour has
    Presets,     \* DesktopHistoryRangePreset
    Rows,        \* the ordinals of a session page
    Reports,     \* what the four runtimes may report, None for an error
    Changing,    \* the components whose revision may advance
    MaxNow       \* the last instant, in units of four seconds

DesktopAssumption == 30 \in Presets /\ MaxNow \in Nat

VARIABLES
    data,      \* the revision of each component of the archive
    now,
    coord,     \* the worker's RefreshCoordinator
    faulted,   \* the worker panicked
    work,      \* DesktopWorkState
    red,       \* the reducer's snapshot
    pub,       \* latest mailbox, published generation, runtime observation
    observer,  \* the notifier inside publish_runtime, None outside
    exec,      \* the worker thread
    bridge,    \* BridgeInner, the queued event and the event loop's place
    ui,        \* DesktopState
    answers,   \* what the queries of the running refresh returned
    budget

vars == <<data, now, coord, faulted, work, red, pub, observer, exec, bridge,
          ui, answers, budget>>

Spend(k) == /\ budget[k] > 0
            /\ budget' = [budget EXCEPT ![k] = @ - 1]

-----------------------------------------------------------------------------
NoBatch == [refresh |-> FALSE, detail |-> None, range |-> None, page |-> None]

IdleWorker == [pc |-> "idle", batch |-> NoBatch, at |-> 0, answer |-> None,
               outcome |-> "Completed", then |-> "finish",
               touched |-> {}, completion |-> None]

NewWork ==
    [refresh |-> None, selGen |-> 0, detail |-> None, detailActive |-> None,
     navHigh |-> 0, nav |-> None, page |-> None,
     preset |-> 30, rangeHigh |-> 0, active |-> None, range |-> None]

NewState ==
    [snap |-> InitialSnapshot, detail |-> None, nextSel |-> 1,
     nav |-> None, nextNav |-> 1, preset |-> 30, range |-> None,
     nextRange |-> 1]

NewBridge == [scheduled |-> FALSE, queued |-> FALSE, at |-> "idle",
              terminal |-> None, rangeTerminal |-> None]

\* finish_live_bundle has filled the slot; its own publish() is still to run.
Init ==
    /\ data = [k \in Components |-> 1]
    /\ now = 0
    /\ coord = NewCoordinator
    /\ faulted = FALSE
    /\ work = NewWork
    /\ red = InitialSnapshot
    /\ pub = [latest |-> None, generation |-> None, observed |-> 0,
              pending |-> None]
    /\ observer = None
    /\ exec = IdleWorker
    /\ bridge = NewBridge
    /\ ui = NewState
    /\ answers = [s \in Sections |-> None]
    /\ budget \in Budgets

-----------------------------------------------------------------------------
(***************************************************************************)
(* BridgeInner::request: one queued event stands for every request made    *)
(* before it runs.                                                         *)
(***************************************************************************)
Request(b) == IF b.scheduled THEN b
              ELSE [b EXCEPT !.scheduled = TRUE, !.queued = TRUE]

\* request_terminal and request_history_terminal keep the newest intent.
Newer(slot, intent) ==
    IF slot = None \/ intent.number > slot.number THEN intent ELSE slot

NotifyTerminals(b, nav, range) ==
    LET first == IF nav = None THEN b
                 ELSE Request([b EXCEPT !.terminal = Newer(@, nav)])
    IN  IF range = None THEN first
        ELSE Request([first EXCEPT !.rangeTerminal = Newer(@, range)])

IntentOf(active) == IF active = None THEN None ELSE active.intent

-----------------------------------------------------------------------------
(***************************************************************************)
(* Admission.  A coalesced request is scheduled for the attempt after its  *)
(* own id: the follow-up's, unless a later request takes that id.          *)
(***************************************************************************)
DeadlineOf(urgency) == now + urgency + 1

Outcome(urgency) ==
    IF faulted THEN "Faulted" ELSE Admission(coord, DeadlineOf(urgency), now)

Admitted(urgency) == Outcome(urgency) \in {"Started", "Coalesced"}

ScheduledAttempt(urgency) ==
    IF Outcome(urgency) = "Started" THEN coord.nextId ELSE coord.nextId + 1

Prerequisite(urgency) ==
    IF Outcome(urgency) = "Started" THEN None ELSE coord.active.id

Submit(urgency) ==
    IF faulted THEN UNCHANGED coord
    ELSE coord' = AfterSubmit(coord, urgency, DeadlineOf(urgency), now)

InvalidateNavigation(w) == [w EXCEPT !.nav = None, !.page = None]
InvalidateRange(w) == [w EXCEPT !.active = None, !.range = None]

\* DesktopRefreshIngress::refresh
RefreshWith(urgency) ==
    /\ Submit(urgency)
    /\ IF Admitted(urgency)
       THEN /\ work' = InvalidateRange(InvalidateNavigation(
                        [work EXCEPT !.refresh = ScheduledAttempt(urgency)]))
            /\ bridge' = NotifyTerminals(bridge, IntentOf(work.nav),
                                         IntentOf(work.active))
       ELSE UNCHANGED <<work, bridge>>

\* request_refresh: the refresh button; budget.early lets it be pressed
\* between the filling of the slot and the first publish().
PressRefresh ==
    /\ bridge.at = "idle"
    /\ Spend("refresh")
    /\ observer = None
    /\ budget.early \/ pub.generation # None
    /\ RefreshWith(Interactive)
    /\ UNCHANGED <<data, now, faulted, red, pub, observer, exec, ui, answers>>

-----------------------------------------------------------------------------
(***************************************************************************)
(* publish_runtime: observe_runtime, then a refresh.  Until the first      *)
(* snapshot is published the observation is applied at once, with the      *)
(* observation's mutex held while the reducer's is awaited.                *)
(***************************************************************************)
PublishSnapshot(snapshot) ==
    pub' = [pub EXCEPT !.latest = snapshot, !.generation = snapshot.generation]

ObserveRuntime(report) ==
    /\ observer = None
    /\ Spend("publish")
    /\ LET o == [generation |-> pub.observed + 1, health |-> report] IN
       IF pub.generation = None
       THEN observer' = [at |-> "reducer", observation |-> o] /\ UNCHANGED pub
       ELSE /\ observer' = [at |-> "refresh", observation |-> None]
            /\ pub' = [pub EXCEPT !.observed = o.generation, !.pending = o]
    /\ UNCHANGED <<data, now, coord, faulted, work, red, exec, bridge, ui,
                   answers>>

HoldsObservation == observer # None /\ observer.at = "reducer"

ApplyFirstObservation ==
    /\ HoldsObservation
    /\ exec.pc \in {"idle", "finish", "reconcile"} /\ ~faulted
    /\ red' = ApplyRuntimeObservation(red, observer.observation)
    /\ pub' = [pub EXCEPT !.latest = red', !.generation = red'.generation,
                          !.observed = observer.observation.generation]
    /\ bridge' = Request(bridge)
    /\ observer' = [at |-> "refresh", observation |-> None]
    /\ UNCHANGED <<data, now, coord, faulted, work, exec, ui, answers, budget>>

RefreshAfterObservation ==
    /\ observer # None /\ observer.at = "refresh"
    /\ RefreshWith(Hint)
    /\ observer' = None
    /\ UNCHANGED <<data, now, faulted, red, pub, exec, ui, answers, budget>>

-----------------------------------------------------------------------------
RangeIsActive == work.active # None \/ work.range # None

SessionInteractionIsActive ==
    \/ work.detail # None \/ work.detailActive # None
    \/ work.nav # None \/ work.page # None

\* The window's callback, then the controller's request_session_detail; a
\* rejection leaves the intent in the window, which shows it as failed.
SelectRow(row) ==
    LET intent == [generation |-> ui.snap.generation, number |-> ui.nextSel,
                   row |-> row]
        accepted == /\ observer = None
                    /\ ~RangeIsActive
                    /\ work.nav = None
                    /\ intent.number > work.selGen
                    /\ Admitted(Interactive)
    IN  /\ bridge.at = "idle"
        /\ Spend("click")
        /\ ui.nav = None
        /\ ui.snap.sections["sessions"].payload # None
        /\ ui' = [ui EXCEPT !.detail = intent, !.nextSel = @ + 1]
        /\ IF accepted
           THEN /\ Submit(Interactive)
                /\ work' = [work EXCEPT
                     !.selGen = intent.number,
                     !.detail = [attempt |-> ScheduledAttempt(Interactive),
                                 after |-> Prerequisite(Interactive),
                                 intent |-> intent]]
           ELSE UNCHANGED <<coord, work>>
        /\ UNCHANGED <<data, now, faulted, red, pub, observer, exec, bridge,
                       answers>>

PageOffered(direction) ==
    LET sessions == ui.snap.sections["sessions"] IN
    /\ sessions.payload # None
    /\ IF direction = "Next"
       THEN IsReady(sessions) /\ sessions.payload.page = "Newest"
       ELSE sessions.payload.page = "Next" \/ ~IsReady(sessions)

RequestPage(direction) ==
    LET intent == [generation |-> ui.snap.generation, number |-> ui.nextNav,
                   direction |-> direction]
        active == [attempt |-> ScheduledAttempt(Interactive),
                   after |-> Prerequisite(Interactive), intent |-> intent]
        accepted == /\ observer = None
                    /\ ~RangeIsActive
                    /\ pub.generation = intent.generation
                    /\ intent.number > work.navHigh
                    /\ Admitted(Interactive)
    IN  /\ bridge.at = "idle"
        /\ Spend("click")
        /\ ui.nav = None
        /\ PageOffered(direction)
        /\ ui' = [ui EXCEPT !.nextNav = @ + 1, !.detail = None,
                            !.nav = IF accepted THEN intent ELSE None]
        /\ IF accepted
           THEN /\ Submit(Interactive)
                /\ work' = [work EXCEPT
                     !.navHigh = intent.number, !.nav = active,
                     !.page = active, !.selGen = 0, !.detail = None]
           ELSE UNCHANGED <<coord, work>>
        /\ UNCHANGED <<data, now, faulted, red, pub, observer, exec, bridge,
                       answers>>

RequestRange(preset) ==
    LET intent == [generation |-> ui.snap.generation,
                   number |-> ui.nextRange, preset |-> preset]
        active == [attempt |-> ScheduledAttempt(Interactive),
                   after |-> Prerequisite(Interactive),
                   rebound |-> None, intent |-> intent]
        accepted == /\ observer = None
                    /\ pub.generation = intent.generation
                    /\ ~SessionInteractionIsActive
                    /\ preset # work.preset
                    /\ intent.number > work.rangeHigh
                    /\ Admitted(Interactive)
    IN  /\ bridge.at = "idle"
        /\ Spend("click")
        /\ ui.snap.generation > 0
        /\ ui.range = None
        /\ preset # ui.preset
        /\ ui' = [ui EXCEPT !.nextRange = @ + 1,
                            !.range = IF accepted THEN intent ELSE None]
        /\ IF accepted
           THEN /\ Submit(Interactive)
                /\ work' = [work EXCEPT !.rangeHigh = intent.number,
                                        !.active = active, !.range = active]
           ELSE UNCHANGED <<coord, work>>
        /\ UNCHANGED <<data, now, faulted, red, pub, observer, exec, bridge,
                       answers>>

-----------------------------------------------------------------------------
(***************************************************************************)
(* The worker thread.  exec.pc is the next step, exec.at the next section  *)
(* of a refresh, exec.then the step after the snapshot's notification.     *)
(***************************************************************************)
Attempt == coord.active.id

StopOutcome ==
    CASE Attempt \in coord.cancelled -> "Cancelled"
      [] /\ Attempt \notin coord.cancelled
         /\ DeadlineExceeded(coord.active.deadline, now) -> "DeadlineExceeded"
      [] OTHER -> None

Taken(slot, attempt) ==
    IF slot # None /\ slot.attempt = attempt THEN slot.intent ELSE None

Remaining(slot, attempt) ==
    IF slot # None /\ slot.attempt <= attempt THEN None ELSE slot

\* A pending interaction of an older attempt is dropped with its current one.
Dropped(current, slot, attempt) ==
    IF /\ slot # None /\ slot.attempt < attempt
       /\ current # None /\ current.attempt = slot.attempt
    THEN None ELSE current

TakeWorkBatch(w, attempt) ==
    [refresh |-> w.refresh = attempt,
     detail  |-> Taken(w.detail, attempt),
     range   |-> Taken(w.range, attempt),
     page    |-> Taken(w.page, attempt)]

AfterBatch(w, attempt) ==
    [w EXCEPT
        !.refresh = IF @ # None /\ @ <= attempt THEN None ELSE @,
        !.detail = Remaining(@, attempt),
        !.detailActive = IF Taken(w.detail, attempt) # None
                         THEN attempt ELSE @,
        !.page = Remaining(@, attempt),
        !.nav = Dropped(@, w.page, attempt),
        !.range = Remaining(@, attempt),
        !.active = Dropped(@, w.range, attempt)]

\* The order of execute_work.
NextItem(batch) ==
    CASE batch.detail # None -> "detail"
      [] batch.detail = None /\ batch.range # None -> "range"
      [] batch.detail = None /\ batch.range = None /\ batch.page # None ->
            "page"
      [] OTHER -> IF batch.refresh THEN "refresh" ELSE "finish"

BeginAttempt ==
    /\ exec.pc = "idle" /\ ~faulted
    /\ coord.active # NoPermit
    /\ work' = AfterBatch(work, Attempt)
    /\ LET batch == TakeWorkBatch(work, Attempt) IN
       exec' = [exec EXCEPT !.pc = NextItem(batch), !.batch = batch,
                            !.outcome = "Completed"]
    /\ UNCHANGED <<data, now, coord, faulted, red, pub, observer, bridge, ui,
                   answers, budget>>

SectionOf(item) ==
    CASE item = "detail" -> "detail"
      [] item = "range"  -> "history"
      [] item = "page"   -> "sessions"

\* The worker's place after an item of the batch; exec.touched is a ghost:
\* the sections the items before the refresh were about.
Stopped(outcome) == [exec EXCEPT !.pc = "finish", !.outcome = outcome,
                                 !.answer = None]
Done(item) ==
    LET batch == [exec.batch EXCEPT ![item] = None]
    IN  [exec EXCEPT !.pc = NextItem(batch), !.batch = batch, !.answer = None,
                     !.touched = @ \cup {SectionOf(item)}]
Notifying(after) == [after EXCEPT !.pc = "notify", !.then = after.pc]

\* A query that could answer a fails by itself at most budget.fail times.
Asked(a, result) ==
    \/ result = a /\ UNCHANGED budget
    \/ result = None /\ a # None /\ Spend("fail")

WorkerOnly == UNCHANGED <<data, now, coord, faulted, observer, ui>>

\* Before its query an item ends the attempt when it is stopped, and itself
\* when the snapshot has moved on.
StartItem(item, current, answer) ==
    /\ exec.pc = item
    /\ IF StopOutcome # None \/ ~current
       THEN /\ exec' = IF StopOutcome # None THEN Stopped(StopOutcome)
                                            ELSE Done(item)
            /\ UNCHANGED budget
       ELSE \E result \in {answer, None} :
              /\ Asked(answer, result)
              /\ exec' = [exec EXCEPT !.pc = "commit", !.answer = result]
    /\ WorkerOnly
    /\ UNCHANGED <<work, red, pub, bridge, answers>>

\* The identity of a row of a session page.
RowKey(page, row) == [rev |-> page.rev, page |-> page.page, row |-> row]

StartDetail ==
    LET intent == exec.batch.detail
        sessions == red.sections["sessions"].payload
    IN  exec.pc = "detail" /\
        StartItem("detail", red.generation = intent.generation,
            IF sessions = None THEN None
            ELSE [rev |-> data["usage"], key |-> RowKey(sessions, intent.row)])

\* history_range_is_current and navigation_is_current
RangeIsCurrent(intent) ==
    LET active == work.active IN
    /\ active # None
    /\ active.intent = intent
    /\ active.attempt = Attempt
    /\ red.generation = IF active.rebound = None THEN intent.generation
                        ELSE active.rebound

PageIsCurrent(intent) ==
    /\ red.generation = intent.generation
    /\ work.nav # None
    /\ work.nav.attempt = Attempt
    /\ work.nav.intent.number = intent.number

StartRange ==
    exec.pc = "range" /\
    StartItem("range", RangeIsCurrent(exec.batch.range),
        [rev |-> data["usage"], preset |-> exec.batch.range.preset])

\* A continuation needs a cursor, and the cursor its own revision.
StartPage ==
    LET intent == exec.batch.page
        sessions == red.sections["sessions"].payload
        cursor == /\ sessions # None
                  /\ sessions.page = "Newest"
                  /\ sessions.rev = data["usage"]
    IN  exec.pc = "page" /\
        StartItem("page", PageIsCurrent(intent),
            IF intent.direction = "Next" /\ ~cursor THEN None
            ELSE [rev |-> data["usage"], page |-> intent.direction])

Item == NextItem(exec.batch)

CommitStops ==
    /\ exec.pc = "commit"
    /\ StopOutcome # None
    /\ exec' = Stopped(StopOutcome)
    /\ WorkerOnly
    /\ UNCHANGED <<work, red, pub, bridge, answers, budget>>

CommitDetail ==
    LET intent == exec.batch.detail
        selection == [generation |-> intent.number, row |-> intent.row]
    IN  /\ exec.pc = "commit" /\ Item = "detail" /\ StopOutcome = None
        /\ IF work.selGen # intent.number
           THEN exec' = Done("detail") /\ UNCHANGED <<red, pub>>
           ELSE /\ red' = ReduceDetail(red, Attempt, selection, exec.answer)
                /\ PublishSnapshot(red')
                /\ exec' = Notifying(Done("detail"))
        /\ WorkerOnly
        /\ UNCHANGED <<work, bridge, answers, budget>>

Reduced(s) ==
    IF exec.answer = None THEN Fail(red, s, Attempt, "Failed")
    ELSE Publish(red, s, Attempt, exec.answer)

\* history_range_publication_action
PresetAfter(accepted, intent) ==
    IF accepted /\ exec.answer # None THEN intent.preset ELSE work.preset

CommitRange ==
    LET intent == exec.batch.range
        valid == RangeIsCurrent(intent)
        accepted == red' # red
    IN  /\ exec.pc = "commit" /\ Item = "range" /\ StopOutcome = None
        /\ red' = IF valid THEN Reduced("history") ELSE red
        /\ IF accepted
           THEN /\ work' = InvalidateRange(
                     [work EXCEPT !.preset = PresetAfter(accepted, intent)])
                /\ PublishSnapshot(red')
                /\ exec' = Notifying(Done("range"))
           ELSE /\ work' = IF /\ ~valid /\ work.active # None
                             /\ work.active.attempt = Attempt
                          THEN InvalidateRange(work) ELSE work
                /\ exec' = Done("range")
                /\ UNCHANGED pub
        /\ WorkerOnly
        /\ UNCHANGED <<bridge, answers, budget>>

CommitPage ==
    LET intent == exec.batch.page
        valid == PageIsCurrent(intent)
        mine == work.nav # None /\ work.nav.attempt = Attempt
    IN  /\ exec.pc = "commit" /\ Item = "page" /\ StopOutcome = None
        /\ red' = IF valid THEN Reduced("sessions") ELSE red
        /\ work' = IF valid \/ mine THEN InvalidateNavigation(work) ELSE work
        /\ IF valid
           THEN PublishSnapshot(red') /\ exec' = Notifying(Done("page"))
           ELSE exec' = Done("page") /\ UNCHANGED pub
        /\ WorkerOnly
        /\ UNCHANGED <<bridge, answers, budget>>

-----------------------------------------------------------------------------
\* execute_refresh, one section at a time
RefreshOrder == <<"status", "lifetime", "analytics", "history", "quota",
                  "benefit", "git", "activity", "sessions">>

StartRefresh ==
    /\ exec.pc = "refresh"
    /\ IF StopOutcome # None
       THEN exec' = Stopped(StopOutcome) /\ UNCHANGED <<red, pub>>
       ELSE /\ ~HoldsObservation
            /\ red' = IF pub.pending = None THEN red
                      ELSE ApplyRuntimeObservation(red, pub.pending)
            /\ pub' = [pub EXCEPT !.pending = None]
            /\ exec' = [exec EXCEPT !.pc = "section", !.at = 1]
    /\ answers' = [s \in Sections |-> None]
    /\ WorkerOnly
    /\ UNCHANGED <<work, bridge, budget>>

SectionAnswer(s) ==
    CASE s = "status"   -> data @@ [aggregate |-> TRUE]
      [] s = "history"  -> [rev |-> data["usage"], preset |-> work.preset]
      [] s = "sessions" -> [rev |-> data["usage"], page |-> "Newest"]
      [] s = "lifetime" -> [rev |-> data["usage"]]
      [] OTHER          -> [rev |-> data[Component(s)]]

SectionReduced(s, result) ==
    CASE result = None -> Fail(red, s, Attempt, "Failed")
      [] result # None /\ s = "status" -> PublishStatus(red, Attempt, result)
      [] OTHER -> Publish(red, s, Attempt, result)

\* Nothing stops the refresh between the status and the lifetime totals.
RefreshSection ==
    LET s == RefreshOrder[exec.at]
        last == exec.at = Len(RefreshOrder)
    IN  /\ exec.pc = "section"
        /\ \E result \in {SectionAnswer(s), None} :
             /\ Asked(SectionAnswer(s), result)
             /\ red' = SectionReduced(s, result)
             /\ answers' = [answers EXCEPT ![s] = result]
        /\ exec' = CASE s # "status" /\ StopOutcome # None ->
                           Stopped(StopOutcome)
                     [] (s = "status" \/ StopOutcome = None) /\ ~last ->
                           [exec EXCEPT !.at = @ + 1]
                     [] OTHER -> [exec EXCEPT !.pc = "publish", !.at = 0]
        /\ WorkerOnly
        /\ UNCHANGED <<work, pub, bridge>>

PublishRefresh ==
    /\ exec.pc = "publish"
    /\ PublishSnapshot(red)
    /\ exec' = Notifying([exec EXCEPT !.pc = "rebind"])
    /\ WorkerOnly
    /\ UNCHANGED <<work, red, bridge, answers, budget>>

\* notifier.snapshot_ready()
NotifySnapshot ==
    /\ exec.pc = "notify"
    /\ bridge' = Request(bridge)
    /\ exec' = [exec EXCEPT !.pc = exec.then]
    /\ WorkerOnly
    /\ UNCHANGED <<work, red, pub, answers, budget>>

\* A range that waited for this refresh is bound to what it published.
RebindRange ==
    /\ exec.pc = "rebind"
    /\ work' = IF work.active # None /\ work.active.after = Attempt
               THEN [work EXCEPT !.active.rebound = red.generation]
               ELSE work
    /\ exec' = [exec EXCEPT !.pc = "finish"]
    /\ WorkerOnly
    /\ UNCHANGED <<red, pub, bridge, answers, budget>>

-----------------------------------------------------------------------------
\* The engine worker: finish, then the completion notifier.
FinishAttempt ==
    /\ exec.pc = "finish"
    /\ exec' = [IdleWorker EXCEPT !.pc = "reconcile",
                  !.completion = [id |-> Attempt,
                                  fate |-> PendingFate(coord, now)]]
    /\ coord' = AfterFinish(coord, now)
    /\ UNCHANGED <<data, now, faulted, work, red, pub, observer, bridge, ui,
                   answers, budget>>

\* A panic of the query source faults the worker and abandons what waits.
PanicInQuery ==
    /\ exec.pc \in {"detail", "range", "page", "section"}
    /\ Spend("panic")
    /\ faulted' = TRUE
    /\ exec' = [IdleWorker EXCEPT !.pc = "reconcile",
                  !.completion = [id |-> Attempt,
                                  fate |-> IF coord.pending = NoPending
                                           THEN "None" ELSE "Abandoned"]]
    /\ coord' = [coord EXCEPT !.active = NoPermit, !.pending = NoPending]
    /\ UNCHANGED <<data, now, work, red, pub, observer, bridge, ui, answers>>

\* Mutant: a follow-up that never starts leaves its interaction pending.
EndsOwnAttempt(current, done) == current # None /\ current.attempt = done.id

\* The attempt is over, or the follow-up it was waiting for will not come.
Ends(current, done) ==
    /\ current # None
    /\ \/ current.attempt = done.id
       \/ /\ done.fate \in {"DeadlineExceeded", "CapacityExceeded",
                            "Abandoned"}
          /\ current.after = done.id

\* handle_worker_completion
ReconcileCompletion ==
    LET done == exec.completion
        detail == [work EXCEPT
            !.detailActive = IF @ = done.id THEN None ELSE @,
            !.detail = IF Ends(@, done) THEN None ELSE @]
        page == IF Ends(work.nav, done) THEN InvalidateNavigation(detail)
                ELSE detail
    IN  /\ exec.pc = "reconcile"
        /\ work' = IF Ends(work.active, done) THEN InvalidateRange(page)
                   ELSE page
        /\ bridge' = NotifyTerminals(bridge,
             IF Ends(work.nav, done) THEN work.nav.intent ELSE None,
             IF Ends(work.active, done) THEN work.active.intent ELSE None)
        /\ exec' = IdleWorker
        /\ UNCHANGED <<data, now, coord, faulted, red, pub, observer, ui,
                       answers, budget>>

-----------------------------------------------------------------------------
(***************************************************************************)
(* BridgeInner::run_once on the event loop.                                *)
(***************************************************************************)
LoopOnly == UNCHANGED <<data, now, coord, faulted, work, red, observer, exec,
                        answers, budget>>

PresetOf(snapshot) ==
    IF snapshot.sections["history"].payload = None THEN None
    ELSE snapshot.sections["history"].payload.preset

\* replace_projection: any newer snapshot ends the pending interactions.
Projected(u, snapshot) ==
    LET preset == PresetOf(snapshot)
        follows == /\ preset # None
                   /\ u.range = None \/ preset = u.range.preset
        kept == /\ u.detail # None
                /\ \/ snapshot.selection = [generation |-> u.detail.number,
                                             row |-> u.detail.row]
                   \/ snapshot.generation = u.detail.generation
    IN  [u EXCEPT !.snap = snapshot, !.nav = None, !.range = None,
                  !.preset = IF follows THEN preset ELSE @,
                  !.detail = IF kept THEN @ ELSE None]

DeliverSnapshot ==
    /\ bridge.queued /\ bridge.at = "idle"
    /\ ui' = IF /\ pub.latest # None
                /\ pub.latest.generation > ui.snap.generation
             THEN Projected(ui, pub.latest) ELSE ui
    /\ pub' = [pub EXCEPT !.latest = None]
    /\ bridge' = [bridge EXCEPT !.queued = FALSE, !.at = "terminals"]
    /\ LoopOnly

\* An intent's terminal only ends that very intent.
DeliverTerminals ==
    /\ bridge.at = "terminals"
    /\ ui' = [ui EXCEPT
         !.nav = IF @ = bridge.terminal THEN None ELSE @,
         !.range = IF @ = bridge.rangeTerminal THEN None ELSE @]
    /\ bridge' = [bridge EXCEPT !.terminal = None, !.rangeTerminal = None,
                                !.at = "clear"]
    /\ UNCHANGED pub
    /\ LoopOnly

ClearScheduled ==
    /\ bridge.at = "clear"
    /\ bridge' = [bridge EXCEPT !.scheduled = FALSE, !.at = "recheck"]
    /\ UNCHANGED <<pub, ui>>
    /\ LoopOnly

LeftOver(b) == \/ pub.latest # None
               \/ b.terminal # None \/ b.rangeTerminal # None

Recheck ==
    /\ bridge.at = "recheck"
    /\ LET b == [bridge EXCEPT !.at = "idle"] IN
       bridge' = IF LeftOver(b) THEN Request(b) ELSE b
    /\ UNCHANGED <<pub, ui>>
    /\ LoopOnly

-----------------------------------------------------------------------------
\* The archive: a runtime commits a new revision of a component.
DataChanges(k) ==
    /\ Spend("data")
    /\ data' = [data EXCEPT ![k] = @ + 1]
    /\ UNCHANGED <<now, coord, faulted, work, red, pub, observer, exec, bridge,
                   ui, answers>>

Tick ==
    /\ now < MaxNow
    /\ Spend("tick")
    /\ now' = now + 1
    /\ UNCHANGED <<data, coord, faulted, work, red, pub, observer, exec,
                   bridge, ui, answers>>

Window ==
    \/ PressRefresh
    \/ \E row \in Rows : SelectRow(row)
    \/ \E direction \in {"Next", "Newest"} : RequestPage(direction)
    \/ \E preset \in Presets : RequestRange(preset)

Environment ==
    \/ \E report \in Reports : ObserveRuntime(report)
    \/ \E k \in Changing : DataChanges(k)
    \/ Tick

Notifier == ApplyFirstObservation \/ RefreshAfterObservation

Worker ==
    \/ BeginAttempt
    \/ StartDetail \/ StartRange \/ StartPage
    \/ CommitStops \/ CommitDetail \/ CommitRange \/ CommitPage
    \/ StartRefresh \/ RefreshSection \/ PublishRefresh
    \/ NotifySnapshot \/ RebindRange
    \/ FinishAttempt \/ ReconcileCompletion

EventLoop == DeliverSnapshot \/ DeliverTerminals \/ ClearScheduled \/ Recheck

Next == Window \/ Environment \/ Notifier \/ Worker \/ PanicInQuery
        \/ EventLoop

Spec == Init /\ [][Next]_vars

\* The three threads run; clicks, completions, time and panics may not come.
Fairness == WF_vars(Notifier) /\ WF_vars(Worker) /\ WF_vars(EventLoop)

FairSpec == Spec /\ Fairness

-----------------------------------------------------------------------------
(***************************************************************************)
(* A route the window shows as ready rests on sections of the revisions    *)
(* that the data status in the same snapshot names, and none of its        *)
(* runtimes is degraded (reducer.rs: compatibility and invalidation).      *)
(***************************************************************************)
ReadyRouteIsCoherent ==
    \A route \in Routes : RouteState(ui.snap, route) = "Ready" =>
        \A s \in RouteSections(route) :
            /\ ui.snap.sections[s].payload.rev
                 = ui.snap.sections["status"].payload[Component(s)]
            /\ ~Degraded(ui.snap, Component(s))

(***************************************************************************)
(* An answer that agrees with the status of its own refresh is never       *)
(* turned away as old or as already there: a section that the status has   *)
(* just invalidated must still take it (reducer.rs: invalidate_if).  Only  *)
(* a page or a range that ran under the same attempt goes before it.       *)
(***************************************************************************)
AnswerAccepted ==
    exec.pc \in {"section", "publish"} /\ answers["status"] # None =>
        \A s \in Sections \ ({"detail"} \cup exec.touched) :
            /\ answers[s] # None
            /\ s \in Revisioned =>
                 answers[s].rev = answers["status"][Component(s)]
            => /\ red.sections[s].payload = answers[s]
               /\ IsReady(red.sections[s])

(***************************************************************************)
(* The detail in the snapshot the window shows is the one of the selected  *)
(* row of the session page beside it (reducer.rs: replace_sessions,        *)
(* controller.rs: execute_session_detail).                                 *)
(***************************************************************************)
DetailMatchesRow ==
    LET detail == ui.snap.sections["detail"]
        sessions == ui.snap.sections["sessions"].payload
    IN  IsReady(detail) =>
            /\ sessions # None
            /\ detail.payload.key = RowKey(sessions, ui.snap.selection.row)

(***************************************************************************)
(* When everything published has been shown, the window's range selector,  *)
(* the history it shows and the preset later refreshes will ask for are    *)
(* the same (controller.rs: commit_history_range, presentation.rs:         *)
(* replace_projection).                                                    *)
(***************************************************************************)
PresetIsShown ==
    /\ exec.pc = "idle" /\ pub.latest = None
    /\ bridge.at = "idle" /\ ~bridge.queued
    /\ PresetOf(ui.snap) # None
    => ui.preset = work.preset /\ PresetOf(ui.snap) = work.preset

(***************************************************************************)
(* A page or a range the window shows as pending ends: with a snapshot or  *)
(* with its terminal, also when it is superseded, expires, is dropped with *)
(* its follow-up or the worker faults (controller.rs:                      *)
(* reconcile_navigation_completion, reconcile_history_range_completion).   *)
(***************************************************************************)
PendingSettles == (ui.nav # None \/ ui.range # None)
                  ~> (ui.nav = None /\ ui.range = None)

(***************************************************************************)
(* What the worker publishes reaches the window, although one event stands *)
(* for many publications (bridge.rs: run_once looks again).                *)
(***************************************************************************)
LatestDelivered == (pub.latest # None) ~> (pub.latest = None)

(***************************************************************************)
(* A refresh that was admitted is run by the attempt that takes it off the *)
(* schedule (controller.rs: take_work_batch).                              *)
(***************************************************************************)

\* A route that is shown as ready shows one archive, the answer to the last question, the
\* detail of the selected row and the range that was chosen.
ShownIsCoherent == ReadyRouteIsCoherent /\ AnswerAccepted /\ DetailMatchesRow /\ PresetIsShown

\* What is pending settles, and the latest snapshot reaches the window.
WindowSettles == PendingSettles /\ LatestDelivered
=============================================================================
