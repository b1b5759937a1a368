----------------------------- MODULE Reminders -----------------------------
(***************************************************************************)
(* Benefit reminders from the archive to the window: the scheduler thread  *)
(* that waits for the nearest due time, the worker that turns due rows     *)
(* into a batch, the slot that holds one batch, the pump that leases it,   *)
(* the event-loop callback that shows it, and the receipt worker that      *)
(* acknowledges or releases it.                                            *)
(*                                                                         *)
(* Time is the wall clock; the 60-second waits are Retry units of it for   *)
(* the scheduler and just "later" for the receipt worker.  Urgencies only  *)
(* rank requests of one worker and are left out.                           *)
(***************************************************************************)
EXTENDS BenefitStore

CONSTANTS
    Observations,   \* sets of lots the provider may report, whole
    Profiles,       \* sets of lead times the user may choose
    Days,           \* what may happen: records of budgets, and whether it is calm
    Retry,          \* ACCELERATED_RETRY_MILLIS
    Last            \* bound: the instant after which nothing new happens

VARIABLES
    db,      \* the archive
    now,     \* the wall clock
    sc,      \* ReminderScheduleControl
    thread,  \* the scheduler thread: "waits", "submits" or "ended"
    wk,      \* the worker and the attempt it runs
    slot,    \* NotificationSlot
    rx,      \* the receipt worker and its signal
    ui,      \* the notification bridge and the window
    rt,      \* BenefitReminderRuntime and the steps of its shutdown
    left,    \* what may still happen
    past     \* what was shown, and whether a retry was early

vars == <<db, now, sc, thread, wk, slot, rx, ui, rt, left, past>>

Idle == [at |-> "idle", cancelled |-> FALSE, queued |-> FALSE, seen |-> 0,
         batch |-> {}, near |-> Nothing, result |-> "none"]

\* Mutant: starting submits no recovery pass.
ControlIdle == [phase |-> "running", pending |-> FALSE, flight |-> FALSE,
                notif |-> FALSE, nearest |-> NearestDue(db), retry |-> Nothing]

\* A fresh process: a runtime that starts resumes its schedule at once.
Control == [phase |-> "running", pending |-> TRUE, flight |-> FALSE,
            notif |-> FALSE, nearest |-> Nothing, retry |-> Nothing]

Receipts == [at |-> "waits", action |-> "none", stopping |-> FALSE, flight |-> FALSE]

Bridge(visible) == [running |-> TRUE, event |-> {}, visible |-> visible]

Runtime == [phase |-> "running", open |-> TRUE, ending |-> "no"]

Started ==
    /\ sc = Control /\ thread = "waits" /\ wk = Idle
    /\ slot = [is |-> "empty", batch |-> {}]
    /\ rx = Receipts /\ ui = Bridge(TRUE) /\ rt = Runtime

Init ==
    /\ \E o \in Observations : db = Applied(Empty, 1, [id |-> 1, at |-> 1, complete |-> TRUE, lots |-> o]).db
    /\ now = 1
    /\ Started
    /\ left \in Days
    /\ past = [shown |-> {}]

Spend(what) == left[what] > 0 /\ left' = [left EXCEPT ![what] = @ - 1]

----------------------------------------------------------------------------
(* The scheduler thread.                                                   *)

Ready == sc.phase = "running" /\ ~sc.notif /\ ~sc.flight

Times == {t.at : t \in {sc.nearest, sc.retry} \ {Nothing}}

TimeIsUp == \E t \in Times : t <= now

\* run_scheduler: one turn of the loop, up to a submission
Wake ==
    /\ thread = "waits"
    /\ \/ /\ Ready /\ (sc.pending \/ TimeIsUp)
          /\ sc' = [sc EXCEPT !.pending = FALSE, !.flight = TRUE]
          /\ thread' = "submits"
       \/ /\ sc.phase \in {"stopping", "stopped"}
          /\ sc' = [sc EXCEPT !.phase = "stopped"]
          /\ thread' = "ended"
    /\ UNCHANGED <<db, now, wk, slot, rx, ui, rt, left, past>>

\* The submission, under the admission lock
Submit ==
    /\ thread = "submits"
    /\ thread' = "waits"
    /\ \/ /\ ~rt.open
          /\ sc' = [sc EXCEPT !.flight = FALSE]
          /\ UNCHANGED wk
       \/ /\ rt.open
          /\ wk' = IF wk.at = "idle" THEN [Idle EXCEPT !.at = "admitted"]
                                     ELSE [wk EXCEPT !.queued = TRUE]
          /\ UNCHANGED sc
    /\ UNCHANGED <<db, now, slot, rx, ui, rt, left, past>>

----------------------------------------------------------------------------
(* The worker.                                                             *)

AttemptFailed(result) == wk' = [wk EXCEPT !.at = "finished", !.result = result]

\* The worker takes up the permit; one that is cancelled already is
\* completed without the executor.
Begin ==
    /\ wk.at = "admitted"
    /\ wk' = [wk EXCEPT !.at = IF wk.cancelled THEN "notifies" ELSE "running"]
    /\ UNCHANGED <<db, now, sc, thread, slot, rx, ui, rt, left, past>>

\* run: the clock
ReadClock ==
    /\ wk.at = "running"
    /\ \/ wk.cancelled /\ AttemptFailed("control")
       \/ ~wk.cancelled /\ wk' = [wk EXCEPT !.at = "clocked", !.seen = now]
    /\ UNCHANGED <<db, now, sc, thread, slot, rx, ui, rt, left, past>>

\* run: the writer lease, the store and the transaction
Process ==
    /\ wk.at = "clocked"
    /\ \/ wk.cancelled /\ AttemptFailed("control") /\ UNCHANGED <<db, left>>
       \/ ~wk.cancelled /\ Spend("busy") /\ AttemptFailed("busy") /\ UNCHANGED db
       \/ LET did == Processed(db, wk.seen)
          IN  /\ ~wk.cancelled
              /\ db' = did.db
              /\ IF did.ok
                 THEN wk' = [wk EXCEPT !.at = "processed", !.batch = did.batch,
                                       !.near = NearestDue(did.db)]
                 ELSE AttemptFailed("store")
              /\ UNCHANGED left
    /\ UNCHANGED <<now, sc, thread, slot, rx, ui, rt, past>>

\* run: publishing the batch
Publish ==
    /\ wk.at = "processed"
    /\ \/ /\ wk.batch = {}
          /\ wk' = [wk EXCEPT !.at = "finished", !.result = "completed"]
          /\ UNCHANGED slot
       \/ /\ wk.batch # {} /\ slot.is = "empty"
          /\ slot' = [is |-> "ready", batch |-> wk.batch]
          /\ wk' = [wk EXCEPT !.at = "finished", !.result = "completed"]
       \/ wk.batch # {} /\ slot.is # "empty" /\ AttemptFailed("slot") /\ UNCHANGED slot
    /\ UNCHANGED <<db, now, sc, thread, rx, ui, rt, left, past>>

\* complete_attempt
Completed(c) ==
    [c EXCEPT !.flight = FALSE,
              !.nearest = IF wk.result = "completed" THEN wk.near ELSE @,
              !.retry = IF wk.result = "busy" THEN [at |-> wk.seen + Retry] ELSE Nothing,
              !.notif = @ \/ (wk.result = "completed" /\ wk.batch # {})]

Finish ==
    /\ wk.at = "finished"
    /\ sc' = Completed(sc)
    /\ wk' = [wk EXCEPT !.at = "notifies"]
    /\ UNCHANGED <<db, now, thread, slot, rx, ui, rt, left, past>>

----------------------------------------------------------------------------
(* The presentation.                                                       *)

\* pump_presentation: lease the batch and hand it to the bridge
Pumped(r) ==
    CASE r.stopping \/ r.flight \/ slot.is # "ready" -> [slot |-> slot, rx |-> r, ui |-> ui]
      [] OTHER ->
            LET taken == ui.running /\ ui.event = {}
            IN  [slot |-> [slot EXCEPT !.is = "leased"],
                 rx |-> [r EXCEPT !.flight = TRUE,
                                  !.action = IF taken \/ @ # "none" THEN @ ELSE "failed"],
                 ui |-> IF taken THEN [ui EXCEPT !.event = slot.batch] ELSE ui]

Pump(r) == slot' = Pumped(r).slot /\ rx' = Pumped(r).rx /\ ui' = Pumped(r).ui

\* The completion is published to the application, which pumps; then the
\* worker goes on with the request that was coalesced meanwhile.
Notify ==
    /\ wk.at = "notifies"
    /\ Pump(rx)
    /\ wk' = IF wk.queued THEN [Idle EXCEPT !.at = "admitted"] ELSE Idle
    /\ UNCHANGED <<db, now, sc, thread, rt, left, past>>

\* The completion of another runtime pumps as well.
NotifyOther ==
    /\ rt.ending = "no"
    /\ Spend("others")
    /\ Pump(rx)
    /\ UNCHANGED <<db, now, sc, thread, wk, rt, past>>

\* Mutant: a window nobody sees shows the batch.
ShowsUnseen == TRUE

Shows == ui.visible

\* run of the bridge, on the event loop
Present ==
    /\ ui.event # {}
    /\ LET shown == ui.running /\ Shows
       IN  /\ ui' = [ui EXCEPT !.event = {}, !.running = shown]
           /\ past' = IF ui.running /\ ui.visible
                      THEN [past EXCEPT !.shown = @ \cup {Reminder(d) : d \in ui.event}] ELSE past
           /\ rx' = IF rx.stopping \/ rx.action # "none" THEN rx
                    ELSE [rx EXCEPT !.action = IF shown THEN "presented" ELSE "failed"]
    /\ UNCHANGED <<db, now, sc, thread, wk, slot, rt, left>>

\* release_in_flight.  A lease that is gone is an error, and nothing changes.
Released == IF slot.is = "leased" THEN [slot EXCEPT !.is = "ready"] ELSE slot

Landed == [rx EXCEPT !.flight = rx.flight /\ slot.is # "leased"]

\* run_receipt_worker: wait_for_action
Receive ==
    /\ rx.at = "waits"
    /\ \/ /\ rx.stopping
          /\ rx' = [Landed EXCEPT !.at = "ended"]
          /\ slot' = IF rx.flight THEN Released ELSE slot
       \/ /\ ~rx.stopping /\ rx.action # "none"
          /\ rx' = [rx EXCEPT !.action = "none",
                              !.at = IF rx.action = "failed" THEN "releases" ELSE "confirms"]
          /\ UNCHANGED slot
    /\ UNCHANGED <<db, now, sc, thread, wk, ui, rt, left, past>>

\* release_then_retry_presentation, up to its wait
Release ==
    /\ rx.at = "releases"
    /\ slot' = IF rx.flight THEN Released ELSE slot
    /\ rx' = [Landed EXCEPT !.at = IF rx.flight /\ slot.is = "leased" THEN "lingers" ELSE "waits"]
    /\ UNCHANGED <<db, now, sc, thread, wk, ui, rt, left, past>>

\* The wait is over: by a signal, or by time, and then it pumps again.
PresentAgain ==
    /\ rx.at = "lingers"
    /\ IF rx.stopping \/ rx.action # "none"
       THEN rx' = [rx EXCEPT !.at = "waits"] /\ UNCHANGED <<slot, ui>>
       ELSE Pump([rx EXCEPT !.at = "waits"])
    /\ UNCHANGED <<db, now, sc, thread, wk, rt, left, past>>

\* acknowledge_presented gives the batch back
GivenUp ==
    /\ rx' = [Landed EXCEPT !.at = "waits"]
    /\ slot' = IF rx.flight THEN Released ELSE slot

\* acknowledge_presented: acknowledge_notifications up to the commit, with
\* the runtime locked; a busy archive is tried again later.
Confirm ==
    /\ rx.at = "confirms"
    /\ \/ (rx.stopping \/ rt.phase # "running") /\ GivenUp /\ UNCHANGED <<db, left>>
       \/ /\ ~rx.stopping /\ rt.phase = "running" /\ slot.is # "leased"
          /\ rx' = [rx EXCEPT !.at = "waits", !.flight = FALSE]
          /\ UNCHANGED <<db, slot, left>>
       \/ /\ ~rx.stopping /\ rt.phase = "running" /\ slot.is = "leased"
          /\ Spend("busy")
          /\ UNCHANGED <<db, slot, rx>>
       \/ /\ ~rx.stopping /\ rt.phase = "running" /\ slot.is = "leased"
          /\ Acknowledged(db, slot.batch).ok
          /\ db' = Acknowledged(db, slot.batch).db
          /\ slot' = [is |-> "empty", batch |-> {}]
          /\ rx' = [rx EXCEPT !.at = "confirmed"]
          /\ UNCHANGED left
       \/ /\ ~rx.stopping /\ rt.phase = "running" /\ slot.is = "leased"
          /\ ~Acknowledged(db, slot.batch).ok
          /\ GivenUp
          /\ UNCHANGED <<db, left>>
    /\ UNCHANGED <<now, sc, thread, wk, ui, rt, past>>

\* notification_acknowledged
Confirmed ==
    /\ rx.at = "confirmed"
    /\ sc' = [sc EXCEPT !.notif = FALSE,
                        !.pending = @ \/ sc.phase \in {"running", "paused"}]
    /\ rx' = [rx EXCEPT !.at = "waits", !.flight = FALSE]
    /\ UNCHANGED <<db, now, thread, wk, slot, ui, rt, left, past>>

----------------------------------------------------------------------------
(* The rest of the application and the world.                              *)

Unlocked == rx.at # "confirmed"

\* notify_profile_changed, after the profile was stored
ChangeProfile ==
    /\ rt.phase = "running" /\ Unlocked
    /\ Spend("profile")
    /\ \E leads \in Profiles :
          db' = Globalized(db, [rev |-> db.global.rev + 1, leads |-> leads,
                                channels |-> {"in_app"}]).db
    /\ sc' = [sc EXCEPT !.pending = @ \/ sc.phase \in {"running", "paused"}]
    /\ UNCHANGED <<now, thread, wk, slot, rx, ui, rt, past>>

\* The quota runtime stores another inventory, and tells nobody.
ObserveInventory ==
    /\ rt.ending = "no"
    /\ Spend("observe")
    /\ \E o \in Observations :
          db' = Applied(db, 1, [id |-> db.scope[1].seen + 1, at |-> now,
                                complete |-> TRUE, lots |-> o]).db
    /\ UNCHANGED <<now, sc, thread, wk, slot, rx, ui, rt, past>>

\* apply_power_event: Suspend, which is pause
Suspend ==
    /\ rt.phase = "running" /\ rt.ending = "no" /\ Unlocked
    /\ Spend("suspend")
    /\ rt' = [rt EXCEPT !.open = FALSE, !.phase = "paused"]
    /\ sc' = [sc EXCEPT !.phase = "paused"]
    /\ wk' = IF wk.at \in {"idle", "notifies"} THEN wk ELSE [wk EXCEPT !.cancelled = TRUE]
    /\ UNCHANGED <<db, now, thread, slot, rx, ui, past>>

\* apply_power_event: Resume, of a runtime that was paused
Resume ==
    /\ rt.phase = "paused" /\ rt.ending = "no" /\ Unlocked
    /\ rt' = [rt EXCEPT !.open = TRUE, !.phase = "running"]
    /\ sc' = [sc EXCEPT !.phase = "running", !.pending = TRUE]
    /\ UNCHANGED <<db, now, thread, wk, slot, rx, ui, left, past>>

\* force_reconcile: a clock hint, a manual request, or a machine that
\* resumes without having slept
Hint ==
    /\ rt.phase = "running" /\ Unlocked
    /\ Spend("hint")
    /\ sc' = [sc EXCEPT !.pending = @ \/ sc.phase \in {"running", "paused"}]
    /\ UNCHANGED <<db, now, thread, wk, slot, rx, ui, rt, past>>

\* The user minimizes the window, or brings it back.
Toggle ==
    /\ ui.visible => Spend("hide")
    /\ ui' = [ui EXCEPT !.visible = ~@]
    /\ ui.visible \/ UNCHANGED left
    /\ UNCHANGED <<db, now, sc, thread, wk, slot, rx, rt, past>>

\* The clock stops at the bound, once nothing waits for it any more.
Tick ==
    /\ now < Last \/ \E t \in Times : t > now
    /\ now' = now + 1
    /\ UNCHANGED <<db, sc, thread, wk, slot, rx, ui, rt, left, past>>

\* The process dies and is started again: the archive is what is left.
Crash ==
    /\ Spend("crash")
    /\ sc' = Control /\ thread' = "waits" /\ wk' = Idle
    /\ slot' = [is |-> "empty", batch |-> {}]
    /\ rx' = Receipts /\ ui' = Bridge(ui.visible) /\ rt' = Runtime
    /\ UNCHANGED <<db, now, past>>

----------------------------------------------------------------------------
(* Closing the application.                                                *)

\* ReminderPresentationCoordinator::shutdown signals and joins its worker.
EndPresentation ==
    /\ rt.ending = "no"
    /\ Spend("quit")
    /\ rx' = [rx EXCEPT !.stopping = TRUE]
    /\ rt' = [rt EXCEPT !.ending = "receipts"]
    /\ UNCHANGED <<db, now, sc, thread, wk, slot, ui, past>>

\* The receipt worker is joined; the runtime is paused, then told to stop.
EndSchedule ==
    /\ rt.ending = "receipts" /\ rx.at = "ended"
    /\ rt' = [phase |-> "stopping", open |-> FALSE, ending |-> "scheduler"]
    /\ rx' = IF rx.flight THEN Landed ELSE rx
    /\ slot' = IF rx.flight THEN Released ELSE slot
    /\ sc' = [sc EXCEPT !.phase = "stopping"]
    /\ wk' = IF wk.at \in {"idle", "notifies"} THEN wk ELSE [wk EXCEPT !.cancelled = TRUE]
    /\ UNCHANGED <<db, now, thread, ui, left, past>>

\* The scheduler is joined; the worker is closed: it drops what it queued.
EndWorker ==
    /\ rt.ending = "scheduler" /\ thread = "ended"
    /\ wk' = [wk EXCEPT !.queued = FALSE, !.cancelled = wk.at # "idle"]
    /\ rt' = [rt EXCEPT !.ending = "worker"]
    /\ UNCHANGED <<db, now, sc, thread, slot, rx, ui, left, past>>

\* The worker is joined.
Ended ==
    /\ rt.ending = "worker" /\ wk.at = "idle"
    /\ rt' = [rt EXCEPT !.phase = "stopped", !.ending = "done"]
    /\ UNCHANGED <<db, now, sc, thread, wk, slot, rx, ui, left, past>>

----------------------------------------------------------------------------
Schedule == Wake \/ Submit
Worker == Begin \/ ReadClock \/ Process \/ Publish \/ Finish \/ Notify
ReceiptWorker == Receive \/ Release \/ PresentAgain \/ Confirm \/ Confirmed
Shutdown == EndSchedule \/ EndWorker \/ Ended

Next ==
    \/ Schedule \/ Worker \/ ReceiptWorker \/ Present \/ Shutdown
    \/ NotifyOther \/ ChangeProfile \/ ObserveInventory \/ Suspend \/ Resume \/ Hint
    \/ Toggle \/ Tick \/ Crash \/ EndPresentation

Spec == Init /\ [][Next]_vars

\* Every thread runs on, the clock does, and a machine that sleeps wakes up.
Fairness ==
    /\ WF_vars(Schedule) /\ WF_vars(Worker) /\ WF_vars(ReceiptWorker)
    /\ WF_vars(Present) /\ WF_vars(Shutdown) /\ WF_vars(Tick) /\ WF_vars(Resume)
    /\ WF_vars(~ui.visible /\ Toggle)

FairSpec == Spec /\ Fairness

----------------------------------------------------------------------------
(* Properties.                                                             *)

(* What the archive records as acknowledged was on screen in a window the  *)
(* user could see, whatever thread acknowledged it and however often the   *)
(* batch was released, leased again or replayed by a restart.              *)
AcknowledgedWasShown == db.acked \subseteq past.shown

(* The capacity-one slot never meets a second batch: a later due page is   *)
(* not committed while a batch is unconsumed.                              *)
NoBatchIsCrowdedOut == wk.result # "slot"

(* A delivery the archive committed is acknowledged in the end, through    *)
(* restarts, a busy archive and a changed profile, unless the application  *)
(* closes.  (On a calm day: the window stays in sight, the machine awake,  *)
(* and no other runtime pumps; see the runs about the other days.)         *)
CommittedIsShown ==
    (left.calm /\ Unacknowledged(db) # {}) ~> (rt.ending # "no" \/ Unacknowledged(db) = {})

(* A reminder that is due on such a day is delivered, or suppressed by a   *)
(* more urgent one, in the end: the schedule finds its way back to every   *)
(* due time after failures, restarts and backpressure.                     *)
DueIsDelivered ==
    (left.calm /\ \E d \in db.due : d.at <= now) ~> (rt.ending # "no" \/ ~\E d \in db.due : d.at <= now)

(* Closing ends: every thread is joined.                                   *)

(* A busy archive gets one retry deadline: the worker is not woken by the  *)
(* clock before it.                                                        *)

\* A reminder is acknowledged only after it was on the screen, and no batch is lost to
\* another that came before it was consumed.
BatchesAreExact == AcknowledgedWasShown /\ NoBatchIsCrowdedOut

\* A delivery that was committed is shown, and a reminder that is due is delivered.
RemindersArrive == CommittedIsShown /\ DueIsDelivered
=============================================================================
