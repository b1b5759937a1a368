------------------------------- MODULE MCDesktop ------------------------------
(*****************************************************************************)
(* The application as its user meets it, component by component: the window  *)
(* with its controller and its reducer, the commands, the reminders.  A      *)
(* behaviour is one of one of the Parts.                                     *)
(*****************************************************************************)
EXTENDS ApplicationCommands, Integers, Sequences, TLC

CONSTANTS
    Parts,   \* the components this instance runs
    MaxRequestId, NoDeadline, NoPermit, NoPending, Absent, Budgets, Presets, Rows,
    Reports, Changing, MaxNow, Scopes, Lots, Defaults, MaxLots, MaxChanges,
    MaxDeliveries, KeptChanges, KeptDeliveries, Page, MaxScopes, MaxOverviewLots,
    FreshFor, StaleFor, PageSize, Observations, Profiles, Days, Retry, Last

VARIABLES
    part,    \* the component that runs in this behaviour
    windowData, windowNow, windowCoord, windowFaulted, windowWork, windowRed,
    windowPub, windowObserver, windowExec, windowBridge, windowUi, windowAnswers,
    windowBudget, reminderDb, reminderNow, reminderSc, reminderThread, reminderWk,
    reminderSlot, reminderRx, reminderUi, reminderRt, reminderLeft, reminderPast

Window == INSTANCE DesktopController WITH
    data <- windowData, now <- windowNow, coord <- windowCoord,
    faulted <- windowFaulted, work <- windowWork, red <- windowRed, pub <- windowPub,
    observer <- windowObserver, exec <- windowExec, bridge <- windowBridge,
    ui <- windowUi, answers <- windowAnswers, budget <- windowBudget, None <- Absent

Reminders == INSTANCE Reminders WITH
    db <- reminderDb, now <- reminderNow, sc <- reminderSc, thread <- reminderThread,
    wk <- reminderWk, slot <- reminderSlot, rx <- reminderRx, ui <- reminderUi,
    rt <- reminderRt, left <- reminderLeft, past <- reminderPast

-----------------------------------------------------------------------------
(* The instance of DesktopController.                                        *)

Quiet == [publish |-> 1, refresh |-> 0, click |-> 1, data |-> 0, fail |-> 0,
          tick |-> 0, panic |-> 0, early |-> FALSE]

MCBudgets ==
    {[Quiet EXCEPT !.data = 1, !.publish = 2, !.click = 0],
     [Quiet EXCEPT !.fail = 1, !.click = 2],
     [Quiet EXCEPT !.tick = 3],
     [Quiet EXCEPT !.panic = 1, !.publish = 2],
     [Quiet EXCEPT !.refresh = 1]}

Healthy == [r \in {"usage", "quota", "reminder", "git"} |-> {}]
MCReports == {Healthy}

ASSUME WindowDesktopAssumption == Window!DesktopAssumption
-----------------------------------------------------------------------------
(* The instance of Reminders.                                                *)

Lot(l, expiry) ==
    [lot |-> l, is |-> [state |-> "available", quantity |-> 1, expiry |-> expiry, other |-> 0]]

MCObservations == {{Lot(1, 3), Lot(2, 4)}}

MCDefaults == [rev |-> 1, leads |-> {1, 2}, channels |-> {"in_app"}]

Events == {"busy", "others", "profile", "observe", "suspend", "hide", "crash", "quit", "hint"}

Day(events) ==
    [e \in Events \cup {"calm"} |->
        IF e = "calm" THEN {"others", "observe", "suspend", "hide"} \cap DOMAIN events = {}
        ELSE IF e \in DOMAIN events THEN events[e] ELSE 0]

MCDays ==
    {Day([busy |-> 1, crash |-> 1]),
     Day([crash |-> 1, profile |-> 1]),
     Day([hint |-> 1, quit |-> 1]),
     Day([suspend |-> 1, hide |-> 1, others |-> 1]),
     Day([observe |-> 1, others |-> 1])}

windowVars == <<windowData, windowNow, windowCoord, windowFaulted, windowWork, windowRed,
    windowPub, windowObserver, windowExec, windowBridge, windowUi, windowAnswers,
    windowBudget>>
reminderVars == <<reminderDb, reminderNow, reminderSc, reminderThread, reminderWk, reminderSlot,
    reminderRx, reminderUi, reminderRt, reminderLeft, reminderPast>>
allVars == <<part, windowVars, vars, reminderVars>>

\* One component runs; the others stay in one of their initial states.
AllInit ==
    /\ part \in Parts
    /\ Window!Init
    /\ part # "window" => windowBudget = CHOOSE b \in Budgets : TRUE
    /\ Init
    /\ Reminders!Init
    /\ part # "reminders" => reminderLeft = CHOOSE d \in Days : TRUE

AllNext ==
    \/ part = "window" /\ Window!Next /\ UNCHANGED <<part, vars, reminderVars>>
    \/ part = "commands" /\ Next /\ UNCHANGED <<part, windowVars, reminderVars>>
    \/ part = "reminders" /\ Reminders!Next /\ UNCHANGED <<part, windowVars, vars>>
    \/ part \in {"window", "commands", "reminders"} /\ UNCHANGED allVars

AllSpec == AllInit /\ [][AllNext]_allVars

\* The fairness of each component, while it is the one that runs.
FairAllSpec ==
    /\ AllSpec
    /\ WF_windowVars(part = "window" /\ Window!Notifier)
    /\ WF_windowVars(part = "window" /\ Window!Worker)
    /\ WF_windowVars(part = "window" /\ Window!EventLoop)
    /\ WF_vars(part = "commands" /\ ThreadStep)
    /\ WF_reminderVars(part = "reminders" /\ Reminders!Schedule)
    /\ WF_reminderVars(part = "reminders" /\ Reminders!Worker)
    /\ WF_reminderVars(part = "reminders" /\ Reminders!ReceiptWorker)
    /\ WF_reminderVars(part = "reminders" /\ Reminders!Present)
    /\ WF_reminderVars(part = "reminders" /\ Reminders!Shutdown)
    /\ WF_reminderVars(part = "reminders" /\ Reminders!Tick)
    /\ WF_reminderVars(part = "reminders" /\ Reminders!Resume)
    /\ WF_reminderVars(part = "reminders" /\ ~reminderUi.visible /\ Reminders!Toggle)

-----------------------------------------------------------------------------
\* A route that is ready shows one moment of the archive, an answer is accepted exactly
\* when its question is still the one that is asked, the detail belongs to the selected
\* row, and the shown range is the one chosen last, while refreshes, clicks and
\* completions overtake each other (product/reducer.rs, desktop/controller.rs).
ShownIsCoherent == part = "window" => Window!ShownIsCoherent

\* A navigation or a range that is pending settles, and the latest snapshot is taken over
\* by the window: no wake of the event loop is lost (desktop/bridge.rs).
WindowSettles == part = "window" => Window!WindowSettles

\* A reminder is acknowledged only after it was on the screen, and no batch meets a slot
\* that is still taken (runtime/reminder: the notification slot and its receipts).
BatchesAreExact == part = "reminders" => Reminders!BatchesAreExact

\* On a calm day a delivery that was committed is shown, also after a crash, and a
\* reminder that is due is delivered (runtime/reminder/runtime.rs, execution.rs).
RemindersArrive == part = "reminders" => Reminders!RemindersArrive
=============================================================================
