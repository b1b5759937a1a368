-------------------------- MODULE RefreshScheduler --------------------------
(***************************************************************************)
(* The hint flags of crates/runtime/src/hints.rs and the scheduler thread  *)
(* of crates/runtime/src/scheduler.rs.                                     *)
(*                                                                         *)
(* Callers raise hints, an owner pauses, resumes and shuts down, and the   *)
(* thread turns flags into submissions.  They share atomics only, so every *)
(* load, store, swap and fetch_or is a step of its own; one that commutes  *)
(* with all that may come between is joined to its neighbour.  The         *)
(* overflow and discontinuity flags have no reader and are left out;       *)
(* force_pending is read by the executor only and is modelled with it, in  *)
(* LiveRuntime.                                                            *)
(***************************************************************************)
EXTENDS Integers, FiniteSets

CONSTANTS
    Callers,       \* threads that raise hints
    Owner,         \* the thread that pauses, resumes and shuts down
    Quiet,         \* QUIET_WINDOW_MILLIS
    HealthyPoll,   \* HEALTHY_POLL_MILLIS
    DegradedPoll,  \* DEGRADED_POLL_MILLIS
    HintHorizon,   \* bound: hints are raised up to this time
    SchedulerMaxNow, \* bound: the clock stops here
    Budgets        \* bounds: what may happen, one of these for each behaviour

VARIABLES
    hintPhase, flags, latest, health,  \* HintState
    wakeup,        \* the wake channel, of capacity one
    schedulerClock, \* the clock all threads read
    caller,        \* what each caller, and the owner, is doing
    thread,        \* the scheduler thread's locals
    command,       \* what the owner is doing
    budget,        \* what may still happen; see Budget
    flagged,       \* history: the latest tick of the hints in flags
    held           \* history: the latest tick of the hints in thread.taken

hintState == <<hintPhase, flags, latest, health>>
histories == <<flagged, held>>
schedulerVars ==
    <<hintState, wakeup, schedulerClock, caller, thread, command, budget, histories>>

SchedulerPhase == {"Running", "Paused", "Stopping", "Stopped", "Faulted"}
UrgencyFlag == {"hint", "periodic", "interactive", "recovery"}
Flag == {"dirty", "force"} \cup UrgencyFlag
Forced == {"dirty", "force", "recovery"}

Signal == {"changed", "healthy", "error"} \cup UrgencyFlag

\* The threads that raise hints and which, how often the clock goes back and
\* the owner pauses or resumes, whether the u64 count of hints is at its limit,
\* and the largest clock value (u64::MAX milliseconds).
Budget == [raisers : SUBSET Callers, signals : SUBSET Signal, stepBacks : Nat,
           commands : Nat, full : BOOLEAN, top : Nat]

ASSUME SchedulerAssumption ==
    /\ Owner \notin Callers
    /\ {Quiet, HealthyPoll, DegradedPoll} \subseteq Nat \ {0}
    /\ {HintHorizon, SchedulerMaxNow} \subseteq Nat
    /\ Budgets \subseteq Budget /\ \A b \in Budgets : SchedulerMaxNow <= b.top

\* What a signal sets: an urgency stands for force_reconcile with it.
SignalFlags(signal) ==
    CASE signal = "changed"       -> {"dirty", "hint"}
      [] signal \in UrgencyFlag   -> {"dirty", "force", signal}
      [] signal = "error"         -> Forced
      [] OTHER                    -> {}

FlagsUrgency(taken) ==
    CASE "recovery" \in taken -> "recovery"
      [] "recovery" \notin taken /\ "interactive" \in taken -> "interactive"
      [] taken \cap {"recovery", "interactive"} = {} /\ "periodic" \in taken ->
            "periodic"
      [] OTHER -> "hint"

Smaller(a, b) == IF a < b THEN a ELSE b
Larger(a, b) == IF a < b THEN b ELSE a

NoQuiet == budget.top + 1   \* quiet_deadline = None

Resting == [pc |-> "Idle", signal |-> "healthy", flags |-> {}, tick |-> 0]

\* HintState::new; the flags and force_pending are set unless it starts paused
SchedulerInit ==
    /\ budget \in Budgets
    /\ hintPhase \in {"Running", "Paused"}
    /\ flags = IF hintPhase = "Running" THEN Forced ELSE {}
    /\ latest = 0 /\ health = "Healthy"
    /\ wakeup = FALSE
    /\ schedulerClock = 0
    /\ caller = [c \in Callers \cup {Owner} |-> Resting]
    /\ thread = [pc |-> "Phase", now |-> 0, lastNow |-> 0, lastSubmit |-> 0,
                 latest |-> 0, quiet |-> NoQuiet, until |-> 0, taken |-> {},
                 urgency |-> "hint", after |-> "Phase"]
    /\ command = "None"
    /\ flagged = 0 /\ held = 0

-----------------------------------------------------------------------------
(***************************************************************************)
(* RefreshHintSink, on the calling thread.                                 *)
(***************************************************************************)
SetCaller(c, entry) == caller' = [caller EXCEPT ![c] = entry]

\* The methods' entry: a signal is refused, and changes nothing, unless the
\* scheduler is running.  The watcher methods store the health first.
Raise(c, signal) ==
    /\ caller[c].pc = "Idle"
    /\ schedulerClock <= HintHorizon
    /\ hintPhase = "Running"
    /\ SetCaller(c, [Resting EXCEPT
            !.pc = IF signal \in {"healthy", "error"} THEN "Health" ELSE "Clock",
            !.signal = signal, !.flags = SignalFlags(signal)])
    /\ UNCHANGED <<hintState, wakeup, schedulerClock, thread, command, budget, histories>>

\* watcher_error, watcher_rescan_required, watcher_healthy, set_poll_health
StoreHealth(c) ==
    /\ caller[c].pc = "Health"
    /\ health' \in IF caller[c].signal = "error"
                   THEN {"Degraded"} ELSE {"Healthy", "Degraded"}
    /\ SetCaller(c, [caller[c] EXCEPT !.pc =
            IF caller[c].signal = "error" THEN "Check" ELSE "Wake"])
    /\ UNCHANGED <<hintPhase, flags, latest>>
    /\ UNCHANGED <<wakeup, schedulerClock, thread, command, budget, histories>>

\* signal reads the phase again after the health is stored, or after resume
SignalCheck(c) ==
    /\ caller[c].pc = "Check"
    /\ SetCaller(c, IF hintPhase = "Running"
                    THEN [caller[c] EXCEPT !.pc = "Clock"] ELSE Resting)
    /\ UNCHANGED <<hintState, wakeup, schedulerClock, thread, command, budget, histories>>

SignalClock(c) ==
    /\ caller[c].pc = "Clock"
    /\ SetCaller(c, [caller[c] EXCEPT !.pc = "Record", !.tick = schedulerClock])
    /\ UNCHANGED <<hintState, wakeup, schedulerClock, thread, command, budget, histories>>

\* latest_hint_tick.fetch_max and the checked count; an older tick or a full
\* counter turns the hint into a forced one
SignalRecord(c) ==
    /\ caller[c].pc = "Record"
    /\ latest' = Larger(latest, caller[c].tick)
    /\ SetCaller(c, [caller[c] EXCEPT
            !.pc = "Or",
            !.flags = IF caller[c].tick < latest \/ budget.full
                      THEN @ \cup {"force", "recovery"} ELSE @])
    /\ UNCHANGED <<hintPhase, flags, health>>
    /\ UNCHANGED <<wakeup, schedulerClock, thread, command, budget, histories>>

SignalOr(c) ==
    /\ caller[c].pc = "Or"
    /\ flags' = flags \cup caller[c].flags
    /\ flagged' = Larger(flagged, caller[c].tick)
    /\ SetCaller(c, [caller[c] EXCEPT !.pc = "Wake"])
    /\ UNCHANGED <<hintPhase, latest, health>>
    /\ UNCHANGED <<wakeup, schedulerClock, thread, command, budget, held>>

\* Mutant: the wake is dropped.
ForgetSignal == FALSE

\* try_send on the channel, whose receiver is gone once the thread is
Signalled == thread.pc # "Done"

SignalWake(c) ==
    /\ caller[c].pc = "Wake"
    /\ wakeup' = (wakeup \/ Signalled)
    /\ SetCaller(c, Resting)
    /\ UNCHANGED <<hintState, schedulerClock, thread, command, budget, histories>>

-----------------------------------------------------------------------------
(***************************************************************************)
(* pause, resume and shutdown: a load and a compare-exchange that is       *)
(* retried until both see the same phase, so one step.                     *)
(***************************************************************************)
Pause ==
    /\ command = "None" /\ caller[Owner].pc = "Idle"
    /\ budget.commands > 0
    /\ hintPhase = "Running"
    /\ hintPhase' = "Paused"
    /\ budget' = [budget EXCEPT !.commands = @ - 1]
    /\ SetCaller(Owner, [Resting EXCEPT !.pc = "Wake"])
    /\ UNCHANGED <<flags, latest, health>>
    /\ UNCHANGED <<wakeup, schedulerClock, thread, command, histories>>

\* resume goes on with force_reconcile(Recovery)
Resume ==
    /\ command = "None" /\ caller[Owner].pc = "Idle"
    /\ budget.commands > 0 /\ schedulerClock <= HintHorizon
    /\ hintPhase = "Paused"
    /\ hintPhase' = "Running"
    /\ budget' = [budget EXCEPT !.commands = @ - 1]
    /\ SetCaller(Owner, [Resting EXCEPT
            !.pc = "Check", !.signal = "recovery",
            !.flags = SignalFlags("recovery")])
    /\ UNCHANGED <<flags, latest, health>>
    /\ UNCHANGED <<wakeup, schedulerClock, thread, command, histories>>

Shutdown ==
    /\ command = "None" /\ caller[Owner].pc = "Idle"
    /\ hintPhase' = IF hintPhase \in {"Running", "Paused"} THEN "Stopping" ELSE hintPhase
    /\ command' = "Join"
    /\ SetCaller(Owner, [Resting EXCEPT !.pc = "Wake"])
    /\ UNCHANGED <<flags, latest, health>>
    /\ UNCHANGED <<wakeup, schedulerClock, thread, budget, histories>>

PhaseAfterJoin == IF hintPhase = "Faulted" THEN hintPhase ELSE "Stopped"

Join ==
    /\ command = "Join" /\ caller[Owner].pc = "Idle"
    /\ thread.pc = "Done"
    /\ hintPhase' = PhaseAfterJoin
    /\ command' = "Joined"
    /\ UNCHANGED <<flags, latest, health>>
    /\ UNCHANGED <<wakeup, schedulerClock, caller, thread, budget, histories>>

-----------------------------------------------------------------------------
(***************************************************************************)
(* run_scheduler.  Goto(locals) continues the thread with these locals;    *)
(* Fresh are those at the head of its loop.                                *)
(***************************************************************************)
At(pc) == thread.pc = pc
othersIdle == <<schedulerClock, caller, command, budget>>
Goto(locals) == thread' = locals /\ UNCHANGED othersIdle
Fresh == [thread EXCEPT !.pc = "Phase", !.now = 0, !.latest = 0, !.quiet = NoQuiet,
                        !.until = 0, !.taken = {}, !.urgency = "hint",
                        !.after = "Phase"]
Finished == [Fresh EXCEPT !.pc = "Done", !.lastNow = 0, !.lastSubmit = 0]

\* force_clock_discontinuity is entered with the place to go on from.
Discontinuity(locals, next) ==
    [locals EXCEPT !.pc = "OrForced", !.after = next]

\* The phase and then the clock are read: the thread returns when it is to
\* stop, sleeps when paused and otherwise looks whether time went back.
ReadPhase ==
    /\ At("Phase")
    /\ LET read == [Fresh EXCEPT !.now = schedulerClock, !.lastNow = schedulerClock]
       IN  Goto(CASE hintPhase = "Running" /\ schedulerClock >= thread.lastNow ->
                        [read EXCEPT !.pc = "Flags"]
                  [] hintPhase = "Running" /\ schedulerClock < thread.lastNow ->
                        Discontinuity(read, "Flags")
                  [] hintPhase = "Paused" -> [Fresh EXCEPT !.pc = "PausedRecv"]
                  [] OTHER -> Finished)
    /\ hintPhase' = IF hintPhase = "Stopping" THEN "Stopped" ELSE hintPhase
    /\ UNCHANGED <<flags, latest, health>>
    /\ UNCHANGED <<wakeup, histories>>

PausedRecv ==
    /\ At("PausedRecv") /\ wakeup
    /\ wakeup' = FALSE
    /\ Goto(Fresh)
    /\ UNCHANGED <<hintState, histories>>

OrForced ==
    /\ At("OrForced")
    /\ flags' = flags \cup Forced
    /\ Goto(IF thread.after = "Phase" THEN Fresh
            ELSE [thread EXCEPT !.pc = thread.after, !.after = "Phase"])
    /\ UNCHANGED <<hintPhase, latest, health>>
    /\ UNCHANGED <<wakeup, histories>>

\* flags.swap(0)
TakeFlags(next) ==
    /\ flags' = {}
    /\ held' = flagged /\ flagged' = 0
    /\ Goto([thread EXCEPT !.pc = next, !.taken = flags,
                           !.urgency = FlagsUrgency(flags)])
    /\ UNCHANGED <<hintPhase, latest, health, wakeup>>

\* A forced hint is taken at once: no one else clears the flag just loaded.
LoadForced ==
    /\ At("Flags") /\ "force" \in flags
    /\ TakeFlags("MaySubmit")

LoadFlags ==
    /\ At("Flags") /\ "force" \notin flags
    /\ Goto([thread EXCEPT !.pc = IF "dirty" \in flags THEN "Latest" ELSE "Interval"])
    /\ UNCHANGED <<hintState, wakeup, histories>>

\* The quiet window, from locals whose now and latest are set.
Decide(locals) ==
    LET deadline == locals.latest + Quiet
    IN  CASE deadline > budget.top -> Discontinuity(locals, "Phase")
          [] deadline <= budget.top /\ locals.now >= deadline ->
                [locals EXCEPT !.pc = "Take", !.quiet = deadline]
          [] OTHER -> [locals EXCEPT !.pc = "Interval", !.quiet = deadline]

LoadLatest ==
    /\ At("Latest")
    /\ LET read == [thread EXCEPT !.latest = latest]
       IN  Goto(IF latest > thread.now
                THEN [read EXCEPT !.pc = "NowAgain"] ELSE Decide(read))
    /\ UNCHANGED <<hintState, wakeup, histories>>

\* A hint later than the time read: read the clock again before concluding
\* that it jumped.
ReadNowAgain ==
    /\ At("NowAgain")
    /\ LET read == [thread EXCEPT !.now = schedulerClock, !.lastNow = schedulerClock]
       IN  Goto(IF schedulerClock < thread.lastNow \/ thread.latest > schedulerClock
                THEN Discontinuity([thread EXCEPT !.now = schedulerClock], "Phase")
                ELSE Decide(read))
    /\ UNCHANGED <<hintState, wakeup, histories>>

\* Mutant: the flags are taken without looking at the latest tick again.
NeverNewer == FALSE

\* latest_after > latest
NewerHint == latest > thread.latest

TakeQuiet ==
    /\ At("Take")
    /\ TakeFlags("LatestAfter")

LoadLatestAfter ==
    /\ At("LatestAfter")
    /\ Goto([thread EXCEPT !.pc = IF NewerHint THEN "PutBack" ELSE "MaySubmit"])
    /\ UNCHANGED <<hintState, wakeup, histories>>

\* Mutant: the flags of a deferred submission are forgotten.
Forget(taken) == {}

Restore(taken) == taken

PutBack ==
    /\ At("PutBack")
    /\ flags' = flags \cup Restore(thread.taken)
    /\ flagged' = Larger(flagged, held) /\ held' = 0
    /\ Goto(Fresh)
    /\ UNCHANGED <<hintPhase, latest, health>>
    /\ UNCHANGED wakeup

\* submit_one defers unless still running.
MaySubmit ==
    /\ At("MaySubmit")
    /\ Goto(IF hintPhase = "Running" THEN [thread EXCEPT !.pc = "Submit"]
            ELSE [thread EXCEPT !.pc = "PutBack"])
    /\ UNCHANGED <<hintState, wakeup, histories>>

\* The submit closure answers and the submission is counted.
SubmitAnswers ==
    /\ At("Submit")
    /\ held' = 0
    /\ Goto([Fresh EXCEPT !.lastSubmit = thread.now])
    /\ UNCHANGED <<hintPhase, flags, latest, health>>
    /\ UNCHANGED <<wakeup, flagged>>

\* It answers an error or panics, or the counter is full.
SubmitFaults ==
    /\ At("Submit")
    /\ hintPhase' = "Faulted"
    /\ held' = 0
    /\ Goto(Finished)
    /\ UNCHANGED <<flags, latest, health>>
    /\ UNCHANGED <<wakeup, flagged>>

PollInterval == IF health = "Healthy" THEN HealthyPoll ELSE DegradedPoll

Overflows(tick) == tick > budget.top

\* The periodic deadline, or a sleep until it or the end of the quiet window.
LoadHealth ==
    /\ At("Interval")
    /\ LET periodic == thread.lastSubmit + PollInterval
       IN  IF Overflows(periodic)
           THEN hintPhase' = "Faulted" /\ Goto(Finished)
           ELSE /\ UNCHANGED hintPhase
                /\ Goto(IF thread.now >= periodic
                        THEN [Fresh EXCEPT !.pc = "MaySubmit", !.now = thread.now,
                                           !.urgency = "periodic"]
                        ELSE [Fresh EXCEPT !.pc = "Sleep",
                                           !.until = Smaller(thread.quiet, periodic)])
    /\ UNCHANGED <<flags, latest, health>>
    /\ UNCHANGED <<wakeup, histories>>

\* recv_timeout: a wake, or real time has passed (the clock may have gone back)
Awake ==
    /\ At("Sleep")
    /\ wakeup \/ schedulerClock >= thread.until \/ schedulerClock < thread.lastNow
    /\ wakeup' = FALSE
    /\ Goto(Fresh)
    /\ UNCHANGED <<hintState, histories>>

ThreadStep ==
    \/ ReadPhase \/ PausedRecv \/ OrForced \/ LoadForced \/ LoadFlags
    \/ LoadLatest \/ ReadNowAgain \/ TakeQuiet \/ LoadLatestAfter
    \/ PutBack \/ MaySubmit \/ SubmitAnswers \/ SubmitFaults \/ LoadHealth \/ Awake

CallerStep(c) ==
    \/ StoreHealth(c) \/ SignalCheck(c) \/ SignalClock(c) \/ SignalRecord(c)
    \/ SignalOr(c) \/ SignalWake(c)

-----------------------------------------------------------------------------
\* The clock passes the horizon when the hints under way have read it, so
\* that every quiet window ends before MaxNow.
SchedulerTick ==
    /\ schedulerClock < SchedulerMaxNow
    /\ schedulerClock >= HintHorizon =>
            \A c \in Callers \cup {Owner} :
                caller[c].pc \notin {"Health", "Check", "Clock"}
    /\ schedulerClock' = schedulerClock + 1
    /\ UNCHANGED <<hintState, wakeup, caller, thread, command, budget, histories>>

StepBack ==
    /\ schedulerClock > 0 /\ budget.stepBacks > 0
    /\ schedulerClock' = schedulerClock - 1
    /\ budget' = [budget EXCEPT !.stepBacks = @ - 1]
    /\ UNCHANGED <<hintState, wakeup, caller, thread, command, histories>>

SchedulerTerminated ==
    /\ command = "Joined" /\ \A c \in Callers : caller[c].pc = "Idle"
    /\ UNCHANGED schedulerVars

SchedulerNext ==
    \/ \E c \in budget.raisers, signal \in budget.signals : Raise(c, signal)
    \/ \E c \in Callers \cup {Owner} : CallerStep(c)
    \/ Pause \/ Resume \/ Shutdown \/ Join
    \/ ThreadStep
    \/ SchedulerTick \/ StepBack \/ SchedulerTerminated

SchedulerSpec == SchedulerInit /\ [][SchedulerNext]_schedulerVars

\* Threads are scheduled and time passes.
SchedulerFairness ==
    /\ WF_schedulerVars(ThreadStep)
    /\ \A c \in Callers \cup {Owner} : WF_schedulerVars(CallerStep(c))
    /\ SF_schedulerVars(SchedulerTick)
    /\ WF_schedulerVars(Join)

FairSchedulerSpec == SchedulerSpec /\ SchedulerFairness

-----------------------------------------------------------------------------
\* Unforced hints are submitted only after a quiet window: when the thread is
\* about to submit, the newest of the hints it took is at least Quiet old,
\* although hints arrive while it decides.
QuietBeforeSubmit ==
    At("Submit") /\ thread.taken # {} /\ "force" \notin thread.taken =>
        held + Quiet <= thread.now

\* A degraded watcher shortens the sleep that is under way, unless the caller
\* that reported it is still on its way to wake the thread.
DegradedPollIsTimely ==
    /\ At("Sleep") /\ ~wakeup /\ health = "Degraded"
    /\ \A c \in Callers \cup {Owner} : caller[c].pc \in {"Idle", "Health"}
    => thread.until <= thread.lastSubmit + DegradedPoll

UrgencyRank(f) ==
    CASE f = "hint" -> 1 [] f = "periodic" -> 2 [] f = "interactive" -> 3
      [] f = "recovery" -> 4 [] OTHER -> 0

Latch == INSTANCE HintLatch WITH
    Urgency <- UrgencyFlag, Rank <- UrgencyRank,
    owed <- flags \cup thread.taken,
    offer <- IF At("Submit") THEN thread.urgency ELSE "none",
    alive <- hintPhase \notin {"Stopped", "Faulted"}

\* No hint is lost or served below its urgency, whatever defers, restores or
\* interrupts its submission (hints.rs: signal, scheduler.rs: run_scheduler,
\* submit_one).
ImplementsHintLatch == Latch!Spec

\* An accepted hint is submitted unless the scheduler leaves Running first: no
\* wake is lost between signal and the sleep of run_scheduler.
HintsServed ==
    (hintPhase = "Running" /\ "dirty" \in flags)
        ~> (At("Submit") \/ hintPhase # "Running")

\* Unforced hints are submitted only after a quiet window, although hints arrive while the
\* thread decides; and a watcher that degrades shortens the sleep under way (scheduler.rs).
SchedulerIsTimely == QuietBeforeSubmit /\ DegradedPollIsTimely
=============================================================================
