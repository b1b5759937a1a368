----------------------------- MODULE LiveRuntime -----------------------------
(***************************************************************************)
(* crates/runtime/src/live.rs: the watcher, the scheduler, the refresh     *)
(* worker and its execution, and the owner that pauses, resumes and shuts  *)
(* them down, together with the files they are about.                      *)
(*                                                                         *)
(* The scheduler and the worker appear by what RefreshScheduler and        *)
(* RefreshAdmission say of them: urgencies are owed until submitted, one   *)
(* refresh is active and one pending.  Time is abstracted: the scheduler   *)
(* may submit what is owed, or a periodic refresh, whenever it runs.       *)
(***************************************************************************)
EXTENDS RefreshCoordinator, FiniteSets

CONSTANTS
    Paths,             \* files below the watched roots
    Rescan,            \* the notification that notifications were lost
    MaxChangedPaths,   \* MAX_CHANGED_PATHS
    LiveScenarios      \* bounds: files that change, polls and calls made, mishaps

ASSUME LiveAssumption ==
    /\ MaxChangedPaths \in Nat \ {0}
    /\ IsFiniteSet(Paths) /\ Rescan \notin Paths
    /\ LiveScenarios \subseteq
        [files : SUBSET Paths, calls : SUBSET {"poll", "refresh", "pause", "shutdown"},
         mishaps : SUBSET {"loss", "refuse", "fail", "partial", "panic", "roots"}]

VARIABLES
    liveScenario, \* which of the LiveScenarios this behaviour is
    live,        \* LiveRuntime.phase
    admission,   \* the admission_open mutex: is it open, is it held by owner
    owner,       \* where the owner is inside pause, resume or shutdown
    scheduler,   \* its phase, the highest urgency flagged, the one in hand
    signals,     \* urgencies whose flags are still to be set, by thread
    force,       \* the shared force_reconcile boolean
    buffer,      \* ChangedPathBuffer
    watch,       \* reset_watcher, watch_set_complete, is a watcher installed
    events,      \* notifications the backend has not delivered yet
    callback,    \* what the watcher callback is about to signal
    worker,      \* phase, active and pending urgency, cancelled
    execution,   \* LiveExecution: where it is and which files it covers
    dirty,       \* truth: the files changed and not applied to the archive
    excused      \* history: files whose refresh failed; the next poll is theirs

liveVars == <<liveScenario, live, admission, owner, scheduler, signals, force, buffer,
              watch, events, callback, worker, execution, dirty, excused>>

None == -1
Actor == {"callback", "owner", "worker"}

EmptyBuffer == [paths |-> {}, reconcile |-> FALSE]
IdleExecution == [pc |-> "Idle", forced |-> FALSE, scope |-> {}]
IdleWorker == [phase |-> "Running", active |-> None, pending |-> None,
               cancelled |-> FALSE]

\* start: no watcher is installed before the first refresh completes
LiveInit ==
    /\ liveScenario \in LiveScenarios
    /\ live = "Running"
    /\ admission = [open |-> TRUE, held |-> FALSE]
    /\ owner = "None"
    /\ scheduler = [phase |-> "Running", flags |-> Recovery, hand |-> None]
    /\ signals = [a \in Actor |-> None]
    /\ force = TRUE
    /\ buffer = EmptyBuffer
    /\ watch = [reset |-> TRUE, complete |-> FALSE, installed |-> FALSE]
    /\ events = {}
    /\ callback = None
    /\ worker = IdleWorker
    /\ execution = IdleExecution
    /\ dirty = liveScenario.files
    /\ excused = {}

ownerVars == <<live, admission, owner>>
workVars == <<worker, execution>>
fileVars == <<dirty, excused>>
watcherVars == <<buffer, watch, events, callback>>

-----------------------------------------------------------------------------
(***************************************************************************)
(* RefreshHintSink::signal: refused unless the scheduler runs; then the    *)
(* force boolean is stored, and the flags are set in a step of their own.  *)
(***************************************************************************)
SendHint(a, urgency, forced) ==
    /\ signals[a] = None
    /\ IF scheduler.phase = "Running"
       THEN /\ force' = (force \/ forced)
            /\ signals' = [signals EXCEPT ![a] = urgency]
       ELSE UNCHANGED <<force, signals>>

SetFlags(a) ==
    /\ signals[a] # None
    /\ scheduler' = [scheduler EXCEPT !.flags = HigherUrgency(@, signals[a])]
    /\ signals' = [signals EXCEPT ![a] = None]
    /\ UNCHANGED <<ownerVars, force, watcherVars, workVars, fileVars>>

(***************************************************************************)
(* run_scheduler, and the submit closure, which holds the admission mutex. *)
(***************************************************************************)
TakeUrgency ==
    /\ scheduler.phase = "Running"
    /\ scheduler.hand = None /\ scheduler.flags # None
    /\ scheduler' = [scheduler EXCEPT !.hand = scheduler.flags, !.flags = None]
    /\ UNCHANGED <<ownerVars, signals, force, watcherVars, workVars, fileVars>>

Poll ==
    /\ "poll" \in liveScenario.calls
    /\ scheduler.phase = "Running"
    /\ scheduler.hand = None
    /\ scheduler' = [scheduler EXCEPT !.hand = Periodic]
    /\ UNCHANGED <<ownerVars, signals, force, watcherVars, workVars, fileVars>>

\* submit_one defers: flags taken are restored, a poll is dropped
Defer ==
    /\ scheduler.phase # "Running" /\ scheduler.hand # None
    /\ \E restored \in {scheduler.hand, None} :
            /\ restored = None => scheduler.hand = Periodic
            /\ scheduler' = [scheduler EXCEPT !.flags = HigherUrgency(@, restored),
                                              !.hand = None]
    /\ UNCHANGED <<ownerVars, signals, force, watcherVars, workVars, fileVars>>

\* Mutant: the closure submits whatever the owner has decided.
IgnoreAdmission == TRUE

MayAdmit == admission.open

\* RefreshWorker::submit
Admitted(urgency) ==
    IF worker.active = None
    THEN [worker EXCEPT !.active = urgency]
    ELSE [worker EXCEPT !.pending = HigherUrgency(@, urgency)]

SubmitRefresh ==
    /\ scheduler.hand # None /\ ~admission.held
    /\ LET fails == MayAdmit /\ worker.phase # "Running"
       IN  /\ worker' = IF MayAdmit /\ ~fails
                        THEN Admitted(scheduler.hand) ELSE worker
           /\ scheduler' = [scheduler EXCEPT
                    !.hand = None, !.phase = IF fails THEN "Faulted" ELSE @]
    /\ UNCHANGED <<ownerVars, signals, force, watcherVars, execution, fileVars>>

-----------------------------------------------------------------------------
(***************************************************************************)
(* The files, the notification backend and the watcher callback.           *)
(***************************************************************************)
\* A change during a refresh may come before or after the file was read.
\* It is notified if a watcher is installed, except while the machine sleeps.
Change(p) ==
    /\ p \in liveScenario.files
    /\ dirty' = dirty \cup {p}
    /\ excused' = excused \ {p}
    /\ \E covered \in {execution.scope, execution.scope \ {p}} :
            execution' = [execution EXCEPT !.scope = covered]
    /\ \E notified \in {{p}, {}} :
            /\ notified = {} => ~watch.installed \/ live = "Paused"
            /\ notified # {} => watch.installed
            /\ events' = events \cup notified
    /\ UNCHANGED <<ownerVars, scheduler, signals, force, buffer, watch, callback,
                   worker>>

LoseNotifications ==
    /\ "loss" \in liveScenario.mishaps
    /\ events \cap Paths # {}
    /\ events' = {Rescan}
    /\ UNCHANGED <<ownerVars, scheduler, signals, force, buffer, watch, callback,
                   workVars, fileVars>>

\* ChangedPathBuffer::record
Record(p) ==
    CASE buffer.reconcile -> buffer
      [] ~buffer.reconcile /\ p \in buffer.paths -> buffer
      [] /\ ~buffer.reconcile /\ p \notin buffer.paths
         /\ Cardinality(buffer.paths) = MaxChangedPaths ->
            [paths |-> {}, reconcile |-> TRUE]
      [] OTHER -> [buffer EXCEPT !.paths = @ \cup {p}]

\* The callback records the path, or asks for a reconciliation, first.
Deliver(e) ==
    /\ e \in events /\ watch.installed
    /\ callback = None /\ signals["callback"] = None
    /\ events' = events \ {e}
    /\ buffer' = IF e = Rescan THEN [paths |-> {}, reconcile |-> TRUE]
                 ELSE Record(e)
    /\ callback' = IF buffer'.reconcile THEN Recovery ELSE Hint
    /\ UNCHANGED <<ownerVars, scheduler, signals, force, watch, workVars, fileVars>>

CallbackSignals ==
    /\ callback # None
    /\ SendHint("callback", callback, callback = Recovery)
    /\ callback' = None
    /\ UNCHANGED <<ownerVars, scheduler, buffer, watch, events, workVars, fileVars>>

-----------------------------------------------------------------------------
(***************************************************************************)
(* LiveExecution::run on the worker thread.                                *)
(***************************************************************************)
\* Files that were to be applied and were not wait for the next poll.
Excuse(missed) == excused' = excused \cup (missed \cap dirty)

\* What the refresh would have covered, had it come to take its paths.
Expected ==
    IF worker.active = Hint /\ ~force /\ ~buffer.reconcile /\ buffer.paths # {}
    THEN buffer.paths ELSE Paths

\* control.check, the writer lease or the archive state ends it: nothing is
\* taken
RefuseRefresh ==
    /\ worker.cancelled \/ "refuse" \in liveScenario.mishaps
    /\ execution.pc = "Idle" /\ worker.active # None
    /\ execution' = [execution EXCEPT !.pc = "Finish"]
    /\ Excuse(Expected)
    /\ UNCHANGED <<ownerVars, scheduler, signals, force, watcherVars, worker, dirty>>

\* force_reconcile.swap(false); an archive that is not incremental is rebuilt
TakeForce ==
    /\ execution.pc = "Idle" /\ worker.active # None /\ ~worker.cancelled
    /\ force' = FALSE
    /\ \E incremental \in BOOLEAN :
            execution' = IF incremental
                         THEN [execution EXCEPT !.pc = "Take", !.forced = force]
                         ELSE [execution EXCEPT !.pc = "Run", !.scope = Paths]
    /\ UNCHANGED <<ownerVars, scheduler, signals, watcherVars, worker, fileVars>>

\* Mutant: a poll with no changed paths has nothing to read.
TrustBuffer(forced) == ~forced /\ ~buffer.reconcile

\* select_targeted_paths
Targeted(forced) ==
    /\ worker.active = Hint /\ ~forced
    /\ ~buffer.reconcile /\ buffer.paths # {}

TakePaths ==
    /\ execution.pc = "Take"
    /\ execution' = [pc |-> "Run", forced |-> FALSE,
                     scope |-> IF Targeted(execution.forced)
                               THEN buffer.paths ELSE Paths]
    /\ buffer' = EmptyBuffer
    /\ UNCHANGED <<ownerVars, scheduler, signals, force, watch, events, callback,
                   worker, fileVars>>

\* ReconcileRequired or RebuildRequired: everything is read, from the start
Escalate ==
    /\ execution.pc = "Run" /\ execution.scope # Paths
    /\ execution' = [execution EXCEPT !.scope = Paths]
    /\ UNCHANGED <<ownerVars, scheduler, signals, force, watcherVars, worker, fileVars>>

Complete ==
    /\ execution.pc = "Run"
    /\ dirty' = dirty \ execution.scope
    /\ excused' = excused \ execution.scope
    /\ execution' = [execution EXCEPT !.pc = "Sync", !.scope = {}]
    /\ UNCHANGED <<ownerVars, scheduler, signals, force, watcherVars, worker>>

\* schedule_partial_continuation and schedule_recovery
ScheduleContinuation == SendHint("worker", Recovery, TRUE)

\* Part of the scope is published.  The rest is scheduled if this refresh
\* made progress; a full rebuild may publish part of it and still fail.
Partial ==
    /\ "partial" \in liveScenario.mishaps
    /\ execution.pc = "Run"
    /\ \E done \in SUBSET execution.scope, progress \in BOOLEAN :
            /\ done # {} => progress
            /\ dirty' = dirty \ done
            /\ IF progress
               THEN ScheduleContinuation /\ excused' = excused \ done
               ELSE UNCHANGED <<force, signals>> /\ Excuse(execution.scope)
    /\ \E completed \in BOOLEAN :
            execution' = [execution EXCEPT
                !.pc = IF completed THEN "Sync" ELSE "Finish", !.scope = {}]
    /\ UNCHANGED <<ownerVars, scheduler, watcherVars, worker>>

\* An error or a cancellation.  The paths and the force boolean taken are not
\* given back.
Fail ==
    /\ worker.cancelled \/ "fail" \in liveScenario.mishaps
    /\ execution.pc = "Run"
    /\ execution' = [execution EXCEPT !.pc = "Finish", !.scope = {}]
    /\ Excuse(execution.scope)
    /\ UNCHANGED <<ownerVars, scheduler, signals, force, watcherVars, worker, dirty>>

\* The executor unwinds: the worker faults and abandons its pending request.
Panic ==
    /\ "panic" \in liveScenario.mishaps
    /\ execution.pc = "Run"
    /\ execution' = IdleExecution
    /\ worker' = [IdleWorker EXCEPT !.phase = "Faulted"]
    /\ UNCHANGED <<ownerVars, scheduler, signals, force, watcherVars, fileVars>>

ReplacesRoots(rootsChanged) ==
    \/ watch.reset
    \/ rootsChanged /\ "roots" \in liveScenario.mishaps
    \/ ~watch.complete /\ worker.active = Periodic

SkipSync ==
    /\ execution.pc = "Sync" /\ signals["worker"] = None
    /\ ~ReplacesRoots(FALSE) \/ live = "Stopping"
    /\ execution' = [execution EXCEPT !.pc = "Finish"]
    /\ watch' = [watch EXCEPT !.reset = FALSE]
    /\ UNCHANGED <<ownerVars, scheduler, signals, force, buffer, events, callback,
                   worker, fileVars>>

\* Mutant: a new watcher is trusted from where the old one stopped.
TrustNewWatcher == UNCHANGED <<force, signals>>

\* watcher_healthy and force_reconcile, or watcher_error for a missing root
ReconcileNewWatcher == SendHint("worker", Recovery, TRUE)

\* replace_roots succeeds: the old generation's notifications are dropped
InstallWatcher ==
    /\ execution.pc = "Sync" /\ live # "Stopping"
    /\ \E rootsChanged, complete \in BOOLEAN :
            /\ ReplacesRoots(rootsChanged)
            /\ watch' = [reset |-> FALSE, complete |-> complete, installed |-> TRUE]
    /\ signals["worker"] = None /\ ReconcileNewWatcher
    /\ events' = {}
    /\ execution' = [execution EXCEPT !.pc = "Finish"]
    /\ UNCHANGED <<ownerVars, scheduler, buffer, callback, worker, fileVars>>

\* replace_roots fails, the old watcher stays: only a failing backend signals
KeepWatcher ==
    /\ "roots" \in liveScenario.mishaps
    /\ execution.pc = "Sync" /\ live # "Stopping"
    /\ \E rootsChanged \in BOOLEAN : ReplacesRoots(rootsChanged)
    /\ watch' = [watch EXCEPT !.reset = FALSE, !.complete = FALSE]
    /\ signals["worker"] = None
    /\ SendHint("worker", Recovery, TRUE) \/ UNCHANGED <<force, signals>>
    /\ execution' = [execution EXCEPT !.pc = "Finish"]
    /\ UNCHANGED <<ownerVars, scheduler, buffer, events, callback, worker, fileVars>>

\* Mutant: the follow-up stays pending.
RepeatFollowUp == [worker EXCEPT !.active = worker.pending, !.cancelled = FALSE]

\* The pending request becomes active, unless the worker closes
FollowUp ==
    [worker EXCEPT
        !.active = IF worker.phase = "Running" THEN worker.pending ELSE None,
        !.pending = None, !.cancelled = FALSE]

EndRefresh ==
    /\ execution.pc = "Finish" /\ signals["worker"] = None
    /\ execution' = IdleExecution
    /\ worker' = FollowUp
    /\ owner' = IF owner = "PauseCancel" THEN "PauseStale" ELSE owner
    /\ UNCHANGED <<live, admission, scheduler, signals, force, watcherVars, fileVars>>

-----------------------------------------------------------------------------
(***************************************************************************)
(* The owner: refresh_now, pause, resume, apply_power_event, shutdown.     *)
(***************************************************************************)
OwnerFree == owner = "None" /\ signals["owner"] = None

\* refresh_now, and apply_power_event(Resume) of a runtime that never paused
RefreshNow ==
    /\ "refresh" \in liveScenario.calls /\ OwnerFree /\ live = "Running"
    /\ \E urgency \in RefreshUrgency, power \in BOOLEAN :
            /\ power => urgency = Recovery
            /\ watch' = [watch EXCEPT !.reset = @ \/ power]
            /\ SendHint("owner", urgency, TRUE)
    /\ UNCHANGED <<ownerVars, scheduler, buffer, events, callback, workVars, fileVars>>

\* Under the admission lock: close it, pause the scheduler, read the active id
PauseBegin ==
    /\ "pause" \in liveScenario.calls /\ OwnerFree /\ live = "Running"
    /\ IF scheduler.phase = "Faulted"
       THEN /\ live' = "Faulted"
            /\ admission' = [open |-> FALSE, held |-> FALSE]
            /\ UNCHANGED <<owner, scheduler>>
       ELSE /\ admission' = [open |-> FALSE, held |-> TRUE]
            /\ scheduler' = [scheduler EXCEPT !.phase = "Paused"]
            /\ owner' = IF worker.active = None THEN "PauseStale" ELSE "PauseCancel"
            /\ UNCHANGED live
    /\ UNCHANGED <<signals, force, watcherVars, workVars, fileVars>>

\* Cancel it, if it is still the active one; the git runtime may fail to pause
PauseEnd ==
    /\ owner \in {"PauseCancel", "PauseStale"}
    /\ worker' = [worker EXCEPT !.cancelled = @ \/ owner = "PauseCancel"]
    /\ owner' = "None"
    /\ admission' = [admission EXCEPT !.held = FALSE]
    /\ live' \in {"Paused", "Faulted"}
    /\ UNCHANGED <<scheduler, signals, force, watcherVars, execution, fileVars>>

\* RefreshScheduler::resume forces a Recovery refresh
ResumeReconciles ==
    /\ force' = TRUE
    /\ signals' = [signals EXCEPT !["owner"] = Recovery]

\* Under the admission lock; a scheduler or git runtime that fails faults it
ResumeRuntime ==
    /\ OwnerFree /\ live = "Paused"
    /\ watch' = [watch EXCEPT !.reset = TRUE]
    /\ \/ /\ scheduler.phase = "Paused"
          /\ admission' = [open |-> TRUE, held |-> TRUE]
          /\ scheduler' = [scheduler EXCEPT !.phase = "Running"]
          /\ ResumeReconciles
          /\ owner' = "Resume"
          /\ excused' = {}
          /\ UNCHANGED live
       \/ /\ live' = "Faulted"
          /\ UNCHANGED <<admission, scheduler, force, signals, owner, excused>>
    /\ UNCHANGED <<buffer, events, callback, workVars, dirty>>

ResumeEnd ==
    /\ owner = "Resume" /\ signals["owner"] = None
    /\ owner' = "None"
    /\ live' = "Running"
    /\ admission' = [admission EXCEPT !.held = FALSE]
    /\ UNCHANGED <<scheduler, signals, force, watcherVars, workVars, fileVars>>

StopPhase(phase) == IF phase \in {"Running", "Paused"} THEN "Stopping" ELSE phase

\* Close admission, drop the watcher, tell the scheduler to stop
ShutdownRuntime ==
    /\ "shutdown" \in liveScenario.calls /\ OwnerFree /\ live # "Stopped"
    /\ live' = "Stopping"
    /\ admission' = [admission EXCEPT !.open = FALSE]
    /\ watch' = [watch EXCEPT !.installed = FALSE]
    /\ events' = {}
    /\ scheduler' = [scheduler EXCEPT !.phase = StopPhase(@)]
    /\ owner' = "JoinScheduler"
    /\ UNCHANGED <<signals, force, buffer, callback, workVars, fileVars>>

SchedulerThreadEnded ==
    scheduler.hand = None /\ scheduler.phase \in {"Stopping", "Stopped", "Faulted"}

\* The scheduler is joined before the worker is told to close
JoinScheduler ==
    /\ owner = "JoinScheduler" /\ SchedulerThreadEnded
    /\ scheduler' = [scheduler EXCEPT
            !.phase = IF @ = "Stopping" THEN "Stopped" ELSE @]
    /\ worker' = [worker EXCEPT
            !.phase = IF @ = "Running" THEN "Closing" ELSE @,
            !.pending = None, !.cancelled = worker.active # None]
    /\ owner' = "JoinWorker"
    /\ UNCHANGED <<live, admission, signals, force, watcherVars, execution, fileVars>>

JoinWorker ==
    /\ owner = "JoinWorker" /\ worker.active = None
    /\ worker' = [worker EXCEPT !.phase = IF @ = "Closing" THEN "Stopped" ELSE @]
    /\ live' = IF "Faulted" \in {scheduler.phase, worker.phase}
               THEN "Faulted" ELSE "Stopped"
    /\ owner' = "None"
    /\ UNCHANGED <<admission, scheduler, signals, force, watcherVars, execution, fileVars>>

-----------------------------------------------------------------------------
SchedulerStep == TakeUrgency \/ Poll \/ Defer \/ SubmitRefresh

ExecutionStep ==
    \/ RefuseRefresh \/ TakeForce \/ TakePaths \/ Escalate
    \/ Complete \/ Partial \/ Fail \/ Panic
    \/ SkipSync \/ InstallWatcher \/ KeepWatcher \/ EndRefresh

OwnerStep ==
    \/ RefreshNow \/ PauseBegin \/ PauseEnd \/ ResumeRuntime \/ ResumeEnd
    \/ ShutdownRuntime \/ JoinScheduler \/ JoinWorker

LiveNext ==
    /\ \/ SchedulerStep \/ ExecutionStep \/ OwnerStep
       \/ CallbackSignals \/ LoseNotifications
       \/ \E a \in Actor : SetFlags(a)
       \/ \E p \in Paths : Change(p)
       \/ \E e \in Paths \cup {Rescan} : Deliver(e)
    /\ UNCHANGED liveScenario

LiveSpec == LiveInit /\ [][LiveNext]_liveVars

(***************************************************************************)
(* Threads that can run do run.  The poll comes round again and again, and *)
(* a refresh is not refused, nor does it fail, for ever.  Nothing is       *)
(* assumed of the owner's calls beyond that a call once made proceeds.     *)
(***************************************************************************)
InScenario(A) == A /\ UNCHANGED liveScenario

LiveFairness ==
    /\ WF_liveVars(InScenario(TakeUrgency))
    /\ WF_liveVars(InScenario(SubmitRefresh \/ Defer))
    /\ SF_liveVars(InScenario(Poll))
    /\ WF_liveVars(InScenario(ExecutionStep))
    /\ SF_liveVars(InScenario(TakeForce)) /\ SF_liveVars(InScenario(Complete))
    /\ WF_liveVars(InScenario(PauseEnd \/ ResumeEnd \/ JoinScheduler \/ JoinWorker))
    /\ \A a \in Actor : WF_liveVars(InScenario(SetFlags(a)))

FairLiveSpec == LiveSpec /\ LiveFairness

-----------------------------------------------------------------------------
\* The urgencies some thread still owes a refresh that takes its paths later.
Owed ==
    ({scheduler.flags, scheduler.hand, callback, worker.pending}
        \cup {signals[a] : a \in Actor}
        \cup (IF execution.pc \in {"Idle", "Take"}
              THEN {worker.active} ELSE {})) \ {None}

\* A refresh is owed that will cover p: any that is not a bare hint does, and
\* a hint does if it is forced, or the buffer names p or asks for everything.
WillCover(p) ==
    \/ Owed \cap {Periodic, Interactive, Recovery} # {}
    \/ /\ Hint \in Owed
       /\ \/ p \in buffer.paths \/ buffer.reconcile \/ force
          \/ execution.forced

Operating ==
    /\ live = "Running" /\ owner = "None" /\ watch.installed
    /\ scheduler.phase = "Running" /\ worker.phase = "Running"

\* While the runtime operates and a watcher is installed, a file that changed
\* is never forgotten: its notification is still to be delivered, or a refresh
\* that is owed or running will cover it, or the refresh that should have
\* failed.  Overflow of the buffer, notifications lost, watchers replaced and
\* pauses included (watcher.rs record and replace_roots, live.rs refresh,
\* resume and select_targeted_paths).
NoChangeForgotten ==
    Operating =>
        \A p \in dirty :
            \/ {p, Rescan} \cap events # {}
            \/ WillCover(p)
            \/ execution.pc = "Run" /\ p \in execution.scope
            \/ p \in excused

\* While the runtime is paused no request is admitted: the active one and the
\* pending one only go away (the submit closure of live.rs).
PauseAdmitsNothing ==
    [][(live = "Paused" /\ live' = "Paused") =>
           /\ worker'.pending \in {worker.pending, None}
           /\ worker.active = None => worker'.active = None]_liveVars

\* A shutdown of the runtime stops the scheduler before the worker is told to
\* close, so no request is admitted to a worker that is closing, and the
\* runtime is stopped only when both are and nothing is left running.
StoppedIsQuiet ==
    /\ worker.phase = "Closing" => scheduler.phase \in {"Stopped", "Faulted"}
    /\ live = "Stopped" =>
        /\ scheduler.phase = "Stopped" /\ worker.phase = "Stopped"
        /\ execution = IdleExecution
        /\ worker.active = None /\ worker.pending = None
        /\ scheduler.hand = None /\ events = {}

NotOperating ==
    \/ live # "Running" \/ owner # "None"
    \/ scheduler.phase # "Running" \/ worker.phase # "Running"

\* Once the files are quiet, every change reaches the archive, or the runtime
\* is paused, stopped or faulted (live.rs: refresh, select_targeted_paths; the
\* periodic poll).
ChangesApplied ==
    <>[][\A p \in Paths : ~Change(p)]_liveVars =>
        \A p \in Paths : (p \in dirty) ~> (p \notin dirty \/ NotOperating)

\* A paused runtime comes to rest: the refresh running and its follow-up end.
PauseQuiesces == (live = "Paused") ~> (worker.active = None \/ live # "Paused")

\* A shutdown ends, whatever was running when it was called.
ShutdownEnds == (live = "Stopping") ~> (live \in {"Stopped", "Faulted"})

\* While the runtime operates and a watcher is installed, a file that changed is
\* still to be notified, or a refresh that is owed or running will cover it,
\* through overflow, lost notifications, replaced watchers and pauses; and a
\* stopped runtime has stopped its scheduler before its worker and left nothing
\* running (watcher.rs: record, live.rs: refresh, shutdown).
LiveIsSound == NoChangeForgotten /\ StoppedIsQuiet

\* A pause comes to rest and a shutdown ends, whatever was running when it was called
\* (live.rs: pause, shutdown).
PauseAndShutdownEnd == PauseQuiesces /\ ShutdownEnds
=============================================================================
