--------------------------- MODULE RefreshWorker ---------------------------
(***************************************************************************)
(* crates/engine/src/worker.rs: one thread that runs refreshes, the        *)
(* callers that submit, cancel and collect completions, and the caller     *)
(* that shuts the worker down.  Each action is one critical section, one   *)
(* channel operation or one thread-local step; a clock read is merged with *)
(* the local step before it.                                               *)
(*                                                                         *)
(* The worker thread is the only thread that calls finish.  The error      *)
(* branches for a StaleRequest it would get from cancel or finish, and for *)
(* a pending_start that is already occupied, appear as conjuncts of the    *)
(* guards; PermitOwnership says that they are always true.                 *)
(***************************************************************************)
EXTENDS RefreshCoordinator, FiniteSets

CONSTANTS
    Submitter,       \* the threads that hold a RefreshSubmitter
    Outcomes,        \* the outcomes the execute closure returns
    MaxSuperseded,   \* i64::MAX: the last value of superseded_results
    NoResult,        \* the result channel is empty
    Scenarios        \* bounds: which submitters call and with which urgencies
                     \* and deadlines, how far the clock runs, and how many
                     \* completions have been superseded before

VARIABLES
    scenario,        \* which of the Scenarios this behaviour is
    coordinator,     \* WorkerState.coordinator
    pendingStart,    \* WorkerState.pending_start
    phase,           \* WorkerState.phase
    superseded,      \* WorkerState.superseded_results
    wake,            \* the wake channel, of capacity 1, is full
    result,          \* the result channel, of capacity 1
    receiverHeld,    \* wait_for_completion holds the receiver's mutex
    pc,              \* where run_worker is
    permit,          \* the permit run_worker holds, or its follow-up
    readAt,          \* run_worker's last reading of the clock
    verdict,         \* the outcome and kind run_worker passes to finish
    completion,      \* the completion run_worker is publishing
    call,            \* per submitter, where its submit call is
    closing,         \* where shutdown is
    now,             \* the clock
    lastStarted,     \* history: the latest request id executed
    published,       \* history: completions sent to the result channel
    delivered,       \* history: completions handed to a caller
    lastDelivered    \* history: the request id of the latest of them

stateVars == <<coordinator, pendingStart, phase, superseded>>
channelVars == <<wake, result, receiverHeld>>
threadVars == <<pc, permit, readAt, verdict, completion>>
resultHistory == <<published, delivered, lastDelivered>>
vars == <<scenario, stateVars, channelVars, threadVars, call, closing, now,
          lastStarted, resultHistory>>

WorkerPhase == {"Running", "ShuttingDown", "Stopped", "Faulted"}
CompletionKind == {"Executed", "NotStarted", "Panicked"}
\* follow_up_started, follow_up_abandoned, pending_deadline_exceeded and
\* pending_capacity_exceeded: at most one of the four flags is set.
Fate == {"None", "FollowUp", "Abandoned", "DeadlineExceeded",
         "CapacityExceeded"}
WorkerCompletion ==
    [id : RequestId, outcome : RefreshOutcome, kind : CompletionKind,
     superseded : 0 .. MaxSuperseded, fate : Fate]

\* An empty channel is told apart from a completion.
ASSUME WorkerAssumption ==
    /\ Outcomes \subseteq RefreshOutcome
    /\ MaxSuperseded \in Nat
    /\ NoResult \notin WorkerCompletion
    /\ Scenarios \subseteq
        [submitters : SUBSET Submitter, urgencies : SUBSET RefreshUrgency,
         deadlines : SUBSET Deadline, ticks : Nat, counted : 0 .. MaxSuperseded]

Idle == [at |-> "Idle"]
\* run_worker's locals when they are out of scope
NoVerdict == [outcome |-> "Failed", kind |-> "NotStarted"]

\* Exited: run_worker returned; Dead: it returned because publish_latest
\* failed, which leaves the phase as it was.
ThreadGone == pc \in {"Exited", "Dead"}

\* shutdown takes &mut self: no method of RefreshWorker runs beside it.
NotInShutdown == closing \in {"Open", "Closed"}

Init ==
    /\ scenario \in Scenarios
    /\ coordinator = NewCoordinator
    /\ pendingStart = NoPermit
    /\ phase = "Running"
    /\ superseded = scenario.counted
    /\ wake = FALSE
    /\ result = NoResult
    /\ receiverHeld = FALSE
    /\ pc = "Recv"
    /\ permit = NoPermit
    /\ readAt = 0
    /\ verdict = NoVerdict
    /\ completion = NoResult
    /\ call = [s \in Submitter |-> Idle]
    /\ closing = "Open"
    /\ now = 0
    /\ lastStarted = 0
    /\ published = scenario.counted
    /\ delivered = 0
    /\ lastDelivered = 0

-----------------------------------------------------------------------------
\* Mutant: the message to the sleeping thread is forgotten.
ForgetWake == wake' = wake

\* wake_sender.try_send(Wake::Work): a full channel is as good as a sent
\* message, and the channel is disconnected once the thread is gone.
WakeThread == wake' = (wake \/ ~ThreadGone)

(***************************************************************************)
(* RefreshSubmitter::submit.  The phase is checked once before the clock   *)
(* is read and again, under the lock, after it.                            *)
(***************************************************************************)
SubmitCheck(s, urgency, deadline) ==
    /\ call[s] = Idle
    /\ phase = "Running"
    /\ call' = [call EXCEPT ![s] = [at |-> "Checked", urgency |-> urgency,
                                    deadline |-> deadline, now |-> now]]
    /\ UNCHANGED <<stateVars, channelVars, threadVars, closing, now,
                   lastStarted, resultHistory>>

SubmitAdmit(s) ==
    /\ call[s].at = "Checked"
    /\ phase = "Running"
    /\ LET request == call[s]
           admission == Admission(coordinator, request.deadline, request.now)
           started == admission = "Started"
       IN  /\ started => pendingStart = NoPermit
           /\ coordinator' = AfterSubmit(coordinator, request.urgency,
                                         request.deadline, request.now)
           /\ pendingStart' = IF started THEN coordinator'.active
                                         ELSE pendingStart
           /\ call' = [call EXCEPT ![s] = IF started THEN [at |-> "Wake"]
                                                     ELSE Idle]
    /\ UNCHANGED <<phase, superseded, channelVars, threadVars, closing, now,
                   lastStarted, resultHistory>>

\* The second ensure_admission_phase fails.
SubmitRefused(s) ==
    /\ call[s].at = "Checked"
    /\ phase # "Running"
    /\ call' = [call EXCEPT ![s] = Idle]
    /\ UNCHANGED <<stateVars, channelVars, threadVars, closing, now,
                   lastStarted, resultHistory>>
SubmitWake(s) ==
    /\ call[s].at = "Wake"
    /\ WakeThread
    /\ call' = [call EXCEPT ![s] = Idle]
    /\ UNCHANGED <<stateVars, result, receiverHeld, threadVars, closing, now,
                   lastStarted, resultHistory>>

\* RefreshWorker::cancel
CancelRequest(id) ==
    /\ NotInShutdown
    /\ IsActive(coordinator, id)
    /\ coordinator' = AfterCancel(coordinator, id)
    /\ UNCHANGED <<pendingStart, phase, superseded, channelVars, threadVars,
                   call, closing, now, lastStarted, resultHistory>>

-----------------------------------------------------------------------------
(***************************************************************************)
(* Collecting completions.                                                 *)
(***************************************************************************)

TakeResult ==
    /\ result' = NoResult
    /\ delivered' = delivered + 1
    /\ lastDelivered' = result.id
    /\ UNCHANGED published

TryCompletion ==
    /\ NotInShutdown
    /\ ~receiverHeld
    /\ result # NoResult
    /\ TakeResult
    /\ UNCHANGED <<stateVars, wake, receiverHeld, threadVars, call, closing,
                   now, lastStarted>>

WaitForCompletion ==
    /\ NotInShutdown
    /\ ~receiverHeld
    /\ receiverHeld' = TRUE
    /\ UNCHANGED <<stateVars, wake, result, threadVars, call, closing, now,
                   lastStarted, resultHistory>>

\* recv_timeout returns a completion, or times out on an empty channel.
WaitReturns ==
    /\ receiverHeld
    /\ receiverHeld' = FALSE
    /\ \/ result # NoResult /\ TakeResult
       \/ result = NoResult /\ UNCHANGED <<result, resultHistory>>
    /\ UNCHANGED <<stateVars, wake, threadVars, call, closing, now,
                   lastStarted>>

-----------------------------------------------------------------------------
(***************************************************************************)
(* RefreshWorker::shutdown.  It takes &mut self, so no cancel or wait is   *)
(* in progress; submitters are independent clones and may be.              *)
(***************************************************************************)
ShutdownBegin ==
    /\ closing = "Open"
    /\ ~receiverHeld
    /\ closing' = "Signal"
    /\ phase' = IF phase = "Running" THEN "ShuttingDown" ELSE phase
    /\ coordinator' = IF coordinator.active = NoPermit
                      THEN coordinator
                      ELSE AfterCancel(coordinator, coordinator.active.id)
    /\ UNCHANGED <<pendingStart, superseded, channelVars, threadVars, call,
                   now, lastStarted, resultHistory>>
ShutdownWake ==
    /\ closing = "Signal"
    /\ closing' = "Join"
    /\ WakeThread
    /\ UNCHANGED <<stateVars, result, receiverHeld, threadVars, call, now,
                   lastStarted, resultHistory>>

ShutdownJoin ==
    /\ closing = "Join"
    /\ ThreadGone
    /\ closing' = "Closed"
    /\ phase' = IF phase = "Faulted" THEN phase ELSE "Stopped"
    /\ UNCHANGED <<coordinator, pendingStart, superseded, channelVars,
                   threadVars, call, now, lastStarted, resultHistory>>

-----------------------------------------------------------------------------
(***************************************************************************)
(* run_worker.                                                             *)
(***************************************************************************)
RecvWake ==
    /\ pc = "Recv"
    /\ wake
    /\ wake' = FALSE
    /\ pc' = "Take"
    /\ UNCHANGED <<stateVars, result, receiverHeld, permit, readAt, verdict,
                   completion, call, closing, now, lastStarted,
                   resultHistory>>

TakePermit == permit' = pendingStart /\ pendingStart' = NoPermit

TakePendingStart ==
    /\ pc = "Take"
    /\ pendingStart # NoPermit
    /\ TakePermit
    /\ readAt' = now
    /\ pc' = "Preflight"
    /\ UNCHANGED <<coordinator, phase, superseded, channelVars, verdict,
                   completion, call, closing, now, lastStarted,
                   resultHistory>>

\* The two lock sections that end the loop when the worker is closing: the
\* one that finds no pending_start and the one after the last follow-up.
StopOrContinue ==
    /\ \/ pc = "Take" /\ pendingStart = NoPermit
       \/ pc = "Recheck"
    /\ IF phase = "ShuttingDown"
       THEN phase' = "Stopped" /\ pc' = "Exited"
       ELSE phase' = phase /\ pc' = "Recv"
    /\ UNCHANGED <<coordinator, pendingStart, superseded, channelVars, permit,
                   readAt, verdict, completion, call, closing, now,
                   lastStarted, resultHistory>>

NotStarted(outcome) ==
    /\ verdict' = [outcome |-> outcome, kind |-> "NotStarted"]
    /\ readAt' = now
    /\ pc' = "Finish"

PreflightClosing ==
    /\ pc = "Preflight"
    /\ phase = "ShuttingDown"
    /\ \/ permit.id \in coordinator.cancelled
       \/ IsActive(coordinator, permit.id)
    /\ coordinator' = AfterCancel(coordinator, permit.id)
    /\ NotStarted("Cancelled")
    /\ UNCHANGED <<pendingStart, phase, superseded, channelVars, permit,
                   completion, call, closing, now, lastStarted,
                   resultHistory>>

PreflightCancelled ==
    /\ pc = "Preflight"
    /\ phase # "ShuttingDown"
    /\ permit.id \in coordinator.cancelled
    /\ NotStarted("Cancelled")
    /\ UNCHANGED <<stateVars, channelVars, permit, completion, call, closing,
                   now, lastStarted, resultHistory>>

PreflightExpired ==
    /\ pc = "Preflight"
    /\ phase # "ShuttingDown"
    /\ permit.id \notin coordinator.cancelled
    /\ DeadlineExceeded(permit.deadline, readAt)
    /\ NotStarted("DeadlineExceeded")
    /\ UNCHANGED <<stateVars, channelVars, permit, completion, call, closing,
                   now, lastStarted, resultHistory>>
\* Mutant: the preflight does not look at the phase.
MayExecuteLate ==
    /\ permit.id \notin coordinator.cancelled
    /\ ~DeadlineExceeded(permit.deadline, readAt)

MayExecute ==
    /\ phase # "ShuttingDown"
    /\ permit.id \notin coordinator.cancelled
    /\ ~DeadlineExceeded(permit.deadline, readAt)

PreflightExecute ==
    /\ pc = "Preflight"
    /\ MayExecute
    /\ pc' = "Execute"
    /\ lastStarted' = permit.id
    /\ readAt' = 0
    /\ UNCHANGED <<stateVars, channelVars, permit, verdict, completion, call,
                   closing, now, resultHistory>>

\* The execute closure returns an outcome of its choosing.
ExecuteReturns(outcome) ==
    /\ pc = "Execute"
    /\ verdict' = [outcome |-> outcome, kind |-> "Executed"]
    /\ readAt' = now
    /\ pc' = "Finish"
    /\ UNCHANGED <<stateVars, channelVars, permit, completion, call, closing,
                   now, lastStarted, resultHistory>>

\* The execute closure panics and catch_unwind stops the panic.
ExecutePanics ==
    /\ pc = "Execute"
    /\ verdict' = [outcome |-> "Failed", kind |-> "Panicked"]
    /\ readAt' = now
    /\ pc' = "PanicFinish"
    /\ UNCHANGED <<stateVars, channelVars, permit, completion, call, closing,
                   now, lastStarted, resultHistory>>

FinishRefresh ==
    /\ pc = "Finish"
    /\ IsActive(coordinator, permit.id)
    /\ LET fate == PendingFate(coordinator, readAt)
       IN  /\ completion' =
                [id         |-> permit.id,
                 outcome    |-> FinishOutcome(coordinator, verdict.outcome,
                                              readAt),
                 kind       |-> verdict.kind,
                 superseded |-> superseded,
                 fate       |-> fate]
           /\ coordinator' = AfterFinish(coordinator, readAt)
           /\ permit' = coordinator'.active
    /\ pc' = "Publish"
    /\ verdict' = NoVerdict
    /\ readAt' = 0
    /\ UNCHANGED <<pendingStart, phase, superseded, channelVars, call,
                   closing, now, lastStarted, resultHistory>>

\* After a panic the follow-up is cancelled and finished on the spot.
AfterPanic(c, t) ==
    LET finished == AfterFinish(c, t)
    IN  IF finished.active = NoPermit
        THEN finished
        ELSE AfterFinish(AfterCancel(finished, finished.active.id), t)

\* The worker closes before the completion of the panic is published.
FinishPanicked ==
    /\ pc = "PanicFinish"
    /\ IsActive(coordinator, permit.id)
    /\ LET fate == PendingFate(coordinator, readAt)
       IN  completion' =
                [id         |-> permit.id,
                 outcome    |-> "Failed",
                 kind       |-> "Panicked",
                 superseded |-> superseded,
                 fate       |-> IF fate = "FollowUp" THEN "Abandoned"
                                                     ELSE fate]
    /\ coordinator' = AfterPanic(coordinator, readAt)
    /\ permit' = NoPermit
    /\ phase' = "ShuttingDown"
    /\ pc' = "Publish"
    /\ verdict' = NoVerdict
    /\ readAt' = 0
    /\ UNCHANGED <<pendingStart, superseded, channelVars, call, closing, now,
                   lastStarted, resultHistory>>

-----------------------------------------------------------------------------
(***************************************************************************)
(* publish_latest: try_send; when the channel is full, take the stale      *)
(* completion out of it, count it, and try again.                          *)
(***************************************************************************)
PublishSend ==
    /\ pc = "Publish"
    /\ result = NoResult
    /\ result' = completion
    /\ published' = published + 1
    /\ completion' = NoResult
    /\ readAt' = IF permit = NoPermit THEN 0 ELSE now
    /\ pc' = CASE completion.kind = "Panicked" -> "Fault"
               [] completion.kind # "Panicked" /\ permit # NoPermit
                    -> "Preflight"
               [] OTHER -> "Recheck"
    /\ UNCHANGED <<stateVars, wake, receiverHeld, permit, verdict, call,
                   closing, now, lastStarted, delivered, lastDelivered>>

PublishFull ==
    /\ pc = "Publish"
    /\ result # NoResult
    /\ pc' = "Displace"
    /\ UNCHANGED <<stateVars, channelVars, permit, readAt, verdict,
                   completion, call, closing, now, lastStarted,
                   resultHistory>>

\* The receiver's mutex may be held by a caller that waits, and the slot
\* may be empty by the time the mutex is free.
DisplaceResult ==
    /\ pc = "Displace"
    /\ ~receiverHeld
    /\ result' = NoResult
    /\ pc' = IF result = NoResult THEN "Publish" ELSE "Count"
    /\ UNCHANGED <<stateVars, wake, receiverHeld, permit, readAt, verdict,
                   completion, call, closing, now, lastStarted,
                   resultHistory>>
\* Mutant: the displaced completion is not counted.
LeaveUncounted == superseded' = superseded /\ completion' = completion

CountOne ==
    /\ superseded' = superseded + 1
    /\ completion' = [completion EXCEPT !.superseded = superseded + 1]

CountSuperseded ==
    /\ pc = "Count"
    /\ superseded < MaxSuperseded
    /\ CountOne
    /\ pc' = "Publish"
    /\ UNCHANGED <<coordinator, pendingStart, phase, channelVars, permit,
                   readAt, verdict, call, closing, now, lastStarted,
                   resultHistory>>

\* CapacityExceeded: the thread returns with the phase it has, unless it is
\* on its way to Faulted.
CountOverflow ==
    /\ pc = "Count"
    /\ superseded = MaxSuperseded
    /\ pc' = IF completion.kind = "Panicked" THEN "Fault" ELSE "Dead"
    /\ completion' = NoResult
    /\ UNCHANGED <<stateVars, channelVars, permit, readAt, verdict, call,
                   closing, now, lastStarted, resultHistory>>

FaultAfterPanic ==
    /\ pc = "Fault"
    /\ phase' = "Faulted"
    /\ pc' = "Exited"
    /\ UNCHANGED <<coordinator, pendingStart, superseded, channelVars, permit,
                   readAt, verdict, completion, call, closing, now,
                   lastStarted, resultHistory>>

\* fault_and_abandon: run_worker itself panics, which outside the execute
\* closure and the notifier only clock.now() can make it do.
FaultAndAbandon ==
    /\ pc \in {"Preflight", "Finish", "PanicFinish"}
    /\ coordinator' = NewCoordinator
    /\ pendingStart' = NoPermit
    /\ phase' = "Faulted"
    /\ permit' = NoPermit
    /\ pc' = "Exited"
    /\ verdict' = NoVerdict
    /\ readAt' = 0
    /\ UNCHANGED <<superseded, channelVars, completion, call, closing, now,
                   lastStarted, resultHistory>>

Tick ==
    /\ now < scenario.ticks
    /\ now' = now + 1
    /\ UNCHANGED <<stateVars, channelVars, threadVars, call, closing,
                   lastStarted, resultHistory>>

-----------------------------------------------------------------------------
Preflight ==
    \/ PreflightClosing
    \/ PreflightCancelled
    \/ PreflightExpired
    \/ PreflightExecute

ExecuteEnds == ExecutePanics \/ \E o \in Outcomes : ExecuteReturns(o)

\* Every step the worker thread takes of its own accord; panics of
\* run_worker itself are not among them.
WorkerStep ==
    \/ RecvWake
    \/ TakePendingStart
    \/ StopOrContinue
    \/ Preflight
    \/ ExecuteEnds
    \/ FinishRefresh
    \/ FinishPanicked
    \/ PublishSend
    \/ PublishFull
    \/ DisplaceResult
    \/ CountSuperseded
    \/ CountOverflow
    \/ FaultAfterPanic

SubmitStep(s) == SubmitAdmit(s) \/ SubmitRefused(s) \/ SubmitWake(s)

ShutdownStep == ShutdownWake \/ ShutdownJoin

\* Everything is over: the worker is shut down and no call is in progress.
Terminated ==
    /\ closing = "Closed"
    /\ \A s \in Submitter : call[s] = Idle
    /\ UNCHANGED vars

Next ==
    /\ \/ \E s \in scenario.submitters, u \in scenario.urgencies,
            d \in scenario.deadlines : SubmitCheck(s, u, d)
       \/ \E s \in Submitter : SubmitStep(s)
       \/ \E id \in RequestId : CancelRequest(id)
       \/ TryCompletion
       \/ WaitForCompletion
       \/ WaitReturns
       \/ ShutdownBegin
       \/ ShutdownStep
       \/ WorkerStep
       \/ FaultAndAbandon
       \/ Tick
       \/ Terminated
    /\ UNCHANGED scenario

Spec == Init /\ [][Next]_vars

(***************************************************************************)
(* Threads that can run do run; the execute closure returns; a wait ends   *)
(* at its timeout.  The receiver's mutex is not fair, but a caller does    *)
(* not hold it for ever, so a publisher that finds it free again and again *)
(* gets it: strong fairness.  Nothing makes a caller submit, cancel,       *)
(* collect or shut down.                                                   *)
(***************************************************************************)
Runs(A) == A /\ UNCHANGED scenario

Fairness ==
    /\ WF_vars(Runs(WorkerStep))
    /\ SF_vars(Runs(DisplaceResult))
    /\ WF_vars(Runs(WaitReturns))
    /\ WF_vars(Runs(ShutdownStep))
    /\ \A s \in Submitter : WF_vars(Runs(SubmitStep(s)))

FairSpec == Spec /\ Fairness

-----------------------------------------------------------------------------
(***************************************************************************)
(* Properties.                                                             *)
(***************************************************************************)
\* The coordinator's active permit has exactly one owner, pending_start or
\* the worker thread, and nobody owns a permit the coordinator has given up.
\* So cancel and finish never answer the worker thread with StaleRequest,
\* and submit never finds pending_start occupied.
PermitOwnership ==
    /\ coordinator.active = NoPermit <=>
            pendingStart = NoPermit /\ permit = NoPermit
    /\ pendingStart # NoPermit =>
            pendingStart = coordinator.active /\ permit = NoPermit
    /\ permit # NoPermit => permit = coordinator.active
    /\ pc \in {"Preflight", "Execute", "Finish", "PanicFinish"} =>
            permit # NoPermit
    /\ pc \in {"Recv", "Take", "Recheck", "Fault", "Exited"} =>
            permit = NoPermit

\* A thread that has ended leaves an admitted request unanswered only if
\* shutdown overtook it between the last finish and the check that ends the
\* loop; that request was never started and its token is cancelled.  A thread
\* that ended by a panic leaves nothing.
OnlyShutdownAbandons ==
    pc = "Exited" /\ coordinator.active # NoPermit =>
        /\ phase = "Stopped"
        /\ closing # "Open"
        /\ pendingStart = coordinator.active
        /\ coordinator.active.id \in coordinator.cancelled

\* Callers see completions in the order of the request ids, each at most
\* once, and none disappears: what was sent to the result channel is delivered,
\* counted as superseded or still in the channel (or in the hands of the
\* publisher that is about to count it), until the counter is at its limit.
ResultsAccounted ==
    /\ result # NoResult => result.id > lastDelivered
    /\ pc \in {"Publish", "Displace", "Count"} =>
            /\ completion.id > lastDelivered
            /\ result # NoResult => completion.id > result.id
    /\ superseded < MaxSuperseded =>
            published = delivered + superseded
                        + (IF result # NoResult THEN 1 ELSE 0)
                        + (IF pc = "Count" THEN 1 ELSE 0)

SF == INSTANCE SingleFlight WITH
        running <- IF pc = "Execute" THEN permit.id ELSE 0,
        last    <- lastStarted,
        open    <- phase = "Running"

\* The worker implements SingleFlight: executions do not overlap, run in the
\* order of the ids and at most once each, and none begins once admission has
\* closed (run_worker's preflight against submit and shutdown).
ImplementsSingleFlight == SF!Spec

\* Every admitted request settles as long as nobody shuts the worker down:
\* the active one finishes, and what was coalesced behind it is taken up or
\* reported.  A thread that could not count a superseded completion is gone.
RequestsSettle ==
    LET over == closing # "Open" \/ pc = "Dead"
    IN  /\ \A id \in RequestId :
                IsActive(coordinator, id) ~> ~IsActive(coordinator, id) \/ over
        /\ coordinator.pending # NoPending ~> coordinator.pending = NoPending \/ over

\* Every permit has one owner, a request is left unanswered only when a shutdown overtook
\* it before it started, and every completion is delivered in order, counted as
\* superseded or still in the channel (worker.rs: submit, take_start, publish, shutdown).
WorkerAccounts == PermitOwnership /\ OnlyShutdownAbandons /\ ResultsAccounted
=============================================================================
