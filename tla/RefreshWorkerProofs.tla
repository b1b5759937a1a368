------------------------ MODULE RefreshWorkerProofs ------------------------
(***************************************************************************)
(* Proofs about RefreshWorker, for any set of submitters, any scenarios,   *)
(* any number of request ids and any limit of the superseded counter: the  *)
(* accounts of permits and completions, and that the worker implements     *)
(* SingleFlight.  What submit and finish do to the coordinator is taken    *)
(* from the lemmas of RefreshAdmissionProofs.                              *)
(***************************************************************************)
EXTENDS RefreshWorker, RefreshAdmissionProofs

Publishing == pc \in {"Publish", "Displace", "Count"}

\* What a submit call may remember between its two critical sections.
SubmitCall ==
    [at : {"Checked"}, urgency : RefreshUrgency, deadline : Deadline,
     now : Nat]
Calls == [Submitter -> SubmitCall \cup {Idle, [at |-> "Wake"]}]

Verdicts == [outcome : RefreshOutcome, kind : CompletionKind]

WorkerType ==
    /\ scenario \in Scenarios
    /\ coordinator \in Coordinator
    /\ pendingStart \in RefreshPermit \cup {NoPermit}
    /\ permit \in RefreshPermit \cup {NoPermit}
    /\ phase \in WorkerPhase
    /\ superseded \in 0 .. MaxSuperseded
    /\ result \in WorkerCompletion \cup {NoResult}
    /\ completion \in WorkerCompletion \cup {NoResult}
    /\ pc \in {"Recv", "Take", "Recheck", "Preflight", "Execute", "Finish",
               "PanicFinish", "Publish", "Displace", "Count", "Fault",
               "Exited", "Dead"}
    /\ readAt \in Nat /\ now \in Nat
    /\ verdict \in Verdicts
    /\ call \in Calls
    /\ closing \in {"Open", "Signal", "Join", "Closed"}
    /\ lastStarted \in Nat
    /\ published \in Nat /\ delivered \in Nat /\ lastDelivered \in Nat

\* The thread publishes only what it has, and a panic is reported only on
\* the way that ends in Faulted.
Reporting ==
    /\ Publishing => completion # NoResult
    /\ pc = "Finish" => verdict.kind # "Panicked"

\* The thread has caught a panic and closed the worker by itself.
PanicPath ==
    \/ pc = "Fault"
    \/ Publishing /\ completion.kind = "Panicked"

\* Where each thread is when the phase is what it is.  The last conjunct is
\* the one a shutdown needs: a start it overtakes has been cancelled by it.
PhaseIsRight ==
    /\ PanicPath => phase = "ShuttingDown" /\ coordinator.active = NoPermit
    /\ phase = "ShuttingDown" /\ closing = "Open" => PanicPath
    /\ closing # "Open" => phase # "Running"
    /\ phase = "Stopped" => ThreadGone
    /\ phase = "Faulted" => pc = "Exited" /\ coordinator.active = NoPermit
    /\ pc = "Exited" => phase \in {"Stopped", "Faulted"}
    /\ pendingStart # NoPermit /\ phase # "Running" =>
            closing # "Open" /\ pendingStart.id \in coordinator.cancelled

\* The id is above every id that has been reported or is being reported.
Ahead(id) ==
    /\ lastDelivered < id
    /\ result # NoResult => result.id < id
    /\ Publishing => completion.id < id

\* Ids yet to be issued, and permits yet to be reported, are ahead of the
\* reports; permits yet to be executed are ahead of the executions.  A
\* faulted worker has a new coordinator but admits nothing any more.
IdsAhead ==
    /\ phase # "Faulted" =>
            Ahead(coordinator.nextId) /\ lastStarted < coordinator.nextId
    /\ coordinator.active # NoPermit =>
            coordinator.active.id < coordinator.nextId
    /\ pendingStart # NoPermit =>
            Ahead(pendingStart.id) /\ lastStarted < pendingStart.id
    /\ permit # NoPermit => Ahead(permit.id)
    /\ permit # NoPermit /\ (pc = "Preflight" \/ Publishing) =>
            lastStarted < permit.id

(***************************************************************************)
(* The inductive invariant.                                                *)
(***************************************************************************)
WorkerInv ==
    /\ WorkerType
    /\ PermitOwnership
    /\ Reporting
    /\ PhaseIsRight
    /\ IdsAhead
    /\ ResultsAccounted

-----------------------------------------------------------------------------
\* Ids and counters are integers, and an absent value is told from the others.
LEMMA WorkerNumbers ==
    ASSUME WorkerType
    PROVE  /\ coordinator.nextId \in Nat
           /\ \A p \in RefreshPermit : p.id \in Nat /\ p.id # 0
           /\ \A p \in RefreshPermit : p # NoPermit
           /\ \A r \in WorkerCompletion : r.id \in Nat /\ r # NoResult
           /\ coordinator.active \in RefreshPermit \cup {NoPermit}
           /\ superseded \in Nat /\ MaxSuperseded \in Nat
  BY CoordinatorAssumption, WorkerAssumption
  DEF WorkerType, Coordinator, RefreshPermit, RequestId, WorkerCompletion

\* Cancelling sets one token and changes nothing else.
LEMMA CancelHasEffect ==
    ASSUME NEW c \in Coordinator, NEW id \in RequestId
    PROVE  /\ AfterCancel(c, id) \in Coordinator
           /\ AfterCancel(c, id).active = c.active
           /\ AfterCancel(c, id).nextId = c.nextId
           /\ AfterCancel(c, id).pending = c.pending
           /\ AfterCancel(c, id).cancelled = c.cancelled \cup {id}
  BY Zenon DEF AfterCancel, Coordinator

\* After a panic nothing is active, whatever was waiting.
LEMMA PanicHasEffect ==
    ASSUME NEW c \in Coordinator, NEW t \in Nat
    PROVE  /\ AfterPanic(c, t) \in Coordinator
           /\ AfterPanic(c, t).active = NoPermit
           /\ AfterPanic(c, t).nextId >= c.nextId
  <1> DEFINE f == AfterFinish(c, t)
             g == AfterCancel(f, f.active.id)
  <1>1. FinishEffect(c, t, f)
    BY Zenon, FinishHasEffect
  <1> HIDE DEF f, g
  <1>2. f \in Coordinator /\ f.nextId >= c.nextId /\ f.pending = NoPending
    BY <1>1, CoordinatorAssumption DEF FinishEffect, Coordinator
  <1>3. CASE f.active = NoPermit
    BY Zenon, <1>2, <1>3 DEF AfterPanic, f
  <1>4. CASE f.active # NoPermit
    <2>1. f.active.id \in RequestId
      BY Zenon, <1>2, <1>4 DEF Coordinator, RefreshPermit
    <2>2. g \in Coordinator /\ g.pending = NoPending /\ g.nextId = f.nextId
      BY Zenon, <1>2, <2>1, CancelHasEffect DEF g
    <2>3. PendingFate(g, t) = "None"
      BY Zenon, <2>2 DEF PendingFate
    <2>4. FinishEffect(g, t, AfterFinish(g, t))
      BY Zenon, <2>2, FinishHasEffect
    <2>5. AfterPanic(c, t) = AfterFinish(g, t)
      BY Zenon, <1>4 DEF AfterPanic, f, g
    <2> QED
      BY Zenon, <1>2, <2>2, <2>3, <2>4, <2>5 DEF FinishEffect
  <1> QED
    BY Zenon, <1>3, <1>4

\* What stands for no verdict is one.
LEMMA NoVerdictIsOne == NoVerdict \in Verdicts
  BY Zenon DEF NoVerdict, Verdicts, RefreshOutcome, CompletionKind

\* A new coordinator is one, and nothing is active in it.
LEMMA NewIsCoordinator ==
    /\ NewCoordinator \in Coordinator
    /\ NewCoordinator.active = NoPermit /\ NewCoordinator.nextId = 1
  BY CoordinatorAssumption DEF NewCoordinator, Coordinator

\* After finish the follow-up is active under the next id, or nothing is.
LEMMA FollowUpOrIdle ==
    ASSUME NEW c, NEW t, NEW e, FinishEffect(c, t, e)
    PROVE  /\ e \in Coordinator
           /\ \/ e.active = NoPermit /\ e.nextId = c.nextId
              \/ /\ e.active \in RefreshPermit /\ e.active.id = c.nextId
                 /\ e.nextId = c.nextId + 1
  BY DEF FinishEffect

\* The completion finish answers with is one.
LEMMA FateIsOne ==
    ASSUME NEW c, NEW t, NEW o \in RefreshOutcome
    PROVE  PendingFate(c, t) \in Fate /\ FinishOutcome(c, o, t) \in RefreshOutcome
  <1>1. PendingFate(c, t) \in Fate
    BY Zenon DEF PendingFate, Fate
  <1>2. FinishOutcome(c, o, t) \in RefreshOutcome
    BY Zenon DEF FinishOutcome, RefreshOutcome
  <1> QED
    BY Zenon, <1>1, <1>2

\* Later ids are further ahead.
LEMMA AheadIsMonotone ==
    ASSUME WorkerInv, NEW i \in Nat, NEW j \in Nat, i <= j, Ahead(i)
    PROVE  Ahead(j)
  BY WorkerNumbers DEF WorkerInv, WorkerType, Reporting, Ahead, Publishing

\* What is ahead of the permit being reported is ahead of its report.
LEMMA AheadOfReport ==
    ASSUME WorkerInv, permit.id \in Nat, Ahead(permit.id), pc' = "Publish",
           completion'.id = permit.id, UNCHANGED <<result, lastDelivered>>
    PROVE  \A id \in Nat : permit.id < id => Ahead(id)'
  <1> SUFFICES ASSUME NEW id \in Nat, permit.id < id PROVE Ahead(id)'
    BY Zenon
  <1>1. lastDelivered \in Nat /\ lastDelivered < permit.id
    BY Zenon DEF WorkerInv, WorkerType, Ahead
  <1>2. result # NoResult => result.id \in Nat /\ result.id < permit.id
    BY Zenon, WorkerNumbers DEF WorkerInv, WorkerType, Ahead
  <1> QED
    BY <1>1, <1>2 DEF Ahead

\* The variables the invariant relates to each other and to the coordinator,
\* apart from the places of the threads.
RelatedVars ==
    <<pendingStart, phase, superseded, result, permit, completion,
      lastStarted, resultHistory>>

\* The worker thread moves without a change of these variables.
ThreadMoves ==
    \/ UNCHANGED <<pc, verdict>>
    \/ pc = "Recv" /\ pc' = "Take" /\ UNCHANGED verdict
    \/ pc = "Publish" /\ pc' = "Displace" /\ UNCHANGED verdict
    \/ /\ pc \in {"Preflight", "Execute"} /\ pc' \in {"Finish", "PanicFinish"}
       /\ pc' = "Finish" => verdict'.kind # "Panicked"

\* The coordinator issues ids or sets tokens, and nothing else.
OnlyIssues ==
    /\ coordinator'.active = coordinator.active
    /\ coordinator'.nextId >= coordinator.nextId
    /\ coordinator.cancelled \subseteq coordinator'.cancelled

\* A step that leaves the coordinator alone is one of them.
LEMMA SameIssuesNothing ==
    ASSUME WorkerType, UNCHANGED coordinator
    PROVE  OnlyIssues
  BY WorkerNumbers DEF OnlyIssues

\* A step that does no more than that, to what the other variables may be.
Quiet ==
    /\ UNCHANGED <<scenario, RelatedVars>>
    /\ ThreadMoves
    /\ OnlyIssues
    /\ closing' = "Open" <=> closing = "Open"
    /\ coordinator' \in Coordinator
    /\ readAt' \in Nat /\ now' \in Nat
    /\ verdict' \in Verdicts
    /\ call' \in Calls
    /\ closing' \in {"Open", "Signal", "Join", "Closed"}

\* Such a step keeps the invariant.
LEMMA QuietStep ==
    ASSUME WorkerInv, Quiet
    PROVE  WorkerInv'
  <1> USE DEF WorkerInv, ThreadMoves, OnlyIssues, Quiet
  <1>1. UNCHANGED <<scenario, pendingStart, phase, superseded, result, permit,
                    completion, lastStarted, published, delivered,
                    lastDelivered>>
    BY Zenon DEF RelatedVars, resultHistory
  <1>2. WorkerType'
    BY Zenon, <1>1 DEF WorkerType
  <1>3. PermitOwnership' /\ Reporting'
    BY Zenon, <1>1 DEF PermitOwnership, Reporting, Publishing
  <1>4. PhaseIsRight'
    BY Zenon, <1>1 DEF PhaseIsRight, PanicPath, Publishing, ThreadGone
  <1>5. IdsAhead'
    <2>1. coordinator'.nextId \in Nat
      BY <1>2, CoordinatorAssumption DEF WorkerType, Coordinator
    <2>2. phase # "Faulted" =>
            Ahead(coordinator.nextId)' /\ lastStarted < coordinator'.nextId
      BY <1>1, <2>1, WorkerNumbers
      DEF IdsAhead, Ahead, Publishing, Reporting, WorkerType
    <2>3. coordinator'.active # NoPermit =>
            coordinator'.active.id < coordinator'.nextId
      BY <2>1, WorkerNumbers DEF IdsAhead
    <2>4. (pc = "Preflight" \/ Publishing)' => pc = "Preflight" \/ Publishing
      BY Zenon DEF Publishing
    <2>5. /\ pendingStart # NoPermit => Ahead(pendingStart.id)'
          /\ permit # NoPermit => Ahead(permit.id)'
      BY Zenon, <1>1 DEF IdsAhead, Ahead, Publishing
    <2> QED
      BY Zenon, <1>1, <2>2, <2>3, <2>4, <2>5 DEF IdsAhead
  <1>6. ResultsAccounted'
    BY Zenon, <1>1 DEF ResultsAccounted
  <1> QED
    BY Zenon, <1>2, <1>3, <1>4, <1>5, <1>6

\* shutdown, when the thread has been joined.
LEMMA ShutdownJoinPreserves ==
    ASSUME WorkerInv, ShutdownJoin, UNCHANGED scenario
    PROVE  WorkerInv'
  <1> USE DEF WorkerInv
  <1>1. /\ UNCHANGED <<scenario, coordinator, pendingStart, superseded,
                        result, pc, permit, verdict, completion, lastStarted,
                        published, delivered, lastDelivered, readAt, now,
                        call>>
        /\ ThreadGone /\ closing = "Join" /\ closing' = "Closed"
        /\ phase' = IF phase = "Faulted" THEN phase ELSE "Stopped"
    BY Zenon
    DEF ShutdownJoin, stateVars, channelVars, threadVars, resultHistory
  <1>2. WorkerType'
    BY Zenon, <1>1 DEF WorkerType, WorkerPhase
  <1>3. PermitOwnership'
    BY Zenon, <1>1 DEF PermitOwnership
  <1>4. Reporting'
    BY Zenon, <1>1 DEF Reporting, Publishing
  <1>5. PhaseIsRight'
    BY Zenon, <1>1 DEF PhaseIsRight, PanicPath, Publishing, ThreadGone,
       PermitOwnership
  <1>6. IdsAhead'
    BY Zenon, <1>1, WorkerNumbers
    DEF IdsAhead, Ahead, Publishing, PermitOwnership, WorkerType, Reporting
  <1>7. ResultsAccounted'
    BY Zenon, <1>1, WorkerNumbers
    DEF ResultsAccounted, WorkerType, Publishing, IdsAhead, Ahead
  <1> QED
    BY Zenon, <1>2, <1>3, <1>4, <1>5, <1>6, <1>7

\* run_worker takes pending_start over.
LEMMA TakePendingStartPreserves ==
    ASSUME WorkerInv, TakePendingStart, UNCHANGED scenario
    PROVE  WorkerInv'
  <1> USE DEF WorkerInv
  <1>1. /\ UNCHANGED <<scenario, coordinator, phase, superseded, result,
                        verdict, completion, closing, lastStarted, published,
                        delivered, lastDelivered, now, call>>
        /\ pc = "Take" /\ pc' = "Preflight" /\ pendingStart # NoPermit
        /\ permit' = pendingStart /\ pendingStart' = NoPermit
        /\ readAt' = now
    BY Zenon
    DEF TakePendingStart, TakePermit, stateVars, channelVars, threadVars,
        resultHistory
  <1>2. WorkerType'
    BY Zenon, <1>1 DEF WorkerType
  <1>3. PermitOwnership'
    BY Zenon, <1>1 DEF PermitOwnership
  <1>4. Reporting'
    BY Zenon, <1>1 DEF Reporting, Publishing
  <1>5. PhaseIsRight'
    BY Zenon, <1>1 DEF PhaseIsRight, PanicPath, Publishing, ThreadGone,
       PermitOwnership
  <1>6. IdsAhead'
    BY Zenon, <1>1, WorkerNumbers
    DEF IdsAhead, Ahead, Publishing, PermitOwnership, WorkerType, Reporting
  <1>7. ResultsAccounted'
    BY Zenon, <1>1, WorkerNumbers
    DEF ResultsAccounted, WorkerType, Publishing, IdsAhead, Ahead
  <1> QED
    BY Zenon, <1>2, <1>3, <1>4, <1>5, <1>6, <1>7

\* run_worker returns when the worker is closing, or waits again.
LEMMA StopOrContinuePreserves ==
    ASSUME WorkerInv, StopOrContinue, UNCHANGED scenario
    PROVE  WorkerInv'
  <1> USE DEF WorkerInv
  <1>1. /\ UNCHANGED <<scenario, coordinator, pendingStart, superseded,
                        result, permit, verdict, completion, closing,
                        lastStarted, published, delivered, lastDelivered,
                        readAt, now, call>>
        /\ \/ pc = "Take" /\ pendingStart = NoPermit
           \/ pc = "Recheck"
        /\ IF phase = "ShuttingDown"
           THEN phase' = "Stopped" /\ pc' = "Exited"
           ELSE phase' = phase /\ pc' = "Recv"
    BY Zenon
    DEF StopOrContinue, stateVars, channelVars, threadVars, resultHistory
  <1>2. WorkerType'
    BY Zenon, <1>1 DEF WorkerType, WorkerPhase
  <1>3. PermitOwnership'
    BY Zenon, <1>1 DEF PermitOwnership
  <1>4. Reporting'
    BY Zenon, <1>1 DEF Reporting, Publishing
  <1>5. PhaseIsRight'
    BY Zenon, <1>1 DEF PhaseIsRight, PanicPath, Publishing, ThreadGone,
       PermitOwnership
  <1>6. IdsAhead'
    BY Zenon, <1>1, WorkerNumbers
    DEF IdsAhead, Ahead, Publishing, PermitOwnership, WorkerType, Reporting
  <1>7. ResultsAccounted'
    BY Zenon, <1>1, WorkerNumbers
    DEF ResultsAccounted, WorkerType, Publishing, IdsAhead, Ahead
  <1> QED
    BY Zenon, <1>2, <1>3, <1>4, <1>5, <1>6, <1>7

\* The preflight lets the permit through and execute is called.
LEMMA PreflightExecutePreserves ==
    ASSUME WorkerInv, PreflightExecute, UNCHANGED scenario
    PROVE  WorkerInv'
  <1> USE DEF WorkerInv
  <1>1. /\ UNCHANGED <<scenario, coordinator, pendingStart, phase, superseded,
                        result, permit, verdict, completion, closing,
                        published, delivered, lastDelivered, now, call>>
        /\ pc = "Preflight" /\ pc' = "Execute" /\ lastStarted' = permit.id
        /\ readAt' = 0 /\ permit \in RefreshPermit
    BY Zenon DEF PreflightExecute, WorkerType, PermitOwnership, stateVars,
       channelVars, threadVars, resultHistory
  <1>2. WorkerType'
    BY Zenon, <1>1, WorkerNumbers DEF WorkerType
  <1>3. PermitOwnership'
    BY Zenon, <1>1 DEF PermitOwnership
  <1>4. Reporting'
    BY Zenon, <1>1 DEF Reporting, Publishing
  <1>5. PhaseIsRight'
    BY Zenon, <1>1 DEF PhaseIsRight, PanicPath, Publishing, ThreadGone,
       PermitOwnership
  <1>6. IdsAhead'
    BY Zenon, <1>1, WorkerNumbers
    DEF IdsAhead, Ahead, Publishing, PermitOwnership, WorkerType, Reporting
  <1>7. ResultsAccounted'
    BY Zenon, <1>1, WorkerNumbers
    DEF ResultsAccounted, WorkerType, Publishing, IdsAhead, Ahead
  <1> QED
    BY Zenon, <1>2, <1>3, <1>4, <1>5, <1>6, <1>7

\* publish_latest sends into the empty slot.
LEMMA PublishSendPreserves ==
    ASSUME WorkerInv, PublishSend, UNCHANGED scenario
    PROVE  WorkerInv'
  <1> USE DEF WorkerInv
  <1>1. /\ UNCHANGED <<scenario, coordinator, pendingStart, phase, superseded,
                        permit, verdict, closing, lastStarted, delivered,
                        lastDelivered, now, call>>
        /\ pc = "Publish" /\ result = NoResult /\ result' = completion
        /\ published' = published + 1 /\ completion' = NoResult
        /\ readAt' \in Nat
        /\ \/ completion.kind = "Panicked" /\ pc' = "Fault"
           \/ /\ completion.kind # "Panicked" /\ permit # NoPermit
              /\ pc' = "Preflight"
           \/ /\ completion.kind # "Panicked" /\ permit = NoPermit
              /\ pc' = "Recheck"
    BY Zenon DEF PublishSend, WorkerType, stateVars, channelVars, threadVars,
       resultHistory
  <1>2. WorkerType'
    BY <1>1 DEF WorkerType
  <1>3. PermitOwnership'
    BY Zenon, <1>1 DEF PermitOwnership, PhaseIsRight, PanicPath, Publishing
  <1>4. Reporting'
    BY Zenon, <1>1 DEF Reporting, Publishing
  <1>5. PhaseIsRight'
    BY Zenon, <1>1 DEF PhaseIsRight, PanicPath, Publishing, ThreadGone,
       PermitOwnership, Reporting
  <1>6. IdsAhead'
    BY Zenon, <1>1, WorkerNumbers
    DEF IdsAhead, Ahead, Publishing, PermitOwnership, WorkerType, Reporting
  <1>7. ResultsAccounted'
    BY <1>1, WorkerNumbers DEF ResultsAccounted, Reporting, WorkerType,
       Publishing, IdsAhead, Ahead
  <1> QED
    BY Zenon, <1>2, <1>3, <1>4, <1>5, <1>6, <1>7

\* publish_latest takes the stale completion out of the slot.
LEMMA DisplaceResultPreserves ==
    ASSUME WorkerInv, DisplaceResult, UNCHANGED scenario
    PROVE  WorkerInv'
  <1> USE DEF WorkerInv
  <1>1. /\ UNCHANGED <<scenario, coordinator, pendingStart, phase, superseded,
                        permit, verdict, completion, closing, lastStarted,
                        published, delivered, lastDelivered, readAt, now,
                        call>>
        /\ pc = "Displace" /\ result' = NoResult
        /\ pc' = IF result = NoResult THEN "Publish" ELSE "Count"
    BY Zenon
    DEF DisplaceResult, stateVars, channelVars, threadVars, resultHistory
  <1>2. WorkerType'
    BY Zenon, <1>1 DEF WorkerType
  <1>3. PermitOwnership'
    BY Zenon, <1>1 DEF PermitOwnership
  <1>4. Reporting'
    BY Zenon, <1>1 DEF Reporting, Publishing
  <1>5. PhaseIsRight'
    BY Zenon, <1>1 DEF PhaseIsRight, PanicPath, Publishing, ThreadGone,
       PermitOwnership
  <1>6. IdsAhead'
    BY Zenon, <1>1, WorkerNumbers
    DEF IdsAhead, Ahead, Publishing, PermitOwnership, WorkerType, Reporting
  <1>7. ResultsAccounted'
    BY <1>1, WorkerNumbers DEF ResultsAccounted, WorkerType, Publishing,
       IdsAhead, Ahead
  <1> QED
    BY Zenon, <1>2, <1>3, <1>4, <1>5, <1>6, <1>7

\* publish_latest counts what it displaced.
LEMMA CountSupersededPreserves ==
    ASSUME WorkerInv, CountSuperseded, UNCHANGED scenario
    PROVE  WorkerInv'
  <1> USE DEF WorkerInv
  <1>1. /\ UNCHANGED <<scenario, coordinator, pendingStart, phase, result,
                        permit, verdict, closing, lastStarted, published,
                        delivered, lastDelivered, readAt, now, call>>
        /\ pc = "Count" /\ superseded < MaxSuperseded /\ pc' = "Publish"
        /\ superseded' = superseded + 1
        /\ completion' = [completion EXCEPT !.superseded = superseded + 1]
    BY Zenon
    DEF CountSuperseded, CountOne, stateVars, channelVars, threadVars,
        resultHistory
  <1>2. /\ completion \in WorkerCompletion
        /\ superseded + 1 \in 0 .. MaxSuperseded
    BY <1>1, WorkerAssumption DEF WorkerType, Reporting, Publishing
  <1>3. /\ completion' \in WorkerCompletion
        /\ completion'.id = completion.id
        /\ completion'.kind = completion.kind
        /\ completion' # NoResult
    BY Zenon, <1>1, <1>2, WorkerAssumption DEF WorkerCompletion
  <1>4. WorkerType'
    BY Zenon, <1>1, <1>2, <1>3 DEF WorkerType
  <1>5. PermitOwnership'
    BY Zenon, <1>1, <1>2, <1>3 DEF PermitOwnership
  <1>6. Reporting'
    BY Zenon, <1>1, <1>2, <1>3 DEF Reporting, Publishing
  <1>7. PhaseIsRight'
    BY Zenon, <1>1, <1>2, <1>3
    DEF PhaseIsRight, PanicPath, Publishing, ThreadGone, PermitOwnership
  <1>8. IdsAhead'
    BY Zenon, <1>1, <1>2, <1>3, WorkerNumbers DEF IdsAhead, Ahead, Publishing,
       PermitOwnership, WorkerType, Reporting
  <1>9. ResultsAccounted'
    BY <1>1, <1>2, <1>3, WorkerNumbers DEF ResultsAccounted, WorkerType,
       Publishing, IdsAhead, Ahead
  <1> QED
    BY Zenon, <1>4, <1>5, <1>6, <1>7, <1>8, <1>9

\* The counter of superseded completions is at its limit.
LEMMA CountOverflowPreserves ==
    ASSUME WorkerInv, CountOverflow, UNCHANGED scenario
    PROVE  WorkerInv'
  <1> USE DEF WorkerInv
  <1>1. /\ UNCHANGED <<scenario, coordinator, pendingStart, phase, superseded,
                        result, permit, verdict, closing, lastStarted,
                        published, delivered, lastDelivered, readAt, now,
                        call>>
        /\ pc = "Count" /\ superseded = MaxSuperseded
        /\ completion' = NoResult
        /\ pc' = IF completion.kind = "Panicked" THEN "Fault" ELSE "Dead"
    BY Zenon
    DEF CountOverflow, stateVars, channelVars, threadVars, resultHistory
  <1>2. WorkerType'
    BY Zenon, <1>1 DEF WorkerType
  <1>3. PermitOwnership'
    BY Zenon, <1>1 DEF PermitOwnership, PhaseIsRight, PanicPath, Publishing
  <1>4. Reporting'
    BY Zenon, <1>1 DEF Reporting, Publishing
  <1>5. PhaseIsRight'
    BY Zenon, <1>1 DEF PhaseIsRight, PanicPath, Publishing, ThreadGone,
       PermitOwnership
  <1>6. IdsAhead'
    BY Zenon, <1>1, WorkerNumbers
    DEF IdsAhead, Ahead, Publishing, PermitOwnership, WorkerType, Reporting
  <1>7. ResultsAccounted'
    BY <1>1, WorkerNumbers DEF ResultsAccounted, WorkerType, Publishing,
       IdsAhead, Ahead
  <1> QED
    BY Zenon, <1>2, <1>3, <1>4, <1>5, <1>6, <1>7

\* run_worker has reported the panic and faults the worker.
LEMMA FaultAfterPanicPreserves ==
    ASSUME WorkerInv, FaultAfterPanic, UNCHANGED scenario
    PROVE  WorkerInv'
  <1> USE DEF WorkerInv
  <1>1. /\ UNCHANGED <<scenario, coordinator, pendingStart, superseded,
                        result, permit, verdict, completion, closing,
                        lastStarted, published, delivered, lastDelivered,
                        readAt, now, call>>
        /\ pc = "Fault" /\ phase' = "Faulted" /\ pc' = "Exited"
    BY Zenon
    DEF FaultAfterPanic, stateVars, channelVars, threadVars, resultHistory
  <1>2. WorkerType'
    BY Zenon, <1>1 DEF WorkerType, WorkerPhase
  <1>3. PermitOwnership'
    BY Zenon, <1>1 DEF PermitOwnership
  <1>4. Reporting'
    BY Zenon, <1>1 DEF Reporting, Publishing
  <1>5. PhaseIsRight'
    BY Zenon, <1>1 DEF PhaseIsRight, PanicPath, Publishing, ThreadGone,
       PermitOwnership
  <1>6. IdsAhead'
    BY Zenon, <1>1, WorkerNumbers
    DEF IdsAhead, Ahead, Publishing, PermitOwnership, WorkerType, Reporting
  <1>7. ResultsAccounted'
    BY Zenon, <1>1, WorkerNumbers
    DEF ResultsAccounted, WorkerType, Publishing, IdsAhead, Ahead
  <1> QED
    BY Zenon, <1>2, <1>3, <1>4, <1>5, <1>6, <1>7

-----------------------------------------------------------------------------
\* The steps of callers that touch nothing the invariant relates.
LEMMA CallersPreserve ==
    ASSUME WorkerInv, UNCHANGED scenario,
           \/ \E s \in scenario.submitters, u \in scenario.urgencies,
                d \in scenario.deadlines : SubmitCheck(s, u, d)
           \/ \E s \in Submitter : SubmitRefused(s) \/ SubmitWake(s)
           \/ WaitForCompletion
           \/ Tick
    PROVE  WorkerInv'
  <1> USE DEF WorkerInv
  <1>1. /\ UNCHANGED <<coordinator, RelatedVars, pc, verdict, readAt, closing>>
        /\ call' # call => now' = now
        /\ now' \in {now, now + 1}
    BY Zenon
    DEF SubmitCheck, SubmitRefused, SubmitWake, WaitForCompletion, Tick,
        RelatedVars, stateVars, channelVars, threadVars, resultHistory
  <1>2. call' \in Calls => Quiet
    <2>1. OnlyIssues
      BY Zenon, <1>1, SameIssuesNothing
    <2>2. now' \in Nat
      BY <1>1 DEF WorkerType
    <2> QED
      BY Zenon, <1>1, <2>1, <2>2 DEF WorkerType, Quiet, ThreadMoves
  <1>3. CASE \E s \in scenario.submitters, u \in scenario.urgencies,
               d \in scenario.deadlines : SubmitCheck(s, u, d)
    <2>1. PICK s \in scenario.submitters, u \in scenario.urgencies,
               d \in scenario.deadlines : SubmitCheck(s, u, d)
      BY Zenon, <1>3
    <2>2. u \in RefreshUrgency /\ d \in Deadline
      BY Zenon, WorkerAssumption DEF WorkerType
    <2>3. [at |-> "Checked", urgency |-> u, deadline |-> d, now |-> now]
            \in SubmitCall
      BY Zenon, <2>2 DEF WorkerType, SubmitCall
    <2>4. call' \in Calls
      BY Zenon, <2>1, <2>3 DEF SubmitCheck, WorkerType, Calls
    <2> QED
      BY Zenon, <1>2, <2>4, QuietStep
  <1>4. CASE \E s \in Submitter : SubmitRefused(s) \/ SubmitWake(s)
    <2>1. call' \in Calls
      BY Zenon, <1>4 DEF SubmitRefused, SubmitWake, WorkerType, Calls
    <2> QED
      BY Zenon, <1>2, <2>1, QuietStep
  <1>5. CASE WaitForCompletion \/ Tick
    <2>1. call' \in Calls
      BY Zenon, <1>5 DEF WaitForCompletion, Tick, WorkerType
    <2> QED
      BY Zenon, <1>2, <2>1, QuietStep
  <1> QED
    BY Zenon, <1>3, <1>4, <1>5

\* The steps that only move the worker thread or the shutdown.
LEMMA MovesPreserve ==
    ASSUME WorkerInv, UNCHANGED scenario,
           \/ RecvWake \/ PreflightCancelled \/ PreflightExpired
           \/ ExecuteEnds \/ PublishFull \/ ShutdownWake
    PROVE  WorkerInv'
  <1> USE DEF WorkerInv
  <1>1. UNCHANGED <<coordinator, RelatedVars, now, call>>
    BY Zenon DEF RecvWake, PreflightCancelled, PreflightExpired, ExecuteEnds,
           ExecuteReturns, ExecutePanics, PublishFull, ShutdownWake,
           RelatedVars, stateVars, channelVars, threadVars, resultHistory
  <1>2. /\ readAt' \in {readAt, now}
        /\ closing' = closing \/ (closing = "Signal" /\ closing' = "Join")
    BY Zenon DEF RecvWake, PreflightCancelled, PreflightExpired, ExecuteEnds,
           ExecuteReturns, ExecutePanics, PublishFull, ShutdownWake,
           NotStarted, threadVars
  <1>3. ThreadMoves
    BY DEF RecvWake, PreflightCancelled, PreflightExpired, ExecuteEnds,
           ExecuteReturns, ExecutePanics, PublishFull, ShutdownWake,
           NotStarted, threadVars, ThreadMoves
  <1>4. verdict' \in Verdicts
    <2>1. CASE PreflightCancelled \/ PreflightExpired
      BY <2>1 DEF PreflightCancelled, PreflightExpired, NotStarted, Verdicts,
                  RefreshOutcome, CompletionKind
    <2>2. CASE ExecuteEnds
      BY <2>2, WorkerAssumption
      DEF ExecuteEnds, ExecuteReturns, ExecutePanics, Verdicts,
          RefreshOutcome, CompletionKind
    <2>3. CASE RecvWake \/ PublishFull \/ ShutdownWake
      BY Zenon, <2>3
      DEF RecvWake, PublishFull, ShutdownWake, threadVars, WorkerType
    <2> QED
      BY Zenon, <2>1, <2>2, <2>3
  <1>5. OnlyIssues
    BY Zenon, <1>1, SameIssuesNothing
  <1>6. Quiet
    BY Zenon, <1>1, <1>2, <1>3, <1>4, <1>5 DEF WorkerType, Quiet
  <1> QED
    BY Zenon, <1>6, QuietStep

\* try_completion and wait_for_completion, when they find a completion.
LEMMA CollectPreserves ==
    ASSUME WorkerInv, TryCompletion \/ WaitReturns, UNCHANGED scenario
    PROVE  WorkerInv'
  <1> USE DEF WorkerInv
  <1>1. /\ UNCHANGED <<scenario, coordinator, pendingStart, phase, superseded,
                       pc, permit, verdict, completion, closing, lastStarted,
                       published, readAt, now, call>>
        /\ \/ /\ result # NoResult /\ result' = NoResult
              /\ delivered' = delivered + 1 /\ lastDelivered' = result.id
           \/ UNCHANGED <<result, delivered, lastDelivered>>
    BY Zenon
    DEF TryCompletion, WaitReturns, TakeResult, stateVars, threadVars,
        resultHistory
  <1>2. WorkerType'
    BY <1>1, WorkerNumbers DEF WorkerType
  <1>3. PermitOwnership' /\ Reporting'
    BY Zenon, <1>1 DEF PermitOwnership, Reporting, Publishing
  <1>4. PhaseIsRight'
    BY Zenon, <1>1 DEF PhaseIsRight, PanicPath, Publishing, ThreadGone
  <1>5. IdsAhead'
    BY Zenon, <1>1 DEF IdsAhead, Ahead, Publishing
  <1>6. ResultsAccounted'
    BY <1>1, WorkerNumbers
    DEF WorkerType, ResultsAccounted, IdsAhead, Ahead, Publishing
  <1> QED
    BY Zenon, <1>2, <1>3, <1>4, <1>5, <1>6

\* The second lock section of submit.
LEMMA SubmitAdmitPreserves ==
    ASSUME WorkerInv, NEW s \in Submitter, SubmitAdmit(s), UNCHANGED scenario
    PROVE  WorkerInv'
  <1> DEFINE c == coordinator
             e == coordinator'
             request == call[s]
             admission == Admission(c, request.deadline, request.now)
             admitted == [id |-> c.nextId, urgency |-> request.urgency,
                          deadline |-> request.deadline]
  <1> USE DEF stateVars, channelVars, threadVars, resultHistory
  <1>1. c \in Coordinator /\ request \in SubmitCall
    BY DEF SubmitAdmit, WorkerInv, WorkerType, Idle, Calls
  <1>2. SubmitEffect(c, request.urgency, request.deadline, request.now, e)
    BY Zenon, <1>1, SubmitHasEffect DEF SubmitAdmit, SubmitCall
  <1>3. /\ UNCHANGED <<phase, superseded, result, pc, permit, verdict,
                       completion, closing, lastStarted, resultHistory,
                       readAt, now>>
        /\ phase = "Running"
        /\ admission = "Started" =>
                pendingStart = NoPermit /\ pendingStart' = e.active
        /\ admission # "Started" => pendingStart' = pendingStart
    BY Zenon DEF SubmitAdmit
  <1>4. call' \in Calls
    BY Zenon DEF SubmitAdmit, WorkerInv, WorkerType, Calls
  <1> HIDE DEF c, e, request, admission, admitted
  <1>5. CASE admission # "Started"
    <2>1. /\ e \in Coordinator /\ e.active = c.active
          /\ e.nextId >= c.nextId /\ e.cancelled = c.cancelled
      BY <1>1, <1>2, <1>5, CoordinatorAssumption
      DEF SubmitEffect, Coordinator, admission
    <2>2. Quiet
      BY Zenon, <1>3, <1>4, <1>5, <2>1
      DEF WorkerInv, WorkerType, Quiet, RelatedVars, ThreadMoves, OnlyIssues,
          c, e
    <2> QED
      BY Zenon, <2>2, QuietStep
  <1>6. CASE admission = "Started"
    <2>1. /\ e \in Coordinator /\ e.cancelled = c.cancelled
          /\ c.active = NoPermit /\ admitted \in RefreshPermit
          /\ e.active = admitted /\ e.nextId = c.nextId + 1
      BY Zenon, <1>2, <1>6 DEF SubmitEffect, admission, admitted
    <2>2. /\ pendingStart' = admitted /\ pendingStart = NoPermit
          /\ permit = NoPermit
      BY Zenon, <1>3, <1>6, <2>1 DEF WorkerInv, PermitOwnership, c
    <2>3. /\ admitted.id = coordinator.nextId /\ coordinator.nextId \in Nat
          /\ admitted # NoPermit
      BY Zenon, <2>1, WorkerNumbers DEF WorkerInv, admitted, c
    <2> HIDE DEF admitted
    <2>4. WorkerType'
      BY Zenon, <1>3, <1>4, <2>1, <2>2 DEF WorkerInv, WorkerType, e
    <2>5. PermitOwnership'
      BY Zenon, <1>3, <2>1, <2>2, <2>3 DEF WorkerInv, PermitOwnership, c, e
    <2>6. Reporting'
      BY Zenon, <1>3 DEF WorkerInv, Reporting, Publishing
    <2>7. PhaseIsRight'
      BY Zenon, <1>3, <2>1, <2>2
      DEF WorkerInv, PhaseIsRight, PanicPath, Publishing, ThreadGone, c, e
    <2>8. IdsAhead'
      <3>1. Ahead(coordinator.nextId) /\ lastStarted < coordinator.nextId
        BY Zenon, <1>3 DEF WorkerInv, IdsAhead
      <3>2. Ahead(coordinator.nextId + 1)
        BY <2>3, <3>1, AheadIsMonotone
      <3>3. \A id \in Nat : Ahead(id)' <=> Ahead(id)
        BY Zenon, <1>3 DEF Ahead, Publishing
      <3>4. lastStarted \in Nat
        BY Zenon DEF WorkerInv, WorkerType
      <3> QED
        BY <1>3, <2>1, <2>2, <2>3, <3>1, <3>2, <3>3, <3>4 DEF IdsAhead, c, e
    <2>9. ResultsAccounted'
      BY Zenon, <1>3 DEF WorkerInv, ResultsAccounted
    <2> QED
      BY Zenon, <2>4, <2>5, <2>6, <2>7, <2>8, <2>9 DEF WorkerInv
  <1> QED
    BY Zenon, <1>5, <1>6

\* cancel sets the token of the active request.
LEMMA CancelRequestPreserves ==
    ASSUME WorkerInv, NEW id \in RequestId, CancelRequest(id),
           UNCHANGED scenario
    PROVE  WorkerInv'
  <1> USE DEF WorkerInv
  <1>1. /\ UNCHANGED <<RelatedVars, pc, verdict, readAt, closing, now, call>>
        /\ coordinator' = AfterCancel(coordinator, id)
    BY Zenon
    DEF CancelRequest, RelatedVars, channelVars, threadVars, resultHistory
  <1>2. OnlyIssues /\ coordinator' \in Coordinator
    BY <1>1, CancelHasEffect, WorkerNumbers DEF WorkerType, OnlyIssues
  <1>3. Quiet
    BY Zenon, <1>1, <1>2 DEF WorkerType, Quiet, ThreadMoves
  <1> QED
    BY Zenon, <1>3, QuietStep

\* shutdown closes admission and cancels the active request.
LEMMA ShutdownBeginPreserves ==
    ASSUME WorkerInv, ShutdownBegin, UNCHANGED scenario
    PROVE  WorkerInv'
  <1> USE DEF WorkerInv, stateVars, channelVars, threadVars, resultHistory
  <1>1. /\ UNCHANGED <<pendingStart, superseded, result, pc, permit, verdict,
                       completion, lastStarted, resultHistory, readAt, now,
                       call>>
        /\ closing = "Open" /\ closing' = "Signal"
        /\ phase' = IF phase = "Running" THEN "ShuttingDown" ELSE phase
    BY Zenon DEF ShutdownBegin
  <1>2. /\ coordinator' \in Coordinator
        /\ coordinator'.active = coordinator.active
        /\ coordinator'.nextId = coordinator.nextId
        /\ coordinator.active # NoPermit =>
                coordinator.active.id \in coordinator'.cancelled
    <2>1. coordinator.active # NoPermit => coordinator.active.id \in RequestId
      BY Zenon DEF WorkerType, Coordinator, RefreshPermit
    <2> QED
      BY Zenon, <2>1, CancelHasEffect DEF ShutdownBegin, WorkerType
  <1>3. WorkerType'
    BY ZenonT(60), <1>1, <1>2 DEF WorkerType, WorkerPhase
  <1>4. PermitOwnership' /\ Reporting'
    BY Zenon, <1>1, <1>2 DEF PermitOwnership, Reporting, Publishing
  <1>5. PhaseIsRight'
    BY Zenon, <1>1, <1>2
    DEF PhaseIsRight, PanicPath, Publishing, ThreadGone, PermitOwnership
  <1>6. IdsAhead'
    BY Zenon, <1>1, <1>2 DEF IdsAhead, Ahead, Publishing
  <1>7. ResultsAccounted'
    BY Zenon, <1>1 DEF ResultsAccounted
  <1> QED
    BY Zenon, <1>3, <1>4, <1>5, <1>6, <1>7

\* The preflight of a permit that a shutdown overtook.
LEMMA PreflightClosingPreserves ==
    ASSUME WorkerInv, PreflightClosing, UNCHANGED scenario
    PROVE  WorkerInv'
  <1> USE DEF WorkerInv
  <1>1. /\ UNCHANGED <<RelatedVars, closing, now, call>>
        /\ pc = "Preflight" /\ pc' = "Finish"
        /\ verdict' = [outcome |-> "Cancelled", kind |-> "NotStarted"]
        /\ readAt' = now
        /\ coordinator' = AfterCancel(coordinator, permit.id)
    BY Zenon DEF PreflightClosing, NotStarted, RelatedVars, channelVars,
           resultHistory
  <1>2. permit.id \in RequestId
    BY Zenon, <1>1 DEF WorkerType, PermitOwnership, RefreshPermit
  <1>3. OnlyIssues /\ coordinator' \in Coordinator
    BY <1>1, <1>2, CancelHasEffect, WorkerNumbers DEF WorkerType, OnlyIssues
  <1>4. verdict' \in Verdicts /\ ThreadMoves
    BY Zenon, <1>1 DEF Verdicts, RefreshOutcome, CompletionKind, ThreadMoves
  <1>5. Quiet
    BY Zenon, <1>1, <1>3, <1>4 DEF WorkerType, Quiet
  <1> QED
    BY Zenon, <1>5, QuietStep

\* finish, after the execution or instead of it.
LEMMA FinishRefreshPreserves ==
    ASSUME WorkerInv, FinishRefresh, UNCHANGED scenario
    PROVE  WorkerInv'
  <1> DEFINE c == coordinator
             e == coordinator'
             report == completion'
             fate == PendingFate(c, readAt)
             outcome == FinishOutcome(c, verdict.outcome, readAt)
  <1> USE DEF WorkerInv, stateVars, channelVars, threadVars, resultHistory
  <1>1. /\ UNCHANGED <<pendingStart, phase, superseded, result, closing,
                       lastStarted, resultHistory, now, call>>
        /\ pc = "Finish" /\ pc' = "Publish" /\ permit' = e.active
        /\ verdict' = NoVerdict /\ readAt' = 0
        /\ report = [id |-> permit.id, outcome |-> outcome,
                     kind |-> verdict.kind, superseded |-> superseded,
                     fate |-> fate]
    BY Zenon DEF FinishRefresh
  <1>2. /\ FinishEffect(c, readAt, e) /\ c \in Coordinator
        /\ c.nextId \in Nat
    BY Zenon, FinishHasEffect, WorkerNumbers DEF FinishRefresh, WorkerType
  <1>3. /\ permit \in RefreshPermit /\ permit = c.active
        /\ pendingStart = NoPermit /\ permit # NoPermit
    BY Zenon, <1>1, WorkerNumbers DEF WorkerType, PermitOwnership
  <1>4. /\ verdict.kind \in CompletionKind /\ verdict.kind # "Panicked"
        /\ verdict.outcome \in RefreshOutcome
    BY Zenon, <1>1 DEF WorkerType, Verdicts, Reporting
  <1>5. fate \in Fate /\ outcome \in RefreshOutcome
    BY Zenon, <1>4, FateIsOne
  <1> HIDE DEF c, e, report, fate, outcome
  <1>6. /\ report \in WorkerCompletion
        /\ report.id = permit.id /\ report.kind = verdict.kind
        /\ report # NoResult
    <2>1. permit.id \in RequestId /\ superseded \in 0 .. MaxSuperseded
      BY Zenon, <1>3 DEF RefreshPermit, WorkerType
    <2>2. report \in WorkerCompletion
      BY Zenon, <1>1, <1>4, <1>5, <2>1 DEF WorkerCompletion
    <2> QED
      BY Zenon, <1>1, <2>2, WorkerAssumption
  <1>7. /\ e \in Coordinator
        /\ \/ e.active = NoPermit /\ e.nextId = c.nextId
           \/ /\ e.active \in RefreshPermit /\ e.active.id = c.nextId
              /\ e.nextId = c.nextId + 1
    BY Zenon, <1>2, FollowUpOrIdle
  <1>8. phase # "Faulted" /\ ~PanicPath
    BY Zenon, <1>1 DEF PhaseIsRight, PanicPath, Publishing
  <1>9. WorkerType'
    BY Zenon, <1>1, <1>6, <1>7, NoVerdictIsOne
    DEF WorkerType, Coordinator, e, report
  <1>10. PermitOwnership'
    BY Zenon, <1>1, <1>3, <1>7 DEF PermitOwnership, e
  <1>11. Reporting'
    BY Zenon, <1>1, <1>6 DEF Reporting, Publishing, report
  <1>12. PhaseIsRight'
    BY Zenon, <1>1, <1>3, <1>4, <1>6, <1>8
    DEF PhaseIsRight, PanicPath, Publishing, ThreadGone, report
  <1>13. Ahead(permit.id) /\ permit.id < c.nextId /\ permit.id \in Nat
    BY Zenon, <1>3, WorkerNumbers DEF IdsAhead, c
  <1>14. IdsAhead'
    <2>1. \A id \in Nat : permit.id < id => Ahead(id)'
      BY Zenon, <1>1, <1>6, <1>13, AheadOfReport DEF report
    <2>2. lastStarted < c.nextId /\ lastStarted \in Nat
      BY Zenon, <1>8 DEF IdsAhead, WorkerType, c
    <2>3. /\ e.nextId \in Nat /\ permit.id < e.nextId
          /\ lastStarted < e.nextId
      BY <1>2, <1>7, <1>13, <2>2
    <2>4. e.active # NoPermit =>
            /\ e.active.id \in Nat /\ permit.id < e.active.id
            /\ lastStarted < e.active.id /\ e.active.id < e.nextId
      BY <1>2, <1>7, <1>13, <2>2
    <2> QED
      BY Zenon, <1>1, <1>3, <2>1, <2>3, <2>4 DEF IdsAhead, e
  <1>15. ResultsAccounted'
    BY Zenon, <1>1, <1>6, <1>13 DEF ResultsAccounted, Ahead, report
  <1> QED
    BY Zenon, <1>9, <1>10, <1>11, <1>12, <1>14, <1>15

\* finish after a panic, which leaves nothing active.
LEMMA FinishPanickedPreserves ==
    ASSUME WorkerInv, FinishPanicked, UNCHANGED scenario
    PROVE  WorkerInv'
  <1> DEFINE c == coordinator
             e == coordinator'
             report == completion'
             fate == PendingFate(c, readAt)
             told == IF fate = "FollowUp" THEN "Abandoned" ELSE fate
  <1> USE DEF WorkerInv, stateVars, channelVars, threadVars, resultHistory
  <1>1. /\ UNCHANGED <<pendingStart, superseded, result, closing,
                       lastStarted, resultHistory, now, call>>
        /\ pc = "PanicFinish" /\ pc' = "Publish" /\ permit' = NoPermit
        /\ phase' = "ShuttingDown" /\ verdict' = NoVerdict /\ readAt' = 0
        /\ report = [id |-> permit.id, outcome |-> "Failed",
                     kind |-> "Panicked", superseded |-> superseded,
                     fate |-> told]
    BY Zenon DEF FinishPanicked
  <1>2. /\ e \in Coordinator /\ e.active = NoPermit
        /\ e.nextId >= c.nextId /\ c.nextId \in Nat /\ e.nextId \in Nat
    <2>1. c \in Coordinator /\ readAt \in Nat /\ e = AfterPanic(c, readAt)
      BY Zenon DEF WorkerType, FinishPanicked
    <2>2. /\ e \in Coordinator /\ e.active = NoPermit
          /\ e.nextId >= c.nextId
      BY Zenon, <2>1, PanicHasEffect
    <2> QED
      BY <2>1, <2>2, CoordinatorAssumption DEF Coordinator
  <1>3. /\ permit \in RefreshPermit /\ permit = c.active
        /\ pendingStart = NoPermit /\ permit # NoPermit
    BY Zenon, <1>1, WorkerNumbers DEF WorkerType, PermitOwnership
  <1>4. told \in Fate
    BY Zenon, FateIsOne DEF Fate, RefreshOutcome
  <1> HIDE DEF c, e, report, fate, told
  <1>5. /\ report \in WorkerCompletion
        /\ report.id = permit.id /\ report.kind = "Panicked"
        /\ report # NoResult
    <2>1. permit.id \in RequestId /\ superseded \in 0 .. MaxSuperseded
      BY Zenon, <1>3 DEF RefreshPermit, WorkerType
    <2>2. report \in WorkerCompletion
      BY Zenon, <1>1, <1>4, <2>1
      DEF WorkerCompletion, RefreshOutcome, CompletionKind
    <2> QED
      BY Zenon, <1>1, <2>2, WorkerAssumption
  <1>6. phase # "Faulted"
    BY Zenon, <1>1 DEF PhaseIsRight
  <1>7. WorkerType'
    BY Zenon, <1>1, <1>2, <1>5, NoVerdictIsOne
    DEF WorkerType, WorkerPhase, e, report
  <1>8. PermitOwnership'
    BY Zenon, <1>1, <1>2, <1>3 DEF PermitOwnership, e
  <1>9. Reporting'
    BY Zenon, <1>1, <1>5 DEF Reporting, Publishing, report
  <1>10. PhaseIsRight'
    BY Zenon, <1>1, <1>2, <1>3, <1>5
    DEF PhaseIsRight, PanicPath, Publishing, ThreadGone, e, report
  <1>11. /\ Ahead(permit.id) /\ permit.id < c.nextId /\ permit.id \in Nat
         /\ lastStarted < c.nextId /\ lastStarted \in Nat
    BY Zenon, <1>3, <1>6, WorkerNumbers DEF IdsAhead, WorkerType, c
  <1>12. IdsAhead'
    <2>1. \A id \in Nat : permit.id < id => Ahead(id)'
      BY Zenon, <1>1, <1>5, <1>11, AheadOfReport DEF report
    <2>2. permit.id < e.nextId /\ lastStarted < e.nextId
      BY <1>2, <1>11
    <2> QED
      BY Zenon, <1>1, <1>2, <1>3, <2>1, <2>2 DEF IdsAhead, e
  <1>13. ResultsAccounted'
    BY Zenon, <1>1, <1>5, <1>11 DEF ResultsAccounted, Ahead, report
  <1> QED
    BY Zenon, <1>7, <1>8, <1>9, <1>10, <1>12, <1>13

\* An error of the coordinator faults the worker and drops its permits.
LEMMA FaultAndAbandonPreserves ==
    ASSUME WorkerInv, FaultAndAbandon, UNCHANGED scenario
    PROVE  WorkerInv'
  <1> USE DEF WorkerInv, stateVars, channelVars, threadVars, resultHistory
  <1>1. /\ UNCHANGED <<superseded, result, completion, closing, lastStarted,
                       resultHistory, now, call>>
        /\ pc \in {"Preflight", "Finish", "PanicFinish"} /\ pc' = "Exited"
        /\ pendingStart' = NoPermit /\ permit' = NoPermit
        /\ phase' = "Faulted" /\ verdict' = NoVerdict /\ readAt' = 0
        /\ coordinator' = NewCoordinator
    BY Zenon DEF FaultAndAbandon
  <1>2. coordinator' \in Coordinator /\ coordinator'.active = NoPermit
    BY Zenon, <1>1, NewIsCoordinator
  <1>3. WorkerType'
    BY Zenon, <1>1, <1>2, NoVerdictIsOne DEF WorkerType, WorkerPhase
  <1>4. PermitOwnership' /\ Reporting'
    BY Zenon, <1>1, <1>2 DEF PermitOwnership, Reporting, Publishing
  <1>5. PhaseIsRight'
    BY Zenon, <1>1, <1>2 DEF PhaseIsRight, PanicPath, Publishing, ThreadGone
  <1>6. IdsAhead'
    BY Zenon, <1>1, <1>2 DEF IdsAhead
  <1>7. ResultsAccounted'
    BY Zenon, <1>1 DEF ResultsAccounted
  <1> QED
    BY Zenon, <1>3, <1>4, <1>5, <1>6, <1>7

-----------------------------------------------------------------------------
\* The worker starts in the invariant.
LEMMA WorkerInvInit == Init => WorkerInv
  <1> SUFFICES ASSUME Init PROVE WorkerInv
    BY Zenon
  <1> USE DEF Init
  <1>1. coordinator \in Coordinator /\ coordinator.active = NoPermit
        /\ coordinator.nextId = 1
    BY Zenon, NewIsCoordinator
  <1>2. scenario.counted \in 0 .. MaxSuperseded
    BY Zenon, WorkerAssumption
  <1>3. WorkerType
    BY <1>1, <1>2, WorkerAssumption, NoVerdictIsOne
    DEF WorkerType, WorkerPhase, Calls
  <1>4. PermitOwnership /\ Reporting /\ PhaseIsRight
    BY Zenon, <1>1
    DEF PermitOwnership, Reporting, PhaseIsRight, PanicPath, Publishing
  <1>5. IdsAhead
    BY <1>1 DEF IdsAhead, Ahead, Publishing
  <1>6. ResultsAccounted
    BY <1>2, WorkerAssumption DEF ResultsAccounted
  <1> QED
    BY Zenon, <1>3, <1>4, <1>5, <1>6 DEF WorkerInv

\* Every step of every thread keeps the invariant.
LEMMA WorkerInvStep == WorkerInv /\ [Next]_vars => WorkerInv'
  <1> SUFFICES ASSUME WorkerInv, [Next]_vars PROVE WorkerInv'
    BY Zenon
  <1>1. CASE UNCHANGED vars
    <2>1. UNCHANGED <<scenario, RelatedVars, coordinator, pc, verdict, readAt,
                      closing, now, call>>
      BY Zenon, <1>1
      DEF vars, stateVars, channelVars, threadVars, resultHistory, RelatedVars
    <2>2. OnlyIssues
      BY Zenon, <2>1, SameIssuesNothing DEF WorkerInv
    <2>3. Quiet
      BY Zenon, <2>1, <2>2 DEF WorkerInv, WorkerType, Quiet, ThreadMoves
    <2> QED
      BY Zenon, <2>3, QuietStep
  <1>2. CASE Next
    <2>1. UNCHANGED scenario
      BY Zenon, <1>2 DEF Next
    <2>2. CASE WorkerStep
      BY Zenon, <2>1, <2>2, MovesPreserve, TakePendingStartPreserves,
         StopOrContinuePreserves, PreflightClosingPreserves,
         PreflightExecutePreserves, FinishRefreshPreserves,
         FinishPanickedPreserves, PublishSendPreserves,
         DisplaceResultPreserves, CountSupersededPreserves,
         CountOverflowPreserves, FaultAfterPanicPreserves
      DEF WorkerStep, Preflight
    <2>3. CASE ShutdownStep
      BY Zenon, <2>1, <2>3, MovesPreserve, ShutdownJoinPreserves
      DEF ShutdownStep
    <2>4. CASE \E s \in Submitter : SubmitStep(s)
      BY Zenon, <2>1, <2>4, SubmitAdmitPreserves, CallersPreserve
      DEF SubmitStep
    <2>5. CASE \/ \E s \in scenario.submitters, u \in scenario.urgencies,
                    d \in scenario.deadlines : SubmitCheck(s, u, d)
               \/ WaitForCompletion
               \/ Tick
      BY Zenon, <2>1, <2>5, CallersPreserve
    <2>6. CASE \E id \in RequestId : CancelRequest(id)
      BY Zenon, <2>1, <2>6, CancelRequestPreserves
    <2>7. CASE TryCompletion \/ WaitReturns \/ ShutdownBegin \/ FaultAndAbandon
      BY Zenon, <2>1, <2>7, CollectPreserves, ShutdownBeginPreserves,
         FaultAndAbandonPreserves
    <2>8. CASE Terminated
      BY Zenon, <1>1, <2>8 DEF Terminated
    <2> QED
      BY Zenon, <1>2, <2>2, <2>3, <2>4, <2>5, <2>6, <2>7, <2>8 DEF Next
  <1> QED
    BY Zenon, <1>1, <1>2

\* Every permit has one owner, a thread that ended leaves only a start that a
\* shutdown overtook and cancelled, and completions are delivered in order and
\* accounted for: publish_latest, submit, shutdown and the panic paths of
\* worker.rs, for any number of submitters, ids and superseded completions.
THEOREM WorkerIsAccounted == Spec => []WorkerAccounts
  <1>1. WorkerInv => WorkerAccounts
    <2> SUFFICES ASSUME WorkerInv PROVE OnlyShutdownAbandons
      BY Zenon DEF WorkerInv, WorkerAccounts
    <2> QED
      BY Zenon
      DEF WorkerInv, OnlyShutdownAbandons, PermitOwnership, PhaseIsRight
  <1> QED
    BY <1>1, WorkerInvInit, WorkerInvStep, PTL DEF Spec

-----------------------------------------------------------------------------
\* What the steps do to the three things SingleFlight speaks of.
LEMMA SingleFlightStep ==
    ASSUME WorkerInv, [Next]_vars
    PROVE  [SF!Next]_(SF!vars)
  <1> USE DEF vars, stateVars, channelVars, threadVars, resultHistory, SF!vars
  <1>1. CASE \/ UNCHANGED <<pc, permit, phase, lastStarted>>
             \/ /\ pc # "Execute" /\ pc' # "Execute"
                /\ UNCHANGED lastStarted
                /\ phase' = "Running" <=> phase = "Running"
    BY Zenon, <1>1
  <1>2. CASE PreflightExecute
    <2>1. /\ pc = "Preflight" /\ pc' = "Execute" /\ permit' = permit
          /\ lastStarted' = permit.id
          /\ phase' = phase /\ phase # "ShuttingDown"
      BY Zenon, <1>2 DEF PreflightExecute, MayExecute
    <2>2. permit # NoPermit /\ lastStarted < permit.id
      BY Zenon, <2>1 DEF WorkerInv, PermitOwnership, IdsAhead
    <2>3. phase = "Running"
      BY Zenon, <2>1
      DEF WorkerInv, WorkerType, WorkerPhase, PhaseIsRight, ThreadGone
    <2> QED
      BY Zenon, <2>1, <2>2, <2>3 DEF SF!Next, SF!Begin
  <1>3. CASE ExecuteEnds
    <2>1. /\ pc = "Execute" /\ pc' \in {"Finish", "PanicFinish"}
          /\ UNCHANGED <<permit, lastStarted, phase>>
      BY Zenon, <1>3 DEF ExecuteEnds, ExecuteReturns, ExecutePanics
    <2>2. permit.id # 0
      <3>1. permit \in RefreshPermit
        BY Zenon, <2>1 DEF WorkerInv, WorkerType, PermitOwnership
      <3> QED
        BY Zenon, <3>1, WorkerNumbers DEF WorkerInv
    <2> QED
      BY Zenon, <2>1, <2>2 DEF SF!Next, SF!End
  <1>4. CASE ShutdownBegin
    <2>1. /\ UNCHANGED <<pc, permit, lastStarted>>
          /\ phase' = IF phase = "Running" THEN "ShuttingDown" ELSE phase
      BY Zenon, <1>4 DEF ShutdownBegin
    <2> QED
      BY Zenon, <2>1 DEF SF!Next, SF!Close
  <1>5. CASE FinishPanicked \/ FaultAndAbandon
    <2>1. /\ pc # "Execute" /\ pc' # "Execute" /\ UNCHANGED lastStarted
          /\ phase' # "Running"
      BY Zenon, <1>5 DEF FinishPanicked, FaultAndAbandon
    <2> QED
      BY Zenon, <2>1 DEF SF!Next, SF!Close
  <1>6. CASE StopOrContinue \/ FaultAfterPanic \/ ShutdownJoin
    <2>1. /\ pc # "Execute" /\ pc' # "Execute" /\ UNCHANGED lastStarted
          /\ phase' = "Running" <=> phase = "Running"
      BY Zenon, <1>6
      DEF StopOrContinue, FaultAfterPanic, ShutdownJoin, ThreadGone,
          WorkerInv, PhaseIsRight, PanicPath
    <2> QED
      BY Zenon, <1>1, <2>1
  <1>7. CASE \/ RecvWake \/ TakePendingStart \/ PreflightClosing
             \/ PreflightCancelled \/ PreflightExpired \/ FinishRefresh
             \/ PublishSend \/ PublishFull \/ DisplaceResult
             \/ CountSuperseded \/ CountOverflow
    <2>1. /\ pc # "Execute" /\ pc' # "Execute"
          /\ UNCHANGED <<lastStarted, phase>>
      BY Zenon, <1>7 DEF RecvWake, TakePendingStart, PreflightClosing,
                  PreflightCancelled, PreflightExpired, NotStarted,
                  FinishRefresh, PublishSend, PublishFull, DisplaceResult,
                  CountSuperseded, CountOverflow
    <2> QED
      BY Zenon, <1>1, <2>1
  <1>8. CASE \/ \E s \in scenario.submitters, u \in scenario.urgencies,
                  d \in scenario.deadlines : SubmitCheck(s, u, d)
             \/ \E s \in Submitter : SubmitStep(s)
             \/ \E id \in RequestId : CancelRequest(id)
             \/ TryCompletion \/ WaitForCompletion \/ WaitReturns
             \/ ShutdownWake \/ Tick \/ Terminated \/ UNCHANGED vars
    <2>1. UNCHANGED <<pc, permit, phase, lastStarted>>
      BY Zenon, <1>8 DEF SubmitCheck, SubmitStep, SubmitAdmit, SubmitRefused,
                  SubmitWake, CancelRequest, TryCompletion, WaitForCompletion,
                  WaitReturns, ShutdownWake, Tick, Terminated
    <2> QED
      BY Zenon, <1>1, <2>1
  <1> QED
    BY Zenon, <1>2, <1>3, <1>4, <1>5, <1>6, <1>7, <1>8
    DEF Next, WorkerStep, Preflight, ShutdownStep

\* The worker implements SingleFlight: executions do not overlap, requests are
\* executed in the order of their ids and at most once, and none begins once
\* admission has closed (run_worker's preflight, submit and shutdown).
THEOREM WorkerIsSingleFlight == Spec => ImplementsSingleFlight
  <1>1. Init => SF!Init
    BY Zenon DEF Init, SF!Init
  <1>2. WorkerInv /\ [Next]_vars => [SF!Next]_(SF!vars)
    BY Zenon, SingleFlightStep
  <1> QED
    BY <1>1, <1>2, WorkerInvInit, WorkerInvStep, PTL
    DEF Spec, ImplementsSingleFlight, SF!Spec
=============================================================================
