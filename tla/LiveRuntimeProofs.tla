------------------------- MODULE LiveRuntimeProofs -------------------------
(***************************************************************************)
(* The proofs about the live runtime: no change of a file is forgotten     *)
(* while it operates, a pause admits nothing and a stopped runtime is      *)
(* quiet, for any files, any capacity of the path buffer and any calls and *)
(* mishaps, in every order of the threads of live.rs and watcher.rs.       *)
(***************************************************************************)
EXTENDS LiveRuntime, TLAPS

MaybeUrgency == RefreshUrgency \cup {None}

LivePhase == {"Running", "Paused", "Faulted", "Stopping", "Stopped"}
OwnerStage == {"None", "PauseCancel", "PauseStale", "Resume", "JoinScheduler",
               "JoinWorker"}
AdmissionLock == [open : BOOLEAN, held : BOOLEAN]
SchedulerState ==
    [phase : LivePhase, flags : MaybeUrgency, hand : MaybeUrgency]
PathBuffer == [paths : SUBSET Paths, reconcile : BOOLEAN]
Watch == [reset : BOOLEAN, complete : BOOLEAN, installed : BOOLEAN]
WorkerState ==
    [phase : {"Running", "Closing", "Stopped", "Faulted"},
     active : MaybeUrgency, pending : MaybeUrgency, cancelled : BOOLEAN]
Execution ==
    [pc : {"Idle", "Take", "Run", "Sync", "Finish"}, forced : BOOLEAN,
     scope : SUBSET Paths]

LiveType ==
    /\ liveScenario \in LiveScenarios
    /\ live \in LivePhase
    /\ admission \in AdmissionLock
    /\ owner \in OwnerStage
    /\ scheduler \in SchedulerState
    /\ signals \in [Actor -> MaybeUrgency]
    /\ force \in BOOLEAN
    /\ buffer \in PathBuffer
    /\ watch \in Watch
    /\ events \in SUBSET (Paths \cup {Rescan})
    /\ callback \in MaybeUrgency
    /\ worker \in WorkerState
    /\ execution \in Execution
    /\ dirty \in SUBSET Paths /\ excused \in SUBSET Paths

\* The executor runs for the active request, and holds the force boolean only
\* before it takes its paths and paths only while it reads them.
ExecutionIsWorked ==
    /\ execution.pc # "Idle" => worker.active # None
    /\ execution.pc # "Take" => execution.forced = FALSE
    /\ execution.pc # "Run" => execution.scope = {}

\* The owner keeps admission closed, or holds its lock, while the runtime is
\* paused, and a resumption owes a Recovery refresh that nobody can submit yet.
AdmissionIsOwned ==
    /\ live = "Paused" => admission.open = FALSE \/ admission.held = TRUE
    /\ owner \in {"PauseCancel", "PauseStale"} => admission.open = FALSE
    /\ live = "Running" /\ owner = "None" => admission.open = TRUE
    /\ owner = "Resume" =>
          /\ live = "Paused" /\ scheduler.phase = "Running"
          /\ admission.open = TRUE /\ admission.held = TRUE
          /\ Recovery \in {scheduler.flags, scheduler.hand, signals["owner"]}

\* A shutdown drops the watcher, ends the scheduler, and then the worker.
StopIsOrdered ==
    /\ scheduler.phase \in {"Stopped", "Faulted"} => scheduler.hand = None
    /\ owner \in {"JoinScheduler", "JoinWorker"} =>
          live = "Stopping" /\ watch.installed = FALSE /\ events = {}
    /\ owner = "JoinWorker" =>
          /\ scheduler.phase \in {"Stopped", "Faulted"}
          /\ worker.phase # "Running" /\ worker.pending = None
    /\ worker.phase = "Closing" => owner = "JoinWorker"
    /\ live = "Stopped" =>
          /\ scheduler.phase = "Stopped" /\ worker.phase = "Stopped"
          /\ worker.active = None /\ worker.pending = None
          /\ watch.installed = FALSE /\ events = {}

\* What is owed besides the active request.
OwedElsewhere ==
    ({scheduler.flags, scheduler.hand, callback, worker.pending}
        \cup {signals[a] : a \in Actor}) \ {None}

\* The threads run and no call of the owner is under way.
Unhindered ==
    /\ live = "Running" /\ owner = "None"
    /\ scheduler.phase = "Running" /\ worker.phase = "Running"

\* Whoever sets the force boolean again, after the executor took it and before
\* it takes its paths, owes another refresh.
ForceIsOwed ==
    Unhindered /\ execution.pc = "Take" /\ force = TRUE => OwedElsewhere # {}

(***************************************************************************)
(* The inductive invariant.  That no change is forgotten rests on the      *)
(* order of the executor's two takes: a path recorded between them is      *)
(* covered either by what is taken or by the refresh its signal owes.      *)
(***************************************************************************)
LiveInv ==
    /\ LiveType
    /\ ExecutionIsWorked
    /\ AdmissionIsOwned
    /\ StopIsOrdered
    /\ ForceIsOwed
    /\ NoChangeForgotten

----------------------------------------------------------------------------
(* The operators. *)

\* The higher of two urgencies is one of them and at least as high as both.
LEMMA HigherOf ==
  ASSUME NEW u \in MaybeUrgency, NEW v \in MaybeUrgency
  PROVE  /\ HigherUrgency(u, v) \in MaybeUrgency
         /\ HigherUrgency(u, v) \in {u, v}
         /\ u <= HigherUrgency(u, v) /\ v <= HigherUrgency(u, v)
  BY DEF HigherUrgency, MaybeUrgency, RefreshUrgency, Hint, Recovery, None

\* The urgencies the code names, and the lack of one.
LEMMA Urgencies ==
  /\ {Hint, Periodic, Interactive, Recovery, None} \subseteq MaybeUrgency
  /\ RefreshUrgency \subseteq MaybeUrgency
  BY DEF MaybeUrgency, RefreshUrgency, Hint, Periodic, Interactive, Recovery, None

\* The admission lock is open or closed, held or free.
LEMMA Admissions ==
  \A o \in BOOLEAN, h \in BOOLEAN : [open |-> o, held |-> h] \in AdmissionLock
  BY DEF AdmissionLock

\* What is owed are urgencies.
LEMMA OwedIsUrgent ==
  ASSUME LiveType
  PROVE  Owed \subseteq RefreshUrgency /\ OwedElsewhere \subseteq Owed
  BY DEF LiveType, Owed, OwedElsewhere, MaybeUrgency, SchedulerState, WorkerState

\* record: the buffer names the path, or asks for everything.
LEMMA RecordKeeps ==
  ASSUME LiveType, NEW p \in Paths
  PROVE  /\ Record(p) \in PathBuffer
         /\ Record(p).reconcile \/ buffer.paths \cup {p} \subseteq Record(p).paths
  <1>1. CASE buffer.reconcile
    BY <1>1 DEF LiveType, Record, PathBuffer
  <1>2. CASE ~buffer.reconcile /\ p \in buffer.paths
    BY <1>2 DEF LiveType, Record, PathBuffer
  <1>3. CASE /\ ~buffer.reconcile /\ p \notin buffer.paths
             /\ Cardinality(buffer.paths) = MaxChangedPaths
    BY <1>3 DEF LiveType, Record, PathBuffer
  <1>4. CASE /\ ~buffer.reconcile /\ p \notin buffer.paths
             /\ Cardinality(buffer.paths) # MaxChangedPaths
    BY <1>4 DEF LiveType, Record, PathBuffer
  <1> QED
    BY <1>1, <1>2, <1>3, <1>4

\* A hint that is sent is an urgency, and the flags have a place for it.
LEMMA SendHintType ==
  ASSUME LiveType, NEW a \in Actor, NEW u \in MaybeUrgency, NEW f \in BOOLEAN,
         SendHint(a, u, f)
  PROVE  force' \in BOOLEAN /\ signals' \in [Actor -> MaybeUrgency]
  BY DEF LiveType, SendHint

----------------------------------------------------------------------------
(* Types. *)

\* Every step keeps the types.
LEMMA TypeStep ==
  ASSUME LiveType, [LiveNext]_liveVars
  PROVE  LiveType'
  <1>1. CASE TakeUrgency /\ UNCHANGED liveScenario
    <2>1. scheduler' \in SchedulerState
      BY <1>1, Urgencies, Zenon DEF LiveType, TakeUrgency, SchedulerState, LivePhase
    <2> QED
      BY <1>1, <2>1
      DEF LiveType, TakeUrgency, ownerVars, workVars, fileVars, watcherVars
  <1>2. CASE Poll /\ UNCHANGED liveScenario
    <2>1. scheduler' \in SchedulerState
      BY <1>2, Urgencies DEF LiveType, Poll, SchedulerState, LivePhase
    <2> QED
      BY <1>2, <2>1
      DEF LiveType, Poll, ownerVars, workVars, fileVars, watcherVars
  <1>3. CASE Defer /\ UNCHANGED liveScenario
    <2>1. scheduler' \in SchedulerState
      <3>1. PICK restored \in {scheduler.hand, None} :
               scheduler' = [scheduler EXCEPT
                   !.flags = HigherUrgency(scheduler.flags, restored), !.hand = None]
        BY <1>3, Zenon DEF Defer
      <3>2. HigherUrgency(scheduler.flags, restored) \in MaybeUrgency
        BY HigherOf, Urgencies DEF LiveType, SchedulerState
      <3> QED
        BY <3>1, <3>2, Urgencies, Zenon DEF LiveType, SchedulerState
    <2> QED
      BY <1>3, <2>1
      DEF LiveType, Defer, ownerVars, workVars, fileVars, watcherVars
  <1>4. CASE SubmitRefresh /\ UNCHANGED liveScenario
    <2>1. scheduler' \in SchedulerState
      BY <1>4, Urgencies, Zenon DEF LiveType, SubmitRefresh, SchedulerState, LivePhase
    <2>2. worker' \in WorkerState
      BY <1>4, HigherOf DEF LiveType, SubmitRefresh, WorkerState, Admitted, SchedulerState
    <2> QED
      BY <1>4, <2>1, <2>2
      DEF LiveType, SubmitRefresh, ownerVars, workVars, fileVars, watcherVars
  <1>5. CASE RefuseRefresh /\ UNCHANGED liveScenario
    <2>1. execution' \in Execution
      BY <1>5 DEF LiveType, RefuseRefresh, Execution
    <2> QED
      BY <1>5, <2>1
      DEF LiveType, RefuseRefresh, ownerVars, workVars, fileVars, watcherVars, Excuse
  <1>6. CASE TakeForce /\ UNCHANGED liveScenario
    <2>1. execution' \in Execution
      BY <1>6, Zenon DEF LiveType, TakeForce, Execution
    <2> QED
      BY <1>6, <2>1, Zenon
      DEF LiveType, TakeForce, ownerVars, workVars, fileVars, watcherVars
  <1>7. CASE TakePaths /\ UNCHANGED liveScenario
    <2>1. execution' \in Execution
      BY <1>7 DEF LiveType, TakePaths, Execution, PathBuffer
    <2>2. buffer' \in PathBuffer
      BY <1>7 DEF LiveType, TakePaths, PathBuffer, EmptyBuffer
    <2> QED
      BY <1>7, <2>1, <2>2
      DEF LiveType, TakePaths, ownerVars, workVars, fileVars, watcherVars
  <1>8. CASE Escalate /\ UNCHANGED liveScenario
    <2>1. execution' \in Execution
      BY <1>8 DEF LiveType, Escalate, Execution
    <2> QED
      BY <1>8, <2>1
      DEF LiveType, Escalate, ownerVars, workVars, fileVars, watcherVars
  <1>9. CASE Complete /\ UNCHANGED liveScenario
    <2>1. execution' \in Execution
      BY <1>9, Zenon DEF LiveType, Complete, Execution
    <2> QED
      BY <1>9, <2>1
      DEF LiveType, Complete, ownerVars, workVars, fileVars, watcherVars
  <1>10. CASE Partial /\ UNCHANGED liveScenario
    <2>1. execution' \in Execution
      BY <1>10, Zenon DEF LiveType, Partial, Execution
    <2>2. force' \in BOOLEAN /\ signals' \in [Actor -> MaybeUrgency]
      BY <1>10, SendHintType, Urgencies, Zenon
      DEF LiveType, Partial, Actor, ScheduleContinuation
    <2> QED
      BY <1>10, <2>1, <2>2
      DEF LiveType, Partial, ownerVars, workVars, fileVars, watcherVars, Excuse, Execution
  <1>11. CASE Fail /\ UNCHANGED liveScenario
    <2>1. execution' \in Execution
      BY <1>11, Zenon DEF LiveType, Fail, Execution
    <2> QED
      BY <1>11, <2>1
      DEF LiveType, Fail, ownerVars, workVars, fileVars, watcherVars, Excuse
  <1>12. CASE Panic /\ UNCHANGED liveScenario
    <2>1. execution' \in Execution
      BY <1>12 DEF LiveType, Panic, Execution, IdleExecution
    <2>2. worker' \in WorkerState
      BY <1>12, Urgencies, Zenon DEF LiveType, Panic, WorkerState, IdleWorker
    <2> QED
      BY <1>12, <2>1, <2>2
      DEF LiveType, Panic, ownerVars, workVars, fileVars, watcherVars
  <1>13. CASE SkipSync /\ UNCHANGED liveScenario
    <2>1. execution' \in Execution
      BY <1>13 DEF LiveType, SkipSync, Execution
    <2>2. watch' \in Watch
      BY <1>13, Zenon DEF LiveType, SkipSync, Watch
    <2> QED
      BY <1>13, <2>1, <2>2
      DEF LiveType, SkipSync, ownerVars, workVars, fileVars, watcherVars
  <1>14. CASE InstallWatcher /\ UNCHANGED liveScenario
    <2>1. execution' \in Execution
      BY <1>14 DEF LiveType, InstallWatcher, Execution
    <2>2. watch' \in Watch
      BY <1>14 DEF LiveType, InstallWatcher, Watch
    <2>3. force' \in BOOLEAN /\ signals' \in [Actor -> MaybeUrgency]
      BY <1>14, SendHintType, Urgencies, Zenon DEF LiveType, InstallWatcher, Actor,
         ReconcileNewWatcher
    <2> QED
      BY <1>14, <2>1, <2>2, <2>3
      DEF LiveType, InstallWatcher, ownerVars, workVars, fileVars, watcherVars
  <1>15. CASE KeepWatcher /\ UNCHANGED liveScenario
    <2>1. execution' \in Execution
      BY <1>15 DEF LiveType, KeepWatcher, Execution
    <2>2. watch' \in Watch
      BY <1>15, Zenon DEF LiveType, KeepWatcher, Watch
    <2>3. force' \in BOOLEAN /\ signals' \in [Actor -> MaybeUrgency]
      BY <1>15, SendHintType, Urgencies, Zenon DEF LiveType, KeepWatcher, Actor
    <2> QED
      BY <1>15, <2>1, <2>2, <2>3
      DEF LiveType, KeepWatcher, ownerVars, workVars, fileVars, watcherVars
  <1>16. CASE EndRefresh /\ UNCHANGED liveScenario
    <2>1. execution' \in Execution
      BY <1>16 DEF LiveType, EndRefresh, Execution, IdleExecution
    <2>2. worker' \in WorkerState
      BY <1>16, Urgencies, Zenon DEF LiveType, EndRefresh, WorkerState, FollowUp
    <2> QED
      BY <1>16, <2>1, <2>2
      DEF LiveType, EndRefresh, ownerVars, workVars, fileVars, watcherVars, OwnerStage
  <1>17. CASE RefreshNow /\ UNCHANGED liveScenario
    <2>1. watch' \in Watch
      BY <1>17 DEF LiveType, RefreshNow, Watch
    <2>2. force' \in BOOLEAN /\ signals' \in [Actor -> MaybeUrgency]
      BY <1>17, SendHintType, Urgencies, Zenon DEF LiveType, RefreshNow, Actor
    <2> QED
      BY <1>17, <2>1, <2>2
      DEF LiveType, RefreshNow, ownerVars, workVars, fileVars, watcherVars
  <1>18. CASE PauseBegin /\ UNCHANGED liveScenario
    <2>1. scheduler' \in SchedulerState
      BY <1>18 DEF LiveType, PauseBegin, SchedulerState, LivePhase
    <2>2. admission' \in AdmissionLock
      BY <1>18, Admissions, Zenon DEF LiveType, PauseBegin
    <2> QED
      BY <1>18, <2>1, <2>2
      DEF LiveType, PauseBegin, ownerVars, workVars, fileVars, watcherVars, LivePhase,
          OwnerStage
  <1>19. CASE PauseEnd /\ UNCHANGED liveScenario
    <2>1. worker' \in WorkerState
      BY <1>19, Zenon DEF LiveType, PauseEnd, WorkerState
    <2>2. admission' \in AdmissionLock
      BY <1>19, Zenon DEF LiveType, PauseEnd, AdmissionLock
    <2> QED
      BY <1>19, <2>1, <2>2
      DEF LiveType, PauseEnd, ownerVars, workVars, fileVars, watcherVars, LivePhase,
          OwnerStage
  <1>20. CASE ResumeRuntime /\ UNCHANGED liveScenario
    <2>1. watch' \in Watch
      BY <1>20, Zenon DEF LiveType, ResumeRuntime, Watch
    <2>2. scheduler' \in SchedulerState
      BY <1>20 DEF LiveType, ResumeRuntime, SchedulerState, LivePhase
    <2>3. admission' \in AdmissionLock
      BY <1>20, Admissions, Zenon DEF LiveType, ResumeRuntime
    <2>4. force' \in BOOLEAN /\ signals' \in [Actor -> MaybeUrgency]
      BY <1>20, Urgencies, Zenon DEF LiveType, ResumeRuntime, Actor, ResumeReconciles
    <2> QED
      BY <1>20, <2>1, <2>2, <2>3, <2>4
      DEF LiveType, ResumeRuntime, ownerVars, workVars, fileVars, watcherVars, LivePhase,
          OwnerStage
  <1>21. CASE ResumeEnd /\ UNCHANGED liveScenario
    <2>1. admission' \in AdmissionLock
      BY <1>21, Zenon DEF LiveType, ResumeEnd, AdmissionLock
    <2> QED
      BY <1>21, <2>1
      DEF LiveType, ResumeEnd, ownerVars, workVars, fileVars, watcherVars, LivePhase,
          OwnerStage
  <1>22. CASE ShutdownRuntime /\ UNCHANGED liveScenario
    <2>1. admission' \in AdmissionLock
      BY <1>22, Zenon DEF LiveType, ShutdownRuntime, AdmissionLock
    <2>2. watch' \in Watch
      BY <1>22, Zenon DEF LiveType, ShutdownRuntime, Watch
    <2>3. scheduler' \in SchedulerState
      BY <1>22 DEF LiveType, ShutdownRuntime, SchedulerState, LivePhase, StopPhase
    <2> QED
      BY <1>22, <2>1, <2>2, <2>3
      DEF LiveType, ShutdownRuntime, ownerVars, workVars, fileVars, watcherVars,
          LivePhase, OwnerStage
  <1>23. CASE JoinScheduler /\ UNCHANGED liveScenario
    <2>1. scheduler' \in SchedulerState
      BY <1>23 DEF LiveType, JoinScheduler, SchedulerState, LivePhase
    <2>2. worker' \in WorkerState
      BY <1>23, Urgencies, Zenon DEF LiveType, JoinScheduler, WorkerState
    <2> QED
      BY <1>23, <2>1, <2>2
      DEF LiveType, JoinScheduler, ownerVars, workVars, fileVars, watcherVars, LivePhase,
          OwnerStage
  <1>24. CASE JoinWorker /\ UNCHANGED liveScenario
    <2>1. worker' \in WorkerState
      BY <1>24 DEF LiveType, JoinWorker, WorkerState
    <2> QED
      BY <1>24, <2>1
      DEF LiveType, JoinWorker, ownerVars, workVars, fileVars, watcherVars, LivePhase,
          OwnerStage
  <1>25. CASE CallbackSignals /\ UNCHANGED liveScenario
    <2>1. force' \in BOOLEAN /\ signals' \in [Actor -> MaybeUrgency]
      BY <1>25, SendHintType, Zenon DEF LiveType, CallbackSignals, Actor
    <2> QED
      BY <1>25, <2>1, Urgencies
      DEF LiveType, CallbackSignals, ownerVars, workVars, fileVars, watcherVars
  <1>26. CASE LoseNotifications /\ UNCHANGED liveScenario
    <2> QED
      BY <1>26
      DEF LiveType, LoseNotifications, ownerVars, workVars, fileVars, watcherVars
  <1>27. CASE (\E a \in Actor : SetFlags(a)) /\ UNCHANGED liveScenario
    <2>1. PICK a \in Actor : SetFlags(a)
      BY <1>27
    <2>2. HigherUrgency(scheduler.flags, signals[a]) \in MaybeUrgency
      BY HigherOf DEF LiveType, SchedulerState
    <2>3. scheduler' \in SchedulerState
      BY <2>1, <2>2 DEF LiveType, SetFlags, SchedulerState
    <2>4. signals' \in [Actor -> MaybeUrgency]
      BY <2>1, Urgencies DEF LiveType, SetFlags
    <2> QED
      BY <1>27, <2>1, <2>3, <2>4 DEF LiveType, ownerVars, workVars, fileVars, watcherVars,
         SetFlags
  <1>28. CASE (\E p \in Paths : Change(p)) /\ UNCHANGED liveScenario
    <2>1. execution' \in Execution
      BY <1>28 DEF LiveType, Change, Execution
    <2> QED
      BY <1>28, <2>1 DEF LiveType, ownerVars, workVars, fileVars, watcherVars, Change
  <1>29. CASE (\E e \in Paths \cup {Rescan} : Deliver(e)) /\ UNCHANGED liveScenario
    <2>1. PICK e \in Paths \cup {Rescan} : Deliver(e)
      BY <1>29
    <2>2. buffer' \in PathBuffer
      <3>1. CASE e = Rescan
        BY <2>1, <3>1 DEF Deliver, PathBuffer
      <3>2. CASE e # Rescan
        BY <2>1, <3>2, RecordKeeps DEF Deliver
      <3> QED
        BY <3>1, <3>2
    <2>3. callback' \in MaybeUrgency
      BY <2>1, Urgencies DEF Deliver
    <2> QED
      BY <1>29, <2>1, <2>2, <2>3 DEF LiveType, ownerVars, workVars, fileVars, watcherVars,
         Deliver
  <1>30. CASE UNCHANGED liveVars
    BY <1>30 DEF LiveType, liveVars
  <1> QED
    BY <1>1, <1>2, <1>3, <1>4, <1>5, <1>6, <1>7, <1>8, <1>9, <1>10, <1>11, <1>12, <1>13,
       <1>14, <1>15, <1>16,
       <1>17, <1>18, <1>19, <1>20, <1>21, <1>22, <1>23, <1>24, <1>25, <1>26, <1>27, <1>28,
       <1>29, <1>30
    DEF LiveNext, SchedulerStep, ExecutionStep, OwnerStep

\* The executor only runs for the active request.
LEMMA WorkedStep ==
  ASSUME LiveType, ExecutionIsWorked, [LiveNext]_liveVars
  PROVE  ExecutionIsWorked'
  <1>1. CASE SubmitRefresh
    BY <1>1, HigherOf DEF LiveType, ExecutionIsWorked, SubmitRefresh, ownerVars, workVars,
       fileVars, watcherVars, Execution, WorkerState, None, Admitted, SchedulerState
  <1>2. CASE RefuseRefresh
    BY <1>2 DEF LiveType, ExecutionIsWorked, RefuseRefresh, ownerVars, workVars, fileVars,
       watcherVars, Execution, WorkerState, None
  <1>3. CASE TakeForce
    BY <1>3 DEF LiveType, ExecutionIsWorked, TakeForce, ownerVars, workVars, fileVars,
       watcherVars, Execution, WorkerState, None
  <1>4. CASE TakePaths
    BY <1>4 DEF LiveType, ExecutionIsWorked, TakePaths, ownerVars, workVars, fileVars,
       watcherVars, Execution, WorkerState, None
  <1>5. CASE Escalate
    BY <1>5 DEF LiveType, ExecutionIsWorked, Escalate, ownerVars, workVars, fileVars,
       watcherVars, Execution, WorkerState, None
  <1>6. CASE Complete
    BY <1>6 DEF LiveType, ExecutionIsWorked, Complete, ownerVars, workVars, fileVars,
       watcherVars, Execution, WorkerState, None
  <1>7. CASE Partial
    BY <1>7 DEF LiveType, ExecutionIsWorked, Partial, ownerVars, workVars, fileVars,
       watcherVars, Execution, WorkerState, None
  <1>8. CASE Fail
    BY <1>8 DEF LiveType, ExecutionIsWorked, Fail, ownerVars, workVars, fileVars,
       watcherVars, Execution, WorkerState, None
  <1>9. CASE Panic
    BY <1>9 DEF LiveType, ExecutionIsWorked, Panic, ownerVars, workVars, fileVars,
       watcherVars, Execution, WorkerState, None, IdleExecution
  <1>10. CASE SkipSync
    BY <1>10 DEF LiveType, ExecutionIsWorked, SkipSync, ownerVars, workVars, fileVars,
       watcherVars, Execution, WorkerState, None
  <1>11. CASE InstallWatcher
    BY <1>11 DEF LiveType, ExecutionIsWorked, InstallWatcher, ownerVars, workVars,
       fileVars, watcherVars, Execution, WorkerState, None
  <1>12. CASE KeepWatcher
    BY <1>12 DEF LiveType, ExecutionIsWorked, KeepWatcher, ownerVars, workVars, fileVars,
       watcherVars, Execution, WorkerState, None
  <1>13. CASE EndRefresh
    BY <1>13 DEF LiveType, ExecutionIsWorked, EndRefresh, ownerVars, workVars, fileVars,
       watcherVars, Execution, WorkerState, None, IdleExecution
  <1>14. CASE PauseEnd
    BY <1>14 DEF LiveType, ExecutionIsWorked, PauseEnd, ownerVars, workVars, fileVars,
       watcherVars, Execution, WorkerState, None
  <1>15. CASE JoinScheduler
    BY <1>15 DEF LiveType, ExecutionIsWorked, JoinScheduler, ownerVars, workVars,
       fileVars, watcherVars, Execution, WorkerState, None
  <1>16. CASE JoinWorker
    BY <1>16 DEF LiveType, ExecutionIsWorked, JoinWorker, ownerVars, workVars, fileVars,
       watcherVars, Execution, WorkerState, None
  <1>17. CASE \E p \in Paths : Change(p)
    BY <1>17 DEF LiveType, ExecutionIsWorked, Change, ownerVars, workVars, fileVars,
       watcherVars, Execution, WorkerState, None
  <1>18. CASE \/ TakeUrgency \/ Poll \/ Defer \/ RefreshNow \/ PauseBegin \/ ResumeRuntime
              \/ ResumeEnd \/ ShutdownRuntime \/ CallbackSignals \/ LoseNotifications
              \/ (\E a \in Actor : SetFlags(a))
              \/ (\E e \in Paths \cup {Rescan} : Deliver(e))
            \/ UNCHANGED liveVars
    <2>1. UNCHANGED <<worker, execution>>
      BY <1>18 DEF TakeUrgency, Poll, Defer, RefreshNow, PauseBegin, ResumeRuntime,
         ResumeEnd, ShutdownRuntime, CallbackSignals, LoseNotifications, SetFlags,
         Deliver, ownerVars, workVars, fileVars, watcherVars, liveVars, SendHint
    <2> QED
      BY <2>1 DEF ExecutionIsWorked
  <1> QED
    BY <1>1, <1>2, <1>3, <1>4, <1>5, <1>6, <1>7, <1>8, <1>9, <1>10, <1>11, <1>12, <1>13,
       <1>14, <1>15, <1>16, <1>17, <1>18 DEF LiveNext, SchedulerStep, ExecutionStep,
       OwnerStep

\* Admission stays closed through a pause, and a resumption owes its refresh.
LEMMA AdmissionStep ==
  ASSUME LiveType, AdmissionIsOwned, [LiveNext]_liveVars
  PROVE  AdmissionIsOwned'
  <1>1. CASE TakeUrgency
    BY <1>1 DEF LiveType, AdmissionIsOwned, TakeUrgency, ownerVars, workVars, fileVars,
       watcherVars, AdmissionLock, SchedulerState, Actor, MaybeUrgency, RefreshUrgency, Hint,
       Recovery, None
  <1>2. CASE Poll
    BY <1>2 DEF LiveType, AdmissionIsOwned, Poll, ownerVars, workVars, fileVars,
       watcherVars, AdmissionLock, SchedulerState, Actor, MaybeUrgency, RefreshUrgency, Hint,
       Recovery, None, Periodic
  <1>3. CASE Defer
    BY <1>3 DEF LiveType, AdmissionIsOwned, Defer, ownerVars, workVars, fileVars,
       watcherVars, AdmissionLock, SchedulerState, Actor
  <1>4. CASE SubmitRefresh
    BY <1>4 DEF LiveType, AdmissionIsOwned, SubmitRefresh, ownerVars, workVars, fileVars,
       watcherVars, AdmissionLock, SchedulerState, Actor
  <1>5. CASE \E a \in Actor : SetFlags(a)
    BY <1>5 DEF LiveType, AdmissionIsOwned, SetFlags, ownerVars, workVars, fileVars,
       watcherVars, AdmissionLock, SchedulerState, Actor, HigherUrgency, MaybeUrgency,
       RefreshUrgency, Hint, Recovery, None
  <1>6. CASE CallbackSignals
    BY <1>6 DEF LiveType, AdmissionIsOwned, CallbackSignals, ownerVars, workVars,
       fileVars, watcherVars, AdmissionLock, SchedulerState, Actor, SendHint
  <1>7. CASE Partial
    BY <1>7 DEF LiveType, AdmissionIsOwned, Partial, ownerVars, workVars, fileVars,
       watcherVars, AdmissionLock, SchedulerState, Actor, ScheduleContinuation, SendHint
  <1>8. CASE InstallWatcher
    BY <1>8 DEF LiveType, AdmissionIsOwned, InstallWatcher, ownerVars, workVars, fileVars,
       watcherVars, AdmissionLock, SchedulerState, Actor, ReconcileNewWatcher, SendHint
  <1>9. CASE KeepWatcher
    BY <1>9 DEF LiveType, AdmissionIsOwned, KeepWatcher, ownerVars, workVars, fileVars,
       watcherVars, AdmissionLock, SchedulerState, Actor, SendHint
  <1>10. CASE EndRefresh
    BY <1>10 DEF LiveType, AdmissionIsOwned, EndRefresh, ownerVars, workVars, fileVars,
       watcherVars, AdmissionLock, SchedulerState, Actor
  <1>11. CASE RefreshNow
    BY <1>11 DEF LiveType, AdmissionIsOwned, RefreshNow, ownerVars, workVars, fileVars,
       watcherVars, AdmissionLock, SchedulerState, Actor, OwnerFree
  <1>12. CASE PauseBegin
    BY <1>12 DEF LiveType, AdmissionIsOwned, PauseBegin, ownerVars, workVars, fileVars,
       watcherVars, AdmissionLock, SchedulerState, Actor, OwnerFree
  <1>13. CASE PauseEnd
    BY <1>13 DEF LiveType, AdmissionIsOwned, PauseEnd, ownerVars, workVars, fileVars,
       watcherVars, AdmissionLock, SchedulerState, Actor
  <1>14. CASE ResumeRuntime
    BY <1>14 DEF LiveType, AdmissionIsOwned, ResumeRuntime, ownerVars, workVars, fileVars,
       watcherVars, AdmissionLock, SchedulerState, Actor, OwnerFree, ResumeReconciles
  <1>15. CASE ResumeEnd
    BY <1>15 DEF LiveType, AdmissionIsOwned, ResumeEnd, ownerVars, workVars, fileVars,
       watcherVars, AdmissionLock, SchedulerState, Actor
  <1>16. CASE ShutdownRuntime
    BY <1>16 DEF LiveType, AdmissionIsOwned, ShutdownRuntime, ownerVars, workVars,
       fileVars, watcherVars, AdmissionLock, SchedulerState, Actor, OwnerFree
  <1>17. CASE JoinScheduler
    BY <1>17 DEF LiveType, AdmissionIsOwned, JoinScheduler, ownerVars, workVars, fileVars,
       watcherVars, AdmissionLock, SchedulerState, Actor
  <1>18. CASE JoinWorker
    BY <1>18 DEF LiveType, AdmissionIsOwned, JoinWorker, ownerVars, workVars, fileVars,
       watcherVars, AdmissionLock, SchedulerState, Actor
  <1>19. CASE \/ RefuseRefresh \/ TakeForce \/ TakePaths \/ Escalate \/ Complete \/ Fail
              \/ Panic \/ SkipSync \/ LoseNotifications \/ (\E p \in Paths : Change(p))
              \/ (\E e \in Paths \cup {Rescan} : Deliver(e))
            \/ UNCHANGED liveVars
    <2>1. UNCHANGED <<live, admission, owner, scheduler, signals>>
      BY <1>19, Zenon
      DEF RefuseRefresh, TakeForce, TakePaths, Escalate, Complete, Fail, Panic,
         SkipSync, LoseNotifications, Change, Deliver, ownerVars, workVars, fileVars,
         watcherVars, liveVars
    <2> QED
      BY <2>1 DEF AdmissionIsOwned
  <1> QED
    BY <1>1, <1>2, <1>3, <1>4, <1>5, <1>6, <1>7, <1>8, <1>9, <1>10, <1>11, <1>12, <1>13,
       <1>14, <1>15, <1>16, <1>17, <1>18, <1>19 DEF LiveNext, SchedulerStep,
       ExecutionStep, OwnerStep

\* A shutdown goes through its stages in order.
LEMMA StopStep ==
  ASSUME LiveType, ExecutionIsWorked, AdmissionIsOwned, StopIsOrdered, [LiveNext]_liveVars
  PROVE  StopIsOrdered'
  <1>1. CASE TakeUrgency
    BY <1>1 DEF LiveType, StopIsOrdered, TakeUrgency, ownerVars, workVars, fileVars,
       watcherVars, SchedulerState, WorkerState, Watch
  <1>2. CASE Poll
    BY <1>2 DEF LiveType, StopIsOrdered, Poll, ownerVars, workVars, fileVars, watcherVars,
       SchedulerState, WorkerState, Watch
  <1>3. CASE Defer
    BY <1>3 DEF LiveType, StopIsOrdered, Defer, ownerVars, workVars, fileVars,
       watcherVars, SchedulerState, WorkerState, Watch
  <1>4. CASE \E a \in Actor : SetFlags(a)
    BY <1>4 DEF LiveType, StopIsOrdered, SetFlags, ownerVars, workVars, fileVars,
       watcherVars, SchedulerState, WorkerState, Watch
  <1>5. CASE SubmitRefresh
    BY <1>5 DEF LiveType, StopIsOrdered, SubmitRefresh, ownerVars, workVars, fileVars,
       watcherVars, SchedulerState, WorkerState, Watch, Admitted
  <1>6. CASE \E p \in Paths : Change(p)
    BY <1>6 DEF LiveType, StopIsOrdered, Change, ownerVars, workVars, fileVars,
       watcherVars, SchedulerState, WorkerState, Watch
  <1>7. CASE LoseNotifications
    BY <1>7 DEF LiveType, StopIsOrdered, LoseNotifications, ownerVars, workVars, fileVars,
       watcherVars, SchedulerState, WorkerState, Watch
  <1>8. CASE \E e \in Paths \cup {Rescan} : Deliver(e)
    BY <1>8 DEF LiveType, StopIsOrdered, Deliver, ownerVars, workVars, fileVars,
       watcherVars, SchedulerState, WorkerState, Watch
  <1>9. CASE Panic
    BY <1>9 DEF LiveType, StopIsOrdered, Panic, ownerVars, workVars, fileVars,
       watcherVars, SchedulerState, WorkerState, Watch, IdleWorker, ExecutionIsWorked
  <1>10. CASE SkipSync
    BY <1>10 DEF LiveType, StopIsOrdered, SkipSync, ownerVars, workVars, fileVars,
       watcherVars, SchedulerState, WorkerState, Watch
  <1>11. CASE InstallWatcher
    BY <1>11 DEF LiveType, StopIsOrdered, InstallWatcher, ownerVars, workVars, fileVars,
       watcherVars, SchedulerState, WorkerState, Watch, ExecutionIsWorked
  <1>12. CASE KeepWatcher
    BY <1>12 DEF LiveType, StopIsOrdered, KeepWatcher, ownerVars, workVars, fileVars,
       watcherVars, SchedulerState, WorkerState, Watch
  <1>13. CASE EndRefresh
    BY <1>13 DEF LiveType, StopIsOrdered, EndRefresh, ownerVars, workVars, fileVars,
       watcherVars, SchedulerState, WorkerState, Watch, FollowUp, ExecutionIsWorked
  <1>14. CASE RefreshNow
    BY <1>14 DEF LiveType, StopIsOrdered, RefreshNow, ownerVars, workVars, fileVars,
       watcherVars, SchedulerState, WorkerState, Watch
  <1>15. CASE PauseBegin
    BY <1>15 DEF LiveType, StopIsOrdered, PauseBegin, ownerVars, workVars, fileVars,
       watcherVars, SchedulerState, WorkerState, Watch, OwnerFree
  <1>16. CASE PauseEnd
    BY <1>16 DEF LiveType, StopIsOrdered, PauseEnd, ownerVars, workVars, fileVars,
       watcherVars, SchedulerState, WorkerState, Watch
  <1>17. CASE ResumeRuntime
    BY <1>17 DEF LiveType, StopIsOrdered, ResumeRuntime, ownerVars, workVars, fileVars,
       watcherVars, SchedulerState, WorkerState, Watch, OwnerFree
  <1>18. CASE ResumeEnd
    BY <1>18 DEF LiveType, StopIsOrdered, ResumeEnd, ownerVars, workVars, fileVars,
       watcherVars, SchedulerState, WorkerState, Watch, AdmissionIsOwned
  <1>19. CASE ShutdownRuntime
    BY <1>19 DEF LiveType, StopIsOrdered, ShutdownRuntime, ownerVars, workVars, fileVars,
       watcherVars, SchedulerState, WorkerState, Watch, OwnerFree, StopPhase
  <1>20. CASE JoinScheduler
    BY <1>20 DEF LiveType, StopIsOrdered, JoinScheduler, ownerVars, workVars, fileVars,
       watcherVars, SchedulerState, WorkerState, Watch, SchedulerThreadEnded
  <1>21. CASE JoinWorker
    BY <1>21 DEF LiveType, StopIsOrdered, JoinWorker, ownerVars, workVars, fileVars,
       watcherVars, SchedulerState, WorkerState, Watch
  <1>22. CASE \/ RefuseRefresh \/ TakeForce \/ TakePaths \/ Escalate \/ Complete
              \/ Partial \/ Fail \/ CallbackSignals
            \/ UNCHANGED liveVars
    <2>1. UNCHANGED <<live, owner, scheduler, watch, events, worker>>
      BY <1>22, Zenon
      DEF RefuseRefresh, TakeForce, TakePaths, Escalate, Complete, Partial, Fail,
         CallbackSignals, ownerVars, workVars, fileVars, watcherVars, liveVars, SendHint
    <2> QED
      BY <2>1 DEF StopIsOrdered
  <1> QED
    BY <1>1, <1>2, <1>3, <1>4, <1>5, <1>6, <1>7, <1>8, <1>9, <1>10, <1>11, <1>12, <1>13,
       <1>14, <1>15, <1>16, <1>17, <1>18, <1>19, <1>20, <1>21, <1>22 DEF LiveNext,
       SchedulerStep, ExecutionStep, OwnerStep

----------------------------------------------------------------------------
(* What is owed. *)

\* Threads are started once: only the end of a resumption makes a hindered
\* runtime run.
LEMMA UnhinderedBefore ==
  ASSUME LiveType, [LiveNext]_liveVars, Unhindered'
  PROVE  Unhindered \/ ResumeEnd
  <1>1. CASE SubmitRefresh
    BY <1>1 DEF LiveType, Unhindered, SubmitRefresh, Admitted, SchedulerState,
       WorkerState, ownerVars, workVars, fileVars, watcherVars
  <1>2. CASE Panic
    BY <1>2 DEF LiveType, Unhindered, Panic, IdleWorker, WorkerState, ownerVars, workVars,
       fileVars, watcherVars
  <1>3. CASE EndRefresh
    BY <1>3 DEF LiveType, Unhindered, EndRefresh, FollowUp, WorkerState, ownerVars,
       workVars, fileVars, watcherVars
  <1>4. CASE TakeUrgency \/ Poll \/ Defer
    BY <1>4 DEF LiveType, Unhindered, TakeUrgency, Poll, Defer, SchedulerState, ownerVars,
       workVars, fileVars, watcherVars
  <1>5. CASE \E a \in Actor : SetFlags(a)
    BY <1>5 DEF LiveType, Unhindered, SetFlags, SchedulerState, ownerVars, workVars,
       fileVars, watcherVars
  <1>6. CASE PauseBegin \/ PauseEnd \/ ResumeRuntime
    BY <1>6 DEF LiveType, Unhindered, PauseBegin, PauseEnd, ResumeRuntime, SchedulerState,
       ownerVars, workVars, fileVars, watcherVars
  <1>7. CASE ShutdownRuntime \/ JoinScheduler \/ JoinWorker
    BY <1>7 DEF LiveType, Unhindered, ShutdownRuntime, JoinScheduler, JoinWorker,
       SchedulerState, WorkerState, ownerVars, workVars, fileVars, watcherVars
  <1>8. CASE \/ RefuseRefresh \/ TakeForce \/ TakePaths \/ Escalate \/ Complete
            \/ Partial \/ Fail \/ SkipSync \/ InstallWatcher \/ KeepWatcher
            \/ RefreshNow \/ CallbackSignals \/ LoseNotifications
            \/ (\E p \in Paths : Change(p))
            \/ (\E e \in Paths \cup {Rescan} : Deliver(e))
            \/ UNCHANGED liveVars
    BY <1>8 DEF Unhindered, RefuseRefresh, TakeForce, TakePaths, Escalate, Complete,
       Partial, Fail, SkipSync, InstallWatcher, KeepWatcher, RefreshNow, CallbackSignals,
       LoseNotifications, Change, Deliver, liveVars, ownerVars, workVars, fileVars,
       watcherVars
  <1> QED
    BY <1>1, <1>2, <1>3, <1>4, <1>5, <1>6, <1>7, <1>8 DEF LiveNext, SchedulerStep,
       ExecutionStep, OwnerStep

\* A hint that is sent replaces nothing that is owed.
LEMMA SendHintOwes ==
  ASSUME LiveType, NEW a \in Actor, NEW u \in RefreshUrgency, NEW f \in BOOLEAN,
         SendHint(a, u, f), scheduler.phase = "Running",
         UNCHANGED <<scheduler, callback, worker>>
  PROVE  OwedElsewhere' = OwedElsewhere \cup {u}
  BY DEF LiveType, SendHint, OwedElsewhere, RefreshUrgency, Hint, Recovery, None

\* While the runtime is unhindered, an urgency that is owed besides the active
\* request stays owed, or a higher one is, until it becomes the active one.
LEMMA ElsewhereKept ==
  ASSUME LiveType, LiveType', AdmissionIsOwned, Unhindered, Unhindered',
         [LiveNext]_liveVars,
         ~EndRefresh, SubmitRefresh => worker.active # None,
         NEW u \in OwedElsewhere
  PROVE  \E v \in OwedElsewhere' : u <= v
  <1> u \in RefreshUrgency
    BY OwedIsUrgent DEF Owed
  <1>1. CASE UNCHANGED <<scheduler, signals, callback, worker>>
    BY <1>1 DEF OwedElsewhere, RefreshUrgency, Hint, Recovery
  <1>2. CASE TakeUrgency
    BY <1>2 DEF TakeUrgency, ownerVars, workVars, fileVars, watcherVars, LiveType,
       OwedElsewhere, SchedulerState, WorkerState, MaybeUrgency, RefreshUrgency, Hint,
       Recovery, None
  <1>3. CASE Poll
    BY <1>3 DEF Poll, Periodic, ownerVars, workVars, fileVars, watcherVars, LiveType,
       OwedElsewhere, SchedulerState, WorkerState, MaybeUrgency, RefreshUrgency, Hint,
       Recovery, None
  <1>4. CASE SubmitRefresh
    <2>1. /\ scheduler'.flags = scheduler.flags
          /\ worker'.pending = HigherUrgency(worker.pending, scheduler.hand)
          /\ UNCHANGED <<signals, callback>>
      BY <1>4 DEF SubmitRefresh, MayAdmit, AdmissionIsOwned, Unhindered, Admitted,
         LiveType, SchedulerState, WorkerState, ownerVars, workVars, fileVars, watcherVars
    <2>2. /\ worker.pending <= worker'.pending /\ scheduler.hand <= worker'.pending
          /\ worker'.pending \in {worker.pending, scheduler.hand}
      BY <2>1, HigherOf DEF LiveType, SchedulerState, WorkerState
    <2> QED
      BY <2>1, <2>2 DEF LiveType, OwedElsewhere, SchedulerState, WorkerState,
         MaybeUrgency, RefreshUrgency, Hint, Recovery, None
  <1>5. CASE \E a \in Actor : SetFlags(a)
    BY <1>5, HigherOf DEF SetFlags, ownerVars, workVars, fileVars, watcherVars, LiveType,
       OwedElsewhere, SchedulerState, WorkerState, MaybeUrgency, RefreshUrgency, Hint,
       Recovery, None
  <1>6. CASE \E e \in Paths \cup {Rescan} : Deliver(e)
    BY <1>6 DEF Deliver, ownerVars, workVars, fileVars, watcherVars, LiveType,
       OwedElsewhere, SchedulerState, WorkerState, MaybeUrgency, RefreshUrgency, Hint,
       Recovery, None
  <1>7. CASE CallbackSignals
    BY <1>7 DEF CallbackSignals, SendHint, Unhindered, Actor, ownerVars, workVars,
       fileVars, watcherVars, LiveType, OwedElsewhere, SchedulerState, WorkerState,
       MaybeUrgency, RefreshUrgency, Hint, Recovery, None
  <1>8. ASSUME NEW a \in Actor, NEW w \in RefreshUrgency, SendHint(a, w, TRUE),
               UNCHANGED <<scheduler, callback, worker>>
        PROVE  \E v \in OwedElsewhere' : u <= v
    <2>1. OwedElsewhere' = OwedElsewhere \cup {w}
      BY <1>8, SendHintOwes, Zenon DEF Unhindered
    <2> QED
      BY <2>1 DEF RefreshUrgency, Hint, Recovery
  <1>9. Recovery \in RefreshUrgency /\ "worker" \in Actor /\ "owner" \in Actor
    BY DEF RefreshUrgency, Hint, Recovery, Actor
  <1>10. CASE Partial \/ InstallWatcher \/ KeepWatcher
    <2>1. UNCHANGED <<scheduler, callback, worker>>
      BY <1>10, Zenon
      DEF Partial, InstallWatcher, KeepWatcher, ownerVars, workVars, fileVars,
         watcherVars
    <2>2. SendHint("worker", Recovery, TRUE) \/ UNCHANGED signals
      BY <1>10, Zenon
      DEF Partial, ScheduleContinuation, InstallWatcher, ReconcileNewWatcher,
         KeepWatcher
    <2> QED
      BY <2>1, <2>2, <1>1, <1>8, <1>9, Zenon
  <1>11. CASE RefreshNow
    <2>1. UNCHANGED <<scheduler, callback, worker>>
      BY <1>11 DEF RefreshNow, ownerVars, workVars, fileVars, watcherVars
    <2>2. \E w \in RefreshUrgency : SendHint("owner", w, TRUE)
      BY <1>11, Zenon DEF RefreshNow
    <2> QED
      BY <2>1, <2>2, <1>8, <1>9, Zenon
  <1>12. CASE \/ Defer \/ Panic \/ PauseBegin \/ PauseEnd \/ ResumeRuntime \/ ResumeEnd
              \/ ShutdownRuntime \/ JoinScheduler \/ JoinWorker
    BY <1>12 DEF Unhindered, Defer, Panic, IdleWorker, PauseBegin, PauseEnd,
       ResumeRuntime, ResumeEnd, ShutdownRuntime, JoinScheduler, JoinWorker, ownerVars,
       workVars, fileVars, watcherVars
  <1>13. CASE \/ RefuseRefresh \/ TakeForce \/ TakePaths \/ Escalate \/ Complete
              \/ Fail \/ SkipSync \/ LoseNotifications
              \/ (\E p \in Paths : Change(p)) \/ UNCHANGED liveVars
    BY <1>13, <1>1, Zenon
    DEF RefuseRefresh, TakeForce, TakePaths, Escalate, Complete, Fail,
       SkipSync, LoseNotifications, Change, liveVars, ownerVars, workVars, fileVars,
       watcherVars
  <1> QED
    BY <1>2, <1>3, <1>4, <1>5, <1>6, <1>7, <1>10, <1>11, <1>12, <1>13
    DEF LiveNext, SchedulerStep, ExecutionStep, OwnerStep

\* A resumption that ends owes its Recovery refresh.
LEMMA ResumeOwes ==
  ASSUME LiveType, AdmissionIsOwned, ResumeEnd
  PROVE  Recovery \in OwedElsewhere'
  <1>1. Recovery \in {scheduler.flags, scheduler.hand} /\ Recovery # None
    BY DEF AdmissionIsOwned, ResumeEnd, Recovery, None
  <1> QED
    BY <1>1 DEF ResumeEnd, OwedElsewhere, workVars, watcherVars

\* A force boolean set between the two takes is owed a refresh of its own.
LEMMA ForceStep ==
  ASSUME LiveType, LiveType', ExecutionIsWorked, AdmissionIsOwned, ForceIsOwed,
         [LiveNext]_liveVars
  PROVE  ForceIsOwed'
  <1> SUFFICES ASSUME Unhindered', execution'.pc = "Take", force' = TRUE
               PROVE  OwedElsewhere' # {}
    BY DEF ForceIsOwed
  <1>1. CASE ResumeEnd
    BY <1>1, ResumeOwes
  <1>2. CASE Unhindered
    <2>0. IdleExecution.pc = "Idle"
      BY DEF IdleExecution
    <2>1. ~EndRefresh /\ ~Panic
      BY <2>0, Zenon DEF EndRefresh, Panic
    <2>2. SubmitRefresh => worker.active # None
      BY DEF SubmitRefresh, ExecutionIsWorked
    <2>3. CASE execution.pc = "Take" /\ force = TRUE
      <3>1. PICK u \in OwedElsewhere : TRUE
        BY <1>2, <2>3 DEF ForceIsOwed
      <3> QED
        BY <1>2, <2>1, <2>2, <3>1, ElsewhereKept
    <2>4. CASE ~(execution.pc = "Take" /\ force = TRUE)
      <3>1. CASE CallbackSignals
        <4>1. callback # None /\ signals'["callback"] = callback
          BY <1>2, <3>1 DEF CallbackSignals, SendHint, Unhindered, LiveType, Actor
        <4> QED
          BY <4>1 DEF OwedElsewhere, Actor
      <3>2. CASE RefreshNow
        <4>1. PICK w \in RefreshUrgency : SendHint("owner", w, TRUE)
          BY <3>2, Zenon DEF RefreshNow
        <4>2. UNCHANGED <<scheduler, callback, worker>> /\ "owner" \in Actor
          BY <3>2 DEF RefreshNow, workVars, Actor
        <4> QED
          BY <1>2, <4>1, <4>2, SendHintOwes, Zenon DEF Unhindered
      <3>3. CASE TakeForce
        BY <3>3 DEF TakeForce
      <3>4. CASE TakePaths
        BY <3>4 DEF TakePaths
      <3>5. CASE \/ Escalate \/ Complete \/ Partial \/ Fail \/ RefuseRefresh
                 \/ SkipSync \/ InstallWatcher \/ KeepWatcher
        BY <3>5, Zenon DEF Escalate, Complete, Partial, Fail, SkipSync, InstallWatcher,
           KeepWatcher, RefuseRefresh, LiveType, Execution
      <3>6. CASE PauseBegin \/ PauseEnd \/ ResumeRuntime \/ ResumeEnd
                 \/ ShutdownRuntime \/ JoinScheduler \/ JoinWorker
        BY <1>2, <3>6 DEF Unhindered, PauseBegin, PauseEnd, ResumeRuntime, ResumeEnd,
           ShutdownRuntime, JoinScheduler, JoinWorker
      <3>7. CASE \E q \in Paths : Change(q)
        BY <2>4, <3>7 DEF Change, LiveType, Execution
      <3>8. CASE \/ TakeUrgency \/ Poll \/ Defer \/ SubmitRefresh \/ LoseNotifications
                 \/ (\E a \in Actor : SetFlags(a))
                 \/ (\E e \in Paths \cup {Rescan} : Deliver(e))
                 \/ UNCHANGED liveVars
        BY <2>4, <3>8, Zenon
        DEF TakeUrgency, Poll, Defer, SubmitRefresh, LoseNotifications,
           SetFlags, Deliver, liveVars, workVars
      <3> QED
        BY <2>1, <3>1, <3>2, <3>3, <3>4, <3>5, <3>6, <3>7, <3>8
        DEF LiveNext, SchedulerStep, ExecutionStep, OwnerStep
    <2> QED
      BY <2>3, <2>4, Zenon
  <1> QED
    BY <1>1, <1>2, UnhinderedBefore

\* While the runtime is unhindered, an urgency that is owed stays owed, or a
\* higher one is, until an execution takes its paths or is refused.
LEMMA OwedKept ==
  ASSUME LiveType, LiveType', ExecutionIsWorked, AdmissionIsOwned, Unhindered,
         Unhindered', [LiveNext]_liveVars, ~RefuseRefresh, ~TakePaths,
         execution.pc \in {"Idle", "Take"} => execution'.pc # "Run",
         NEW u \in Owed
  PROVE  \E v \in Owed' : u <= v
  <1> u \in RefreshUrgency
    BY OwedIsUrgent
  <1> DEFINE Active == execution.pc \in {"Idle", "Take"} /\ u = worker.active
  <1>1. u \in OwedElsewhere \/ Active
    BY DEF Owed, OwedElsewhere
  <1>2. OwedElsewhere' \subseteq Owed'
    BY DEF Owed, OwedElsewhere
  <1>3. CASE EndRefresh
    <2>1. /\ execution'.pc = "Idle" /\ worker'.active = worker.pending
          /\ worker'.pending = None /\ UNCHANGED <<scheduler, signals, callback>>
      BY <1>3 DEF EndRefresh, IdleExecution, FollowUp, Unhindered, LiveType, WorkerState,
         watcherVars
    <2>2. u \in OwedElsewhere
      BY <1>1, <1>3 DEF EndRefresh
    <2>3. u \in Owed'
      BY <2>1, <2>2 DEF Owed, OwedElsewhere
    <2> QED
      BY <2>3 DEF RefreshUrgency, Hint, Recovery
  <1>4. CASE SubmitRefresh /\ worker.active = None
    <2>1. /\ execution' = execution /\ execution.pc = "Idle"
          /\ worker'.active = scheduler.hand /\ worker'.pending = worker.pending
          /\ scheduler'.flags = scheduler.flags /\ UNCHANGED <<signals, callback>>
      BY <1>4 DEF SubmitRefresh, MayAdmit, AdmissionIsOwned, Unhindered, Admitted,
         ExecutionIsWorked, LiveType, SchedulerState, WorkerState, Execution, watcherVars
    <2>2. u \in OwedElsewhere
      BY <1>1, <1>4 DEF RefreshUrgency, Hint, Recovery, None
    <2>3. u \in Owed'
      BY <2>1, <2>2 DEF Owed, OwedElsewhere
    <2> QED
      BY <2>3 DEF RefreshUrgency, Hint, Recovery
  <1>5. CASE /\ u \in OwedElsewhere
             /\ ~EndRefresh /\ ~(SubmitRefresh /\ worker.active = None)
    BY <1>2, <1>5, ElsewhereKept
  <1>6. CASE Active /\ ~EndRefresh /\ ~(SubmitRefresh /\ worker.active = None)
    <2>0. u # None
      BY DEF RefreshUrgency, Hint, Recovery, None
    <2>1. worker'.active = worker.active
      <3>1. CASE SubmitRefresh
        BY <1>6, <3>1 DEF SubmitRefresh, Admitted, LiveType, WorkerState
      <3>2. CASE Panic \/ JoinScheduler \/ JoinWorker \/ PauseEnd
        BY <3>2 DEF Panic, IdleWorker, JoinScheduler, JoinWorker, PauseEnd, Unhindered
      <3>3. CASE ~SubmitRefresh /\ ~(Panic \/ JoinScheduler \/ JoinWorker \/ PauseEnd)
        <4>1. UNCHANGED worker
          BY <1>6, <3>3, Zenon
          DEF LiveNext, SchedulerStep, ExecutionStep, OwnerStep, liveVars,
             ownerVars, workVars, fileVars, watcherVars, TakeUrgency, Poll, Defer,
             RefuseRefresh, TakeForce, TakePaths, Escalate,
             Complete, Partial, Fail, SkipSync, InstallWatcher, KeepWatcher, RefreshNow,
             PauseBegin, ResumeRuntime, ResumeEnd, ShutdownRuntime, CallbackSignals,
             LoseNotifications, SetFlags, Change, Deliver
        <4> QED
          BY <4>1
      <3> QED
        BY <3>1, <3>2, <3>3
    <2>2. execution'.pc \in {"Idle", "Take"}
      <3>1. CASE TakeForce
        BY <3>1, <1>6 DEF TakeForce, LiveType, Execution
      <3>2. CASE \E q \in Paths : Change(q)
        BY <3>2, <1>6 DEF Change, LiveType, Execution
      <3>3. CASE Panic
        BY <3>3 DEF Panic, IdleExecution
      <3>4. CASE ~TakeForce /\ ~(\E q \in Paths : Change(q)) /\ ~Panic
        <4>1. UNCHANGED execution
          BY <1>6, <3>4, Zenon
          DEF LiveNext, SchedulerStep, ExecutionStep, OwnerStep, liveVars,
             ownerVars, workVars, fileVars, watcherVars, TakeUrgency, Poll, Defer,
             SubmitRefresh, Escalate, Complete, Partial, Fail,
             SkipSync, InstallWatcher, KeepWatcher, RefreshNow, PauseBegin, PauseEnd,
             ResumeRuntime, ResumeEnd, ShutdownRuntime, JoinScheduler, JoinWorker,
             CallbackSignals, LoseNotifications, SetFlags, Deliver
        <4> QED
          BY <4>1, <1>6
      <3> QED
        BY <3>1, <3>2, <3>3, <3>4
    <2>3. u \in Owed'
      BY <1>6, <2>0, <2>1, <2>2 DEF Owed
    <2> QED
      BY <2>3 DEF RefreshUrgency, Hint, Recovery
  <1> QED
    BY <1>1, <1>3, <1>4, <1>5, <1>6

----------------------------------------------------------------------------
(* No change is forgotten. *)

\* What NoChangeForgotten says of one file.
Remembered(p) ==
    \/ {p, Rescan} \cap events # {}
    \/ WillCover(p)
    \/ execution.pc = "Run" /\ p \in execution.scope
    \/ p \in excused

\* A file that an owed refresh will cover stays so while what is owed only rises.
LEMMA CoverKept ==
  ASSUME LiveType, LiveType', \A u \in Owed : \E v \in Owed' : u <= v,
         buffer.paths \subseteq buffer'.paths, buffer.reconcile => buffer'.reconcile,
         force \/ execution.forced => force' \/ execution'.forced,
         NEW p, WillCover(p)
  PROVE  WillCover(p)'
  <1>1. Owed \subseteq 0 .. 3 /\ Owed' \subseteq 0 .. 3
    <2>1. Owed \subseteq RefreshUrgency
      BY OwedIsUrgent
    <2>2. Owed' \subseteq RefreshUrgency
      BY DEF LiveType, Owed, MaybeUrgency, SchedulerState, WorkerState
    <2> QED
      BY <2>1, <2>2 DEF RefreshUrgency, Hint, Recovery
  <1>2. CASE Owed \cap {Periodic, Interactive, Recovery} # {}
    <2>1. PICK u \in Owed : u \in {1, 2, 3}
      BY <1>2 DEF Periodic, Interactive, Recovery
    <2>2. PICK v \in Owed' : u <= v
      BY <2>1
    <2>3. v \in {1, 2, 3}
      BY <1>1, <2>1, <2>2
    <2> QED
      BY <2>2, <2>3 DEF WillCover, Periodic, Interactive, Recovery
  <1>3. CASE /\ Hint \in Owed
             /\ p \in buffer.paths \/ buffer.reconcile \/ force \/ execution.forced
    <2>1. PICK v \in Owed' : Hint <= v
      BY <1>3
    <2>2. v = Hint \/ v \in {Periodic, Interactive, Recovery}
      BY <1>1, <2>1 DEF Hint, Periodic, Interactive, Recovery
    <2>3. \/ p \in buffer'.paths \/ buffer'.reconcile \/ force' \/ execution'.forced
      BY <1>3
    <2> QED
      BY <2>1, <2>2, <2>3 DEF WillCover
  <1> QED
    BY <1>2, <1>3 DEF WillCover

\* A Recovery refresh that is owed covers every file.
LEMMA RecoveryCovers ==
  ASSUME Recovery \in OwedElsewhere', NEW p
  PROVE  Remembered(p)'
  BY DEF OwedElsewhere, Owed, WillCover, Remembered

\* A watcher is installed by InstallWatcher alone.
LEMMA OperatingBefore ==
  ASSUME LiveType, [LiveNext]_liveVars, Operating'
  PROVE  Unhindered' /\ (Operating \/ ResumeEnd \/ InstallWatcher)
  <1>1. Unhindered' /\ (Unhindered \/ ResumeEnd)
    BY UnhinderedBefore DEF Operating, Unhindered
  <1>2. watch.installed \/ InstallWatcher
    <2>1. CASE SkipSync \/ KeepWatcher \/ RefreshNow \/ ResumeRuntime \/ ShutdownRuntime
      BY <2>1, ZenonT(60)
         DEF SkipSync, KeepWatcher, RefreshNow, ResumeRuntime, ShutdownRuntime,
         LiveType, Watch, Operating
    <2>2. CASE /\ ~SkipSync /\ ~KeepWatcher /\ ~RefreshNow /\ ~ResumeRuntime
               /\ ~ShutdownRuntime /\ ~InstallWatcher
      <3>1. UNCHANGED watch
        BY <2>2, ZenonT(60) DEF LiveNext, SchedulerStep, ExecutionStep, OwnerStep, liveVars,
           ownerVars, workVars, fileVars, watcherVars, TakeUrgency, Poll, Defer,
           SubmitRefresh,
           RefuseRefresh, TakeForce, TakePaths, Escalate, Complete, Partial, Fail, Panic,
           EndRefresh, PauseBegin, PauseEnd, ResumeEnd, JoinScheduler, JoinWorker,
           CallbackSignals, LoseNotifications, SetFlags, Change, Deliver
      <3> QED
        BY <3>1 DEF Operating
    <2> QED
      BY <2>1, <2>2
  <1> QED
    BY <1>1, <1>2 DEF Operating, Unhindered

\* The steps that neither take nor end anything: what covers a file still does.
LEMMA QuietStep ==
  ASSUME LiveType, LiveType', ExecutionIsWorked, AdmissionIsOwned, Unhindered,
         Unhindered', [LiveNext]_liveVars, ~RefuseRefresh, ~TakePaths,
         execution.pc \in {"Idle", "Take"} => execution'.pc # "Run",
         UNCHANGED <<buffer, events, excused>>,
         force \/ execution.forced => force' \/ execution'.forced,
         execution.pc = "Run" =>
             execution'.pc = "Run" /\ execution.scope \subseteq execution'.scope,
         NEW p, Remembered(p)
  PROVE  Remembered(p)'
  <1>1. WillCover(p) => WillCover(p)'
    BY OwedKept, CoverKept
  <1> QED
    BY <1>1 DEF Remembered

\* A refusal excuses the files the refresh would have covered; the others are
\* owed to someone else.
LEMMA RefuseForgetsNothing ==
  ASSUME LiveType, LiveType', ExecutionIsWorked, RefuseRefresh,
         NEW p \in dirty, Remembered(p)
  PROVE  Remembered(p)'
  <1>1. /\ UNCHANGED <<scheduler, signals, callback, worker, buffer, events, force>>
        /\ excused' = excused \cup (Expected \cap dirty)
    BY DEF RefuseRefresh, Excuse, watcherVars
  <1>2. CASE p \in Expected \/ p \in excused
    BY <1>1, <1>2 DEF Remembered
  <1>3. CASE p \notin Expected /\ p \notin excused
    <2>1. /\ worker.active = Hint /\ ~force /\ ~buffer.reconcile
          /\ p \notin buffer.paths
      BY <1>3 DEF Expected, LiveType
    <2>2. execution.pc = "Idle" /\ ~execution.forced
      BY DEF RefuseRefresh, ExecutionIsWorked
    <2>3. CASE {p, Rescan} \cap events # {}
      BY <1>1, <2>3 DEF Remembered
    <2>4. CASE WillCover(p)
      <3>1. PICK u \in Owed : u \in {Periodic, Interactive, Recovery}
        BY <2>1, <2>2, <2>4 DEF WillCover
      <3>2. u # worker.active
        BY <2>1, <3>1 DEF Hint, Periodic, Interactive, Recovery
      <3>3. u \in OwedElsewhere
        BY <3>1, <3>2 DEF Owed, OwedElsewhere
      <3>4. u \in Owed'
        BY <1>1, <3>3 DEF Owed, OwedElsewhere
      <3> QED
        BY <3>1, <3>4 DEF Remembered, WillCover
    <2> QED
      BY <1>3, <2>2, <2>3, <2>4 DEF Remembered
  <1> QED
    BY <1>2, <1>3

\* The paths taken are read, or everything is; a file that is in neither has
\* another refresh coming.
LEMMA TakeForgetsNothing ==
  ASSUME LiveType, LiveType', ExecutionIsWorked, ForceIsOwed, Unhindered, TakePaths,
         NEW p \in dirty, Remembered(p)
  PROVE  Remembered(p)'
  <1>1. UNCHANGED <<scheduler, signals, callback, worker, events, force, excused>>
    BY DEF TakePaths, fileVars
  <1>2. execution'.pc = "Run"
    BY DEF TakePaths
  <1>3. CASE ~Targeted(execution.forced) \/ p \in buffer.paths
    <2>1. p \in execution'.scope
      BY <1>3 DEF TakePaths, LiveType
    <2> QED
      BY <1>2, <2>1 DEF Remembered
  <1>4. CASE {p, Rescan} \cap events # {} \/ p \in excused
    BY <1>1, <1>4 DEF Remembered
  <1>5. CASE WillCover(p) /\ Targeted(execution.forced) /\ p \notin buffer.paths
    <2>1. worker.active = Hint /\ ~execution.forced /\ ~buffer.reconcile
      BY <1>5 DEF Targeted
    <2>2. OwedElsewhere \subseteq Owed'
      BY <1>1 DEF Owed, OwedElsewhere
    <2>3. CASE Owed \cap {Periodic, Interactive, Recovery} # {}
      <3>1. PICK u \in Owed : u \in {Periodic, Interactive, Recovery}
        BY <2>3
      <3>2. u # worker.active
        BY <2>1, <3>1 DEF Hint, Periodic, Interactive, Recovery
      <3>3. u \in Owed'
        BY <2>2, <3>1, <3>2 DEF Owed, OwedElsewhere
      <3> QED
        BY <3>1, <3>3 DEF Remembered, WillCover
    <2>4. CASE force
      <3>1. PICK u \in OwedElsewhere : TRUE
        BY <2>4 DEF ForceIsOwed, TakePaths, LiveType
      <3>2. u \in {Hint, Periodic, Interactive, Recovery}
        BY <3>1, OwedIsUrgent DEF RefreshUrgency, Hint, Periodic, Interactive, Recovery
      <3> QED
        BY <1>1, <2>2, <2>4, <3>1, <3>2 DEF Remembered, WillCover
    <2> QED
      BY <1>5, <2>1, <2>3, <2>4 DEF WillCover
  <1> QED
    BY <1>3, <1>4, <1>5 DEF Remembered, TakePaths

\* The callback names the path, or asks for everything, before it signals.
LEMMA DeliverForgetsNothing ==
  ASSUME LiveType, LiveType', ExecutionIsWorked, AdmissionIsOwned, Unhindered,
  Unhindered',
         LiveNext, NEW e \in Paths \cup {Rescan}, Deliver(e),
         NEW p \in dirty, Remembered(p)
  PROVE  Remembered(p)'
  <1>1. /\ UNCHANGED <<scheduler, signals, force, worker, execution, excused>>
        /\ events' = events \ {e}
        /\ callback' = IF buffer'.reconcile THEN Recovery ELSE Hint
    BY DEF Deliver, workVars, fileVars
  <1>2. callback' # None => callback' \in OwedElsewhere'
    BY DEF OwedElsewhere
  <1>3. CASE buffer'.reconcile
    <2>1. Recovery \in OwedElsewhere'
      BY <1>1, <1>2, <1>3 DEF Recovery, None
    <2> QED
      BY <2>1, RecoveryCovers
  <1>4. CASE ~buffer'.reconcile
    <2>1. e # Rescan /\ e \in Paths
      BY <1>4 DEF Deliver
    <2>2. buffer' = Record(e)
      BY <2>1 DEF Deliver
    <2>3. buffer.paths \cup {e} \subseteq buffer'.paths
      BY <1>4, <2>1, <2>2, RecordKeeps
    <2>4. ~buffer.reconcile
      BY <1>4, <2>2 DEF Record
    <2>5. Hint \in Owed'
      BY <1>1, <1>2, <1>4 DEF Hint, None, Owed, OwedElsewhere
    <2>6. CASE p = e
      BY <2>3, <2>5, <2>6 DEF Remembered, WillCover
    <2>7. CASE p # e /\ WillCover(p)
      <3>1. ~RefuseRefresh /\ ~TakePaths
        BY <1>1 DEF RefuseRefresh, TakePaths, LiveType, Execution
      <3>2. \A u \in Owed : \E v \in Owed' : u <= v
        BY <1>1, <3>1, OwedKept
      <3>3. WillCover(p)'
        BY <1>1, <2>3, <2>4, <2>7, <3>2, CoverKept
      <3> QED
        BY <3>3 DEF Remembered
    <2>8. CASE p # e /\ ~WillCover(p)
      BY <1>1, <2>1, <2>8 DEF Remembered
    <2> QED
      BY <2>6, <2>7, <2>8
  <1> QED
    BY <1>3, <1>4

\* An execution that ends applies, excuses or schedules again what it covered.
LEMMA EndForgetsNothing ==
  ASSUME LiveType, LiveType', ExecutionIsWorked, AdmissionIsOwned, Unhindered,
  Unhindered',
         LiveNext, Complete \/ Partial \/ Fail,
         NEW p \in dirty', p \in dirty, Remembered(p)
  PROVE  Remembered(p)'
  <1>1. /\ UNCHANGED <<scheduler, callback, worker, buffer, events>>
        /\ execution.pc = "Run" /\ execution'.forced = execution.forced
        /\ execution'.pc # "Run"
    BY Zenon DEF Complete, Partial, Fail, watcherVars, LiveType, Execution
  <1>2. UNCHANGED force => (WillCover(p) => WillCover(p)')
    <2>1. ~RefuseRefresh /\ ~TakePaths
      BY <1>1 DEF RefuseRefresh, TakePaths
    <2> QED
      BY <1>1, <2>1, OwedKept, CoverKept
  <1>3. CASE Complete
    BY <1>1, <1>2, <1>3 DEF Complete, Remembered
  <1>4. CASE Fail
    BY <1>1, <1>2, <1>4 DEF Fail, Excuse, Remembered
  <1>5. CASE Partial
    <2>1. CASE SendHint("worker", Recovery, TRUE)
      <3>1. Recovery \in RefreshUrgency /\ "worker" \in Actor
        BY DEF RefreshUrgency, Hint, Recovery, Actor
      <3>2. Recovery \in OwedElsewhere'
        BY <1>1, <2>1, <3>1, SendHintOwes, Zenon DEF Unhindered
      <3> QED
        BY <3>2, RecoveryCovers
    <2>2. CASE UNCHANGED force /\ Excuse(execution.scope)
      BY <1>1, <1>2, <2>2 DEF Excuse, Remembered
    <2> QED
      BY <1>5, <2>1, <2>2, Zenon DEF Partial, ScheduleContinuation
  <1> QED
    BY <1>3, <1>4, <1>5

\* A change is notified while a watcher is installed and the runtime runs.
LEMMA ChangeForgetsNothing ==
  ASSUME LiveType, LiveType', ExecutionIsWorked, AdmissionIsOwned, Operating, Unhindered,
         Unhindered', LiveNext, NEW q \in Paths, Change(q),
         NEW p \in dirty', p \in dirty => Remembered(p)
  PROVE  Remembered(p)'
  <1>1. /\ UNCHANGED <<scheduler, signals, force, callback, worker, buffer>>
        /\ execution'.pc = execution.pc /\ execution'.forced = execution.forced
        /\ execution.scope \ {q} \subseteq execution'.scope
        /\ events \cup {q} \subseteq events' /\ excused' = excused \ {q}
        /\ dirty' = dirty \cup {q}
    BY DEF Change, Operating, LiveType, Execution, ownerVars
  <1>2. CASE p = q
    BY <1>1, <1>2 DEF Remembered
  <1>3. CASE p # q
    <2>1. ~RefuseRefresh /\ ~TakePaths
      BY <1>1 DEF RefuseRefresh, TakePaths, LiveType, Execution
    <2>2. WillCover(p) => WillCover(p)'
      BY <1>1, <2>1, OwedKept, CoverKept
    <2> QED
      BY <1>1, <1>3, <2>2 DEF Remembered
  <1> QED
    BY <1>2, <1>3

\* A hint never takes the force boolean back.
LEMMA SendHintForces ==
  ASSUME NEW a, NEW u, NEW f, SendHint(a, u, f), force
  PROVE  force'
  BY Zenon DEF SendHint

\* Every step of an operating runtime remembers every changed file.
LEMMA ForgottenStep ==
  ASSUME LiveType, LiveType', ExecutionIsWorked, AdmissionIsOwned, ForceIsOwed,
         NoChangeForgotten, [LiveNext]_liveVars
  PROVE  NoChangeForgotten'
  <1> SUFFICES ASSUME Operating', NEW p \in dirty'
               PROVE  Remembered(p)'
    BY DEF NoChangeForgotten, Remembered
  <1>1. Unhindered' /\ (Operating \/ ResumeEnd \/ InstallWatcher)
    BY OperatingBefore
  <1>2. CASE ResumeEnd
    BY <1>2, ResumeOwes, RecoveryCovers
  <1>3. CASE InstallWatcher
    <2>1. /\ SendHint("worker", Recovery, TRUE)
          /\ UNCHANGED <<scheduler, callback, worker>>
      BY <1>3, Zenon DEF InstallWatcher, ReconcileNewWatcher
    <2>2. scheduler.phase = "Running" /\ "worker" \in Actor /\ Recovery \in RefreshUrgency
      BY <1>1, <2>1 DEF Unhindered, Actor, RefreshUrgency, Hint, Recovery
    <2>3. Recovery \in OwedElsewhere'
      BY <2>1, <2>2, SendHintOwes, Zenon
    <2> QED
      BY <2>3, RecoveryCovers
  <1>4. CASE Operating /\ ~ResumeEnd /\ ~InstallWatcher
    <2>1. Unhindered /\ (p \in dirty => Remembered(p))
      BY <1>4 DEF NoChangeForgotten, Remembered, Operating, Unhindered
    <2>2. CASE LiveNext /\ \E q \in Paths : Change(q)
      BY <1>1, <1>4, <2>1, <2>2, ChangeForgetsNothing
    <2>3. CASE LiveNext /\ \E e \in Paths \cup {Rescan} : Deliver(e)
      <3>1. UNCHANGED dirty
        BY <2>3 DEF Deliver, fileVars
      <3> QED
        BY <1>1, <2>1, <2>3, <3>1, DeliverForgetsNothing
    <2>4. CASE LiveNext /\ (Complete \/ Partial \/ Fail)
      <3>1. p \in dirty
        BY <2>4, Zenon DEF Complete, Partial, Fail
      <3> QED
        BY <1>1, <2>1, <2>4, <3>1, EndForgetsNothing
    <2>5. CASE LoseNotifications
      BY <2>5 DEF LoseNotifications, Remembered
    <2>6. CASE RefuseRefresh
      BY <2>1, <2>6, RefuseForgetsNothing DEF RefuseRefresh
    <2>7. CASE TakePaths
      <3>1. UNCHANGED dirty
        BY <2>7 DEF TakePaths, fileVars
      <3> QED
        BY <2>1, <2>7, <3>1, TakeForgetsNothing
    <2>8. CASE TakeForce /\ execution'.pc = "Run"
      <3>1. execution'.scope = Paths
        BY <2>8 DEF TakeForce, LiveType, Execution
      <3> QED
        BY <2>8, <3>1 DEF Remembered, LiveType
    <2>9. CASE \/ Defer \/ Panic \/ PauseBegin \/ PauseEnd \/ ResumeRuntime
               \/ ShutdownRuntime \/ JoinScheduler \/ JoinWorker
      BY <1>1, <2>1, <2>9 DEF Unhindered, Defer, Panic, IdleWorker, PauseBegin, PauseEnd,
         ResumeRuntime, ShutdownRuntime, JoinScheduler, JoinWorker
    <2>10. ASSUME UNCHANGED <<buffer, events, dirty, excused>>,
                  ~RefuseRefresh, ~TakePaths,
                  execution.pc \in {"Idle", "Take"} => execution'.pc # "Run",
                  force \/ execution.forced => force' \/ execution'.forced,
                  execution.pc = "Run" =>
                    execution'.pc = "Run" /\ execution.scope \subseteq execution'.scope
           PROVE  Remembered(p)'
      BY <1>1, <2>1, <2>10, QuietStep
    <2>11. CASE /\ \/ TakeUrgency \/ Poll \/ SubmitRefresh \/ CallbackSignals
                   \/ RefreshNow \/ (\E a \in Actor : SetFlags(a)) \/ UNCHANGED liveVars
                /\ ~RefuseRefresh /\ ~TakePaths
      <3>1. UNCHANGED <<buffer, events, dirty, excused, execution>> \/ CallbackSignals
        BY <2>11, Zenon
        DEF TakeUrgency, Poll, SubmitRefresh, RefreshNow, SetFlags, liveVars,
           ownerVars, workVars, fileVars, watcherVars
      <3>2. UNCHANGED <<buffer, events, dirty, excused, execution>>
        BY <3>1 DEF CallbackSignals, ownerVars, workVars, fileVars, watcherVars
      <3>3. UNCHANGED force \/ CallbackSignals \/ RefreshNow
        BY <2>11 DEF TakeUrgency, Poll, SubmitRefresh, SetFlags, liveVars
      <3>4. force => force'
        BY <3>3, SendHintForces, Zenon DEF CallbackSignals, RefreshNow
      <3> QED
        BY <2>10, <2>11, <3>2, <3>4
    <2>12. CASE TakeForce /\ execution'.pc # "Run"
      <3>1. /\ UNCHANGED <<buffer, events, dirty, excused>>
            /\ execution.pc = "Idle" /\ ~execution.forced
        BY <2>12 DEF TakeForce, ExecutionIsWorked, ownerVars, workVars, fileVars,
           watcherVars
      <3>2. execution'.forced = force /\ execution'.pc = "Take"
        BY <2>12 DEF TakeForce, LiveType, Execution
      <3>3. ~RefuseRefresh /\ ~TakePaths
        BY <3>1, <3>2 DEF RefuseRefresh, TakePaths, LiveType, Execution
      <3> QED
        BY <2>10, <3>1, <3>2, <3>3
    <2>13. CASE Escalate \/ SkipSync \/ KeepWatcher \/ EndRefresh
      <3>1. /\ UNCHANGED <<buffer, events, dirty, excused>>
            /\ execution.pc \in {"Run", "Sync", "Finish"}
        BY <2>13, Zenon
        DEF Escalate, SkipSync, KeepWatcher, EndRefresh, ownerVars, workVars,
           fileVars, watcherVars
      <3>2. UNCHANGED force \/ KeepWatcher
        BY <2>13, Zenon DEF Escalate, SkipSync, EndRefresh
      <3>3. force => force'
        BY <3>2, SendHintForces, Zenon DEF KeepWatcher
      <3>4. ~execution.forced
        BY <3>1 DEF ExecutionIsWorked
      <3>5. execution.pc = "Run" =>
              execution'.pc = "Run" /\ execution.scope \subseteq execution'.scope
        BY <2>13 DEF Escalate, SkipSync, KeepWatcher, EndRefresh, LiveType, Execution
      <3>6. ~RefuseRefresh /\ ~TakePaths
        BY <3>1 DEF RefuseRefresh, TakePaths
      <3> QED
        BY <2>10, <3>1, <3>3, <3>4, <3>5, <3>6
    <2> QED
      BY <1>4, <2>2, <2>3, <2>4, <2>5, <2>6, <2>7, <2>8, <2>9, <2>11, <2>12, <2>13
      DEF LiveNext, SchedulerStep, ExecutionStep, OwnerStep
  <1> QED
    BY <1>1, <1>2, <1>3, <1>4

----------------------------------------------------------------------------
(* The theorems. *)

\* start establishes the invariant.
LEMMA InitLive == LiveInit => LiveInv
  <1> SUFFICES ASSUME LiveInit PROVE LiveInv
    OBVIOUS
  <1>1. LiveType
    BY LiveAssumption, Urgencies, ZenonT(60)
       DEF LiveInit, LiveType, LivePhase, OwnerStage, AdmissionLock,
       SchedulerState, PathBuffer, EmptyBuffer, Watch, WorkerState, IdleWorker, Execution,
       IdleExecution
  <1>2. ExecutionIsWorked
    BY DEF LiveInit, ExecutionIsWorked, IdleExecution
  <1>3. AdmissionIsOwned
    BY DEF LiveInit, AdmissionIsOwned
  <1>4. StopIsOrdered
    BY DEF LiveInit, StopIsOrdered, IdleWorker
  <1>5. ForceIsOwed /\ NoChangeForgotten
    BY DEF LiveInit, ForceIsOwed, NoChangeForgotten, Operating, IdleExecution
  <1> QED
    BY <1>1, <1>2, <1>3, <1>4, <1>5 DEF LiveInv

\* Every step keeps it.
LEMMA LiveInvStep == LiveInv /\ [LiveNext]_liveVars => LiveInv'
  <1> SUFFICES ASSUME LiveInv, [LiveNext]_liveVars PROVE LiveInv'
    OBVIOUS
  <1> USE DEF LiveInv
  <1>1. LiveType'
    BY TypeStep
  <1>2. ExecutionIsWorked' /\ AdmissionIsOwned' /\ StopIsOrdered'
    BY WorkedStep, AdmissionStep, StopStep
  <1>3. ForceIsOwed' /\ NoChangeForgotten'
    BY <1>1, ForceStep, ForgottenStep
  <1> QED
    BY <1>1, <1>2, <1>3

\* It contains what is claimed.
LEMMA LiveInvIsSound == LiveInv => LiveIsSound
  <1> SUFFICES ASSUME LiveInv PROVE StoppedIsQuiet
    BY DEF LiveInv, LiveIsSound
  <1>1. worker.phase = "Closing" => scheduler.phase \in {"Stopped", "Faulted"}
    BY DEF LiveInv, StopIsOrdered
  <1>2. ASSUME live = "Stopped" PROVE execution = IdleExecution
    <2>1. execution.pc = "Idle" /\ execution.forced = FALSE /\ execution.scope = {}
      BY <1>2 DEF LiveInv, StopIsOrdered, ExecutionIsWorked
    <2> QED
      BY <2>1 DEF LiveInv, LiveType, Execution, IdleExecution
  <1> QED
    BY <1>1, <1>2 DEF LiveInv, StopIsOrdered, StoppedIsQuiet

\* A step of a paused runtime admits nothing.
LEMMA PausedStep ==
  ASSUME LiveInv, [LiveNext]_liveVars, live = "Paused", live' = "Paused"
  PROVE  /\ worker'.pending \in {worker.pending, None}
         /\ worker.active = None => worker'.active = None
  <1> USE DEF LiveInv
  <1>1. CASE SubmitRefresh
    BY <1>1 DEF SubmitRefresh, MayAdmit, AdmissionIsOwned, LiveType, AdmissionLock
  <1>2. CASE Panic
    BY <1>2 DEF Panic, IdleWorker
  <1>3. CASE EndRefresh
    BY <1>3 DEF EndRefresh, FollowUp, ExecutionIsWorked, LiveType, WorkerState
  <1>4. CASE PauseEnd \/ JoinScheduler \/ JoinWorker
    BY <1>4, Zenon DEF PauseEnd, JoinScheduler, JoinWorker, LiveType, WorkerState
  <1>5. CASE /\ ~SubmitRefresh /\ ~Panic /\ ~EndRefresh /\ ~PauseEnd
             /\ ~JoinScheduler /\ ~JoinWorker
    <2>1. UNCHANGED worker
      BY <1>5, Zenon
      DEF LiveNext, SchedulerStep, ExecutionStep, OwnerStep, liveVars, ownerVars,
         workVars, fileVars, watcherVars, TakeUrgency, Poll, Defer, RefuseRefresh,
         TakeForce,
         TakePaths, Escalate, Complete, Partial, Fail, SkipSync, InstallWatcher,
         KeepWatcher,
         RefreshNow, PauseBegin, ResumeRuntime, ResumeEnd, ShutdownRuntime,
         CallbackSignals,
         LoseNotifications, SetFlags, Change, Deliver
    <2> QED
      BY <2>1
  <1> QED
    BY <1>1, <1>2, <1>3, <1>4, <1>5

\* While the runtime operates no changed file is ever forgotten, whatever the
\* buffer's capacity, the notifications lost, the refreshes refused, failed or
\* finished in part, the watchers replaced and the pauses; and a stopped runtime
\* is quiet (watcher.rs: record, replace_roots; live.rs: refresh, pause, resume,
\* shutdown, select_targeted_paths).
THEOREM LiveSound == LiveSpec => []LiveIsSound
  <1>1. LiveInit => LiveInv
    BY InitLive
  <1>2. LiveInv /\ [LiveNext]_liveVars => LiveInv'
    BY LiveInvStep
  <1>3. LiveInv => LiveIsSound
    BY LiveInvIsSound
  <1> QED
    BY <1>1, <1>2, <1>3, PTL DEF LiveSpec

\* A paused runtime admits no request, however the scheduler thread and the
\* pause race for the admission lock (live.rs: the submit closure, pause).
THEOREM PauseIsClosed == LiveSpec => PauseAdmitsNothing
  <1>1. LiveInit => LiveInv
    BY InitLive
  <1>2. LiveInv /\ [LiveNext]_liveVars => LiveInv'
    BY LiveInvStep
  <1>3. LiveInv /\ [LiveNext]_liveVars =>
          [(live = "Paused" /\ live' = "Paused") =>
              /\ worker'.pending \in {worker.pending, None}
              /\ worker.active = None => worker'.active = None]_liveVars
    BY PausedStep
  <1> QED
    BY <1>1, <1>2, <1>3, PTL DEF LiveSpec, PauseAdmitsNothing
=============================================================================
