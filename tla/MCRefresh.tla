------------------------------- MODULE MCRefresh ------------------------------
(*****************************************************************************)
(* The refresh engine, component by component: the coordinator by itself,    *)
(* the worker around it, the scheduler that feeds it and the live runtime    *)
(* that owns all three.  A behaviour is one of one of the Parts.             *)
(*****************************************************************************)
EXTENDS RefreshAdmission, RefreshWorker, RefreshScheduler, LiveRuntime

CONSTANTS
    Parts,   \* the components this instance runs
    s1, s2, c1, p1, p2

VARIABLE
    part     \* the component that runs in this behaviour

-----------------------------------------------------------------------------
(* The instance of RefreshWorker.                                            *)

TwoSubmitters == {s1, s2}

\* Two submitters without deadlines; one whose deadlines pass, while the count
\* of superseded completions comes to its limit.
TwoScenarios ==
    {[submitters |-> {s1, s2}, urgencies |-> {Hint}, deadlines |-> {NoDeadline},
      ticks |-> 0, counted |-> 0],
     [submitters |-> {s1}, urgencies |-> {Hint}, deadlines |-> {1},
      ticks |-> 1, counted |-> MaxSuperseded - 1]}

-----------------------------------------------------------------------------
(* The instance of RefreshScheduler.                                         *)

OneCaller == {c1}

Calm == [raisers |-> {c1}, signals |-> {"changed"}, stepBacks |-> 0,
         commands |-> 0, full |-> FALSE, top |-> 9]

\* The owner pauses or resumes, and then hints too; the watcher degrades and the
\* clock goes back; the count of hints is full and a deadline overflows.
ThreeBudgets ==
    {[Calm EXCEPT !.commands = 1],
     [Calm EXCEPT !.signals = {"error", "healthy"}, !.stepBacks = 1],
     [Calm EXCEPT !.signals = {"changed", "interactive"}, !.full = TRUE, !.top = 3]}

\* The count of hints is full and a deadline overflows; or nothing is special.
Plainly ==
    {Calm, [Calm EXCEPT !.full = TRUE, !.top = 3]}

-----------------------------------------------------------------------------
(* The instance of LiveRuntime.                                              *)

TwoPaths == {p1, p2}

Files(files, calls, mishaps) == [files |-> files, calls |-> calls, mishaps |-> mishaps]

\* Two files overflow the buffer; every mishap occurs, though not all at once;
\* the owner pauses and stops at any point.
Disturbed ==
    {Files({p1, p2}, {}, {}),
     Files({p1}, {}, {"roots", "partial"}),
     Files({p1}, {}, {"loss", "refuse", "fail", "panic"}),
     Files({p1}, {"pause", "shutdown"}, {}),
     Files({}, {"poll", "refresh"}, {})}

\* Changes are to be applied in the one; pauses and shutdowns end in the other.
Progressing ==
    {Files({p1}, {"poll"}, {}),
     Files({}, {"pause", "shutdown"}, {"fail"})}

allVars == <<part, admissionVars, vars, schedulerVars, liveVars>>

\* One component runs; the others stay in one of their initial states.
AllInit ==
    /\ part \in Parts
    /\ AdmissionInit
    /\ Init
    /\ part # "worker" => scenario = CHOOSE s \in Scenarios : TRUE
    /\ SchedulerInit
    /\ part # "scheduler" => budget = CHOOSE b \in Budgets : TRUE
    /\ part # "scheduler" => hintPhase = "Paused"
    /\ LiveInit
    /\ part # "live" => liveScenario = CHOOSE s \in LiveScenarios : s.files = {}

AllNext ==
    \/ part = "admission" /\ AdmissionNext /\ UNCHANGED <<part, vars, schedulerVars, liveVars>>
    \/ part = "worker" /\ Next /\ UNCHANGED <<part, admissionVars, schedulerVars, liveVars>>
    \/ part = "scheduler" /\ SchedulerNext /\ UNCHANGED <<part, admissionVars, vars, liveVars>>
    \/ part = "live" /\ LiveNext /\ UNCHANGED <<part, admissionVars, vars, schedulerVars>>
    \/ part \in {"live"} /\ UNCHANGED allVars

AllSpec == AllInit /\ [][AllNext]_allVars

\* The fairness of each component, while it is the one that runs.
FairAllSpec ==
    /\ AllSpec
    /\ WF_vars(part = "worker" /\ Runs(WorkerStep))
    /\ SF_vars(part = "worker" /\ Runs(DisplaceResult))
    /\ WF_vars(part = "worker" /\ Runs(WaitReturns))
    /\ WF_vars(part = "worker" /\ Runs(ShutdownStep))
    /\ \A s \in Submitter : WF_vars(part = "worker" /\ Runs(SubmitStep(s)))
    /\ WF_schedulerVars(part = "scheduler" /\ ThreadStep)
    /\ \A c \in Callers \cup {Owner} : WF_schedulerVars(part = "scheduler" /\ CallerStep(c))
    /\ SF_schedulerVars(part = "scheduler" /\ SchedulerTick)
    /\ WF_schedulerVars(part = "scheduler" /\ Join)
    /\ WF_liveVars(part = "live" /\ InScenario(TakeUrgency))
    /\ WF_liveVars(part = "live" /\ InScenario(SubmitRefresh \/ Defer))
    /\ SF_liveVars(part = "live" /\ InScenario(Poll))
    /\ WF_liveVars(part = "live" /\ InScenario(ExecutionStep))
    /\ SF_liveVars(part = "live" /\ InScenario(TakeForce))
    /\ SF_liveVars(part = "live" /\ InScenario(Complete))
    /\ WF_liveVars(part = "live" /\ InScenario(PauseEnd \/ ResumeEnd \/ JoinScheduler \/ JoinWorker))
    /\ \A a \in Actor : WF_liveVars(part = "live" /\ InScenario(SetFlags(a)))

SomeDeadlines == {1, 2, NoDeadline}
=============================================================================
