------------------------- MODULE BackupMaintenance -------------------------
(***************************************************************************)
(* Automatic and requested backups of the archive: the coordinator that    *)
(* admits them, the worker thread that makes them, the scheduler thread    *)
(* that asks for the periodic ones, one caller that waits for the backup   *)
(* it asked for, and the owner that pauses, resumes and stops the three.   *)
(*                                                                         *)
(* A step is what one thread does under one lock.  The executor that makes *)
(* a package is a parameter of the worker in the code; here it may begin   *)
(* its publication or not, and end in any way its result type allows.      *)
(***************************************************************************)
EXTENDS Naturals, FiniteSets

CONSTANTS
    Scenarios,      \* what the environment does: see the fields in Init
    Identities,     \* what a failing source is recognised by
    Quiet, Interval,
    MaxTime,        \* bound of the clock
    MaxRequests     \* bound of the identifiers a failing source uses up

MaintenancePurpose ==
    {"Periodic", "Manual", "PreMigration", "PostMigration", "PreRestore",
     "PreDestructiveMaintenance"}

MaintenanceSourceState ==
    {"EmptyInstallation", "HealthyUnpublished", "Healthy", "Suspect", "CorruptQuarantined"}

ASSUME ScenariosAssumption ==
    Scenarios \subseteq
        [source : MaintenanceSourceState, asked : SUBSET MaintenancePurpose,
         waited : SUBSET MaintenancePurpose, asks : Nat,
         calls : SUBSET {"change", "policy", "pause", "stop"}, turns : Nat,
         scheduler : BOOLEAN, failing : BOOLEAN]

VARIABLES
    scenario,   \* the scenario of this behaviour
    clock,
    coord,      \* MaintenanceCoordinator
    wk,         \* WorkerState, without the coordinator
    thr,        \* the worker thread
    waiter,     \* the caller inside submit_and_wait
    schedule,   \* MaintenanceSchedule
    sched,      \* the scheduler's phase, thread and wake channel
    owner,      \* the caller of pause, resume and shutdown
    hist        \* what happened, for the properties only

vars == <<scenario, clock, coord, wk, thr, waiter, schedule, sched, owner, hist>>

None == [none |-> TRUE]
Never == MaxTime + 1

Blocks(p) == p \in {"PreMigration", "PreRestore", "PreDestructiveMaintenance"}

urgency(p) == CASE p = "Periodic" -> 1 [] p = "Manual" -> 3 [] OTHER -> 4

SourceRetry == 2

Request(id, root, p, u) == [id |-> id, root |-> root, purpose |-> p, urgency |-> u]

\* MaintenancePermit: "running" until it is cancelled or begins to publish.
Permit(r) == [id |-> r.id, root |-> r.root, purpose |-> r.purpose, op |-> "running"]

----------------------------------------------------------------------------
(* The coordinator. *)

NewCoordinator(source, periodic) ==
    [next |-> 1, active |-> None, pending |-> None, source |-> source,
     periodic |-> periodic, failing |-> None]

Bypassed(c, p) == Blocks(p) /\ c.source \in {"EmptyInstallation", "CorruptQuarantined"}

Ineligible(c, p) ==
    \/ Blocks(p) /\ c.source = "Suspect"
    \/ ~Blocks(p) /\ c.source \in {"EmptyInstallation", "Suspect", "CorruptQuarantined"}
    \/ p = "Periodic" /\ (c.source # "Healthy" \/ ~c.periodic)

Busy(c, p) ==
    /\ Blocks(p)
    /\ \/ Blocks(c.active.purpose)
       \/ c.pending # None /\ Blocks(c.pending.purpose)

Pending(c, r) ==
    IF c.pending # None /\ r.urgency <= c.pending.urgency THEN c.pending ELSE r

\* The identifier is used up even when the request then meets Busy.
submit(c, p) ==
    LET r == Request(c.next, c.next, p, urgency(p))
        taken == [c EXCEPT !.next = @ + 1]
    IN  CASE Bypassed(c, p) -> [c |-> c, admission |-> "Bypassed"]
          [] ~Bypassed(c, p) /\ Ineligible(c, p) -> [c |-> c, admission |-> "Rejected"]
          [] OTHER ->
             CASE c.active = None ->
                    [c |-> [taken EXCEPT !.active = Permit(r)], admission |-> "Started"]
               [] c.active # None /\ Busy(c, p) -> [c |-> taken, admission |-> "Rejected"]
               [] OTHER ->
                    [c |-> [taken EXCEPT !.pending = Pending(c, r)],
                     admission |-> "Coalesced"]

\* Mutant: the cancelled flag decides, whatever the permit has already done.
SettledAlways(op, x) == IF op # "running" THEN [kind |-> "Cancelled"] ELSE x

Settled(op, x) ==
    CASE x.kind = "Published" /\ op # "publishing" -> [kind |-> "Failed"]
      [] x.kind = "Cancelled" /\ op = "publishing" -> [kind |-> "Failed"]
      [] op = "cancelled" -> [kind |-> "Cancelled"]
      [] OTHER -> x

Repeated(c, x) == c.failing = [identity |-> x.identity]

\* A first failure of the source queues a retry of the same root.
WithRetry(c) ==
    LET retry == Request(c.next, c.active.root, c.active.purpose, SourceRetry)
        keep == /\ c.pending # None
                /\ ~Blocks(c.active.purpose)
                /\ retry.urgency <= c.pending.urgency
    IN  [c EXCEPT !.next = @ + 1, !.pending = IF keep THEN @ ELSE retry]

Outcome(c, x) ==
    CASE x.kind # "SourceFailed" -> x.kind
      [] x.kind = "SourceFailed" /\ Repeated(c, x) -> "SourceSuspect"
      [] OTHER -> "RetryScheduled"

AfterOutcome(c, x) ==
    CASE x.kind = "Published" -> [c EXCEPT !.source = "Healthy", !.failing = None]
      [] Outcome(c, x) = "SourceSuspect" ->
            [c EXCEPT !.source = "Suspect", !.pending = None]
      [] Outcome(c, x) = "RetryScheduled" ->
            WithRetry([c EXCEPT !.failing = [identity |-> x.identity]])
      [] OTHER -> c

FollowUp(c) ==
    [c EXCEPT !.active = IF c.pending = None THEN None ELSE Permit(c.pending),
              !.pending = None]

finish(c, x) ==
    LET settled == Settled(c.active.op, x)
    IN  [c |-> FollowUp(AfterOutcome(c, settled)),
         completion |-> [root |-> c.active.root, purpose |-> c.active.purpose,
                         outcome |-> Outcome(c, settled)]]

cancel(permit) == IF permit.op = "running" THEN [permit EXCEPT !.op = "cancelled"] ELSE permit

cancel_active(c) ==
    IF c.active = None THEN c ELSE [c EXCEPT !.active = cancel(@)]

set_periodic_enabled(c, on) ==
    LET drop == ~on /\ c.pending # None /\ c.pending.urgency = urgency("Periodic")
    IN  [c EXCEPT !.periodic = on, !.pending = IF drop THEN None ELSE @]

----------------------------------------------------------------------------
(* The schedule of automatic backups. *)

NewSchedule(source, now) ==
    LET seen == source = "Healthy"
    IN  [enabled |-> TRUE, healthySeen |-> seen, last |-> IF seen THEN now ELSE Never,
         change |-> Never, observed |-> now, catchUp |-> FALSE, paused |-> FALSE]

Observe(s, now) ==
    [s EXCEPT !.catchUp = @ \/ now < s.observed, !.observed = now]

mark_healthy_publication(s, now) ==
    [s EXCEPT !.observed = now, !.last = now, !.change = Never, !.catchUp = FALSE,
              !.healthySeen = TRUE]

record_durable_change(s, now) == [Observe(s, now) EXCEPT !.change = now]

IntervalPassed(s, now) == s.last # Never /\ now >= s.last + Interval

pause_schedule(s, now) == [Observe(s, now) EXCEPT !.paused = TRUE]

resume_schedule(s, now) ==
    [s EXCEPT !.catchUp = @ \/ now < s.observed \/ IntervalPassed(s, now),
              !.observed = now, !.paused = FALSE]

update_policy(s, on) == [s EXCEPT !.enabled = on, !.catchUp = @ /\ on]

QuietPassed(s, now) == s.change = Never \/ now >= s.change + Quiet

Due(s, now) ==
    /\ now >= s.observed
    /\ ~s.paused /\ s.enabled /\ s.healthySeen
    /\ s.catchUp \/ (IntervalPassed(s, now) /\ QuietPassed(s, now))

poll(s, now) ==
    IF Due(s, now)
    THEN [s EXCEPT !.observed = now, !.catchUp = FALSE, !.last = now, !.change = Never]
    ELSE Observe(s, now)

----------------------------------------------------------------------------
\* A scenario is the state of the archive at the start, the purposes that other
\* threads and the waiting caller submit, how many submissions and owner calls
\* there are, which calls those are, whether the scheduler thread was spawned
\* (a worker can be used alone) and whether the source itself can fail.
Init ==
    /\ scenario \in Scenarios
    /\ clock = 0
    /\ coord = NewCoordinator(scenario.source, TRUE)
    /\ schedule = NewSchedule(scenario.source, 0)
    /\ wk = [phase |-> "Running", start |-> FALSE, latest |-> None, waited |-> 0, wake |-> FALSE]
    /\ thr = [pc |-> "recv", x |-> None]
    /\ waiter = [pc |-> "idle", root |-> 0, got |-> None]
    /\ sched = IF scenario.scheduler
               THEN [phase |-> "Running", pc |-> "loop", now |-> 0, wake |-> FALSE]
               ELSE [phase |-> "Stopped", pc |-> "gone", now |-> 0, wake |-> FALSE]
    /\ owner = [pc |-> "idle", turns |-> scenario.turns]
    /\ hist = [asked |-> 0, owed |-> {}, published |-> {}, ended |-> {}]

Tick ==
    /\ scenario.scheduler /\ clock < MaxTime
    /\ clock' = clock + 1
    /\ UNCHANGED <<scenario, coord, wk, thr, waiter, schedule, sched, owner, hist>>

\* submit_inner: what the caller is told.
Admission(p, reserve) ==
    IF wk.phase # "Running" \/ wk.waited # 0
    THEN "Rejected"
    ELSE submit(coord, p).admission

submit_inner(p, reserve) ==
    LET a == Admission(p, reserve)
        open == wk.phase = "Running" /\ (a # "Rejected" \/ wk.waited = 0)
        s == submit(coord, p)
    IN  /\ coord' = IF open THEN s.c ELSE coord
        /\ wk' = IF a # "Started" THEN wk
                 ELSE [wk EXCEPT !.start = TRUE, !.wake = TRUE,
                                 !.waited = IF reserve THEN s.c.active.root ELSE @]
        /\ hist' = [hist EXCEPT
             !.asked = IF p = "Periodic" THEN @ ELSE @ + 1,
             !.owed = IF a \in {"Started", "Coalesced"} /\ p # "Periodic"
                      THEN @ \cup {coord.next} ELSE @]

\* Another thread asks for a backup and does not wait for it.
Submit(p) ==
    /\ hist.asked < scenario.asks /\ owner.pc \notin {"stopping", "joining", "gone"}
    /\ submit_inner(p, FALSE)
    /\ UNCHANGED <<scenario, clock, thr, waiter, schedule, sched, owner>>

SubmitAndWait(p) ==
    /\ hist.asked < scenario.asks /\ owner.pc \notin {"stopping", "joining", "gone"}
    /\ waiter.pc = "idle"
    /\ waiter' = IF Admission(p, TRUE) = "Started"
                 THEN [pc |-> "waiting", root |-> coord.next, got |-> None]
                 ELSE [waiter EXCEPT !.got = None]
    /\ submit_inner(p, TRUE)
    /\ UNCHANGED <<scenario, clock, thr, schedule, sched, owner>>

Answered ==
    /\ wk.latest # None /\ wk.latest.root = waiter.root
    /\ wk.latest.outcome # "RetryScheduled"

\* The answer, the worker's end, or the deadline: each gives the place back.
WaitReturns ==
    /\ waiter.pc = "waiting"
    /\ wk' = [wk EXCEPT !.waited = IF @ = waiter.root THEN 0 ELSE @]
    /\ waiter' = [pc |-> "idle", root |-> waiter.root,
                  got |-> IF Answered THEN wk.latest ELSE None]
    /\ UNCHANGED <<scenario, clock, coord, thr, schedule, sched, owner, hist>>

----------------------------------------------------------------------------
(* The worker thread. *)

TakeNext ==
    /\ thr.pc = "recv" /\ wk.wake
    /\ LET run == wk.start /\ wk.phase \in {"Running", "Stopping"}
           stop == wk.phase = "Stopping" /\ ~wk.start
       IN  /\ wk' = [wk EXCEPT !.wake = FALSE, !.start = @ /\ ~run,
                               !.phase = IF stop THEN "Stopped" ELSE @]
           /\ thr' = [thr EXCEPT !.pc = CASE run -> "check" [] stop -> "gone"
                                          [] OTHER -> "recv"]
    /\ UNCHANGED <<scenario, clock, coord, waiter, schedule, sched, owner, hist>>

\* The permit is looked at once before the executor is called.
Check ==
    /\ thr.pc = "check"
    /\ LET run == wk.phase # "Stopping" /\ coord.active.op # "cancelled"
       IN  /\ thr' = IF run THEN [thr EXCEPT !.pc = "execute"]
                     ELSE [pc |-> "finish", x |-> [kind |-> "Cancelled"]]
           /\ hist' = IF run THEN [hist EXCEPT !.owed = {}] ELSE hist
    /\ UNCHANGED <<scenario, clock, coord, wk, waiter, schedule, sched, owner>>

\* The executor gives up before it publishes; a panic counts as a failure.
ExecuteFails ==
    /\ thr.pc = "execute"
    /\ \E x \in {[kind |-> "Failed"], [kind |-> "Cancelled"]}
              \cup {[kind |-> "SourceFailed", identity |-> i] : i \in {j \in Identities : scenario.failing /\ coord.next <= MaxRequests}} :
          /\ x.kind = "Cancelled" => coord.active.op = "cancelled"
          /\ thr' = [pc |-> "finish", x |-> x]
    /\ UNCHANGED <<scenario, clock, coord, wk, waiter, schedule, sched, owner, hist>>

MayPublish(permit) == permit.op = "running"

BeginPublication ==
    /\ thr.pc = "execute"
    /\ IF MayPublish(coord.active)
       THEN /\ coord' = [coord EXCEPT !.active.op = "publishing"]
            /\ thr' = [thr EXCEPT !.pc = "publish"]
       ELSE /\ thr' = [pc |-> "finish", x |-> [kind |-> "Cancelled"]]
            /\ UNCHANGED coord
    /\ UNCHANGED <<scenario, clock, wk, waiter, schedule, sched, owner, hist>>

\* The package becomes visible; the steps that follow it may still fail.
Publish ==
    /\ thr.pc = "publish"
    /\ hist' = [hist EXCEPT !.published = @ \cup {coord.active.root}]
    /\ \/ /\ thr' = [pc |-> "finish", x |-> [kind |-> "Published"]]
          /\ schedule' = mark_healthy_publication(schedule, clock)
       \/ /\ thr' = [pc |-> "finish", x |-> [kind |-> "Failed"]]
          /\ UNCHANGED schedule
    /\ UNCHANGED <<scenario, clock, coord, wk, waiter, sched, owner>>

PublishFails ==
    /\ thr.pc = "publish"
    /\ thr' = [pc |-> "finish", x |-> [kind |-> "Failed"]]
    /\ UNCHANGED <<scenario, clock, coord, wk, waiter, schedule, sched, owner, hist>>

Finish ==
    /\ thr.pc = "finish"
    /\ LET f == finish(coord, thr.x)
           more == f.c.active # None
       IN  /\ coord' = f.c
           /\ wk' = [wk EXCEPT
                !.latest = f.completion,
                !.phase = IF @ = "Stopping" THEN "Stopped" ELSE @,
                !.start = more /\ wk.phase = "Paused"]
           /\ thr' = [pc |-> CASE wk.phase = "Stopping" -> "gone"
                               [] wk.phase = "Running" /\ more -> "check"
                               [] OTHER -> "recv",
                      x |-> None]
           /\ hist' = [hist EXCEPT
                !.ended = IF f.completion.outcome = "RetryScheduled" THEN @
                          ELSE @ \cup {f.completion.root},
                !.owed = IF f.completion.outcome \in {"SourceSuspect", "Cancelled"} /\ ~more
                         THEN {} ELSE @]
    /\ UNCHANGED <<scenario, clock, waiter, schedule, sched, owner>>

----------------------------------------------------------------------------
(* The scheduler thread. *)

\* The clock is read here, before the schedule's lock is taken.
SchedulerLoop ==
    /\ sched.pc = "loop"
    /\ sched' = CASE sched.phase = "Stopping" -> [sched EXCEPT !.phase = "Stopped", !.pc = "gone"]
                  [] sched.phase = "Paused" -> [sched EXCEPT !.pc = "recv"]
                  [] sched.phase = "Running" -> [sched EXCEPT !.pc = "poll", !.now = clock]
    /\ UNCHANGED <<scenario, clock, coord, wk, thr, waiter, schedule, owner, hist>>

SchedulerPoll ==
    /\ sched.pc = "poll"
    /\ schedule' = poll(schedule, sched.now)
    /\ sched' = [sched EXCEPT !.pc = IF Due(schedule, sched.now) THEN "submit" ELSE "sleep",
                              !.now = 0]
    /\ UNCHANGED <<scenario, clock, coord, wk, thr, waiter, owner, hist>>

\* A worker that is not running answers Closed, and the scheduler gives up.
SchedulerSubmit ==
    /\ sched.pc = "submit"
    /\ sched' = IF wk.phase # "Running" THEN [sched EXCEPT !.phase = "Faulted", !.pc = "gone"]
                ELSE [sched EXCEPT !.pc = "loop"]
    /\ submit_inner("Periodic", FALSE)
    /\ UNCHANGED <<scenario, clock, thr, waiter, schedule, owner>>

\* A running scheduler also wakes by itself, a paused one only by a signal.
SchedulerWakes ==
    /\ sched.pc = "sleep" \/ (sched.pc = "recv" /\ sched.wake)
    /\ sched' = [sched EXCEPT !.pc = "loop", !.wake = FALSE]
    /\ UNCHANGED <<scenario, clock, coord, wk, thr, waiter, schedule, owner, hist>>

----------------------------------------------------------------------------
(* The owner: pause, resume and shutdown lock one thing at a time. *)

Owner(from, to) == owner.pc = from /\ owner' = [owner EXCEPT !.pc = to]

Turn(call, to) ==
    /\ owner.pc = "idle" /\ owner.turns > 0 /\ call \in scenario.calls
    /\ owner' = [pc |-> to, turns |-> owner.turns - 1]

RecordChange ==
    /\ Turn("change", "idle")
    /\ schedule' = record_durable_change(schedule, clock)
    /\ sched' = [sched EXCEPT !.wake = TRUE]
    /\ UNCHANGED <<scenario, clock, coord, wk, thr, waiter, hist>>

\* update_policy: the worker first, then the schedule.
SwitchPeriodic ==
    /\ Turn("policy", IF coord.periodic THEN "off" ELSE "on")
    /\ coord' = set_periodic_enabled(coord, ~coord.periodic)
    /\ UNCHANGED <<scenario, clock, wk, thr, waiter, schedule, sched, hist>>

SwitchSchedule ==
    /\ owner.pc \in {"on", "off"}
    /\ schedule' = update_policy(schedule, owner.pc = "on")
    /\ sched' = [sched EXCEPT !.wake = TRUE]
    /\ owner' = [owner EXCEPT !.pc = "idle"]
    /\ UNCHANGED <<scenario, clock, coord, wk, thr, waiter, hist>>

PauseScheduler ==
    /\ sched.phase = "Running"
    /\ Turn("pause", "pause")
    /\ sched' = [sched EXCEPT !.phase = "Paused"]
    /\ UNCHANGED <<scenario, clock, coord, wk, thr, waiter, schedule, hist>>

PauseSchedule ==
    /\ Owner("pause", "pauseWorker")
    /\ schedule' = pause_schedule(schedule, clock)
    /\ sched' = [sched EXCEPT !.wake = TRUE]
    /\ UNCHANGED <<scenario, clock, coord, wk, thr, waiter, hist>>

PauseWorker ==
    /\ Owner("pauseWorker", "idle")
    /\ wk' = [wk EXCEPT !.phase = "Paused"]
    /\ coord' = cancel_active(coord)
    /\ UNCHANGED <<scenario, clock, thr, waiter, schedule, sched, hist>>

\* Mutant: the worker is not told of the permit it left for later.
ResumedAsleep == [wk EXCEPT !.phase = "Running"]

Resumed == [wk EXCEPT !.phase = "Running", !.wake = @ \/ wk.start]

ResumeWorker ==
    /\ wk.phase = "Paused"
    /\ Turn("pause", "resume")
    /\ wk' = Resumed
    /\ UNCHANGED <<scenario, clock, coord, thr, waiter, schedule, sched, hist>>

\* A scheduler that gave up cannot be resumed: the worker is paused again.
ResumeScheduler ==
    /\ owner.pc = "resume"
    /\ IF sched.phase = "Paused"
       THEN /\ sched' = [sched EXCEPT !.phase = "Running"]
            /\ owner' = [owner EXCEPT !.pc = "resumeSchedule"]
            /\ UNCHANGED <<wk, coord>>
       ELSE /\ wk' = [wk EXCEPT !.phase = "Paused"]
            /\ coord' = cancel_active(coord)
            /\ owner' = [owner EXCEPT !.pc = "idle"]
            /\ UNCHANGED sched
    /\ UNCHANGED <<scenario, clock, thr, waiter, schedule, hist>>

ResumeSchedule ==
    /\ Owner("resumeSchedule", "idle")
    /\ schedule' = resume_schedule(schedule, clock)
    /\ sched' = [sched EXCEPT !.wake = TRUE]
    /\ UNCHANGED <<scenario, clock, coord, wk, thr, waiter, hist>>

\* shutdown needs the runtime for itself: nobody is inside submit_and_wait.
StopScheduler ==
    /\ waiter.pc = "idle"
    /\ Turn("stop", "stopping")
    /\ sched' = [sched EXCEPT !.phase = IF @ = "Faulted" THEN @ ELSE "Stopping", !.wake = TRUE]
    /\ UNCHANGED <<scenario, clock, coord, wk, thr, waiter, schedule, hist>>

StopWorker ==
    /\ sched.pc = "gone"
    /\ Owner("stopping", "joining")
    /\ wk' = [wk EXCEPT !.phase = "Stopping", !.wake = TRUE]
    /\ coord' = cancel_active(coord)
    /\ UNCHANGED <<scenario, clock, thr, waiter, schedule, sched, hist>>

Joined ==
    /\ thr.pc = "gone"
    /\ Owner("joining", "gone")
    /\ UNCHANGED <<scenario, clock, coord, wk, thr, waiter, schedule, sched, hist>>

WorkerStep ==
    \/ TakeNext \/ Check \/ ExecuteFails \/ BeginPublication \/ Publish
    \/ PublishFails \/ Finish

SchedulerStep == SchedulerLoop \/ SchedulerPoll \/ SchedulerSubmit \/ SchedulerWakes

OwnerStep ==
    \/ SwitchSchedule \/ PauseSchedule \/ PauseWorker \/ ResumeScheduler
    \/ ResumeSchedule \/ StopWorker \/ Joined

OwnerCall ==
    \/ RecordChange \/ SwitchPeriodic \/ PauseScheduler \/ ResumeWorker \/ StopScheduler

Next ==
    \/ Tick \/ WorkerStep \/ SchedulerStep \/ OwnerStep \/ OwnerCall \/ WaitReturns
    \/ \E p \in scenario.asked : Submit(p)
    \/ \E p \in scenario.waited : SubmitAndWait(p)

\* Threads keep running and the executor ends; the owner finishes what it began.
Fairness == WF_vars(WorkerStep) /\ WF_vars(SchedulerStep) /\ WF_vars(OwnerStep)

Spec == Init /\ [][Next]_vars /\ Fairness

----------------------------------------------------------------------------
(* Properties. *)

\* A backup reported as cancelled left no package behind, and one reported as
\* published did: cancel and begin_publication race for the same permit, and
\* finish decides between the executor's word and the permit's state.
OutcomesAreHonest ==
    wk.latest # None =>
        /\ wk.latest.outcome = "Published" => wk.latest.root \in hist.published
        /\ wk.latest.outcome = "Cancelled" => wk.latest.root \notin hist.published

\* The caller of submit_and_wait finds the completion of its own backup: while
\* it holds the reservation no other completion takes the one place it is kept.
AnswerIsKept ==
    waiter.pc = "waiting" /\ waiter.root \in hist.ended => Answered

\* A request that was admitted is followed by a backup that starts after it:
\* coalescing, retries and failures may replace the request but not lose it.
AdmittedIsCovered ==
    hist.owed # {} /\ wk.phase # "Stopping" /\ wk.phase # "Stopped" =>
        /\ coord.active # None
        /\ coord.pending # None \/ thr.pc \in {"recv", "check"} \/ coord.active.op = "cancelled"

\* A backup the worker holds does not stay held while the worker is running:
\* wakes are never lost between pause, resume and a follow-up left for later.
HeldWorkRuns == (wk.start /\ wk.phase = "Running") ~> (~wk.start \/ wk.phase # "Running")

\* The outcome of a request says what became of it, the caller that waits is given the
\* answer to its own request, and a request that joined another is covered by it.
MaintenanceIsHonest == OutcomesAreHonest /\ AnswerIsKept /\ AdmittedIsCovered
=============================================================================
