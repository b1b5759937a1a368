------------------------ MODULE ApplicationCommands ------------------------
(***************************************************************************)
(* The commands a user gives the application: a coordinator that keeps at  *)
(* most one running command and one follow-up, and the worker thread that  *)
(* runs them with the payloads they came with.                             *)
(*                                                                         *)
(* The user interface submits, retries and cancels from its own thread;    *)
(* the application pauses admission around a restart and shuts the worker  *)
(* down.  A command's effect is what it commits after its irreversible     *)
(* boundary: for a settings command, the payload it carries.               *)
(***************************************************************************)
EXTENDS Naturals, FiniteSets

CONSTANTS
    Exclusive,      \* commands that stop every other: the restores and the rebuild
    Retryable,      \* commands that can run again without a payload
    Replaceable,    \* settings commands, whose payload a later one replaces
    Plain,          \* commands without a payload
    Payloads,
    MaxRequests, MaxCalls     \* bounds: submissions, and cancel, pause or stop calls

VARIABLES
    co,         \* ApplicationCommandCoordinator
    op,         \* WorkerState, without the coordinator
    thr,        \* the worker thread
    ui,         \* the cancel call of the user interface, between its two locks
    calls,
    hist        \* what happened, for the properties only

vars == <<co, op, thr, ui, calls, hist>>

None == [none |-> TRUE]
Empty == "empty"

\* supports_payloadless_retry: a command that carries a setting is not retried.
ASSUME NoSettingIsRetried == Retryable \cap Replaceable = {}

Commands == Exclusive \cup Retryable \cup Replaceable \cup Plain

----------------------------------------------------------------------------
(* The coordinator. *)

new == [next |-> 1, active |-> None, pending |-> None, retryable |-> None,
        paused |-> FALSE, closed |-> FALSE]

Permit(id, c) == [id |-> id, cmd |-> c, op |-> "running"]

Shut(k) == k.closed \/ k.paused

\* submit and, for a settings command, submit_replaceable: a repeated command
\* joins the one that is running, a repeated setting queues behind it instead.
Admission(k, c, replaceable) ==
    CASE Shut(k) -> "Closed"
      [] ~Shut(k) /\ k.active = None -> "Started"
      [] OTHER ->
         CASE k.active.cmd \in Exclusive -> "Busy"
           [] k.active.cmd \notin Exclusive /\ k.active.cmd = c /\ ~replaceable -> "JoinsActive"
           [] OTHER ->
              CASE k.pending = None -> "Queued"
                [] k.pending # None /\ k.pending.cmd = c -> "JoinsPending"
                [] OTHER -> "Busy"

Admitted(k, c, a) ==
    CASE a = "Started" -> [k EXCEPT !.next = @ + 1, !.active = Permit(k.next, c)]
      [] a = "Queued" -> [k EXCEPT !.next = @ + 1, !.pending = [id |-> k.next, cmd |-> c]]
      [] OTHER -> k

\* Mutant: a command is cancelled even after its irreversible boundary.
CancelledLate(permit) == [permit EXCEPT !.op = "cancelled"]

Cancelled(permit) ==
    IF permit.op = "running" THEN [permit EXCEPT !.op = "cancelled"] ELSE permit

Cancel(k, id) ==
    CASE k.active # None /\ k.active.id = id -> [k EXCEPT !.active = Cancelled(@)]
      [] k.pending # None /\ k.pending.id = id -> [k EXCEPT !.pending = None]
      [] OTHER -> k

\* Mutant: only a queued setting follows.
FollowedSetting(k) ==
    IF k.pending = None \/ k.pending.cmd \notin Replaceable THEN None
    ELSE Permit(k.pending.id, k.pending.cmd)

Followed(k) == IF k.pending = None THEN None ELSE Permit(k.pending.id, k.pending.cmd)

Finished(k, execution) ==
    [k EXCEPT
       !.retryable = IF execution # "Failed" THEN @
                     ELSE IF k.active.cmd \in Retryable THEN [cmd |-> k.active.cmd] ELSE None,
       !.active = Followed(k),
       !.pending = None]

Close(k) ==
    [k EXCEPT !.closed = TRUE, !.paused = TRUE, !.pending = None,
              !.active = IF @ = None THEN @ ELSE Cancelled(@)]

----------------------------------------------------------------------------
Init ==
    /\ co = new
    /\ op = [phase |-> "Running", start |-> None, follow |-> None, latest |-> None, wake |-> FALSE]
    /\ thr = [pc |-> "take", id |-> 0, payload |-> Empty, x |-> "", panicked |-> FALSE]
    /\ ui = 0
    /\ calls = MaxCalls
    /\ hist = [wanted |-> None, applied |-> None, spoiled |-> FALSE, committed |-> {},
               named |-> {}, dropped |-> {}]

Task(id, payload) == [id |-> id, payload |-> payload]

ReplacePayload(follow, payload) == [follow EXCEPT !.payload = payload]

\* submit_request: the payload follows the admission of its command.
SubmitRequest(c, payload) ==
    /\ co.next <= MaxRequests
    /\ LET a == IF op.phase # "Running" THEN "Closed" ELSE Admission(co, c, c \in Replaceable)
       IN  /\ co' = Admitted(co, c, a)
           /\ op' = CASE a = "Started" ->
                           [op EXCEPT !.start = Task(co.next, payload), !.wake = TRUE]
                      [] a = "Queued" -> [op EXCEPT !.follow = Task(co.next, payload)]
                      [] a = "JoinsPending" /\ c \in Replaceable ->
                           [op EXCEPT !.follow = ReplacePayload(@, payload)]
                      [] OTHER -> op
           /\ hist' = IF c \in Replaceable /\ a \in {"Started", "Queued", "JoinsPending"}
                      THEN [hist EXCEPT !.wanted = [payload |-> payload], !.spoiled = FALSE]
                      ELSE hist
    /\ UNCHANGED <<thr, ui, calls>>

\* retry_last: only a retry that starts at once is given its empty payload.
RetryLast ==
    /\ calls > 0 /\ calls' = calls - 1
    /\ op.phase = "Running" /\ co.retryable # None
    /\ LET a == Admission(co, co.retryable.cmd, FALSE)
       IN  /\ co' = Admitted(co, co.retryable.cmd, a)
           /\ op' = IF a # "Started" THEN op
                    ELSE [op EXCEPT !.start = Task(co.next, Empty), !.wake = TRUE]
    /\ UNCHANGED <<thr, ui, hist>>

\* The queued command that this step takes out of the queue.
Dropped == IF co.pending # None /\ co'.pending = None THEN {co.pending.id} ELSE {}

\* cancel_active: the running command is named under one lock ...
NameActive ==
    /\ calls > 0 /\ calls' = calls - 1
    /\ ui = 0 /\ co.active # None
    /\ ui' = co.active.id
    /\ hist' = [hist EXCEPT !.named = @ \cup {co.active.id}]
    /\ UNCHANGED <<co, op, thr>>

\* ... and cancelled by its name under the next one.
CancelNamed ==
    /\ ui # 0 /\ ui' = 0
    /\ co' = Cancel(co, ui)
    /\ op' = IF op.follow # None /\ op.follow.id = ui /\ co' # co
             THEN [op EXCEPT !.follow = None] ELSE op
    /\ hist' = [hist EXCEPT !.spoiled = @ \/ co' # co, !.dropped = @ \cup Dropped]
    /\ UNCHANGED <<thr, calls>>

PauseAdmission ==
    /\ calls > 0 /\ calls' = calls - 1
    /\ op.phase = "Running" /\ ~co.paused
    /\ co' = [co EXCEPT !.paused = TRUE, !.pending = None]
    /\ op' = [op EXCEPT !.follow = None]
    /\ hist' = [hist EXCEPT !.spoiled = @ \/ co.pending # None, !.dropped = @ \cup Dropped]
    /\ UNCHANGED <<thr, ui>>

ResumeAdmission ==
    /\ op.phase = "Running" /\ co.paused /\ ~co.closed
    /\ co' = [co EXCEPT !.paused = FALSE]
    /\ UNCHANGED <<op, thr, ui, calls, hist>>

Shutdown ==
    /\ calls > 0 /\ calls' = calls - 1
    /\ op.phase = "Running"
    /\ op' = [op EXCEPT !.phase = "Stopping", !.follow = None, !.wake = TRUE]
    /\ co' = Close(co)
    /\ hist' = [hist EXCEPT !.spoiled = TRUE]
    /\ UNCHANGED <<thr, ui>>

----------------------------------------------------------------------------
(* The worker thread. *)

Stopped ==
    [op EXCEPT !.phase = IF @ = "Faulted" THEN @ ELSE "Stopped", !.start = None, !.follow = None]

Take ==
    /\ thr.pc = "take"
    /\ CASE op.start # None ->
              /\ thr' = [thr EXCEPT !.pc = "begin", !.id = op.start.id, !.payload = op.start.payload]
              /\ op' = [op EXCEPT !.start = None]
              /\ UNCHANGED co
         [] op.start = None /\ op.phase = "Running" ->
              /\ thr' = [thr EXCEPT !.pc = "recv"]
              /\ UNCHANGED <<op, co>>
         [] OTHER ->
              /\ thr' = [thr EXCEPT !.pc = "gone"]
              /\ op' = Stopped
              /\ co' = Close(co)
    /\ UNCHANGED <<ui, calls, hist>>

Recv ==
    /\ thr.pc = "recv" /\ op.wake
    /\ op' = [op EXCEPT !.wake = FALSE]
    /\ thr' = [thr EXCEPT !.pc = "take"]
    /\ UNCHANGED <<co, ui, calls, hist>>

\* A permit that is already cancelled is not executed.
Begin ==
    /\ thr.pc = "begin"
    /\ thr' = IF co.active.op = "cancelled" THEN [thr EXCEPT !.pc = "finish", !.x = "Cancelled"]
              ELSE [thr EXCEPT !.pc = "run"]
    /\ UNCHANGED <<co, op, ui, calls, hist>>

\* The command ends before it commits anything.
EndEarly ==
    /\ thr.pc = "run"
    /\ \E x \in {"Succeeded", "Failed", "Cancelled", "Panicked"} :
         /\ x = "Cancelled" <=> co.active.op = "cancelled"
         /\ x = "Succeeded" => co.active.cmd \in Plain
         /\ thr' = [thr EXCEPT !.pc = "finish", !.panicked = x = "Panicked",
                               !.x = IF x = "Panicked" THEN "Failed" ELSE x]
         /\ hist' = [hist EXCEPT !.spoiled = @ \/ co.active.cmd \in Replaceable]
    /\ UNCHANGED <<co, op, ui, calls>>

\* begin_irreversible, and then the effect; a later step may still fail.
Commit ==
    /\ thr.pc = "run" /\ co.active.op = "running"
    /\ co' = [co EXCEPT !.active.op = "irreversible"]
    /\ thr' = [thr EXCEPT !.pc = "commit"]
    /\ UNCHANGED <<op, ui, calls, hist>>

Committed ==
    /\ thr.pc = "commit"
    /\ hist' = [hist EXCEPT
         !.committed = @ \cup {thr.id},
         !.applied = IF co.active.cmd \in Replaceable THEN [payload |-> thr.payload] ELSE @]
    /\ \E x \in {"Succeeded", "Failed"} : thr' = [thr EXCEPT !.pc = "finish", !.x = x]
    /\ UNCHANGED <<co, op, ui, calls>>

\* The task of the follow-up: its permit with the payload kept for it.
Promoted(k) == op.follow

Faulted == [op EXCEPT !.phase = "Faulted", !.start = None]

\* The outcome is settled under the lock that cancellation and shutdown use; a
\* follow-up whose payload is missing faults the worker, and so does a panic.
Finish ==
    /\ thr.pc = "finish"
    /\ LET x == IF co.active.op = "cancelled" THEN "Cancelled" ELSE thr.x
           k == Finished(co, x)
           done == [id |-> thr.id, cmd |-> co.active.cmd, outcome |-> x]
           wanted == Promoted(k)
           lost == k.active # None /\ (wanted = None \/ wanted.id # k.active.id)
           fault == thr.panicked \/ (op.phase = "Running" /\ lost)
       IN  /\ co' = IF fault THEN Close(k) ELSE k
           /\ op' = CASE fault -> [Faulted EXCEPT !.latest = done, !.follow = None]
                      [] ~fault /\ op.phase = "Running" ->
                           [op EXCEPT !.latest = done, !.follow = None,
                                      !.start = IF k.active = None THEN None ELSE wanted]
                      [] OTHER -> [op EXCEPT !.latest = done]
           /\ thr' = [pc |-> IF fault THEN "gone" ELSE "take", id |-> 0, payload |-> Empty,
                      x |-> "", panicked |-> FALSE]
    /\ UNCHANGED <<ui, calls, hist>>

ThreadStep == Take \/ Recv \/ Begin \/ EndEarly \/ Commit \/ Committed \/ Finish

UserStep ==
    \/ \E c \in Commands, p \in Payloads :
          SubmitRequest(c, IF c \in Replaceable THEN p ELSE Empty)
    \/ NameActive

OwnerStep == PauseAdmission \/ ResumeAdmission \/ Shutdown

Next == ThreadStep \/ UserStep \/ CancelNamed \/ RetryLast \/ OwnerStep

\* The worker thread runs, and an executor ends: it works under a deadline.
Spec == Init /\ [][Next]_vars /\ WF_vars(ThreadStep)

----------------------------------------------------------------------------
(* Properties. *)

\* A command reported as cancelled has changed nothing: cancel and
\* begin_irreversible race for the same byte of the permit, and the outcome is
\* settled under the lock that cancel takes.
CancelledDidNothing ==
    op.latest # None /\ op.latest.outcome = "Cancelled" => op.latest.id \notin hist.committed

\* Only a command the user named, or one the shutdown found, is ever cancelled:
\* cancel_active names it under one lock and cancels it under another.
CancelsOnlyNamed ==
    co.active # None /\ co.active.op = "cancelled" /\ ~co.closed => co.active.id \in hist.named

\* When the worker rests, the setting in force is the last one accepted: a
\* setting that joins the queued one replaces its payload, and none runs late.
LatestSettingWins ==
    co.active = None /\ ~hist.spoiled /\ hist.wanted # None => hist.applied = hist.wanted

\* A command that was queued runs, unless the user cancels it, admission is
\* paused or the worker ends: finish promotes it with its own payload.
QueuedRuns ==
    \A i \in 1..MaxRequests :
        (co.pending # None /\ co.pending.id = i)
            ~> (thr.id = i \/ i \in hist.dropped \/ op.phase # "Running")

\* A command that is reported as cancelled has changed nothing, a cancellation stops
\* the command it names and no other, and the setting chosen last is applied last
\* (command.rs: cancel, begin_irreversible; operation.rs: submit_request, finish).
CommandsAreExact == CancelledDidNothing /\ CancelsOnlyNamed /\ LatestSettingWins
=============================================================================
