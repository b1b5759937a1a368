--------------------- MODULE ApplicationCommandsProofs ---------------------
(***************************************************************************)
(* Proofs about ApplicationCommands, for any sets of commands and          *)
(* payloads and any number of submissions and calls.                       *)
(***************************************************************************)
EXTENDS ApplicationCommands, TLAPS

Permits == [id : Nat, cmd : Commands, op : {"running", "cancelled", "irreversible"}]
Queued == [id : Nat, cmd : Commands]
Retries == [cmd : Retryable]
Tasks == [id : Nat, payload : Payloads \cup {Empty}]
Setting == [payload : Payloads \cup {Empty}]
Outcomes == [id : Nat, cmd : Commands, outcome : {"Succeeded", "Failed", "Cancelled"}]

Coordinators ==
    [next : Nat \ {0}, active : Permits \cup {None}, pending : Queued \cup {None},
     retryable : Retries \cup {None}, paused : BOOLEAN, closed : BOOLEAN]
WorkerStates ==
    [phase : {"Running", "Stopping", "Stopped", "Faulted"}, start : Tasks \cup {None},
     follow : Tasks \cup {None}, latest : Outcomes \cup {None}, wake : BOOLEAN]
Threads ==
    [pc : {"take", "recv", "begin", "run", "commit", "finish", "gone"}, id : Nat,
     payload : Payloads \cup {Empty}, x : {"", "Succeeded", "Failed", "Cancelled"},
     panicked : BOOLEAN]
Histories ==
    [wanted : Setting \cup {None}, applied : Setting \cup {None}, spoiled : BOOLEAN,
     committed : SUBSET Nat, named : SUBSET Nat, dropped : SUBSET Nat]

\* The shape of the state.
TypeInv ==
    /\ co \in Coordinators
    /\ op \in WorkerStates
    /\ thr \in Threads
    /\ ui \in Nat
    /\ hist \in Histories

\* Permits are numbered in the order they are given out, and every number was.
Numbered ==
    /\ co.active # None => 0 < co.active.id /\ co.active.id < co.next
    /\ co.pending # None =>
          co.active # None /\ co.active.id < co.pending.id /\ co.pending.id < co.next
    /\ op.latest # None =>
          op.latest.id < co.next /\ (co.active # None => op.latest.id < co.active.id)
    /\ \A i \in hist.committed : i < co.next

Busy == thr.pc \in {"begin", "run", "commit", "finish"}
SettingQueued == co.pending # None /\ co.pending.cmd \in Replaceable

\* Who has the permit of the running command, and what ends the worker.
Held ==
    /\ Busy => co.active # None /\ thr.id = co.active.id /\ op.start = None
    /\ thr.pc \in {"begin", "run"} => co.active.op # "irreversible"
    /\ thr.pc = "commit" => co.active.op = "irreversible"
    /\ thr.pc = "finish" /\ thr.x = "Cancelled" => co.active.op = "cancelled"
    /\ thr.pc = "finish" => thr.x # ""
    /\ co.active # None /\ ~Busy => co.active.op # "irreversible"
    /\ op.start # None => co.active # None /\ op.start.id = co.active.id
    /\ SettingQueued => op.follow # None /\ op.follow.id = co.pending.id
    /\ co.pending # None => ~Shut(co)
    /\ thr.pc = "gone" => op.phase \in {"Stopped", "Faulted"} /\ op.start = None
    /\ thr.pc # "gone" => op.phase \in {"Running", "Stopping"}
    /\ op.phase = "Running" <=> ~co.closed
    /\ op.phase = "Stopping" => hist.spoiled

\* Nothing is committed before the boundary, and nothing cancelled is committed.
CommittedLate ==
    /\ co.active # None /\ (co.active.op # "irreversible" \/ thr.pc = "commit") =>
          co.active.id \notin hist.committed
    /\ co.pending # None => co.pending.id \notin hist.committed

NamedOnly == ui # 0 => ui \in hist.named

\* Where the setting is that was accepted last: queued, on its way, or in force.  A
\* worker that faulted with a follow-up keeps its permit for ever.
WantedIsOnItsWay ==
    ~hist.spoiled /\ hist.wanted # None /\ ~(thr.pc = "gone" /\ co.active # None) =>
        IF SettingQueued THEN op.follow.payload = hist.wanted.payload
        ELSE IF /\ co.active # None /\ co.active.cmd \in Replaceable
                /\ co.active.id \notin hist.committed
        THEN /\ co.active.op # "cancelled"
             /\ thr.pc # "finish"
             /\ IF Busy THEN thr.payload = hist.wanted.payload
                ELSE op.start # None /\ op.start.payload = hist.wanted.payload
        ELSE hist.applied = hist.wanted

IInv ==
    /\ TypeInv
    /\ Numbered
    /\ Held
    /\ CommittedLate
    /\ NamedOnly
    /\ CommandsAreExact
    /\ WantedIsOnItsWay

-----------------------------------------------------------------------------
(* The coordinator. *)

\* What each answer of submit presupposes.
LEMMA AdmissionAnswers ==
    ASSUME NEW c, NEW replaceable \in BOOLEAN, NEW k
    PROVE  LET a == Admission(k, c, replaceable)
           IN  /\ a \in {"Closed", "Started", "Busy", "JoinsActive", "Queued", "JoinsPending"}
               /\ a = "Started" => ~Shut(k) /\ k.active = None
               /\ a = "Queued" => ~Shut(k) /\ k.active # None /\ k.pending = None
               /\ a = "JoinsPending" => ~Shut(k) /\ k.pending # None /\ k.pending.cmd = c
  BY DEF Admission

\* Cancelling a permit changes its state byte only, and not after the boundary.
LEMMA CancelledPermit ==
    ASSUME NEW p \in Permits
    PROVE  /\ Cancelled(p) \in Permits
           /\ Cancelled(p).id = p.id /\ Cancelled(p).cmd = p.cmd
           /\ p.op = "irreversible" => Cancelled(p) = p
           /\ p.op # "irreversible" => Cancelled(p).op = "cancelled"
           /\ Cancelled(p) # None
  BY DEF Cancelled, Permits, None

\* Closing cancels what runs, drops what is queued and changes no number.
LEMMA ClosedCoordinator ==
    ASSUME NEW k \in Coordinators
    PROVE  /\ Close(k) \in Coordinators
           /\ Close(k).closed /\ Close(k).paused /\ Close(k).pending = None
           /\ Close(k).next = k.next
           /\ Close(k).active = None <=> k.active = None
           /\ k.active # None =>
                /\ Close(k).active.id = k.active.id /\ Close(k).active.cmd = k.active.cmd
                /\ k.active.op = "irreversible" => Close(k).active = k.active
                /\ k.active.op # "irreversible" => Close(k).active.op = "cancelled"
  <1>1. k.active # None => k.active \in Permits
    BY DEF Coordinators
  <1>2. Close(k).active = IF k.active = None THEN None ELSE Cancelled(k.active)
    BY DEF Close, Coordinators
  <1>3. k.active # None => Cancelled(k.active) \in Permits /\ Cancelled(k.active) # None
    BY <1>1, CancelledPermit
  <1>4. Close(k) \in Coordinators
    BY <1>3, ZenonT(60) DEF Close, Coordinators
  <1>5. /\ Close(k).closed /\ Close(k).paused /\ Close(k).pending = None
        /\ Close(k).next = k.next
    BY DEF Close, Coordinators
  <1> QED
    BY <1>1, <1>2, <1>3, <1>4, <1>5, CancelledPermit

\* The initial states satisfy the invariant.
LEMMA InitIInv == Init => IInv
  <1> SUFFICES ASSUME Init PROVE IInv
    OBVIOUS
  <1>1. TypeInv
    <2>1. co \in Coordinators
      <3>1. co = new
        BY DEF Init
      <3> QED
        BY <3>1 DEF new, Coordinators
    <2>2. op \in WorkerStates
      BY DEF Init, WorkerStates
    <2>3. thr \in Threads
      BY DEF Init, Threads
    <2>4. hist \in Histories
      BY DEF Init, Histories
    <2> QED
      BY <2>1, <2>2, <2>3, <2>4 DEF TypeInv, Init
  <1>2. Numbered /\ Held /\ CommittedLate /\ NamedOnly
    BY DEF Init, new, Numbered, Held, CommittedLate, NamedOnly, Busy, SettingQueued, Shut
  <1>3. CommandsAreExact /\ WantedIsOnItsWay
    BY DEF Init, new, CommandsAreExact, CancelledDidNothing, CancelsOnlyNamed, LatestSettingWins,
           WantedIsOnItsWay
  <1> QED
    BY <1>1, <1>2, <1>3 DEF IInv
-----------------------------------------------------------------------------
(* The steps of the worker thread. *)

\* recv ends: the worker looks for a task again.
LEMMA RecvStep ==
    ASSUME IInv, Recv
    PROVE  IInv'
  <1> USE DEF IInv, TypeInv
  <1>1. /\ thr.pc = "recv" /\ thr'.pc = "take" /\ thr' \in Threads
        /\ UNCHANGED <<co, ui, hist>>
    BY DEF Recv, Threads
  <1>2. /\ op'.phase = op.phase /\ op'.start = op.start /\ op'.follow = op.follow
        /\ op'.latest = op.latest /\ op' \in WorkerStates
    BY ZenonT(60) DEF Recv, WorkerStates
  <1>3. TypeInv' /\ Numbered' /\ NamedOnly'
    BY <1>1, <1>2 DEF Numbered, NamedOnly
  <1>4. Held'
    BY <1>1, <1>2 DEF Held, Busy, SettingQueued
  <1>5. CommittedLate'
    BY <1>1, <1>2 DEF CommittedLate
  <1>6. CommandsAreExact'
    BY <1>1, <1>2 DEF CommandsAreExact, CancelledDidNothing, CancelsOnlyNamed,
       LatestSettingWins
  <1>7. WantedIsOnItsWay'
    BY <1>1, <1>2 DEF WantedIsOnItsWay, Busy, SettingQueued
  <1> QED
    BY <1>3, <1>4, <1>5, <1>6, <1>7

\* A permit cancelled before the executor is called ends as cancelled.
LEMMA BeginStep ==
    ASSUME IInv, Begin
    PROVE  IInv'
  <1> USE DEF IInv, TypeInv
  <1>1. thr.pc = "begin" /\ UNCHANGED <<co, op, ui, hist>>
    BY DEF Begin
  <1>2. /\ thr' \in Threads /\ thr'.id = thr.id /\ thr'.payload = thr.payload
        /\ \/ thr'.pc = "run" /\ co.active.op # "cancelled"
           \/ /\ thr'.pc = "finish" /\ thr'.x = "Cancelled"
              /\ co.active.op = "cancelled"
    BY DEF Begin, Threads
  <1>3. TypeInv' /\ Numbered' /\ NamedOnly'
    BY <1>1, <1>2 DEF Numbered, NamedOnly
  <1>4. Held'
    BY <1>1, <1>2 DEF Held, Busy, SettingQueued
  <1>5. CommittedLate'
    BY <1>1, <1>2 DEF CommittedLate
  <1>6. CommandsAreExact'
    BY <1>1 DEF CommandsAreExact, CancelledDidNothing, CancelsOnlyNamed,
       LatestSettingWins
  <1>7. WantedIsOnItsWay'
    BY <1>1, <1>2 DEF WantedIsOnItsWay, Busy, SettingQueued
  <1> QED
    BY <1>3, <1>4, <1>5, <1>6, <1>7

\* The boundary: the permit is irreversible from here on.
LEMMA CommitStep ==
    ASSUME IInv, Commit
    PROVE  IInv'
  <1> USE DEF IInv, TypeInv
  <1>1. /\ thr.pc = "run" /\ co.active.op = "running" /\ UNCHANGED <<op, ui, hist>>
    BY DEF Commit
  <1>2. /\ thr' \in Threads /\ thr'.pc = "commit" /\ thr'.id = thr.id
        /\ thr'.payload = thr.payload
    BY DEF Commit, Threads
  <1>3. /\ co.active \in Permits /\ co.active # None
        /\ co' = [co EXCEPT !.active = [co.active EXCEPT !.op = "irreversible"]]
    BY <1>1 DEF Commit, Held, Busy, Coordinators
  <1>4. /\ co'.active \in Permits /\ co'.active # None
        /\ co'.active.op = "irreversible" /\ co'.active.id = co.active.id
        /\ co'.active.cmd = co.active.cmd
        /\ co'.next = co.next /\ co'.pending = co.pending
        /\ co'.paused = co.paused /\ co'.closed = co.closed
    BY <1>3 DEF Coordinators, Permits, None
  <1>5. co' \in Coordinators
    BY <1>3, <1>4 DEF Coordinators
  <1>6. TypeInv' /\ Numbered' /\ NamedOnly'
    BY <1>1, <1>2, <1>3, <1>4, <1>5 DEF Numbered, NamedOnly
  <1>7. Held'
    BY <1>1, <1>2, <1>3, <1>4 DEF Held, Busy, SettingQueued, Shut
  <1>8. CommittedLate'
    BY <1>1, <1>2, <1>3, <1>4 DEF CommittedLate
  <1>9. CommandsAreExact'
    BY <1>1, <1>3, <1>4 DEF CommandsAreExact, CancelledDidNothing, CancelsOnlyNamed,
       LatestSettingWins
  <1>10. WantedIsOnItsWay'
    BY <1>1, <1>2, <1>3, <1>4 DEF WantedIsOnItsWay, Busy, SettingQueued
  <1> QED
    BY <1>6, <1>7, <1>8, <1>9, <1>10

\* The effect: it is committed under the number of the running permit.
LEMMA CommittedStep ==
    ASSUME IInv, Committed
    PROVE  IInv'
  <1>a. /\ thr.pc = "commit" /\ thr'.pc = "finish" /\ thr'.x \in {"Succeeded", "Failed"}
        /\ thr'.id = thr.id /\ thr'.payload = thr.payload /\ thr'.panicked = thr.panicked
        /\ UNCHANGED <<co, op, ui, calls>>
    BY DEF IInv, TypeInv, Threads, Committed
  <1>b. /\ hist'.committed = hist.committed \cup {thr.id}
        /\ hist'.applied = IF co.active.cmd \in Replaceable THEN [payload |-> thr.payload]
                           ELSE hist.applied
        /\ hist'.wanted = hist.wanted /\ hist'.spoiled = hist.spoiled /\ hist'.named = hist.named
    BY DEF IInv, TypeInv, Histories, Committed
  <1>c. /\ co.active \in Permits /\ co.active # None /\ thr.id = co.active.id
        /\ co.active.op = "irreversible" /\ thr.id \notin hist.committed
    BY <1>a DEF IInv, TypeInv, Coordinators, Held, Busy, CommittedLate
  <1>1. TypeInv'
    <2>1. thr' \in Threads
      BY ZenonT(60) DEF IInv, TypeInv, Committed, Threads
    <2>2. hist' \in Histories
      BY ZenonT(60) DEF IInv, TypeInv, Committed, Histories, Setting, Threads
    <2> QED
      BY <2>1, <2>2 DEF IInv, TypeInv, Committed
  <1>2. Numbered'
    BY <1>a, <1>b, <1>c DEF IInv, TypeInv, Numbered
  <1>3. Held'
    BY <1>a, <1>b, <1>c, ZenonT(60)
       DEF IInv, TypeInv, Held, Busy, SettingQueued, Shut, Numbered,
           Coordinators, WorkerStates, Threads, Histories
  <1>4. CommittedLate' /\ NamedOnly'
    BY <1>a, <1>b, <1>c DEF IInv, TypeInv, CommittedLate, NamedOnly, Numbered, Coordinators, Permits,
           Queued
  <1>5. CommandsAreExact'
    BY <1>a, <1>b, <1>c DEF IInv, TypeInv, CommandsAreExact, CancelledDidNothing, CancelsOnlyNamed,
           LatestSettingWins, Numbered, WorkerStates, Outcomes, Permits
  <1>6. WantedIsOnItsWay'
    BY <1>a, <1>b, <1>c DEF IInv, TypeInv, WantedIsOnItsWay, SettingQueued, Busy, Setting, Histories
  <1> QED
    BY <1>1, <1>2, <1>3, <1>4, <1>5, <1>6 DEF IInv

\* The executor returns, or panics, before the boundary.
LEMMA EndEarlyStep ==
    ASSUME IInv, EndEarly
    PROVE  IInv'
  <1> USE DEF IInv, TypeInv
  <1>1. thr.pc = "run" /\ UNCHANGED <<co, op, ui>>
    BY DEF EndEarly
  <1>2. /\ thr' \in Threads /\ thr'.pc = "finish" /\ thr'.id = thr.id
        /\ thr'.payload = thr.payload /\ thr'.x # ""
        /\ thr'.x = "Cancelled" => co.active.op = "cancelled"
    BY ZenonT(60) DEF EndEarly, Threads
  <1>3. hist' = [hist EXCEPT !.spoiled = hist.spoiled \/ co.active.cmd \in Replaceable]
    BY DEF EndEarly
  <1>4. /\ hist'.committed = hist.committed /\ hist'.named = hist.named
        /\ hist'.wanted = hist.wanted /\ hist'.applied = hist.applied
        /\ hist' \in Histories
    BY <1>3, ZenonT(60) DEF Histories
  <1>5. hist'.spoiled = (hist.spoiled \/ co.active.cmd \in Replaceable)
    BY <1>3 DEF Histories
  <1>6. co.active # None /\ co.active.id \notin hist.committed
    BY <1>1 DEF Held, Busy, CommittedLate
  <1>7. TypeInv' /\ Numbered' /\ NamedOnly'
    BY <1>1, <1>2, <1>4 DEF Numbered, NamedOnly
  <1>8. Held'
    BY <1>1, <1>2, <1>5 DEF Held, Busy, SettingQueued
  <1>9. CommittedLate'
    BY <1>1, <1>2, <1>4 DEF CommittedLate
  <1>10. CommandsAreExact'
    BY <1>1, <1>4, <1>5, <1>6 DEF CommandsAreExact, CancelledDidNothing, CancelsOnlyNamed,
       LatestSettingWins
  <1>11. WantedIsOnItsWay'
    BY <1>1, <1>2, <1>4, <1>5, <1>6 DEF WantedIsOnItsWay, Busy, SettingQueued
  <1> QED
    BY <1>7, <1>8, <1>9, <1>10, <1>11

\* The worker takes the task that waits, waits, or ends.
LEMMA TakeStep ==
    ASSUME IInv, Take
    PROVE  IInv'
  <1> USE DEF IInv, TypeInv
  <1>1. CASE op.start # None
    <2>1. /\ thr' = [thr EXCEPT !.pc = "begin", !.id = op.start.id, !.payload = op.start.payload]
          /\ op' = [op EXCEPT !.start = None]
          /\ thr.pc = "take" /\ UNCHANGED <<co, ui, calls, hist>>
      BY <1>1 DEF Take
    <2>2. op.start \in Tasks
      BY <1>1 DEF WorkerStates
    <2>3. TypeInv'
      <3>1. thr' \in Threads
        BY <2>1, <2>2 DEF Threads, Tasks
      <3>2. op' \in WorkerStates
        BY <2>1 DEF WorkerStates
      <3> QED
        BY <2>1, <3>1, <3>2
    <2>4. Numbered' /\ CommittedLate' /\ NamedOnly' /\ CommandsAreExact'
      BY <2>1, ZenonT(60)
         DEF Numbered, CommittedLate, NamedOnly, CommandsAreExact, CancelledDidNothing,
             CancelsOnlyNamed, LatestSettingWins, Threads, WorkerStates
    <2>5. Held'
      BY <1>1, <2>1, ZenonT(60) DEF Held, Busy, SettingQueued, Threads, WorkerStates
    <2>6. WantedIsOnItsWay'
      BY <1>1, <2>1 DEF WantedIsOnItsWay, Busy, SettingQueued, Threads, WorkerStates
    <2> QED
      BY <2>3, <2>4, <2>5, <2>6
  <1>2. CASE op.start = None /\ op.phase = "Running"
    <2>1. /\ thr' = [thr EXCEPT !.pc = "recv"]
          /\ thr.pc = "take" /\ UNCHANGED <<op, co, ui, calls, hist>>
      BY <1>2 DEF Take
    <2>2. TypeInv' /\ Numbered' /\ CommittedLate' /\ NamedOnly' /\ CommandsAreExact'
      BY <2>1, ZenonT(60)
         DEF Numbered, CommittedLate, NamedOnly, CommandsAreExact, CancelledDidNothing,
             CancelsOnlyNamed, LatestSettingWins, Threads
    <2>3. Held' /\ WantedIsOnItsWay'
      BY <2>1, ZenonT(60) DEF Held, WantedIsOnItsWay, Busy, SettingQueued, Threads
    <2> QED
      BY <2>2, <2>3
  <1>3. CASE op.start = None /\ op.phase # "Running"
    <2>1. /\ thr' = [thr EXCEPT !.pc = "gone"] /\ op' = Stopped /\ co' = Close(co)
          /\ thr.pc = "take" /\ UNCHANGED <<ui, calls, hist>>
      BY <1>3 DEF Take
    <2>2. op.phase = "Stopping" /\ hist.spoiled
      BY <1>3, <2>1 DEF Held, WorkerStates
    <2>3. TypeInv'
      <3>1. thr' \in Threads
        BY <2>1 DEF Threads
      <3>2. op' \in WorkerStates
        BY <2>1, ZenonT(60) DEF Stopped, WorkerStates
      <3> QED
        BY <2>1, <3>1, <3>2, ClosedCoordinator
    <2>4. /\ op'.phase = "Stopped" /\ op'.start = None /\ op'.follow = None
          /\ op'.latest = op.latest
      BY <2>1, <2>2 DEF Stopped, WorkerStates
    <2>5. Numbered' /\ NamedOnly'
      BY <2>1, <2>4, ClosedCoordinator DEF Numbered, NamedOnly
    <2>6. Held'
      BY <2>1, <2>2, <2>4, ClosedCoordinator DEF Held, Busy, SettingQueued, Threads
    <2>7. CommittedLate'
      BY <2>1, ClosedCoordinator DEF CommittedLate, Held, Busy, Threads
    <2>8. CommandsAreExact' /\ WantedIsOnItsWay'
      BY <2>1, <2>2, <2>4, ClosedCoordinator DEF CommandsAreExact, CancelledDidNothing,
         CancelsOnlyNamed, LatestSettingWins, WantedIsOnItsWay
    <2> QED
      BY <2>3, <2>5, <2>6, <2>7, <2>8
  <1> QED
    BY <1>1, <1>2, <1>3

\* The outcome is settled, and what is queued is promoted with its payload.
LEMMA FinishStep ==
    ASSUME IInv, Finish
    PROVE  IInv'
  <1> USE DEF IInv, TypeInv
  <1> DEFINE x == IF co.active.op = "cancelled" THEN "Cancelled" ELSE thr.x
             k == Finished(co, x)
             done == [id |-> thr.id, cmd |-> co.active.cmd, outcome |-> x]
             lost == k.active # None /\ (op.follow = None \/ op.follow.id # k.active.id)
             fault == thr.panicked \/ (op.phase = "Running" /\ lost)
  <1>1. /\ thr.pc = "finish" /\ UNCHANGED <<ui, calls, hist>>
        /\ co' = (IF fault THEN Close(k) ELSE k)
        /\ op' = (CASE fault -> [Faulted EXCEPT !.latest = done, !.follow = None]
                    [] ~fault /\ op.phase = "Running" ->
                         [op EXCEPT !.latest = done, !.follow = None,
                                    !.start = IF k.active = None THEN None ELSE op.follow]
                    [] OTHER -> [op EXCEPT !.latest = done])
        /\ thr' = [pc |-> IF fault THEN "gone" ELSE "take", id |-> 0, payload |-> Empty,
                   x |-> "", panicked |-> FALSE]
    BY ZenonT(60) DEF Finish, Promoted
  <1>2. /\ co.active \in Permits /\ co.active # None /\ thr.id = co.active.id /\ op.start = None
        /\ x \in {"Succeeded", "Failed", "Cancelled"}
        /\ x = "Cancelled" => co.active.op = "cancelled"
        /\ co.active.id \in Nat /\ thr.pc = "finish" /\ UNCHANGED <<ui, hist>>
    BY <1>1 DEF Held, Busy, Coordinators, Threads, Permits
  <1>3. done \in Outcomes /\ done # None /\ done.id = co.active.id /\ done.outcome = x
    BY <1>2 DEF Outcomes, Permits, None
  <1>4. /\ k.next = co.next /\ k.pending = None /\ k.paused = co.paused /\ k.closed = co.closed
        /\ co.pending = None => k.active = None
        /\ co.pending # None =>
             k.active = Permit(co.pending.id, co.pending.cmd)
    BY DEF Finished, Followed, Coordinators
  <1>5. co.pending # None =>
          /\ co.pending.id \in Nat /\ k.active \in Permits /\ k.active # None
          /\ k.active.id = co.pending.id /\ k.active.cmd = co.pending.cmd /\ k.active.op = "running"
    BY <1>4 DEF Coordinators, Queued, Permits, Permit, None
  <1>6. k \in Coordinators
    <2>1. k.active \in Permits \cup {None}
      BY <1>4, <1>5
    <2>2. (IF x # "Failed" THEN co.retryable
           ELSE IF co.active.cmd \in Retryable THEN [cmd |-> co.active.cmd] ELSE None)
             \in Retries \cup {None}
      BY DEF Coordinators, Retries
    <2>3. k = [co EXCEPT
                 !.retryable = IF x # "Failed" THEN co.retryable
                               ELSE IF co.active.cmd \in Retryable THEN [cmd |-> co.active.cmd]
                               ELSE None,
                 !.active = Followed(co), !.pending = None]
      BY DEF Finished
    <2>4. Followed(co) \in Permits \cup {None}
      BY <2>1, <2>3, ZenonT(60) DEF Coordinators
    <2> HIDE DEF x, k
    <2> QED
      BY <2>2, <2>3, <2>4, ZenonT(60) DEF Coordinators
  <1>7. k.active = None /\ ~hist.spoiled /\ hist.wanted # None => hist.applied = hist.wanted
    BY <1>1, <1>2, <1>4, <1>5, ZenonT(60) DEF WantedIsOnItsWay, SettingQueued
  <1>8. x = "Cancelled" => co.active.id \notin hist.committed
    BY <1>1, <1>2 DEF CommittedLate
  <1> HIDE DEF x, k, done, fault, lost
  <1>9. CASE fault
    <2>1. /\ co' = Close(k) /\ op' = [Faulted EXCEPT !.latest = done, !.follow = None]
          /\ thr'.pc = "gone"
      BY <1>1, <1>9
    <2>2. /\ op'.phase = "Faulted" /\ op'.start = None /\ op'.follow = None /\ op'.latest = done
      BY <2>1 DEF Faulted, WorkerStates
    <2>3. TypeInv'
      <3>1. op' \in WorkerStates
        BY <2>1, <1>3, ZenonT(60) DEF Faulted, WorkerStates
      <3>2. thr' \in Threads
        BY <1>1 DEF Threads
      <3> QED
        BY <3>1, <3>2, <2>1, <1>1, <1>6, ClosedCoordinator
    <2>4. /\ co'.closed /\ co'.pending = None /\ co'.next = co.next
          /\ co'.active = None <=> co.pending = None
          /\ co.pending # None =>
               co'.active.id = co.pending.id /\ co'.active.op = "cancelled"
      BY <1>4, <1>5, <1>6, <2>1, ClosedCoordinator
    <2>5. Numbered' /\ NamedOnly'
      BY <1>2, <1>3, <1>5, <2>2, <2>4 DEF Numbered, NamedOnly
    <2>6. Held'
      BY <2>1, <2>2, <2>4 DEF Held, Busy, SettingQueued
    <2>7. CommittedLate'
      BY <1>2, <2>1, <2>4 DEF CommittedLate
    <2>8. CommandsAreExact' /\ WantedIsOnItsWay'
      BY <1>2, <1>3, <1>4, <1>5, <1>7, <1>8, <2>1, <2>2, <2>4 DEF CommandsAreExact,
         CancelledDidNothing, CancelsOnlyNamed, LatestSettingWins, WantedIsOnItsWay, SettingQueued
    <2> QED
      BY <2>3, <2>5, <2>6, <2>7, <2>8
  <1>10. CASE ~fault /\ op.phase = "Running"
    <2>1. co' = k /\ thr'.pc = "take" /\ UNCHANGED <<ui, hist>>
      BY <1>1, <1>10
    <2>10. op' = [op EXCEPT !.latest = done, !.follow = None,
                            !.start = IF k.active = None THEN None ELSE op.follow]
      BY <1>1, <1>10
    <2>2. k.active # None => op.follow # None /\ op.follow \in Tasks /\ op.follow.id = k.active.id
      BY <1>10 DEF WorkerStates, fault, lost
    <2>3. /\ op'.phase = "Running" /\ op'.follow = None /\ op'.latest = done
          /\ op'.start = IF k.active = None THEN None ELSE op.follow
      BY <1>10, <2>10 DEF WorkerStates
    <2>4. TypeInv'
      <3>1. op' \in WorkerStates
        BY <2>10, <2>2, <1>3, ZenonT(60) DEF WorkerStates
      <3>2. thr' \in Threads
        BY <1>1 DEF Threads
      <3> QED
        BY <3>1, <3>2, <2>1, <1>1, <1>6
    <2>5. Numbered' /\ NamedOnly'
      BY <1>2, <1>3, <1>4, <1>5, <2>1, <2>3 DEF Numbered, NamedOnly
    <2>6. Held'
      BY <1>4, <1>5, <1>10, <2>1, <2>2, <2>3 DEF Held, Busy, SettingQueued
    <2>7. CommittedLate'
      BY <1>4, <1>5, <2>1 DEF CommittedLate
    <2>8. CommandsAreExact'
      BY <1>3, <1>4, <1>5, <1>7, <1>8, <2>1, <2>3 DEF CommandsAreExact,
         CancelledDidNothing, CancelsOnlyNamed, LatestSettingWins
    <2>9. WantedIsOnItsWay'
      <3>1. CASE SettingQueued
        BY <3>1, <1>2, <1>4, <1>5, <2>1, <2>2, <2>3 DEF WantedIsOnItsWay, SettingQueued, Busy,
           CommittedLate
      <3>2. CASE ~SettingQueued
        BY <3>2, <1>2, <1>4, <1>5, <1>7, <2>1, <2>3 DEF WantedIsOnItsWay, SettingQueued
      <3> QED
        BY <3>1, <3>2
    <2> QED
      BY <2>4, <2>5, <2>6, <2>7, <2>8, <2>9
  <1>11. CASE ~fault /\ op.phase # "Running"
    <2>1. co' = k /\ thr'.pc = "take" /\ op' = [op EXCEPT !.latest = done]
      BY <1>1, <1>11
    <2>2. op.phase = "Stopping" /\ hist.spoiled /\ co.closed /\ co.pending = None
      BY <1>1, <1>11 DEF Held, Shut, WorkerStates, Coordinators
    <2>3. op'.phase = "Stopping" /\ op'.start = None /\ op'.latest = done
      BY <1>2, <2>1, <2>2 DEF WorkerStates
    <2>4. TypeInv'
      <3>1. op' \in WorkerStates
        BY <2>1, <1>3 DEF WorkerStates
      <3>2. thr' \in Threads
        BY <1>1 DEF Threads
      <3> QED
        BY <3>1, <3>2, <2>1, <1>1, <1>6
    <2>5. Numbered' /\ NamedOnly' /\ CommittedLate'
      BY <1>1, <1>2, <1>3, <1>4, <2>1, <2>2, <2>3, ZenonT(60)
         DEF Numbered, NamedOnly, CommittedLate
    <2>6. Held'
      BY <1>1, <1>4, <2>1, <2>2, <2>3, ZenonT(60) DEF Held, Busy, SettingQueued
    <2>7. CommandsAreExact' /\ WantedIsOnItsWay'
      BY <1>1, <1>3, <1>4, <1>8, <2>1, <2>2, <2>3, ZenonT(60) DEF CommandsAreExact,
         CancelledDidNothing, CancelsOnlyNamed, LatestSettingWins, WantedIsOnItsWay
    <2> QED
      BY <2>4, <2>5, <2>6, <2>7
  <1> QED
    BY <1>9, <1>10, <1>11

-----------------------------------------------------------------------------
(* The steps of the other threads. *)

\* A step that changes nothing keeps the invariant.
LEMMA Stutters ==
    ASSUME IInv, UNCHANGED <<co, op, thr, ui, hist>>
    PROVE  IInv'
  <1>1. TypeInv' /\ Numbered' /\ CommittedLate' /\ NamedOnly'
    BY DEF IInv, TypeInv, Numbered, CommittedLate, NamedOnly
  <1>2. Held'
    BY ZenonT(60) DEF IInv, Held, Busy, SettingQueued
  <1>3. CommandsAreExact'
    BY DEF IInv, CommandsAreExact, CancelledDidNothing, CancelsOnlyNamed, LatestSettingWins
  <1>4. WantedIsOnItsWay'
    BY DEF IInv, WantedIsOnItsWay, Busy, SettingQueued
  <1> QED
    BY <1>1, <1>2, <1>3, <1>4 DEF IInv

\* A command that starts at once: its task waits for the worker.  A setting is the one
\* wanted now; another command leaves the settings alone.
LEMMA StartedStep ==
    ASSUME IInv, NEW c \in Commands, NEW payload \in Payloads \cup {Empty},
           ~Shut(co), co.active = None,
           co' = Admitted(co, c, "Started"),
           op' = [op EXCEPT !.start = Task(co.next, payload), !.wake = TRUE],
           \/ c \notin Replaceable /\ hist' = hist
           \/ /\ c \in Replaceable
              /\ hist' = [hist EXCEPT !.wanted = [payload |-> payload], !.spoiled = FALSE],
           UNCHANGED <<thr, ui>>
    PROVE  IInv'
  <1> USE DEF IInv, TypeInv
  <1>1. /\ co'.next = co.next + 1 /\ co'.active = Permit(co.next, c) /\ co'.pending = co.pending
        /\ co'.paused = co.paused /\ co'.closed = co.closed
        /\ co' = [co EXCEPT !.next = co.next + 1, !.active = Permit(co.next, c)]
    BY ZenonT(60) DEF Admitted, Coordinators
  <1>2. /\ co.next \in Nat /\ co.next + 1 \in Nat \ {0} /\ co'.active \in Permits /\ co'.active # None
        /\ co'.active.id = co.next /\ co'.active.cmd = c /\ co'.active.op = "running"
    BY <1>1 DEF Permit, Permits, Coordinators, None
  <1>3. Task(co.next, payload) \in Tasks /\ Task(co.next, payload) # None
    BY <1>2 DEF Task, Tasks, None
  <1>4. /\ op'.phase = op.phase /\ op'.follow = op.follow /\ op'.latest = op.latest
        /\ op'.start # None /\ op'.start.id = co.next /\ op'.start.payload = payload
    BY <1>3 DEF WorkerStates, Task
  <1>5. /\ hist'.committed = hist.committed /\ hist'.named = hist.named /\ hist'.applied = hist.applied
        /\ c \in Replaceable => hist'.wanted.payload = payload
        /\ c \notin Replaceable => hist' = hist
    <2>1. CASE c \in Replaceable
      <3>1. hist' = [hist EXCEPT !.wanted = [payload |-> payload], !.spoiled = FALSE]
        BY <2>1
      <3>2. hist'.wanted = [payload |-> payload]
        BY <3>1 DEF Histories
      <3> QED
        BY <2>1, <3>1, <3>2 DEF Histories
    <2>2. CASE c \notin Replaceable
      BY <2>2
    <2> QED
      BY <2>1, <2>2
  <1>6. ~Busy /\ co.pending = None /\ co.next \notin hist.committed /\ ~co.closed /\ thr.pc # "gone"
    <2>1. ~co.closed /\ thr.pc # "gone"
      BY DEF Held, Shut
    <2>2. ~Busy /\ co.pending = None
      BY DEF Held, Numbered
    <2>3. co.next \notin hist.committed
      BY <1>2 DEF Numbered
    <2> QED
      BY <2>1, <2>2, <2>3
  <1>7. TypeInv'
    <2>1. co' \in Coordinators
      BY <1>1, <1>2, ZenonT(60) DEF Coordinators
    <2>2. op' \in WorkerStates
      BY <1>3, ZenonT(60) DEF WorkerStates
    <2>3. [payload |-> payload] \in Setting
      BY DEF Setting
    <2>4. hist' \in Histories
      BY <2>3, ZenonT(60) DEF Histories
    <2> QED
      BY <2>1, <2>2, <2>4
  <1>8. Numbered' /\ NamedOnly'
    BY <1>1, <1>2, <1>4, <1>5, <1>6 DEF Numbered, NamedOnly, Coordinators, Histories, WorkerStates,
       Outcomes
  <1>9. Held'
    BY <1>1, <1>2, <1>4, <1>5, <1>6, ZenonT(60) DEF Held, Busy, SettingQueued, Shut
  <1>10. CommittedLate'
    BY <1>1, <1>2, <1>5, <1>6 DEF CommittedLate
  <1>11. CommandsAreExact'
    BY <1>2, <1>4, <1>5 DEF CommandsAreExact, CancelledDidNothing, CancelsOnlyNamed,
       LatestSettingWins
  <1>12. WantedIsOnItsWay'
    BY <1>1, <1>2, <1>4, <1>5, <1>6 DEF WantedIsOnItsWay, SettingQueued, Busy
  <1> QED
    BY <1>7, <1>8, <1>9, <1>10, <1>11, <1>12

\* A command that is queued: a setting with its payload, any other with or without one.
LEMMA QueuedStep ==
    ASSUME IInv, NEW c \in Commands, NEW payload \in Payloads \cup {Empty},
           ~Shut(co), co.active # None, co.pending = None,
           co' = Admitted(co, c, "Queued"),
           \/ c \notin Replaceable /\ op' = op /\ hist' = hist
           \/ /\ c \notin Replaceable
              /\ op' = [op EXCEPT !.follow = Task(co.next, payload)]
              /\ hist' = hist
           \/ /\ c \in Replaceable
              /\ op' = [op EXCEPT !.follow = Task(co.next, payload)]
              /\ hist' = [hist EXCEPT !.wanted = [payload |-> payload], !.spoiled = FALSE],
           UNCHANGED <<thr, ui>>
    PROVE  IInv'
  <1> USE DEF IInv, TypeInv
  <1>1. /\ co'.next = co.next + 1 /\ co'.pending = [id |-> co.next, cmd |-> c]
        /\ co'.active = co.active /\ co'.paused = co.paused /\ co'.closed = co.closed
        /\ co' = [co EXCEPT !.next = co.next + 1, !.pending = [id |-> co.next, cmd |-> c]]
    BY ZenonT(60) DEF Admitted, Coordinators
  <1>2. /\ co.next \in Nat /\ co.next + 1 \in Nat \ {0} /\ co'.pending \in Queued /\ co'.pending # None
        /\ co'.pending.id = co.next /\ co'.pending.cmd = c
    BY <1>1 DEF Queued, Coordinators, None
  <1>3. Task(co.next, payload) \in Tasks /\ Task(co.next, payload) # None
    BY <1>2 DEF Task, Tasks, None
  <1>4. /\ op'.phase = op.phase /\ op'.start = op.start /\ op'.latest = op.latest
        /\ c \in Replaceable =>
             op'.follow # None /\ op'.follow.id = co.next /\ op'.follow.payload = payload
    BY <1>3 DEF WorkerStates, Task
  <1>5. /\ hist'.committed = hist.committed /\ hist'.named = hist.named /\ hist'.applied = hist.applied
        /\ c \in Replaceable => hist'.wanted.payload = payload
        /\ c \notin Replaceable => hist' = hist
    <2>1. CASE c \in Replaceable
      <3>1. hist' = [hist EXCEPT !.wanted = [payload |-> payload], !.spoiled = FALSE]
        BY <2>1
      <3>2. hist'.wanted = [payload |-> payload]
        BY <3>1 DEF Histories
      <3> QED
        BY <2>1, <3>1, <3>2 DEF Histories
    <2>2. CASE c \notin Replaceable
      BY <2>2
    <2> QED
      BY <2>1, <2>2
  <1>6. /\ co.active \in Permits /\ co.active.id \in Nat /\ co.next \notin hist.committed
        /\ ~co.closed /\ thr.pc # "gone"
    <2>1. ~co.closed /\ thr.pc # "gone"
      BY DEF Held, Shut
    <2>2. co.active \in Permits /\ co.active.id \in Nat
      BY DEF Coordinators, Permits
    <2>3. co.next \notin hist.committed
      BY <1>2 DEF Numbered
    <2> QED
      BY <2>1, <2>2, <2>3
  <1>7. TypeInv'
    <2>1. co' \in Coordinators
      BY <1>1, <1>2, ZenonT(60) DEF Coordinators
    <2>2. op' \in WorkerStates
      BY <1>3 DEF WorkerStates
    <2>3. [payload |-> payload] \in Setting
      BY DEF Setting
    <2>4. hist' \in Histories
      BY <2>3, ZenonT(60) DEF Histories
    <2> QED
      BY <2>1, <2>2, <2>4
  <1>8. Numbered' /\ NamedOnly'
    BY <1>1, <1>2, <1>4, <1>5, <1>6 DEF Numbered, NamedOnly, Coordinators, Histories, WorkerStates,
       Outcomes
  <1>9. Held'
    <2>1. hist.spoiled => hist'.spoiled \/ op.phase = "Running"
      BY <1>5, <1>6 DEF Held
    <2> QED
      BY <1>1, <1>2, <1>4, <1>6, <2>1, ZenonT(60) DEF Held, Busy, SettingQueued, Shut
  <1>10. CommittedLate'
    BY <1>1, <1>2, <1>5, <1>6 DEF CommittedLate
  <1>11. CommandsAreExact'
    BY <1>1, <1>4, <1>5 DEF CommandsAreExact, CancelledDidNothing, CancelsOnlyNamed,
       LatestSettingWins
  <1>12. WantedIsOnItsWay'
    BY <1>1, <1>2, <1>4, <1>5, <1>6 DEF WantedIsOnItsWay, SettingQueued, Busy
  <1> QED
    BY <1>7, <1>8, <1>9, <1>10, <1>11, <1>12

\* A setting that joins the queued one gives it its payload.
LEMMA ReplacedStep ==
    ASSUME IInv, NEW payload \in Payloads \cup {Empty}, SettingQueued,
           op' = [op EXCEPT !.follow = ReplacePayload(op.follow, payload)],
           hist' = [hist EXCEPT !.wanted = [payload |-> payload], !.spoiled = FALSE],
           ~Shut(co), UNCHANGED <<co, thr, ui>>
    PROVE  IInv'
  <1> USE DEF IInv, TypeInv
  <1>1. op.follow \in Tasks /\ ~co.closed
    BY DEF Held, WorkerStates, Shut
  <1>2. /\ ReplacePayload(op.follow, payload) \in Tasks /\ ReplacePayload(op.follow, payload) # None
        /\ ReplacePayload(op.follow, payload).id = op.follow.id
        /\ ReplacePayload(op.follow, payload).payload = payload
    BY <1>1 DEF ReplacePayload, Tasks, None
  <1>3. /\ op'.follow # None /\ op'.follow.id = op.follow.id /\ op'.follow.payload = payload
        /\ op'.phase = op.phase /\ op'.start = op.start /\ op'.latest = op.latest
    BY <1>2 DEF WorkerStates
  <1>4. hist'.wanted = [payload |-> payload]
    BY DEF Histories
  <1>5. /\ hist'.committed = hist.committed /\ hist'.named = hist.named
        /\ hist'.wanted.payload = payload
    BY <1>4 DEF Histories
  <1>6. TypeInv'
    <2>1. op' \in WorkerStates
      BY <1>2 DEF WorkerStates
    <2>2. [payload |-> payload] \in Setting
      BY DEF Setting
    <2>3. hist' \in Histories
      BY <2>2, ZenonT(60) DEF Histories
    <2> QED
      BY <2>1, <2>3
  <1>7. Numbered' /\ CommittedLate' /\ NamedOnly'
    BY <1>3, <1>5 DEF Numbered, CommittedLate, NamedOnly
  <1>8. Held'
    BY <1>1, <1>3, ZenonT(60) DEF Held, Busy, SettingQueued
  <1>9. CommandsAreExact' /\ WantedIsOnItsWay'
    BY <1>3, <1>5 DEF CommandsAreExact, CancelledDidNothing, CancelsOnlyNamed, LatestSettingWins,
       WantedIsOnItsWay, SettingQueued, Numbered
  <1> QED
    BY <1>6, <1>7, <1>8, <1>9

\* submit, whatever the admission it meets.
LEMMA SubmitRequestStep ==
    ASSUME IInv, NEW c \in Commands, NEW payload \in Payloads \cup {Empty},
           SubmitRequest(c, payload)
    PROVE  IInv'
  <1> DEFINE a == IF op.phase # "Running" THEN "Closed" ELSE Admission(co, c, c \in Replaceable)
  <1>1. /\ a \in {"Closed", "Started", "Busy", "JoinsActive", "Queued", "JoinsPending"}
        /\ a = "Started" => ~Shut(co) /\ co.active = None
        /\ a = "Queued" => ~Shut(co) /\ co.active # None /\ co.pending = None
        /\ a = "JoinsPending" => ~Shut(co) /\ co.pending # None /\ co.pending.cmd = c
    <2>1. CASE op.phase # "Running"
      BY <2>1
    <2>2. CASE op.phase = "Running"
      <3> DEFINE b == Admission(co, c, c \in Replaceable)
      <3>1. a = b
        BY <2>2
      <3>2. /\ b \in {"Closed", "Started", "Busy", "JoinsActive", "Queued", "JoinsPending"}
            /\ b = "Started" => ~Shut(co) /\ co.active = None
            /\ b = "Queued" => ~Shut(co) /\ co.active # None /\ co.pending = None
            /\ b = "JoinsPending" => ~Shut(co) /\ co.pending # None /\ co.pending.cmd = c
        BY DEF Admission
      <3> QED
        BY <3>1, <3>2
    <2> QED
      BY <2>1, <2>2
  <1>2. /\ co' = Admitted(co, c, a)
        /\ op' = (CASE a = "Started" ->
                         [op EXCEPT !.start = Task(co.next, payload), !.wake = TRUE]
                    [] a = "Queued" -> [op EXCEPT !.follow = Task(co.next, payload)]
                    [] a = "JoinsPending" /\ c \in Replaceable ->
                         [op EXCEPT !.follow = ReplacePayload(@, payload)]
                    [] OTHER -> op)
        /\ hist' = IF c \in Replaceable /\ a \in {"Started", "Queued", "JoinsPending"}
                   THEN [hist EXCEPT !.wanted = [payload |-> payload], !.spoiled = FALSE]
                   ELSE hist
        /\ UNCHANGED <<thr, ui>>
    BY DEF SubmitRequest
  <1> HIDE DEF a
  <1>3. CASE a = "Started"
    BY <1>1, <1>2, <1>3, StartedStep, ZenonT(60)
  <1>4. CASE a = "Queued"
    BY <1>1, <1>2, <1>4, QueuedStep, ZenonT(60)
  <1>5. CASE a = "JoinsPending" /\ c \in Replaceable
    <2>1. co' = co
      BY <1>2, <1>5 DEF Admitted
    <2> QED
      BY <1>1, <1>2, <1>5, <2>1, ReplacedStep DEF SettingQueued
  <1>6. CASE a \notin {"Started", "Queued"} /\ ~(a = "JoinsPending" /\ c \in Replaceable)
    BY <1>2, <1>6, Stutters DEF Admitted
  <1> QED
    BY <1>3, <1>4, <1>5, <1>6

\* A retry is never a setting.
LEMMA RetryLastStep ==
    ASSUME IInv, RetryLast
    PROVE  IInv'
  <1> DEFINE c == co.retryable.cmd
             a == Admission(co, c, FALSE)
  <1>1. c \in Commands /\ c \notin Replaceable
    BY NoSettingIsRetried DEF IInv, TypeInv, Coordinators, Retries, RetryLast, Commands
  <1>2. /\ a \in {"Closed", "Started", "Busy", "JoinsActive", "Queued", "JoinsPending"}
        /\ a = "Started" => ~Shut(co) /\ co.active = None
        /\ a = "Queued" => ~Shut(co) /\ co.active # None /\ co.pending = None
    BY AdmissionAnswers, ZenonT(60)
  <1>3. /\ co' = Admitted(co, c, a)
        /\ op' = IF a # "Started" THEN op
                 ELSE [op EXCEPT !.start = Task(co.next, Empty), !.wake = TRUE]
        /\ UNCHANGED <<thr, ui, hist>>
    BY DEF RetryLast
  <1> HIDE DEF a, c
  <1>4. CASE a = "Started"
    BY <1>1, <1>2, <1>3, <1>4, StartedStep, ZenonT(60)
  <1>5. CASE a = "Queued"
    BY <1>1, <1>2, <1>3, <1>5, QueuedStep
  <1>6. CASE a \notin {"Started", "Queued"}
    BY <1>3, <1>6, Stutters DEF Admitted
  <1> QED
    BY <1>4, <1>5, <1>6

\* The first lock of cancel_active: what runs is named.
LEMMA NameActiveStep ==
    ASSUME IInv, NameActive
    PROVE  IInv'
  <1>a. co.active \in Permits /\ co.active.id \in Nat
    BY DEF IInv, TypeInv, NameActive, Coordinators, Permits
  <1>1. TypeInv'
    <2>1. hist' \in Histories
      BY <1>a, ZenonT(60) DEF IInv, TypeInv, NameActive, None, Histories
    <2> QED
      BY <1>a, <2>1 DEF IInv, TypeInv, NameActive
  <1>2. Numbered'
    BY <1>a DEF IInv, TypeInv, NameActive, None, Numbered, Held, Busy, Coordinators,
           WorkerStates, Threads, Histories
  <1>3. Held'
    BY <1>a, ZenonT(60)
       DEF IInv, TypeInv, NameActive, None, Held, Busy, SettingQueued, Shut, Numbered,
           Coordinators, WorkerStates, Threads, Histories
  <1>4. CommittedLate' /\ NamedOnly'
    BY <1>a, ZenonT(60)
       DEF IInv, TypeInv, NameActive, None, CommittedLate, NamedOnly, Held, Busy, Numbered,
           Coordinators, WorkerStates, Threads, Histories
  <1>5. CommandsAreExact'
    BY <1>a, ZenonT(60)
       DEF IInv, TypeInv, NameActive, None, CommandsAreExact, CancelledDidNothing,
           CancelsOnlyNamed, LatestSettingWins, Held, Busy, NamedOnly, CommittedLate,
           WantedIsOnItsWay, Coordinators, WorkerStates, Threads, Histories
  <1>6. WantedIsOnItsWay'
    BY <1>a, ZenonT(60)
       DEF IInv, TypeInv, NameActive, None, WantedIsOnItsWay, Held, Busy, SettingQueued,
           CommittedLate, Coordinators, WorkerStates, Threads, Histories
  <1> QED
    BY <1>1, <1>2, <1>3, <1>4, <1>5, <1>6 DEF IInv

\* The owner admits commands again.
LEMMA ResumeAdmissionStep ==
    ASSUME IInv, ResumeAdmission
    PROVE  IInv'
  <1>1. TypeInv'
    <2>1. co' \in Coordinators
      BY ZenonT(60) DEF IInv, TypeInv, ResumeAdmission, Coordinators
    <2> QED
      BY <2>1 DEF IInv, TypeInv, ResumeAdmission
  <1>2. Numbered'
    BY DEF IInv, TypeInv, ResumeAdmission, Numbered, Held, Busy, Coordinators, WorkerStates,
           Threads, Histories
  <1>3. Held'
    BY ZenonT(60)
       DEF IInv, TypeInv, ResumeAdmission, Held, Busy, SettingQueued, Shut, Numbered,
           Coordinators, WorkerStates, Threads, Histories
  <1>4. CommittedLate' /\ NamedOnly'
    BY DEF IInv, TypeInv, ResumeAdmission, CommittedLate, NamedOnly, Held, Busy, Numbered,
           Coordinators, WorkerStates, Threads, Histories
  <1>5. CommandsAreExact'
    BY ZenonT(60) DEF IInv, TypeInv, ResumeAdmission, CommandsAreExact, CancelledDidNothing,
           CancelsOnlyNamed, LatestSettingWins, Held, Busy, NamedOnly, CommittedLate,
           WantedIsOnItsWay, Coordinators, WorkerStates, Threads, Histories
  <1>6. WantedIsOnItsWay'
    BY ZenonT(60)
       DEF IInv, TypeInv, ResumeAdmission, WantedIsOnItsWay, Held, Busy, SettingQueued,
           CommittedLate, Coordinators, WorkerStates, Threads, Histories
  <1> QED
    BY <1>1, <1>2, <1>3, <1>4, <1>5, <1>6 DEF IInv

\* A pause drops what is queued, with its payload.
LEMMA PauseAdmissionStep ==
    ASSUME IInv, PauseAdmission
    PROVE  IInv'
  <1> USE DEF IInv, TypeInv
  <1>1. /\ co' = [co EXCEPT !.paused = TRUE, !.pending = None]
        /\ op' = [op EXCEPT !.follow = None]
        /\ hist' = [hist EXCEPT !.spoiled = @ \/ co.pending # None, !.dropped = @ \cup Dropped]
        /\ UNCHANGED <<thr, ui>>
    BY DEF PauseAdmission
  <1>2. /\ co'.next = co.next /\ co'.active = co.active /\ co'.pending = None
        /\ co'.closed = co.closed
    BY <1>1 DEF Coordinators
  <1>3. /\ op'.phase = op.phase /\ op'.start = op.start /\ op'.latest = op.latest
    BY <1>1 DEF WorkerStates
  <1>4. /\ hist'.committed = hist.committed /\ hist'.named = hist.named
        /\ hist'.wanted = hist.wanted /\ hist'.applied = hist.applied
        /\ hist.spoiled => hist'.spoiled
        /\ co.pending # None => hist'.spoiled
    BY <1>1, ZenonT(60) DEF Histories
  <1>5. TypeInv'
    <2>1. co' \in Coordinators
      BY <1>1, ZenonT(60) DEF Coordinators
    <2>2. op' \in WorkerStates
      BY <1>1 DEF WorkerStates
    <2>3. Dropped \in SUBSET Nat
      BY DEF Dropped, Coordinators, Queued
    <2>4. hist' \in Histories
      BY <1>1, <2>3, ZenonT(60) DEF Histories
    <2> QED
      BY <1>1, <2>1, <2>2, <2>4
  <1>6. Numbered' /\ CommittedLate' /\ NamedOnly'
    BY <1>1, <1>2, <1>3, <1>4 DEF Numbered, CommittedLate, NamedOnly
  <1>7. Held'
    BY <1>1, <1>2, <1>3, <1>4, ZenonT(60) DEF Held, Busy, SettingQueued
  <1>8. CommandsAreExact'
    BY <1>1, <1>2, <1>3, <1>4 DEF CommandsAreExact, CancelledDidNothing, CancelsOnlyNamed,
       LatestSettingWins
  <1>9. WantedIsOnItsWay'
    BY <1>1, <1>2, <1>3, <1>4 DEF WantedIsOnItsWay, SettingQueued, Busy
  <1> QED
    BY <1>5, <1>6, <1>7, <1>8, <1>9

\* The second lock of cancel_active: the named command, whatever became of it.
LEMMA CancelNamedStep ==
    ASSUME IInv, CancelNamed
    PROVE  IInv'
  <1> USE DEF IInv, TypeInv
  <1>1. /\ ui # 0 /\ ui' = 0 /\ co' = Cancel(co, ui) /\ UNCHANGED thr
        /\ op' = IF op.follow # None /\ op.follow.id = ui /\ co' # co
                 THEN [op EXCEPT !.follow = None] ELSE op
        /\ hist' = [hist EXCEPT !.spoiled = @ \/ co' # co, !.dropped = @ \cup Dropped]
    BY DEF CancelNamed
  <1>2. /\ op'.phase = op.phase /\ op'.start = op.start /\ op'.latest = op.latest
        /\ op'.follow = op.follow \/ (op.follow.id = ui /\ op'.follow = None)
        /\ op' \in WorkerStates
    BY <1>1 DEF WorkerStates
  <1>3. /\ hist'.committed = hist.committed /\ hist'.named = hist.named
        /\ hist'.wanted = hist.wanted /\ hist'.applied = hist.applied
        /\ hist.spoiled => hist'.spoiled
        /\ co' # co => hist'.spoiled
    BY <1>1, ZenonT(60) DEF Histories
  <1>4. ui \in hist.named
    BY <1>1 DEF NamedOnly
  <1>5. hist' \in Histories
    <2>1. Dropped \in SUBSET Nat
      BY DEF Dropped, Coordinators, Queued
    <2> QED
      BY <1>1, <2>1, ZenonT(60) DEF Histories
  <1>6. CASE co.active # None /\ co.active.id = ui
    <2>1. co.active \in Permits /\ co' = [co EXCEPT !.active = Cancelled(co.active)]
      <3>1. co.active \in Permits
        BY <1>6 DEF Coordinators
      <3>2. Cancel(co, ui) = [co EXCEPT !.active = Cancelled(co.active)]
        <4>1. co.pending # None => co.active.id \in Nat /\ co.pending.id \in Nat
          BY <3>1 DEF Coordinators, Queued, Permits
        <4>2. co.pending # None => co.pending.id # ui
          BY <1>6, <4>1 DEF Numbered
        <4> QED
          BY <1>6, <4>2 DEF Cancel
      <3> QED
        BY <1>1, <3>1, <3>2
    <2>2. /\ Cancelled(co.active) \in Permits /\ Cancelled(co.active) # None
          /\ Cancelled(co.active).id = ui /\ Cancelled(co.active).cmd = co.active.cmd
          /\ co.active.op = "irreversible" => Cancelled(co.active) = co.active
          /\ co.active.op # "irreversible" => Cancelled(co.active).op = "cancelled"
      BY <1>6, <2>1, CancelledPermit
    <2>3. /\ co'.next = co.next /\ co'.active = Cancelled(co.active) /\ co'.pending = co.pending
          /\ co'.closed = co.closed /\ co'.paused = co.paused
      BY <2>1 DEF Coordinators
    <2>4. TypeInv'
      <3>1. co' \in Coordinators
        BY <2>1, <2>2 DEF Coordinators
      <3> QED
        BY <1>1, <1>2, <1>5, <3>1
    <2>5. Numbered' /\ NamedOnly'
      BY <1>1, <1>2, <1>3, <1>6, <2>2, <2>3 DEF Numbered, NamedOnly
    <2>6. Held'
      <3>1. SettingQueued => op'.follow # None /\ op'.follow.id = co.pending.id
        <4>1. co.pending # None => co.active.id \in Nat /\ co.pending.id \in Nat
          BY <2>1 DEF Coordinators, Queued, Permits
        <4>2. co.pending # None => co.pending.id # ui
          BY <1>6, <4>1 DEF Numbered
        <4> QED
          BY <1>2, <4>2 DEF Held, SettingQueued
      <3>2. SettingQueued' <=> SettingQueued
        BY <2>3 DEF SettingQueued
      <3>3. (co.pending # None => ~Shut(co)) => (co'.pending # None => ~Shut(co)')
        BY <2>3 DEF Shut
      <3>4. thr' = thr /\ (Busy' <=> Busy)
        BY <1>1 DEF Busy
      <3> QED
        BY <1>2, <1>3, <1>6, <2>2, <2>3, <3>1, <3>2, <3>3, <3>4, ZenonT(60) DEF Held
    <2>7. CommittedLate'
      BY <1>1, <1>3, <1>6, <2>2, <2>3 DEF CommittedLate
    <2>8. CommandsAreExact'
      BY <1>2, <1>3, <1>4, <2>2, <2>3 DEF CommandsAreExact, CancelledDidNothing, CancelsOnlyNamed,
         LatestSettingWins
    <2>9. WantedIsOnItsWay'
      <3>1. CASE co' = co
        <4>1. op' = op
          BY <1>1, <3>1
        <4> QED
          BY <1>1, <1>3, <3>1, <4>1 DEF WantedIsOnItsWay, SettingQueued, Busy
      <3>2. CASE co' # co
        BY <1>3, <3>2 DEF WantedIsOnItsWay
      <3> QED
        BY <3>1, <3>2
    <2> QED
      BY <2>4, <2>5, <2>6, <2>7, <2>8, <2>9
  <1>7. CASE ~(co.active # None /\ co.active.id = ui) /\ co.pending # None /\ co.pending.id = ui
    <2>1. co' = [co EXCEPT !.pending = None]
      BY <1>1, <1>7 DEF Cancel
    <2>2. /\ co'.next = co.next /\ co'.active = co.active /\ co'.pending = None
          /\ co'.closed = co.closed /\ co'.paused = co.paused
      BY <2>1 DEF Coordinators
    <2>3. hist'.spoiled
      BY <1>3, <1>7, <2>2
    <2>4. TypeInv'
      <3>1. co' \in Coordinators
        BY <2>1 DEF Coordinators
      <3> QED
        BY <1>1, <1>2, <1>5, <3>1
    <2>5. Numbered' /\ NamedOnly' /\ CommittedLate'
      BY <1>1, <1>2, <1>3, <2>2 DEF Numbered, NamedOnly, CommittedLate
    <2>6. Held'
      BY <1>1, <1>2, <1>3, <2>2, ZenonT(60) DEF Held, Busy, SettingQueued
    <2>7. CommandsAreExact' /\ WantedIsOnItsWay'
      BY <1>2, <1>3, <2>2, <2>3 DEF CommandsAreExact, CancelledDidNothing, CancelsOnlyNamed,
         LatestSettingWins, WantedIsOnItsWay
    <2> QED
      BY <2>4, <2>5, <2>6, <2>7
  <1>8. CASE ~(co.active # None /\ co.active.id = ui) /\ ~(co.pending # None /\ co.pending.id = ui)
    <2>1. co' = co /\ op' = op
      BY <1>1, <1>8 DEF Cancel
    <2>2. hist'.spoiled = hist.spoiled
      BY <1>1, <2>1 DEF Histories
    <2>3. TypeInv' /\ Numbered' /\ NamedOnly' /\ CommittedLate'
      BY <1>1, <1>3, <1>5, <2>1 DEF Numbered, NamedOnly, CommittedLate
    <2>4. Held'
      BY <1>1, <2>1, <2>2, ZenonT(60) DEF Held, Busy, SettingQueued
    <2>5. CommandsAreExact'
      BY <1>3, <2>1, <2>2 DEF CommandsAreExact, CancelledDidNothing, CancelsOnlyNamed,
         LatestSettingWins
    <2>6. WantedIsOnItsWay'
      BY <1>1, <1>3, <2>1, <2>2 DEF WantedIsOnItsWay, SettingQueued, Busy
    <2> QED
      BY <2>3, <2>4, <2>5, <2>6
  <1> QED
    BY <1>6, <1>7, <1>8

\* Shutdown closes the coordinator; the worker ends when it looks for its next task.
LEMMA ShutdownStep ==
    ASSUME IInv, Shutdown
    PROVE  IInv'
  <1> USE DEF IInv, TypeInv
  <1>1. op.phase = "Running" /\ co' = Close(co) /\ UNCHANGED <<thr, ui>>
    BY DEF Shutdown
  <1>2. /\ op'.phase = "Stopping" /\ op'.start = op.start /\ op'.latest = op.latest
        /\ op' \in WorkerStates
    BY ZenonT(60) DEF Shutdown, WorkerStates
  <1>3. /\ hist'.committed = hist.committed /\ hist'.named = hist.named /\ hist'.spoiled
        /\ hist' \in Histories
    BY ZenonT(60) DEF Shutdown, Histories
  <1>4. TypeInv'
    BY <1>1, <1>2, <1>3, ClosedCoordinator
  <1>5. Numbered' /\ NamedOnly'
    BY <1>1, <1>2, <1>3, ClosedCoordinator DEF Numbered, NamedOnly
  <1>6. Held'
    BY <1>1, <1>2, <1>3, ClosedCoordinator, ZenonT(60) DEF Held, Busy, SettingQueued
  <1>7. CommittedLate'
    BY <1>1, <1>3, ClosedCoordinator DEF CommittedLate
  <1>8. CommandsAreExact' /\ WantedIsOnItsWay'
    BY <1>1, <1>2, <1>3, ClosedCoordinator DEF CommandsAreExact, CancelledDidNothing,
       CancelsOnlyNamed, LatestSettingWins, WantedIsOnItsWay
  <1> QED
    BY <1>4, <1>5, <1>6, <1>7, <1>8

-----------------------------------------------------------------------------
\* Every step keeps the invariant.
LEMMA NextIInv ==
    ASSUME IInv, [Next]_vars
    PROVE  IInv'
  <1>1. CASE ThreadStep
    BY <1>1, TakeStep, RecvStep, BeginStep, EndEarlyStep, CommitStep, CommittedStep, FinishStep
       DEF ThreadStep
  <1>2. CASE UserStep
    BY <1>2, SubmitRequestStep, NameActiveStep DEF UserStep
  <1>3. CASE OwnerStep
    BY <1>3, PauseAdmissionStep, ResumeAdmissionStep, ShutdownStep DEF OwnerStep
  <1>4. CASE CancelNamed \/ RetryLast
    BY <1>4, CancelNamedStep, RetryLastStep
  <1>5. CASE UNCHANGED vars
    BY <1>5, Stutters DEF vars
  <1> QED
    BY <1>1, <1>2, <1>3, <1>4, <1>5 DEF Next

\* For any commands and payloads, however the user, the owner and the worker interleave: a
\* command reported as cancelled has committed nothing, only a named command is cancelled,
\* and a worker at rest has applied the setting accepted last (operation.rs).
THEOREM ExactCommands == Spec => []CommandsAreExact
  <1>1. Init => IInv
    BY InitIInv
  <1>2. IInv /\ [Next]_vars => IInv'
    BY NextIInv
  <1>3. IInv => CommandsAreExact
    BY DEF IInv
  <1> QED
    BY <1>1, <1>2, <1>3, PTL DEF Spec
=============================================================================
