---------------------- MODULE BackupMaintenanceProofs ----------------------
(***************************************************************************)
(* Proofs about BackupMaintenance, for any set of scenarios: any purposes  *)
(* asked for and waited for, any number of requests and owner calls, any   *)
(* identities of a failing source and any clock.                           *)
(***************************************************************************)
EXTENDS BackupMaintenance, TLAPS

Requests == [id : Nat, root : Nat, purpose : MaintenancePurpose, urgency : 1 .. 4]
Permits ==
    [id : Nat, root : Nat, purpose : MaintenancePurpose,
     op : {"running", "cancelled", "publishing"}]
Failures == [identity : Identities]
Reports ==
    [kind : {"Published", "Failed", "Cancelled"}]
        \cup [kind : {"SourceFailed"}, identity : Identities]
Completions ==
    [root : Nat, purpose : MaintenancePurpose,
     outcome : {"Published", "Failed", "Cancelled", "SourceSuspect", "RetryScheduled"}]

Coordinators ==
    [next : Nat, active : Permits \cup {None}, pending : Requests \cup {None},
     source : MaintenanceSourceState, periodic : BOOLEAN, failing : Failures \cup {None}]
WorkerStates ==
    [phase : {"Running", "Paused", "Stopping", "Stopped"}, start : BOOLEAN,
     latest : Completions \cup {None}, waited : Nat, wake : BOOLEAN]
Threads ==
    [pc : {"recv", "check", "execute", "publish", "finish", "gone"},
     x : Reports \cup {None}]
Waiters == [pc : {"idle", "waiting"}, root : Nat, got : Completions \cup {None}]
Owners ==
    [pc : {"idle", "on", "off", "pause", "pauseWorker", "resume", "resumeSchedule",
           "stopping", "joining", "gone"},
     turns : Nat]
Histories ==
    [asked : Nat, owed : SUBSET Nat, published : SUBSET Nat, ended : SUBSET Nat]

\* The shape of the state the three properties are about.
MaintenanceType ==
    /\ scenario \in Scenarios
    /\ coord \in Coordinators
    /\ wk \in WorkerStates
    /\ thr \in Threads
    /\ waiter \in Waiters
    /\ owner \in Owners
    /\ hist \in Histories

\* A root that is active or waits is numbered, is not over and is not published,
\* unless its permit is past begin_publication; no root is in both places.
LiveRoots(c, h) ==
    /\ c.next > 0
    /\ c.active # None =>
          /\ c.active.root < c.next /\ c.active.root \notin h.ended
          /\ c.active.op # "publishing" => c.active.root \notin h.published
    /\ c.pending # None =>
          /\ c.active # None /\ c.pending.root # c.active.root
          /\ c.pending.root < c.next
          /\ c.pending.root \notin h.ended /\ c.pending.root \notin h.published
    /\ \A r \in h.ended : r < c.next
    /\ \A r \in h.published : r < c.next

\* What the worker thread holds at each place.
ThreadHolds(c, t, h) ==
    /\ t.pc \in {"check", "execute", "publish", "finish"} => c.active # None
    /\ t.pc \in {"recv", "check", "execute"} /\ c.active # None => c.active.op # "publishing"
    /\ t.pc = "publish" => c.active.op = "publishing"
    /\ t.pc = "finish" =>
          /\ t.x # None
          /\ t.x.kind = "Published" =>
                c.active.op = "publishing" /\ c.active.root \in h.published
          /\ t.x.kind = "SourceFailed" => c.active.op # "publishing"

\* The worker ends only for an owner that stops it, and holds only what is active.
PhaseIsRight ==
    /\ wk.start => coord.active # None
    /\ wk.phase \in {"Stopping", "Stopped"} <=> owner.pc \in {"joining", "gone"}
    /\ thr.pc = "gone" => wk.phase = "Stopped"

\* The last completion is of a root that is over, and says what became of it.
LatestIsHonest ==
    wk.latest # None =>
        /\ wk.latest.outcome = "Published" => wk.latest.root \in hist.published
        /\ wk.latest.outcome = "Cancelled" => wk.latest.root \notin hist.published
        /\ wk.latest.outcome # "RetryScheduled" => wk.latest.root \in hist.ended

\* While a caller waits, only its own root is admitted.
PlaceIsReserved ==
    waiter.pc = "waiting" =>
        /\ wk.waited = waiter.root /\ waiter.root # 0 /\ waiter.root < coord.next
        /\ coord.pending = None
        /\ coord.active # None => coord.active.root = waiter.root
        /\ waiter.root \in hist.ended => Answered

\* What covers an owed request: the active permit that is still to be looked at or
\* is cancelled, or a pending request that no change of the policy can drop.
OwedIsHeld(c, t, h) ==
    h.owed # {} =>
        /\ c.active # None
        /\ \/ t.pc \in {"recv", "check"}
           \/ c.active.op = "cancelled"
           \/ c.pending # None /\ c.pending.urgency > urgency("Periodic")

OwedIsCovered == wk.phase \in {"Running", "Paused"} => OwedIsHeld(coord, thr, hist)

(***************************************************************************)
(* The inductive invariant.  None of the three properties is inductive by  *)
(* itself: a cancelled root stays unpublished only because no root is ever *)
(* active again once it has ended; the waiting caller keeps its answer     *)
(* only because the reservation keeps other roots out; and a pending       *)
(* request covers what joined it only because its urgency never falls to   *)
(* that of a periodic backup, which a change of the policy drops.          *)
(***************************************************************************)
MaintenanceInv ==
    /\ MaintenanceType
    /\ LiveRoots(coord, hist)
    /\ ThreadHolds(coord, thr, hist)
    /\ PhaseIsRight
    /\ LatestIsHonest
    /\ PlaceIsReserved
    /\ OwedIsCovered

\* The inductive invariant contains what is claimed.
LEMMA InvIsHonest == MaintenanceInv => MaintenanceIsHonest
  <1> SUFFICES ASSUME MaintenanceInv PROVE MaintenanceIsHonest
    OBVIOUS
  <1>1. OutcomesAreHonest
    BY Zenon DEF MaintenanceInv, LatestIsHonest, OutcomesAreHonest
  <1>2. AnswerIsKept
    BY Zenon DEF MaintenanceInv, PlaceIsReserved, AnswerIsKept
  <1>3. AdmittedIsCovered
    <2>1. wk.phase \in {"Running", "Paused", "Stopping", "Stopped"}
      BY DEF MaintenanceInv, MaintenanceType, WorkerStates
    <2> QED
      BY <2>1, Zenon DEF MaintenanceInv, OwedIsCovered, OwedIsHeld, AdmittedIsCovered
  <1> QED
    BY <1>1, <1>2, <1>3, Zenon DEF MaintenanceIsHonest

----------------------------------------------------------------------------
(* The coordinator's operators. *)

\* No permit, request, completion or report is taken for the absence of one.
LEMMA NoneIsApart ==
  /\ \A r \in Permits : r # None
  /\ \A r \in Requests : r # None
  /\ \A r \in Completions : r # None
  /\ \A r \in Reports : r # None
  <1>1. \A r \in Permits : r # None
    BY DEF Permits, None
  <1>2. \A r \in Requests : r # None
    BY DEF Requests, None
  <1>3. \A r \in Completions : r # None
    BY DEF Completions, None
  <1>4. \A r \in Reports : r # None
    BY DEF Reports, None
  <1> QED
    BY <1>1, <1>2, <1>3, <1>4, Zenon

\* What urgency gives: only a periodic backup is as little urgent as 1.
LEMMA UrgencyRange ==
  ASSUME NEW p \in MaintenancePurpose
  PROVE  urgency(p) \in 1 .. 4 /\ (p # "Periodic" => urgency(p) > urgency("Periodic"))
  BY DEF urgency, MaintenancePurpose

\* A request and the permit made of it (coordinator.rs: submit, finish).
LEMMA RequestType ==
  ASSUME NEW id \in Nat, NEW root \in Nat, NEW p \in MaintenancePurpose, NEW u \in 1 .. 4
  PROVE  /\ Request(id, root, p, u) \in Requests
         /\ Request(id, root, p, u).root = root
         /\ Request(id, root, p, u).urgency = u
  BY DEF Request, Requests

\* MaintenancePermit::new starts a request as a running permit of the same root.
LEMMA PermitType ==
  ASSUME NEW r \in Requests
  PROVE  /\ Permit(r) \in Permits
         /\ Permit(r).root = r.root /\ Permit(r).op = "running"
  BY DEF Permit, Requests, Permits

\* The request that waits after a coalesced one never loses urgency.
LEMMA PendingKeeps ==
  ASSUME NEW c \in Coordinators, NEW r \in Requests
  PROVE  /\ Pending(c, r) \in Requests
         /\ Pending(c, r) = c.pending \/ Pending(c, r) = r
         /\ Pending(c, r).urgency >= r.urgency
         /\ c.pending # None => Pending(c, r).urgency >= c.pending.urgency
  <1>1. c.pending # None => c.pending \in Requests
    BY DEF Coordinators
  <1>2. r.urgency \in 1 .. 4 /\ (c.pending # None => c.pending.urgency \in 1 .. 4)
    BY <1>1 DEF Requests
  <1> QED
    BY <1>1, <1>2 DEF Pending

\* The four answers of MaintenanceCoordinator::submit, and what each leaves.
LEMMA SubmitEffect ==
  ASSUME NEW c \in Coordinators, NEW p \in MaintenancePurpose
  PROVE  LET s == submit(c, p)
         IN  /\ s.c \in Coordinators
             /\ s.c.next \in {c.next, c.next + 1}
             /\ \/ /\ s.admission \in {"Bypassed", "Rejected"}
                   /\ s.c.active = c.active /\ s.c.pending = c.pending
                \/ /\ s.admission = "Started"
                   /\ c.active = None /\ s.c.pending = c.pending
                   /\ s.c.next = c.next + 1
                   /\ s.c.active \in Permits
                   /\ s.c.active.root = c.next /\ s.c.active.op = "running"
                \/ /\ s.admission = "Coalesced"
                   /\ c.active # None /\ s.c.active = c.active
                   /\ s.c.next = c.next + 1
                   /\ s.c.pending \in Requests
                   /\ s.c.pending = c.pending \/ s.c.pending.root = c.next
                   /\ p # "Periodic" => s.c.pending.urgency > urgency("Periodic")
                   /\ c.pending # None => s.c.pending.urgency >= c.pending.urgency
  <1> DEFINE r == Request(c.next, c.next, p, urgency(p))
             taken == [c EXCEPT !.next = @ + 1]
             q == Pending(c, r)
  <1>1. /\ c.next \in Nat /\ c.active \in Permits \cup {None}
        /\ c.pending \in Requests \cup {None}
    BY DEF Coordinators
  <1>2. r \in Requests /\ r.root = c.next /\ r.urgency = urgency(p)
    BY <1>1, UrgencyRange, RequestType
  <1>3. Permit(r) \in Permits /\ Permit(r).root = c.next /\ Permit(r).op = "running"
    BY <1>2, PermitType
  <1>4. /\ q \in Requests /\ (q = c.pending \/ q.root = c.next)
        /\ p # "Periodic" => q.urgency > urgency("Periodic")
        /\ c.pending # None => q.urgency >= c.pending.urgency
    <2>1. /\ q \in Requests /\ (q = c.pending \/ q = r) /\ q.urgency >= urgency(p)
          /\ c.pending # None => q.urgency >= c.pending.urgency
      BY <1>2, PendingKeeps
    <2>2. "Periodic" \in MaintenancePurpose
      BY DEF MaintenancePurpose
    <2>3. /\ q.urgency \in 1 .. 4 /\ urgency(p) \in 1 .. 4 /\ urgency("Periodic") \in 1 .. 4
          /\ p # "Periodic" => urgency(p) > urgency("Periodic")
      BY <2>1, <2>2, UrgencyRange DEF Requests
    <2> QED
      BY <1>2, <2>1, <2>3
  <1>5. /\ taken \in Coordinators /\ taken.next = c.next + 1
        /\ taken.active = c.active /\ taken.pending = c.pending
    BY DEF Coordinators
  <1> DEFINE started == [taken EXCEPT !.active = Permit(r)]
             joined == [taken EXCEPT !.pending = q]
  <1>6. /\ started \in Coordinators /\ started.active = Permit(r)
        /\ started.pending = c.pending /\ started.next = c.next + 1
    BY <1>3, <1>5, ZenonT(60) DEF Coordinators
  <1>7. /\ joined \in Coordinators /\ joined.pending = q
        /\ joined.active = c.active /\ joined.next = c.next + 1
    BY <1>4, <1>5, ZenonT(60) DEF Coordinators
  <1>8. CASE Bypassed(c, p)
    <2>1. submit(c, p) = [c |-> c, admission |-> "Bypassed"]
      BY <1>8 DEF submit
    <2> QED
      BY <2>1
  <1>9. CASE ~Bypassed(c, p) /\ Ineligible(c, p)
    <2>1. submit(c, p) = [c |-> c, admission |-> "Rejected"]
      BY <1>9 DEF submit
    <2> QED
      BY <2>1
  <1>10. CASE ~Bypassed(c, p) /\ ~Ineligible(c, p) /\ c.active = None
    <2>1. submit(c, p) = [c |-> started, admission |-> "Started"]
      BY <1>10 DEF submit
    <2> HIDE DEF started, r
    <2>2. submit(c, p).c = started /\ submit(c, p).admission = "Started"
      BY <2>1
    <2> QED
      BY <1>3, <1>6, <1>10, <2>2
  <1>11. CASE ~Bypassed(c, p) /\ ~Ineligible(c, p) /\ c.active # None /\ Busy(c, p)
    <2>1. submit(c, p) = [c |-> taken, admission |-> "Rejected"]
      BY <1>11 DEF submit
    <2> HIDE DEF taken
    <2>2. submit(c, p).c = taken /\ submit(c, p).admission = "Rejected"
      BY <2>1
    <2> QED
      BY <1>5, <2>2
  <1>12. CASE ~Bypassed(c, p) /\ ~Ineligible(c, p) /\ c.active # None /\ ~Busy(c, p)
    <2>1. submit(c, p) = [c |-> joined, admission |-> "Coalesced"]
      BY <1>12 DEF submit
    <2> HIDE DEF joined, q
    <2>2. submit(c, p).c = joined /\ submit(c, p).admission = "Coalesced"
      BY <2>1
    <2> QED
      BY <1>4, <1>7, <1>12, <2>2
  <1> QED
    BY <1>8, <1>9, <1>10, <1>11, <1>12, Zenon

\* finish decides between the executor's word and the permit's state.
LEMMA SettledIsHonest ==
  ASSUME NEW op \in {"running", "cancelled", "publishing"}, NEW x \in Reports,
         x.kind = "Published" => op = "publishing",
         x.kind = "SourceFailed" => op # "publishing"
  PROVE  LET y == Settled(op, x)
         IN  /\ y.kind \in {"Published", "Failed", "Cancelled", "SourceFailed"}
             /\ y.kind = "Published" => x.kind = "Published" /\ op = "publishing"
             /\ y.kind \in {"Cancelled", "SourceFailed"} => op # "publishing"
             /\ y.kind = "SourceFailed" => y.identity \in Identities
             /\ op = "cancelled" => y.kind = "Cancelled"
  BY DEF Settled, Reports

\* A retry has the root of the permit that failed, unless what waits is kept.
LEMMA RetryEffect ==
  ASSUME NEW c \in Coordinators, c.active # None
  PROVE  LET d == WithRetry(c)
         IN  /\ d \in Coordinators /\ d.next = c.next + 1 /\ d.pending \in Requests
             /\ \/ d.pending.root = c.active.root
                \/ c.pending # None /\ d.pending = c.pending
  <1> DEFINE retry == Request(c.next, c.active.root, c.active.purpose, SourceRetry)
             keep == /\ c.pending # None
                     /\ ~Blocks(c.active.purpose)
                     /\ retry.urgency <= c.pending.urgency
             left == IF keep THEN c.pending ELSE retry
  <1>1. /\ c.next \in Nat /\ c.active \in Permits
        /\ c.pending # None => c.pending \in Requests
    BY DEF Coordinators
  <1>2. c.active.root \in Nat /\ c.active.purpose \in MaintenancePurpose /\ SourceRetry \in 1 .. 4
    BY <1>1 DEF Permits, SourceRetry
  <1>3. retry \in Requests /\ retry.root = c.active.root
    <2> HIDE DEF retry
    <2>1. \A id, root \in Nat, p \in MaintenancePurpose, u \in 1 .. 4 :
             Request(id, root, p, u) \in Requests /\ Request(id, root, p, u).root = root
      BY RequestType
    <2> QED
      BY <1>1, <1>2, <2>1, Zenon DEF retry
  <1>4. /\ left \in Requests
        /\ left.root = c.active.root \/ (c.pending # None /\ left = c.pending)
    <2> HIDE DEF retry
    <2>1. CASE keep
      BY <1>1, <2>1
    <2>2. CASE ~keep
      BY <1>3, <2>2
    <2> QED
      BY <2>1, <2>2
  <1>5. WithRetry(c) = [c EXCEPT !.next = @ + 1, !.pending = left]
    BY Zenon DEF WithRetry
  <1> HIDE DEF retry, keep, left
  <1>6. /\ WithRetry(c) \in Coordinators /\ WithRetry(c).next = c.next + 1
        /\ WithRetry(c).pending = left
    <2> DEFINE d == [c EXCEPT !.next = @ + 1, !.pending = left]
    <2>1. left \in Requests \cup {None} /\ c.next + 1 \in Nat
      BY <1>1, <1>4
    <2>2. d \in Coordinators
      BY <2>1, ZenonT(60) DEF Coordinators
    <2>3. d.next = c.next + 1 /\ d.pending = left
      BY DEF Coordinators
    <2> QED
      BY <1>5, <2>2, <2>3, Zenon
  <1> QED
    BY <1>4, <1>6

\* The request that waits becomes the active permit.
LEMMA FollowUpEffect ==
  ASSUME NEW c \in Coordinators
  PROVE  LET d == FollowUp(c)
         IN  /\ d \in Coordinators /\ d.next = c.next /\ d.pending = None
             /\ c.pending = None => d.active = None
             /\ c.pending # None =>
                   /\ d.active \in Permits
                   /\ d.active.root = c.pending.root /\ d.active.op = "running"
  <1> DEFINE now == IF c.pending = None THEN None ELSE Permit(c.pending)
  <1>1. c.pending # None => c.pending \in Requests
    BY DEF Coordinators
  <1>2. /\ now \in Permits \cup {None}
        /\ c.pending = None => now = None
        /\ c.pending # None =>
              now \in Permits /\ now.root = c.pending.root /\ now.op = "running"
    BY <1>1, PermitType
  <1>3. FollowUp(c) = [c EXCEPT !.active = now, !.pending = None]
    BY DEF FollowUp
  <1> HIDE DEF now
  <1>4. /\ FollowUp(c) \in Coordinators /\ FollowUp(c).next = c.next
        /\ FollowUp(c).pending = None /\ FollowUp(c).active = now
    BY <1>2, <1>3, ZenonT(60) DEF Coordinators
  <1> QED
    BY <1>2, <1>4

\* What the four outcomes of an execution leave for the next one.
LEMMA OutcomeEffect ==
  ASSUME NEW c \in Coordinators, c.active # None, NEW y,
         y.kind \in {"Published", "Failed", "Cancelled", "SourceFailed"},
         y.kind = "SourceFailed" => y.identity \in Identities
  PROVE  LET d == AfterOutcome(c, y)
             o == Outcome(c, y)
         IN  /\ d \in Coordinators /\ d.next \in {c.next, c.next + 1}
             /\ \/ /\ o \in {"Published", "Failed", "Cancelled"} /\ o = y.kind
                   /\ d.pending = c.pending
                \/ o = "SourceSuspect" /\ y.kind = "SourceFailed" /\ d.pending = None
                \/ /\ o = "RetryScheduled" /\ y.kind = "SourceFailed"
                   /\ d.pending \in Requests
                   /\ \/ d.pending.root = c.active.root
                      \/ c.pending # None /\ d.pending = c.pending
  <1>1. CASE y.kind = "Published"
    <2>1. /\ Outcome(c, y) = "Published"
          /\ AfterOutcome(c, y) = [c EXCEPT !.source = "Healthy", !.failing = None]
      BY <1>1 DEF Outcome, AfterOutcome
    <2>2. /\ AfterOutcome(c, y) \in Coordinators /\ AfterOutcome(c, y).next = c.next
          /\ AfterOutcome(c, y).pending = c.pending
      BY <2>1, ZenonT(60) DEF Coordinators, MaintenanceSourceState
    <2> QED
      BY <1>1, <2>1, <2>2
  <1>2. CASE y.kind \in {"Failed", "Cancelled"}
    <2>1. Outcome(c, y) = y.kind /\ AfterOutcome(c, y) = c
      BY <1>2 DEF Outcome, AfterOutcome
    <2> QED
      BY <1>2, <2>1
  <1>3. CASE y.kind = "SourceFailed" /\ Repeated(c, y)
    <2>1. /\ Outcome(c, y) = "SourceSuspect"
          /\ AfterOutcome(c, y) = [c EXCEPT !.source = "Suspect", !.pending = None]
      BY <1>3 DEF Outcome, AfterOutcome
    <2>2. /\ AfterOutcome(c, y) \in Coordinators /\ AfterOutcome(c, y).next = c.next
          /\ AfterOutcome(c, y).pending = None
      BY <2>1, ZenonT(60) DEF Coordinators, MaintenanceSourceState
    <2> QED
      BY <1>3, <2>1, <2>2
  <1>4. CASE y.kind = "SourceFailed" /\ ~Repeated(c, y)
    <2> DEFINE e == [c EXCEPT !.failing = [identity |-> y.identity]]
    <2>1. Outcome(c, y) = "RetryScheduled" /\ AfterOutcome(c, y) = WithRetry(e)
      BY <1>4 DEF Outcome, AfterOutcome
    <2>2. [identity |-> y.identity] \in Failures
      BY <1>4 DEF Failures
    <2>3. /\ e \in Coordinators /\ e.next = c.next
          /\ e.active = c.active /\ e.pending = c.pending
      BY <2>2 DEF Coordinators
    <2> HIDE DEF e
    <2>4. /\ WithRetry(e) \in Coordinators /\ WithRetry(e).next = c.next + 1
          /\ WithRetry(e).pending \in Requests
          /\ \/ WithRetry(e).pending.root = c.active.root
             \/ c.pending # None /\ WithRetry(e).pending = c.pending
      BY <2>3, RetryEffect
    <2> QED
      BY <1>4, <2>1, <2>4
  <1> QED
    BY <1>1, <1>2, <1>3, <1>4

\* MaintenanceCoordinator::finish: the completion, and the permit that follows.
LEMMA FinishEffect ==
  ASSUME NEW c \in Coordinators, c.active # None, NEW x \in Reports,
         x.kind = "Published" => c.active.op = "publishing",
         x.kind = "SourceFailed" => c.active.op # "publishing"
  PROVE  LET d == finish(c, x).c
             k == finish(c, x).completion
         IN  /\ d \in Coordinators /\ d.next \in {c.next, c.next + 1} /\ d.pending = None
             /\ k \in Completions /\ k.root = c.active.root
             /\ k.outcome = "Published" => x.kind = "Published"
             /\ k.outcome \in {"Cancelled", "RetryScheduled"} => c.active.op # "publishing"
             /\ c.active.op = "cancelled" => k.outcome = "Cancelled"
             /\ k.outcome = "RetryScheduled" => d.active # None
             /\ c.pending # None /\ k.outcome # "SourceSuspect" => d.active # None
             /\ d.active # None =>
                   /\ d.active.op = "running"
                   /\ \/ k.outcome = "RetryScheduled" /\ d.active.root = c.active.root
                      \/ c.pending # None /\ d.active.root = c.pending.root
  <1> DEFINE y == Settled(c.active.op, x)
             e == AfterOutcome(c, y)
             o == Outcome(c, y)
             d == FollowUp(e)
             k == [root |-> c.active.root, purpose |-> c.active.purpose, outcome |-> o]
  <1>1. c.active \in Permits /\ (c.pending # None => c.pending \in Requests)
    BY DEF Coordinators
  <1>2. /\ c.active.op \in {"running", "cancelled", "publishing"}
        /\ c.active.root \in Nat /\ c.active.purpose \in MaintenancePurpose
    BY <1>1 DEF Permits
  <1>3. /\ y.kind \in {"Published", "Failed", "Cancelled", "SourceFailed"}
        /\ y.kind = "Published" => x.kind = "Published"
        /\ y.kind \in {"Cancelled", "SourceFailed"} => c.active.op # "publishing"
        /\ y.kind = "SourceFailed" => y.identity \in Identities
        /\ c.active.op = "cancelled" => y.kind = "Cancelled"
    BY <1>2, SettledIsHonest
  <1> HIDE DEF y
  <1>4. /\ e \in Coordinators /\ e.next \in {c.next, c.next + 1}
        /\ \/ /\ o \in {"Published", "Failed", "Cancelled"} /\ o = y.kind
              /\ e.pending = c.pending
           \/ o = "SourceSuspect" /\ y.kind = "SourceFailed" /\ e.pending = None
           \/ /\ o = "RetryScheduled" /\ y.kind = "SourceFailed"
              /\ e.pending \in Requests
              /\ \/ e.pending.root = c.active.root
                 \/ c.pending # None /\ e.pending = c.pending
    BY <1>3, OutcomeEffect
  <1> HIDE DEF e, o
  <1>5. /\ d \in Coordinators /\ d.next = e.next /\ d.pending = None
        /\ e.pending = None => d.active = None
        /\ e.pending # None =>
              /\ d.active \in Permits
              /\ d.active.root = e.pending.root /\ d.active.op = "running"
    BY <1>4, FollowUpEffect, Zenon
  <1> HIDE DEF d
  <1>6. k \in Completions /\ k.root = c.active.root /\ k.outcome = o
    BY <1>2, <1>4 DEF Completions
  <1> HIDE DEF k
  <1>7. finish(c, x) = [c |-> d, completion |-> k]
    BY Zenon DEF finish, d, k, e, o, y
  <1>8. finish(c, x).c = d /\ finish(c, x).completion = k
    BY <1>7
  <1>9. e.pending \in Requests => e.pending # None /\ d.active # None
    BY <1>5, NoneIsApart, Zenon
  <1>10. /\ d \in Coordinators /\ d.next \in {c.next, c.next + 1} /\ d.pending = None
    BY <1>4, <1>5
  <1>11. /\ o = "Published" => x.kind = "Published"
         /\ o \in {"Cancelled", "RetryScheduled"} => c.active.op # "publishing"
         /\ c.active.op = "cancelled" => o = "Cancelled"
    BY <1>3, <1>4
  <1>12. /\ o = "RetryScheduled" => d.active # None
         /\ c.pending # None /\ o # "SourceSuspect" => d.active # None
    BY <1>1, <1>4, <1>9
  <1>13. d.active # None =>
                   /\ d.active.op = "running"
                   /\ \/ o = "RetryScheduled" /\ d.active.root = c.active.root
                      \/ c.pending # None /\ d.active.root = c.pending.root
    BY <1>4, <1>5
  <1> QED
    BY <1>6, <1>8, <1>10, <1>11, <1>12, <1>13

\* Cancelling marks a running permit and nothing else (coordinator.rs: cancel_active).
LEMMA CancelEffect ==
  ASSUME NEW c \in Coordinators
  PROVE  LET d == cancel_active(c)
         IN  /\ d \in Coordinators /\ d.next = c.next /\ d.pending = c.pending
             /\ c.active = None => d.active = None
             /\ c.active # None =>
                   /\ d.active # None /\ d.active.root = c.active.root
                   /\ \/ d.active.op = c.active.op
                      \/ c.active.op = "running" /\ d.active.op = "cancelled"
  <1>1. c.active # None => c.active \in Permits
    BY DEF Coordinators
  <1>2. CASE c.active = None
    BY <1>2 DEF cancel_active
  <1>3. CASE c.active # None
    <2> DEFINE a == cancel(c.active)
    <2>1. /\ a \in Permits /\ a.root = c.active.root
          /\ \/ a.op = c.active.op
             \/ c.active.op = "running" /\ a.op = "cancelled"
      BY <1>1, <1>3 DEF cancel, Permits
    <2>2. a # None
      BY <2>1, NoneIsApart, Zenon
    <2>3. cancel_active(c) = [c EXCEPT !.active = a]
      BY <1>3, Zenon DEF cancel_active
    <2> HIDE DEF a
    <2>4. /\ cancel_active(c) \in Coordinators /\ cancel_active(c).active = a
          /\ cancel_active(c).next = c.next /\ cancel_active(c).pending = c.pending
      BY <2>1, <2>3 DEF Coordinators
    <2> QED
      BY <1>3, <2>1, <2>2, <2>4
  <1> QED
    BY <1>2, <1>3

\* A change of the policy drops only a periodic request (set_periodic_enabled).
LEMMA PolicyEffect ==
  ASSUME NEW c \in Coordinators, NEW on \in BOOLEAN
  PROVE  LET d == set_periodic_enabled(c, on)
         IN  /\ d \in Coordinators /\ d.next = c.next /\ d.active = c.active
             /\ \/ d.pending = c.pending
                \/ d.pending = None /\ c.pending.urgency = urgency("Periodic")
  <1> DEFINE drop == ~on /\ c.pending # None /\ c.pending.urgency = urgency("Periodic")
             left == IF drop THEN None ELSE c.pending
  <1>1. left \in Requests \cup {None}
    BY DEF Coordinators
  <1>2. \/ left = c.pending
        \/ left = None /\ c.pending.urgency = urgency("Periodic")
    BY Zenon
  <1>3. set_periodic_enabled(c, on) = [c EXCEPT !.periodic = on, !.pending = left]
    BY Zenon DEF set_periodic_enabled
  <1> HIDE DEF drop, left
  <1> DEFINE d == [c EXCEPT !.periodic = on, !.pending = left]
  <1>4. d \in Coordinators
    BY <1>1, ZenonT(60) DEF Coordinators
  <1>5. d.next = c.next /\ d.active = c.active /\ d.pending = left
    BY DEF Coordinators
  <1> QED
    BY <1>2, <1>3, <1>4, <1>5, Zenon

----------------------------------------------------------------------------
(* One lemma for each action, or for the actions that do the same to the   *)
(* state the invariant is about.                                           *)

\* The scheduler's own steps, the clock, and the owner's steps between its locks.
LEMMA OtherKeeps ==
  ASSUME MaintenanceInv, UNCHANGED <<scenario, coord, wk, thr, waiter, hist>>,
         owner' \in Owners,
         owner'.pc \in {"joining", "gone"} <=> owner.pc \in {"joining", "gone"}
  PROVE  MaintenanceInv'
  <1>1. MaintenanceType'
    BY Zenon DEF MaintenanceInv, MaintenanceType
  <1>2. LiveRoots(coord, hist)' /\ ThreadHolds(coord, thr, hist)'
    BY Zenon DEF MaintenanceInv
  <1>3. PhaseIsRight'
    BY Zenon DEF MaintenanceInv, PhaseIsRight
  <1>4. LatestIsHonest' /\ OwedIsCovered'
    BY Zenon DEF MaintenanceInv, LatestIsHonest, OwedIsCovered
  <1>5. PlaceIsReserved'
    BY Zenon DEF MaintenanceInv, PlaceIsReserved, Answered
  <1> QED
    BY <1>1, <1>2, <1>3, <1>4, <1>5, Zenon DEF MaintenanceInv

\* PauseWorker, StopWorker and a resume that is undone: the permit is cancelled
\* and the phase changes, under one lock.
LEMMA CancelKeeps ==
  ASSUME MaintenanceInv, coord' = cancel_active(coord),
         UNCHANGED <<scenario, thr, waiter, hist>>,
         wk' \in WorkerStates, wk'.start = wk.start,
         wk'.latest = wk.latest, wk'.waited = wk.waited,
         wk.phase \in {"Running", "Paused"}, wk'.phase \in {"Paused", "Stopping"},
         owner' \in Owners,
         wk'.phase = "Stopping" <=> owner'.pc \in {"joining", "gone"}
  PROVE  MaintenanceInv'
  <1>1. coord \in Coordinators
    BY Zenon DEF MaintenanceInv, MaintenanceType
  <1>2. /\ coord' \in Coordinators /\ coord'.next = coord.next
        /\ coord'.pending = coord.pending
        /\ coord.active = None => coord'.active = None
        /\ coord.active # None =>
              /\ coord'.active # None /\ coord'.active.root = coord.active.root
              /\ \/ coord'.active.op = coord.active.op
                 \/ coord.active.op = "running" /\ coord'.active.op = "cancelled"
    BY <1>1, CancelEffect, Zenon
  <1>3. MaintenanceType'
    BY <1>2, Zenon DEF MaintenanceInv, MaintenanceType
  <1>4. LiveRoots(coord, hist)'
    <2>1. LiveRoots(coord, hist)
      BY DEF MaintenanceInv
    <2> QED
      BY <1>2, <2>1 DEF LiveRoots
  <1>5. ThreadHolds(coord, thr, hist)'
    <2>1. ThreadHolds(coord, thr, hist)
      BY DEF MaintenanceInv
    <2> QED
      BY <1>2, <2>1 DEF ThreadHolds
  <1>6. PhaseIsRight'
    <2>1. PhaseIsRight
      BY DEF MaintenanceInv
    <2>2. wk'.start => coord'.active # None
      BY <1>2, <2>1, Zenon DEF PhaseIsRight
    <2>3. wk'.phase \in {"Stopping", "Stopped"} <=> owner'.pc \in {"joining", "gone"}
      OBVIOUS
    <2>4. thr.pc # "gone"
      BY <2>1 DEF PhaseIsRight
    <2> QED
      BY <2>2, <2>3, <2>4, Zenon DEF PhaseIsRight
  <1>7. LatestIsHonest'
    BY Zenon DEF MaintenanceInv, LatestIsHonest
  <1>8. PlaceIsReserved'
    <2>1. PlaceIsReserved
      BY DEF MaintenanceInv
    <2> QED
      BY <1>2, <2>1, Zenon DEF PlaceIsReserved, Answered
  <1>9. OwedIsCovered'
    <2>1. OwedIsHeld(coord, thr, hist)
      BY Zenon DEF MaintenanceInv, OwedIsCovered
    <2>2. OwedIsHeld(coord, thr, hist)'
      BY <1>2, <2>1 DEF OwedIsHeld
    <2> QED
      BY <2>2, Zenon DEF OwedIsCovered
  <1> QED
    BY <1>3, <1>4, <1>5, <1>6, <1>7, <1>8, <1>9, Zenon DEF MaintenanceInv

\* update_policy, at the worker: a request that is owed something is not dropped.
LEMMA SwitchKeeps ==
  ASSUME MaintenanceInv, SwitchPeriodic
  PROVE  MaintenanceInv'
  <1>1. /\ coord \in Coordinators /\ owner \in Owners
        /\ LiveRoots(coord, hist) /\ ThreadHolds(coord, thr, hist)
        /\ PhaseIsRight /\ PlaceIsReserved /\ OwedIsCovered
    BY Zenon DEF MaintenanceInv, MaintenanceType
  <1>2. UNCHANGED <<scenario, wk, thr, waiter, hist>>
    BY Zenon DEF SwitchPeriodic
  <1>3. coord.periodic \in BOOLEAN
    BY <1>1 DEF Coordinators
  <1>4. /\ coord' \in Coordinators /\ coord'.next = coord.next
        /\ coord'.active = coord.active
        /\ \/ coord'.pending = coord.pending
           \/ coord'.pending = None /\ coord.pending.urgency = urgency("Periodic")
    <2>1. (~coord.periodic) \in BOOLEAN
      OBVIOUS
    <2> QED
      BY <1>1, <2>1, PolicyEffect, Zenon DEF SwitchPeriodic
  <1>5. owner' \in Owners /\ owner.pc = "idle" /\ owner'.pc \in {"on", "off"}
    BY <1>1 DEF SwitchPeriodic, Turn, Owners
  <1>6. MaintenanceType'
    BY <1>2, <1>4, <1>5, Zenon DEF MaintenanceInv, MaintenanceType
  <1>7. LiveRoots(coord, hist)'
    BY <1>1, <1>2, <1>4 DEF LiveRoots
  <1>8. ThreadHolds(coord, thr, hist)'
    BY <1>1, <1>2, <1>4, Zenon DEF ThreadHolds
  <1>9. PhaseIsRight'
    <2>1. owner.pc \notin {"joining", "gone"} /\ owner'.pc \notin {"joining", "gone"}
      BY <1>5
    <2> QED
      BY <1>1, <1>2, <1>4, <2>1, Zenon DEF PhaseIsRight
  <1>10. LatestIsHonest'
    BY <1>2, Zenon DEF MaintenanceInv, LatestIsHonest
  <1>11. PlaceIsReserved'
    BY <1>1, <1>2, <1>4, Zenon DEF PlaceIsReserved, Answered
  <1>12. OwedIsCovered'
    <2>1. OwedIsHeld(coord, thr, hist) => OwedIsHeld(coord, thr, hist)'
      <3>1. urgency("Periodic") = 1
        BY DEF urgency
      <3> QED
        BY <1>2, <1>4, <3>1 DEF OwedIsHeld
    <2> QED
      BY <1>1, <1>2, <2>1, Zenon DEF OwedIsCovered
  <1> QED
    BY <1>6, <1>7, <1>8, <1>9, <1>10, <1>11, <1>12, Zenon DEF MaintenanceInv

\* The caller of submit_and_wait returns and gives its place back.
LEMMA WaitKeeps ==
  ASSUME MaintenanceInv, WaitReturns
  PROVE  MaintenanceInv'
  <1>1. /\ wk \in WorkerStates /\ thr \in Threads /\ waiter \in Waiters /\ owner \in Owners
        /\ coord \in Coordinators /\ hist \in Histories
        /\ LiveRoots(coord, hist) /\ ThreadHolds(coord, thr, hist)
        /\ PhaseIsRight /\ LatestIsHonest /\ PlaceIsReserved /\ OwedIsCovered
    BY Zenon DEF MaintenanceInv, MaintenanceType
  <1>2. UNCHANGED <<scenario, coord, thr, owner, hist>>
    BY Zenon DEF WaitReturns
  <1>3. /\ wk' \in WorkerStates /\ wk'.phase = wk.phase /\ wk'.start = wk.start
        /\ wk'.latest = wk.latest
    BY <1>1 DEF WaitReturns, WorkerStates, Waiters
  <1>4. waiter' \in Waiters /\ waiter'.pc = "idle"
    BY <1>1 DEF WaitReturns, WorkerStates, Waiters
  <1>5. MaintenanceType'
    BY <1>1, <1>2, <1>3, <1>4, Zenon DEF MaintenanceInv, MaintenanceType
  <1>6. LiveRoots(coord, hist)' /\ ThreadHolds(coord, thr, hist)'
    BY <1>1, <1>2, Zenon
  <1>7. PhaseIsRight' /\ LatestIsHonest' /\ OwedIsCovered'
    BY <1>1, <1>2, <1>3, Zenon DEF PhaseIsRight, LatestIsHonest, OwedIsCovered
  <1>8. PlaceIsReserved'
    BY <1>4 DEF PlaceIsReserved
  <1> QED
    BY <1>5, <1>6, <1>7, <1>8, Zenon DEF MaintenanceInv

\* resume, at the worker.
LEMMA ResumeKeeps ==
  ASSUME MaintenanceInv, ResumeWorker
  PROVE  MaintenanceInv'
  <1>1. /\ wk \in WorkerStates /\ thr \in Threads /\ waiter \in Waiters /\ owner \in Owners
        /\ coord \in Coordinators /\ hist \in Histories
        /\ LiveRoots(coord, hist) /\ ThreadHolds(coord, thr, hist)
        /\ PhaseIsRight /\ LatestIsHonest /\ PlaceIsReserved /\ OwedIsCovered
    BY Zenon DEF MaintenanceInv, MaintenanceType
  <1>2. UNCHANGED <<scenario, coord, thr, waiter, hist>> /\ wk.phase = "Paused"
    BY Zenon DEF ResumeWorker
  <1>3. owner' \in Owners /\ owner'.pc = "resume"
    BY <1>1 DEF ResumeWorker, Turn, Owners
  <1>4. /\ wk' \in WorkerStates /\ wk'.phase = "Running" /\ wk'.start = wk.start
        /\ wk'.latest = wk.latest /\ wk'.waited = wk.waited
    <2> DEFINE woken == wk.wake \/ wk.start
    <2>1. wk' = [wk EXCEPT !.phase = "Running", !.wake = woken]
      BY Zenon DEF ResumeWorker, Resumed
    <2>2. woken \in BOOLEAN
      OBVIOUS
    <2> HIDE DEF woken
    <2> QED
      BY <1>1, <2>1, <2>2, ZenonT(60) DEF WorkerStates
  <1>5. MaintenanceType'
    BY <1>1, <1>2, <1>3, <1>4, Zenon DEF MaintenanceInv, MaintenanceType
  <1>6. LiveRoots(coord, hist)' /\ ThreadHolds(coord, thr, hist)'
    BY <1>1, <1>2, Zenon
  <1>7. PhaseIsRight'
    <2>1. /\ wk'.phase \notin {"Stopping", "Stopped"} /\ owner'.pc \notin {"joining", "gone"}
          /\ wk.phase # "Stopped"
      BY <1>2, <1>3, <1>4
    <2> QED
      BY <1>1, <1>2, <1>4, <2>1, Zenon DEF PhaseIsRight
  <1>8. LatestIsHonest' /\ PlaceIsReserved'
    BY <1>1, <1>2, <1>4, Zenon DEF LatestIsHonest, PlaceIsReserved, Answered
  <1>9. OwedIsCovered'
    BY <1>1, <1>2, <1>4, Zenon DEF OwedIsCovered
  <1> QED
    BY <1>5, <1>6, <1>7, <1>8, <1>9, Zenon DEF MaintenanceInv

\* The worker thread takes what is held, or ends.
LEMMA TakeKeeps ==
  ASSUME MaintenanceInv, TakeNext
  PROVE  MaintenanceInv'
  <1>1. /\ wk \in WorkerStates /\ thr \in Threads /\ waiter \in Waiters /\ owner \in Owners
        /\ coord \in Coordinators /\ hist \in Histories
        /\ LiveRoots(coord, hist) /\ ThreadHolds(coord, thr, hist)
        /\ PhaseIsRight /\ LatestIsHonest /\ PlaceIsReserved /\ OwedIsCovered
    BY Zenon DEF MaintenanceInv, MaintenanceType
  <1> DEFINE run == wk.start /\ wk.phase \in {"Running", "Stopping"}
             stop == wk.phase = "Stopping" /\ ~wk.start
             left == wk.start /\ ~run
  <1>2. UNCHANGED <<scenario, coord, waiter, owner, hist>> /\ thr.pc = "recv"
    BY Zenon DEF TakeNext
  <1>3. /\ wk' = [wk EXCEPT !.wake = FALSE, !.start = left,
                            !.phase = IF stop THEN "Stopped" ELSE @]
        /\ thr' = [thr EXCEPT !.pc = CASE run -> "check" [] stop -> "gone"
                                       [] OTHER -> "recv"]
    BY DEF TakeNext
  <1>4. /\ wk' \in WorkerStates /\ wk'.start = left
        /\ wk'.latest = wk.latest /\ wk'.waited = wk.waited
        /\ wk'.phase = IF stop THEN "Stopped" ELSE wk.phase
    <2>1. left \in BOOLEAN
      OBVIOUS
    <2> HIDE DEF left, stop, run
    <2> QED
      BY <1>1, <1>3, <2>1, ZenonT(60) DEF WorkerStates
  <1>5. /\ thr' \in Threads /\ thr'.x = thr.x
        /\ \/ thr'.pc = "check" /\ run
           \/ thr'.pc = "gone" /\ stop
           \/ thr'.pc = "recv" /\ ~run /\ ~stop
    <2>1. CASE run
      <3> HIDE DEF run, stop
      <3>1. ~stop
        BY <2>1, Zenon DEF run, stop
      <3> QED
        BY <1>1, <1>3, <2>1, <3>1 DEF Threads
    <2>2. CASE ~run /\ stop
      <3> HIDE DEF run, stop
      <3> QED
        BY <1>1, <1>3, <2>2 DEF Threads
    <2>3. CASE ~run /\ ~stop
      <3> HIDE DEF run, stop
      <3> QED
        BY <1>1, <1>3, <2>3 DEF Threads
    <2> QED
      BY <2>1, <2>2, <2>3, Zenon
  <1>6. run => coord.active # None
    BY <1>1, Zenon DEF PhaseIsRight
  <1>7. MaintenanceType'
    BY <1>1, <1>2, <1>4, <1>5, Zenon DEF MaintenanceInv, MaintenanceType
  <1>8. LiveRoots(coord, hist)'
    BY <1>1, <1>2, Zenon
  <1>9. ThreadHolds(coord, thr, hist)'
    <2> HIDE DEF run, stop
    <2> QED
      BY <1>1, <1>2, <1>5, <1>6 DEF ThreadHolds
  <1>10. PhaseIsRight'
    <2>1. wk'.start => coord'.active # None
      BY <1>1, <1>2, <1>4, Zenon DEF PhaseIsRight
    <2>2. wk'.phase \in {"Stopping", "Stopped"} <=> wk.phase \in {"Stopping", "Stopped"}
      BY <1>4
    <2>3. thr'.pc = "gone" => wk'.phase = "Stopped"
      <3> HIDE DEF run, stop
      <3> QED
        BY <1>4, <1>5
    <2> QED
      BY <1>1, <1>2, <2>1, <2>2, <2>3, Zenon DEF PhaseIsRight
  <1>11. LatestIsHonest' /\ PlaceIsReserved'
    BY <1>1, <1>2, <1>4, Zenon DEF LatestIsHonest, PlaceIsReserved, Answered
  <1>12. OwedIsCovered'
    <2>1. ASSUME wk'.phase \in {"Running", "Paused"}
          PROVE  OwedIsHeld(coord, thr, hist)'
      <3>1. ~stop /\ wk.phase \in {"Running", "Paused"}
        BY <1>4, <2>1
      <3>2. thr'.pc \in {"check", "recv"}
        BY <1>5, <3>1, Zenon
      <3> QED
        BY <1>1, <1>2, <3>1, <3>2 DEF OwedIsCovered, OwedIsHeld
    <2> QED
      BY <2>1, Zenon DEF OwedIsCovered
  <1> QED
    BY <1>7, <1>8, <1>9, <1>10, <1>11, <1>12, Zenon DEF MaintenanceInv

\* The worker thread goes to finish with a report that is not of a publication.
LEMMA ReportKeeps ==
  ASSUME MaintenanceInv, UNCHANGED <<scenario, coord, wk, waiter, owner, hist>>,
         thr.pc \in {"check", "execute", "publish"},
         NEW x \in Reports, x.kind # "Published", thr' = [pc |-> "finish", x |-> x],
         x.kind = "SourceFailed" => thr.pc = "execute",
         thr.pc = "check" =>
            coord.active.op = "cancelled" \/ wk.phase \notin {"Running", "Paused"}
  PROVE  MaintenanceInv'
  <1>1. /\ wk \in WorkerStates /\ thr \in Threads /\ waiter \in Waiters /\ owner \in Owners
        /\ coord \in Coordinators /\ hist \in Histories
        /\ LiveRoots(coord, hist) /\ ThreadHolds(coord, thr, hist)
        /\ PhaseIsRight /\ LatestIsHonest /\ PlaceIsReserved /\ OwedIsCovered
    BY Zenon DEF MaintenanceInv, MaintenanceType
  <1>2. thr' \in Threads /\ thr'.pc = "finish" /\ thr'.x = x
    BY DEF Threads
  <1>3. x # None
    BY NoneIsApart, Zenon
  <1>4. MaintenanceType'
    BY <1>1, <1>2, Zenon DEF MaintenanceInv, MaintenanceType
  <1>5. LiveRoots(coord, hist)'
    BY <1>1, Zenon
  <1>6. ThreadHolds(coord, thr, hist)'
    BY <1>1, <1>2, <1>3 DEF ThreadHolds
  <1>7. PhaseIsRight'
    <2>1. thr'.pc # "gone"
      BY <1>2
    <2> QED
      BY <1>1, <2>1, Zenon DEF PhaseIsRight
  <1>8. LatestIsHonest' /\ PlaceIsReserved'
    BY <1>1, Zenon DEF LatestIsHonest, PlaceIsReserved, Answered
  <1>9. OwedIsCovered'
    BY <1>1, <1>2 DEF OwedIsCovered, OwedIsHeld
  <1> QED
    BY <1>4, <1>5, <1>6, <1>7, <1>8, <1>9, Zenon DEF MaintenanceInv

\* The permit is looked at once: what was owed is covered when the executor is called.
LEMMA CheckKeeps ==
  ASSUME MaintenanceInv, Check
  PROVE  MaintenanceInv'
  <1>1. /\ wk \in WorkerStates /\ thr \in Threads /\ waiter \in Waiters /\ owner \in Owners
        /\ coord \in Coordinators /\ hist \in Histories
        /\ LiveRoots(coord, hist) /\ ThreadHolds(coord, thr, hist)
        /\ PhaseIsRight /\ LatestIsHonest /\ PlaceIsReserved /\ OwedIsCovered
    BY Zenon DEF MaintenanceInv, MaintenanceType
  <1>2. UNCHANGED <<scenario, coord, wk, waiter, owner>> /\ thr.pc = "check"
    BY Zenon DEF Check
  <1>3. CASE wk.phase # "Stopping" /\ coord.active.op # "cancelled"
    <2>1. thr' = [thr EXCEPT !.pc = "execute"] /\ hist' = [hist EXCEPT !.owed = {}]
      BY <1>3, Zenon DEF Check
    <2>2. /\ hist' \in Histories /\ hist'.owed = {}
          /\ hist'.ended = hist.ended /\ hist'.published = hist.published
      BY <1>1, <2>1 DEF Histories
    <2>3. thr' \in Threads /\ thr'.pc = "execute"
      BY <1>1, <2>1 DEF Threads
    <2>4. MaintenanceType'
      BY <1>1, <1>2, <2>2, <2>3, Zenon DEF MaintenanceInv, MaintenanceType
    <2>5. LiveRoots(coord, hist)'
      BY <1>1, <1>2, <2>2, Zenon DEF LiveRoots
    <2>6. ThreadHolds(coord, thr, hist)'
      BY <1>1, <1>2, <2>3 DEF ThreadHolds
    <2>7. PhaseIsRight'
      <3>1. thr'.pc # "gone"
        BY <2>3
      <3> QED
        BY <1>1, <1>2, <3>1, Zenon DEF PhaseIsRight
    <2>8. LatestIsHonest' /\ PlaceIsReserved'
      BY <1>1, <1>2, <2>2, Zenon DEF LatestIsHonest, PlaceIsReserved, Answered
    <2>9. OwedIsCovered'
      BY <2>2, Zenon DEF OwedIsCovered, OwedIsHeld
    <2> QED
      BY <2>4, <2>5, <2>6, <2>7, <2>8, <2>9, Zenon DEF MaintenanceInv
  <1>4. CASE ~(wk.phase # "Stopping" /\ coord.active.op # "cancelled")
    <2> DEFINE x == [kind |-> "Cancelled"]
    <2>1. thr' = [pc |-> "finish", x |-> x] /\ hist' = hist
      BY <1>4, Zenon DEF Check
    <2>2. x \in Reports /\ x.kind = "Cancelled"
      BY DEF Reports
    <2> HIDE DEF x
    <2>3. coord.active.op = "cancelled" \/ wk.phase \notin {"Running", "Paused"}
      BY <1>4
    <2>4. /\ x.kind # "Published" /\ x.kind # "SourceFailed"
          /\ thr.pc \in {"check", "execute", "publish"}
      BY <1>2, <2>2
    <2> QED
      BY <1>2, <2>1, <2>2, <2>3, <2>4, ReportKeeps, Zenon
  <1> QED
    BY <1>3, <1>4, Zenon

\* The executor gives up before it publishes.
LEMMA ExecuteKeeps ==
  ASSUME MaintenanceInv, ExecuteFails
  PROVE  MaintenanceInv'
  <1>1. UNCHANGED <<scenario, coord, wk, waiter, owner, hist>> /\ thr.pc = "execute"
    BY Zenon DEF ExecuteFails
  <1>2. PICK x \in {[kind |-> "Failed"], [kind |-> "Cancelled"]}
              \cup {[kind |-> "SourceFailed", identity |-> i] : i \in {j \in Identities : scenario.failing /\ coord.next <= MaxRequests}} :
          thr' = [pc |-> "finish", x |-> x]
    BY Zenon DEF ExecuteFails
  <1>3. x \in Reports /\ x.kind # "Published"
    BY <1>2 DEF Reports
  <1>4. thr.pc \in {"check", "execute", "publish"} /\ thr.pc # "check"
    BY <1>1
  <1> QED
    BY <1>1, <1>2, <1>3, <1>4, ReportKeeps, Zenon

\* The package does not become visible.
LEMMA PublishFailsKeeps ==
  ASSUME MaintenanceInv, PublishFails
  PROVE  MaintenanceInv'
  <1> DEFINE x == [kind |-> "Failed"]
  <1>1. /\ UNCHANGED <<scenario, coord, wk, waiter, owner, hist>> /\ thr.pc = "publish"
        /\ thr' = [pc |-> "finish", x |-> x]
    BY Zenon DEF PublishFails
  <1>2. x \in Reports /\ x.kind # "Published" /\ x.kind # "SourceFailed"
    BY DEF Reports
  <1>3. thr.pc \in {"check", "execute", "publish"} /\ thr.pc # "check"
    BY <1>1
  <1> HIDE DEF x
  <1> QED
    BY <1>1, <1>2, <1>3, ReportKeeps, Zenon

\* begin_publication: a running permit can no longer be cancelled.
LEMMA BeginKeeps ==
  ASSUME MaintenanceInv, BeginPublication
  PROVE  MaintenanceInv'
  <1>1. /\ wk \in WorkerStates /\ thr \in Threads /\ waiter \in Waiters /\ owner \in Owners
        /\ coord \in Coordinators /\ hist \in Histories
        /\ LiveRoots(coord, hist) /\ ThreadHolds(coord, thr, hist)
        /\ PhaseIsRight /\ LatestIsHonest /\ PlaceIsReserved /\ OwedIsCovered
    BY Zenon DEF MaintenanceInv, MaintenanceType
  <1>2. UNCHANGED <<scenario, wk, waiter, owner, hist>> /\ thr.pc = "execute"
    BY Zenon DEF BeginPublication
  <1>3. CASE MayPublish(coord.active)
    <2>1. /\ coord' = [coord EXCEPT !.active.op = "publishing"]
          /\ thr' = [thr EXCEPT !.pc = "publish"]
      BY <1>3, Zenon DEF BeginPublication
    <2>2. coord.active # None /\ coord.active \in Permits /\ coord.active.op = "running"
      BY <1>1, <1>2, <1>3 DEF ThreadHolds, Coordinators, MayPublish
    <2> DEFINE a == [coord.active EXCEPT !.op = "publishing"]
    <2>3. a \in Permits /\ a.root = coord.active.root /\ a.op = "publishing"
      BY <2>2 DEF Permits
    <2>4. a # None
      BY <2>3, NoneIsApart, Zenon
    <2>5. coord' = [coord EXCEPT !.active = a]
      BY <2>1
    <2> HIDE DEF a
    <2>6. /\ coord' \in Coordinators /\ coord'.active = a
          /\ coord'.next = coord.next /\ coord'.pending = coord.pending
      BY <1>1, <2>3, <2>5 DEF Coordinators
    <2>7. thr' \in Threads /\ thr'.pc = "publish"
      BY <1>1, <2>1 DEF Threads
    <2>8. MaintenanceType'
      BY <1>1, <1>2, <2>6, <2>7, Zenon DEF MaintenanceInv, MaintenanceType
    <2>9. LiveRoots(coord, hist)'
      BY <1>1, <1>2, <2>2, <2>3, <2>4, <2>6 DEF LiveRoots
    <2>10. ThreadHolds(coord, thr, hist)'
      BY <2>3, <2>4, <2>6, <2>7 DEF ThreadHolds
    <2>11. PhaseIsRight'
      <3>1. thr'.pc # "gone"
        BY <2>7
      <3> QED
        BY <1>1, <1>2, <2>4, <2>6, <3>1, Zenon DEF PhaseIsRight
    <2>12. LatestIsHonest'
      BY <1>1, <1>2, Zenon DEF LatestIsHonest
    <2>13. PlaceIsReserved'
      BY <1>1, <1>2, <2>2, <2>3, <2>6, Zenon DEF PlaceIsReserved, Answered
    <2>14. OwedIsCovered'
      BY <1>1, <1>2, <2>2, <2>4, <2>6 DEF OwedIsCovered, OwedIsHeld
    <2> QED
      BY <2>8, <2>9, <2>10, <2>11, <2>12, <2>13, <2>14, Zenon DEF MaintenanceInv
  <1>4. CASE ~MayPublish(coord.active)
    <2> DEFINE x == [kind |-> "Cancelled"]
    <2>1. thr' = [pc |-> "finish", x |-> x] /\ coord' = coord
      BY <1>4, Zenon DEF BeginPublication
    <2>2. x \in Reports /\ x.kind # "Published" /\ x.kind # "SourceFailed"
      BY DEF Reports
    <2> HIDE DEF x
    <2>3. thr.pc \in {"check", "execute", "publish"} /\ thr.pc # "check"
      BY <1>2
    <2> QED
      BY <1>2, <2>1, <2>2, <2>3, ReportKeeps, Zenon
  <1> QED
    BY <1>3, <1>4, Zenon

\* The package becomes visible.  A completion that said Cancelled is of another
\* root: the active one is not over.
LEMMA PublishKeeps ==
  ASSUME MaintenanceInv, Publish
  PROVE  MaintenanceInv'
  <1>1. /\ wk \in WorkerStates /\ thr \in Threads /\ waiter \in Waiters /\ owner \in Owners
        /\ coord \in Coordinators /\ hist \in Histories
        /\ LiveRoots(coord, hist) /\ ThreadHolds(coord, thr, hist)
        /\ PhaseIsRight /\ LatestIsHonest /\ PlaceIsReserved /\ OwedIsCovered
    BY Zenon DEF MaintenanceInv, MaintenanceType
  <1>2. UNCHANGED <<scenario, coord, wk, waiter, owner>> /\ thr.pc = "publish"
    BY Zenon DEF Publish
  <1>3. PICK x \in {[kind |-> "Published"], [kind |-> "Failed"]} : thr' = [pc |-> "finish", x |-> x]
    BY Zenon DEF Publish
  <1>4. x \in Reports /\ x.kind # "SourceFailed"
    BY <1>3 DEF Reports
  <1>5. x # None
    BY <1>4, NoneIsApart, Zenon
  <1>6. thr' \in Threads /\ thr'.pc = "finish" /\ thr'.x = x
    BY <1>3, <1>4 DEF Threads
  <1>7. coord.active # None /\ coord.active \in Permits /\ coord.active.op = "publishing"
    BY <1>1, <1>2 DEF ThreadHolds, Coordinators
  <1>8. coord.active.root \in Nat
    BY <1>7 DEF Permits
  <1>9. /\ hist' \in Histories /\ hist'.published = hist.published \cup {coord.active.root}
        /\ hist'.ended = hist.ended /\ hist'.owed = hist.owed
    <2>1. hist' = [hist EXCEPT !.published = @ \cup {coord.active.root}]
      BY Zenon DEF Publish
    <2> QED
      BY <1>1, <1>8, <2>1 DEF Histories
  <1>10. MaintenanceType'
    BY <1>1, <1>2, <1>6, <1>9, Zenon DEF MaintenanceInv, MaintenanceType
  <1>11. LiveRoots(coord, hist)'
    BY <1>1, <1>2, <1>7, <1>9 DEF LiveRoots
  <1>12. ThreadHolds(coord, thr, hist)'
    BY <1>2, <1>4, <1>5, <1>6, <1>7, <1>9 DEF ThreadHolds
  <1>13. PhaseIsRight'
    <2>1. thr'.pc # "gone"
      BY <1>6
    <2> QED
      BY <1>1, <1>2, <2>1, Zenon DEF PhaseIsRight
  <1>14. LatestIsHonest'
    <2>1. coord.active.root \notin hist.ended
      BY <1>1, <1>7, Zenon DEF LiveRoots
    <2> QED
      BY <1>1, <1>2, <1>9, <2>1 DEF LatestIsHonest
  <1>15. PlaceIsReserved'
    BY <1>1, <1>2, <1>9, Zenon DEF PlaceIsReserved, Answered
  <1>16. OwedIsCovered'
    BY <1>1, <1>2, <1>6, <1>9 DEF OwedIsCovered, OwedIsHeld
  <1> QED
    BY <1>10, <1>11, <1>12, <1>13, <1>14, <1>15, <1>16, Zenon DEF MaintenanceInv

\* The worker records the completion and goes on, rests or ends.
LEMMA FinishKeeps ==
  ASSUME MaintenanceInv, Finish
  PROVE  MaintenanceInv'
  <1>1. /\ wk \in WorkerStates /\ thr \in Threads /\ waiter \in Waiters /\ owner \in Owners
        /\ coord \in Coordinators /\ hist \in Histories
        /\ LiveRoots(coord, hist) /\ ThreadHolds(coord, thr, hist)
        /\ PhaseIsRight /\ LatestIsHonest /\ PlaceIsReserved /\ OwedIsCovered
    BY Zenon DEF MaintenanceInv, MaintenanceType
  <1> DEFINE x == thr.x
             d == finish(coord, x).c
             k == finish(coord, x).completion
             more == d.active # None
             held == more /\ wk.phase = "Paused"
             over == IF k.outcome = "RetryScheduled" THEN hist.ended
                     ELSE hist.ended \cup {k.root}
             due == IF k.outcome \in {"SourceSuspect", "Cancelled"} /\ ~more
                    THEN {} ELSE hist.owed
             place == CASE wk.phase = "Stopping" -> "gone"
                        [] wk.phase = "Running" /\ more -> "check"
                        [] OTHER -> "recv"
  <1>2. UNCHANGED <<scenario, waiter, owner>> /\ thr.pc = "finish"
    BY Zenon DEF Finish
  <1>3. /\ coord' = d
        /\ wk' = [wk EXCEPT !.latest = k, !.phase = IF @ = "Stopping" THEN "Stopped" ELSE @,
                            !.start = held]
        /\ thr' = [pc |-> place, x |-> None]
        /\ hist' = [hist EXCEPT !.ended = over, !.owed = due]
    BY DEF Finish
  <1>4. /\ coord.active # None /\ x # None
        /\ x.kind = "Published" =>
              coord.active.op = "publishing" /\ coord.active.root \in hist.published
        /\ x.kind = "SourceFailed" => coord.active.op # "publishing"
    BY <1>1, <1>2 DEF ThreadHolds
  <1>5. x \in Reports /\ coord.active \in Permits
    BY <1>1, <1>4 DEF Threads, Coordinators
  <1>6. coord.active.root \in Nat
    BY <1>5 DEF Permits
  <1> HIDE DEF x
  <1>7. /\ d \in Coordinators /\ d.next \in {coord.next, coord.next + 1} /\ d.pending = None
        /\ k \in Completions /\ k.root = coord.active.root
        /\ k.outcome = "Published" => x.kind = "Published"
        /\ k.outcome \in {"Cancelled", "RetryScheduled"} => coord.active.op # "publishing"
        /\ coord.active.op = "cancelled" => k.outcome = "Cancelled"
        /\ k.outcome = "RetryScheduled" => d.active # None
        /\ coord.pending # None /\ k.outcome # "SourceSuspect" => d.active # None
        /\ d.active # None =>
              /\ d.active.op = "running"
              /\ \/ k.outcome = "RetryScheduled" /\ d.active.root = coord.active.root
                 \/ coord.pending # None /\ d.active.root = coord.pending.root
    BY <1>1, <1>4, <1>5, FinishEffect
  <1> HIDE DEF d, k
  <1>8. /\ wk' \in WorkerStates /\ wk'.latest = k /\ wk'.waited = wk.waited
        /\ wk'.phase = (IF wk.phase = "Stopping" THEN "Stopped" ELSE wk.phase)
        /\ wk'.start = held
    <2>1. held \in BOOLEAN
      OBVIOUS
    <2> HIDE DEF held
    <2> QED
      BY <1>1, <1>3, <1>7, <2>1, ZenonT(60) DEF WorkerStates
  <1>9. /\ thr' \in Threads /\ thr'.pc = place
        /\ place \in {"gone", "check", "recv"}
        /\ place = "gone" => wk.phase = "Stopping"
        /\ place = "check" => more
    <2> HIDE DEF more
    <2>1. /\ place \in {"gone", "check", "recv"}
          /\ place = "gone" => wk.phase = "Stopping"
          /\ place = "check" => more
      OBVIOUS
    <2> HIDE DEF place
    <2>2. thr' \in Threads /\ thr'.pc = place
      BY <1>3, <2>1 DEF Threads
    <2> QED
      BY <2>1, <2>2, Zenon
  <1> HIDE DEF place
  <1>10. over \subseteq hist.ended \cup {coord.active.root} /\ hist.ended \subseteq over
    BY <1>7
  <1>11. /\ hist' \in Histories /\ hist'.ended = over /\ hist'.owed = due
         /\ hist'.published = hist.published
    <2>1. over \in SUBSET Nat /\ due \in SUBSET Nat
      BY <1>1, <1>6, <1>10 DEF Histories
    <2> HIDE DEF over, due
    <2> QED
      BY <1>1, <1>3, <2>1, ZenonT(60) DEF Histories
  <1>12. MaintenanceType'
    BY <1>1, <1>2, <1>3, <1>7, <1>8, <1>9, <1>11, Zenon DEF MaintenanceInv, MaintenanceType
  <1>13. LiveRoots(coord, hist)'
    <2>1. coord.next \in Nat
      BY <1>1 DEF Coordinators
    <2>2. /\ coord.next > 0 /\ d.next > 0
          /\ \A r \in Nat : r < coord.next => r < d.next
      BY <1>1, <1>7, <2>1 DEF LiveRoots
    <2>3. /\ \A r \in over : r \in Nat /\ r < coord.next
          /\ \A r \in hist.published : r \in Nat /\ r < coord.next
      BY <1>1, <1>4, <1>6, <1>10 DEF LiveRoots, Histories
    <2>4. ASSUME d.active # None
          PROVE  /\ d.active.root < d.next /\ d.active.root \notin over
                 /\ d.active.root \notin hist.published
      <3>1. CASE k.outcome = "RetryScheduled" /\ d.active.root = coord.active.root
        BY <1>1, <1>4, <1>6, <1>7, <2>2, <3>1 DEF LiveRoots
      <3>2. CASE coord.pending # None /\ d.active.root = coord.pending.root
        <4>1. coord.pending.root \in Nat
          BY <1>1, <3>2 DEF Coordinators, Requests
        <4> QED
          BY <1>1, <1>4, <1>10, <2>2, <3>2, <4>1 DEF LiveRoots
      <3> QED
        BY <1>7, <2>4, <3>1, <3>2, Zenon
    <2> QED
      BY <1>3, <1>7, <1>11, <2>2, <2>3, <2>4, Zenon DEF LiveRoots
  <1>14. ThreadHolds(coord, thr, hist)'
    BY <1>3, <1>7, <1>9 DEF ThreadHolds
  <1>15. PhaseIsRight'
    <2>1. wk'.start => coord'.active # None
      BY <1>3, <1>8, Zenon
    <2>2. wk'.phase \in {"Stopping", "Stopped"} <=> wk.phase \in {"Stopping", "Stopped"}
      BY <1>8
    <2>3. thr'.pc = "gone" => wk'.phase = "Stopped"
      BY <1>8, <1>9, Zenon
    <2> QED
      BY <1>1, <1>2, <2>1, <2>2, <2>3, Zenon DEF PhaseIsRight
  <1>16. LatestIsHonest'
    <2>1. coord.active.op # "publishing" => coord.active.root \notin hist.published
      BY <1>1, <1>4, Zenon DEF LiveRoots
    <2>2. k.outcome # "RetryScheduled" => k.root \in over
      OBVIOUS
    <2> HIDE DEF over
    <2> QED
      BY <1>4, <1>7, <1>8, <1>11, <2>1, <2>2 DEF LatestIsHonest
  <1>17. PlaceIsReserved'
    <2> SUFFICES ASSUME waiter.pc = "waiting"
                 PROVE  /\ wk'.waited = waiter.root /\ waiter.root # 0
                        /\ waiter.root < d.next /\ d.pending = None
                        /\ d.active # None => d.active.root = waiter.root
                        /\ waiter.root \in over => Answered'
      BY <1>2, <1>3, <1>11, Zenon DEF PlaceIsReserved
    <2>1. /\ wk.waited = waiter.root /\ waiter.root # 0 /\ waiter.root < coord.next
          /\ coord.pending = None /\ coord.active.root = waiter.root
      BY <1>1, <1>4, Zenon DEF PlaceIsReserved
    <2>2. coord.next \in Nat /\ waiter.root \in Nat
      BY <1>1 DEF Coordinators, Waiters
    <2>3. waiter.root < d.next
      BY <1>7, <2>1, <2>2
    <2>4. d.active # None => d.active.root = waiter.root
      BY <1>7, <2>1, Zenon
    <2>5. waiter.root \in over => k.outcome # "RetryScheduled"
      BY <1>1, <1>4, <2>1, Zenon DEF LiveRoots
    <2>6. k # None
      BY <1>7, NoneIsApart, Zenon
    <2>7. waiter.root \in over => Answered'
      BY <1>2, <1>7, <1>8, <2>1, <2>5, <2>6, Zenon DEF Answered
    <2> QED
      BY <1>7, <1>8, <2>1, <2>3, <2>4, <2>7, Zenon
  <1>18. OwedIsCovered'
    <2> SUFFICES ASSUME wk'.phase \in {"Running", "Paused"}, hist'.owed # {}
                 PROVE  coord'.active # None /\ thr'.pc \in {"recv", "check"}
      BY Zenon DEF OwedIsCovered, OwedIsHeld
    <2>1. wk.phase \in {"Running", "Paused"}
      BY <1>8
    <2>2. thr'.pc \in {"recv", "check"}
      BY <1>9, <2>1
    <2>3. /\ hist.owed # {}
          /\ k.outcome \in {"SourceSuspect", "Cancelled"} => more
      BY <1>11, Zenon
    <2>4. coord.active.op = "cancelled" \/ coord.pending # None
      BY <1>1, <1>2, <2>1, <2>3 DEF OwedIsCovered, OwedIsHeld
    <2>5. more
      BY <1>7, <2>3, <2>4
    <2> QED
      BY <1>3, <2>2, <2>5, Zenon
  <1> QED
    BY <1>12, <1>13, <1>14, <1>15, <1>16, <1>17, <1>18, Zenon DEF MaintenanceInv

\* What submit_inner does to the coordinator and to the worker's state: nothing
\* is admitted while the worker does not run or a caller holds the reservation.
LEMMA InnerEffect ==
  ASSUME MaintenanceInv, NEW p \in MaintenancePurpose, NEW reserve \in BOOLEAN,
         submit_inner(p, reserve)
  PROVE  LET a == Admission(p, reserve)
         IN  /\ coord' \in Coordinators /\ coord'.next \in {coord.next, coord.next + 1}
             /\ wk' \in WorkerStates /\ hist' \in Histories
             /\ wk'.phase = wk.phase /\ wk'.latest = wk.latest
             /\ hist'.published = hist.published /\ hist'.ended = hist.ended
             /\ hist'.owed # {} => hist.owed # {} \/ (a \in {"Started", "Coalesced"} /\ p # "Periodic")
             /\ \/ /\ a \in {"Bypassed", "Rejected"}
                   /\ coord'.active = coord.active /\ coord'.pending = coord.pending
                   /\ wk' = wk
                \/ /\ a = "Started" /\ wk.phase = "Running" /\ wk.waited = 0
                   /\ coord.active = None /\ coord'.pending = coord.pending
                   /\ coord'.next = coord.next + 1
                   /\ coord'.active \in Permits
                   /\ coord'.active.root = coord.next /\ coord'.active.op = "running"
                   /\ wk'.waited = IF reserve THEN coord.next ELSE 0
                \/ /\ a = "Coalesced" /\ wk.phase = "Running" /\ wk.waited = 0
                   /\ coord.active # None /\ coord'.active = coord.active
                   /\ coord'.next = coord.next + 1
                   /\ coord'.pending \in Requests
                   /\ coord'.pending = coord.pending \/ coord'.pending.root = coord.next
                   /\ p # "Periodic" => coord'.pending.urgency > urgency("Periodic")
                   /\ coord.pending # None => coord'.pending.urgency >= coord.pending.urgency
                   /\ wk' = wk
  <1>1. /\ wk \in WorkerStates /\ thr \in Threads /\ waiter \in Waiters /\ owner \in Owners
        /\ coord \in Coordinators /\ hist \in Histories
        /\ LiveRoots(coord, hist) /\ ThreadHolds(coord, thr, hist)
        /\ PhaseIsRight /\ LatestIsHonest /\ PlaceIsReserved /\ OwedIsCovered
    BY Zenon DEF MaintenanceInv, MaintenanceType
  <1> DEFINE s == submit(coord, p)
             a == Admission(p, reserve)
             open == wk.phase = "Running" /\ (a # "Rejected" \/ wk.waited = 0)
             owed == IF a \in {"Started", "Coalesced"} /\ p # "Periodic"
                     THEN hist.owed \cup {coord.next} ELSE hist.owed
             asked == IF p = "Periodic" THEN hist.asked ELSE hist.asked + 1
  <1>2. /\ s.c \in Coordinators
        /\ s.c.next \in {coord.next, coord.next + 1}
        /\ \/ /\ s.admission \in {"Bypassed", "Rejected"}
              /\ s.c.active = coord.active /\ s.c.pending = coord.pending
           \/ /\ s.admission = "Started"
              /\ coord.active = None /\ s.c.pending = coord.pending
              /\ s.c.next = coord.next + 1
              /\ s.c.active \in Permits
              /\ s.c.active.root = coord.next /\ s.c.active.op = "running"
           \/ /\ s.admission = "Coalesced"
              /\ coord.active # None /\ s.c.active = coord.active
              /\ s.c.next = coord.next + 1
              /\ s.c.pending \in Requests
              /\ s.c.pending = coord.pending \/ s.c.pending.root = coord.next
              /\ p # "Periodic" => s.c.pending.urgency > urgency("Periodic")
              /\ coord.pending # None => s.c.pending.urgency >= coord.pending.urgency
    BY <1>1, SubmitEffect
  <1>3. /\ coord' = IF open THEN s.c ELSE coord
        /\ wk' = IF a # "Started" THEN wk
                 ELSE [wk EXCEPT !.start = TRUE, !.wake = TRUE,
                                 !.waited = IF reserve THEN s.c.active.root ELSE @]
        /\ hist' = [hist EXCEPT !.asked = asked, !.owed = owed]
    BY DEF submit_inner
  <1>4. a = IF wk.phase # "Running" \/ wk.waited # 0 THEN "Rejected" ELSE s.admission
    BY Zenon DEF Admission
  <1>5. coord.next \in Nat /\ hist.asked \in Nat /\ hist.owed \in SUBSET Nat
    BY <1>1 DEF Coordinators, Histories
  <1> HIDE DEF s, a
  <1>6. /\ hist' \in Histories
        /\ hist'.published = hist.published /\ hist'.ended = hist.ended
        /\ hist'.owed # {} => hist.owed # {} \/ (a \in {"Started", "Coalesced"} /\ p # "Periodic")
    <2>1. asked \in Nat /\ owed \in SUBSET Nat
      BY <1>5
    <2>2. owed # {} => hist.owed # {} \/ (a \in {"Started", "Coalesced"} /\ p # "Periodic")
      OBVIOUS
    <2> HIDE DEF asked, owed
    <2>3. /\ hist' \in Histories /\ hist'.owed = owed
          /\ hist'.published = hist.published /\ hist'.ended = hist.ended
      BY <1>1, <1>3, <2>1, ZenonT(60) DEF Histories
    <2> QED
      BY <2>2, <2>3, Zenon
  <1>7. CASE wk.phase # "Running" \/ wk.waited # 0
    <2>1. a = "Rejected" /\ ~open
      BY <1>4, <1>7
    <2>2. coord' = coord /\ wk' = wk
      BY <1>3, <2>1
    <2> QED
      BY <1>1, <1>6, <2>1, <2>2 DEF a
  <1>8. CASE wk.phase = "Running" /\ wk.waited = 0
    <2>1. a = s.admission /\ open
      BY <1>4, <1>8
    <2>2. coord' = s.c
      BY <1>3, <2>1
    <2>3. CASE a # "Started"
      <3>1. wk' = wk
        BY <1>3, <2>3
      <3> QED
        BY <1>1, <1>2, <1>6, <1>8, <2>1, <2>2, <2>3, <3>1 DEF a
    <2>4. CASE a = "Started"
      <3> DEFINE place == IF reserve THEN coord.next ELSE 0
      <3>1. s.c.active.root = coord.next
        BY <1>2, <2>1, <2>4
      <3>2. place \in Nat
        BY <1>5
      <3>3. wk' = [wk EXCEPT !.start = TRUE, !.wake = TRUE, !.waited = place]
        BY <1>3, <1>8, <2>4, <3>1
      <3> HIDE DEF place
      <3>4. /\ wk' \in WorkerStates /\ wk'.phase = wk.phase /\ wk'.latest = wk.latest
            /\ wk'.waited = place
        BY <1>1, <3>2, <3>3, ZenonT(60) DEF WorkerStates
      <3> QED
        BY <1>2, <1>6, <1>8, <2>1, <2>2, <2>4, <3>4 DEF a, place
    <2> QED
      BY <2>3, <2>4, Zenon
  <1> QED
    BY <1>7, <1>8, Zenon

\* The three callers of submit_inner: a request that is not waited for, one that
\* is, and the scheduler's.
LEMMA SubmitKeeps ==
  ASSUME MaintenanceInv, NEW p \in MaintenancePurpose, NEW reserve \in BOOLEAN,
         submit_inner(p, reserve), UNCHANGED <<scenario, thr, owner>>,
         waiter' \in Waiters,
         \/ /\ reserve /\ Admission(p, reserve) = "Started"
            /\ waiter'.pc = "waiting" /\ waiter'.root = coord.next
         \/ /\ waiter'.pc = "idle" /\ waiter.pc = "idle"
         \/ ~reserve /\ waiter' = waiter
  PROVE  MaintenanceInv'
  <1>1. /\ wk \in WorkerStates /\ thr \in Threads /\ waiter \in Waiters /\ owner \in Owners
        /\ coord \in Coordinators /\ hist \in Histories
        /\ LiveRoots(coord, hist) /\ ThreadHolds(coord, thr, hist)
        /\ PhaseIsRight /\ LatestIsHonest /\ PlaceIsReserved /\ OwedIsCovered
    BY Zenon DEF MaintenanceInv, MaintenanceType
  <1> DEFINE a == Admission(p, reserve)
  <1>2. /\ coord' \in Coordinators /\ coord'.next \in {coord.next, coord.next + 1}
        /\ wk' \in WorkerStates /\ hist' \in Histories
        /\ wk'.phase = wk.phase /\ wk'.latest = wk.latest
        /\ hist'.published = hist.published /\ hist'.ended = hist.ended
        /\ hist'.owed # {} => hist.owed # {} \/ (a \in {"Started", "Coalesced"} /\ p # "Periodic")
        /\ \/ /\ a \in {"Bypassed", "Rejected"}
              /\ coord'.active = coord.active /\ coord'.pending = coord.pending
              /\ wk' = wk
           \/ /\ a = "Started" /\ wk.phase = "Running" /\ wk.waited = 0
              /\ coord.active = None /\ coord'.pending = coord.pending
              /\ coord'.next = coord.next + 1
              /\ coord'.active \in Permits
              /\ coord'.active.root = coord.next /\ coord'.active.op = "running"
              /\ wk'.waited = IF reserve THEN coord.next ELSE 0
           \/ /\ a = "Coalesced" /\ wk.phase = "Running" /\ wk.waited = 0
              /\ coord.active # None /\ coord'.active = coord.active
              /\ coord'.next = coord.next + 1
              /\ coord'.pending \in Requests
              /\ coord'.pending = coord.pending \/ coord'.pending.root = coord.next
              /\ p # "Periodic" => coord'.pending.urgency > urgency("Periodic")
              /\ coord.pending # None => coord'.pending.urgency >= coord.pending.urgency
              /\ wk' = wk
    BY InnerEffect, Zenon
  <1> HIDE DEF a
  <1>3. /\ coord.next \in Nat /\ wk.waited \in Nat /\ waiter.root \in Nat
        /\ hist.ended \subseteq Nat /\ hist.published \subseteq Nat
        /\ coord.active # None => coord.active.root \in Nat
        /\ coord.pending # None => coord.pending.root \in Nat
    BY <1>1 DEF Coordinators, WorkerStates, Waiters, Histories, Permits, Requests
  <1>4. MaintenanceType'
    BY <1>1, <1>2, Zenon DEF MaintenanceInv, MaintenanceType
  <1>5. /\ \A r \in Permits : r # None
        /\ \A r \in Requests : r # None
    BY NoneIsApart, Zenon
  <1>6. LiveRoots(coord, hist)'
    <2>1. CASE a \in {"Bypassed", "Rejected"}
      BY <1>1, <1>2, <1>3, <2>1 DEF LiveRoots
    <2>2. CASE a = "Started"
      BY <1>1, <1>2, <1>3, <2>2 DEF LiveRoots
    <2>3. CASE a = "Coalesced"
      <3>1. coord'.pending = coord.pending \/ coord'.pending.root = coord.next
        BY <1>2, <2>3
      <3> QED
        BY <1>1, <1>2, <1>3, <1>5, <2>3, <3>1 DEF LiveRoots
    <2> QED
      BY <1>2, <2>1, <2>2, <2>3, Zenon
  <1>7. a = "Started" => thr.pc = "recv"
    BY <1>1, <1>2 DEF ThreadHolds, PhaseIsRight, Threads
  <1>8. ThreadHolds(coord, thr, hist)'
    <2>1. CASE a # "Started"
      <3>1. coord'.active = coord.active
        BY <1>2, <2>1
      <3> QED
        BY <1>1, <1>2, <3>1, Zenon DEF ThreadHolds
    <2>2. CASE a = "Started"
      BY <1>2, <1>7, <2>2 DEF ThreadHolds
    <2> QED
      BY <2>1, <2>2, Zenon
  <1>9. PhaseIsRight'
    <2>1. wk'.start => coord'.active # None
      <3>1. CASE a = "Started"
        <4>1. coord'.active \in Permits
          BY <1>2, <3>1
        <4> QED
          BY <1>5, <4>1, Zenon
      <3>2. CASE a # "Started"
        <4>1. coord'.active = coord.active /\ wk' = wk
          BY <1>2, <3>2
        <4> QED
          BY <1>1, <4>1, Zenon DEF PhaseIsRight
      <3> QED
        BY <3>1, <3>2, Zenon
    <2> QED
      BY <1>1, <1>2, <2>1, Zenon DEF PhaseIsRight
  <1>10. LatestIsHonest'
    BY <1>1, <1>2, Zenon DEF LatestIsHonest
  <1>11. PlaceIsReserved'
    <2>1. CASE reserve /\ a = "Started" /\ waiter'.pc = "waiting" /\ waiter'.root = coord.next
      <3>1. coord.pending = None /\ coord.next > 0 /\ coord.next \notin hist.ended
        BY <1>1, <1>2, <1>3, <2>1 DEF LiveRoots
      <3> QED
        BY <1>2, <1>3, <2>1, <3>1 DEF PlaceIsReserved
    <2>2. CASE waiter'.pc = "idle"
      BY <2>2 DEF PlaceIsReserved
    <2>3. CASE ~reserve /\ waiter' = waiter /\ waiter.pc = "waiting"
      <3>1. /\ wk.waited = waiter.root /\ waiter.root # 0 /\ waiter.root < coord.next
        BY <1>1, <2>3, Zenon DEF PlaceIsReserved
      <3>2. /\ coord'.active = coord.active /\ coord'.pending = coord.pending /\ wk' = wk
        BY <1>2, <3>1
      <3>3. waiter.root < coord'.next
        BY <1>2, <1>3, <3>1
      <3> QED
        BY <1>1, <1>2, <2>3, <3>1, <3>2, <3>3, Zenon DEF PlaceIsReserved, Answered
    <2>4. waiter.pc \in {"idle", "waiting"}
      BY <1>1 DEF Waiters
    <2> QED
      BY <2>1, <2>2, <2>3, <2>4 DEF a
  <1>12. OwedIsCovered'
    <2> SUFFICES ASSUME wk.phase \in {"Running", "Paused"}, hist'.owed # {}
                 PROVE  /\ coord'.active # None
                        /\ \/ thr.pc \in {"recv", "check"}
                           \/ coord'.active.op = "cancelled"
                           \/ coord'.pending # None /\ coord'.pending.urgency > urgency("Periodic")
      BY <1>2, Zenon DEF OwedIsCovered, OwedIsHeld
    <2>1. OwedIsHeld(coord, thr, hist)
      BY <1>1, Zenon DEF OwedIsCovered
    <2>2. CASE a = "Started"
      BY <1>2, <1>5, <1>7, <2>2
    <2>3. CASE a \in {"Bypassed", "Rejected"}
      BY <1>2, <2>1, <2>3 DEF OwedIsHeld
    <2>4. CASE a = "Coalesced"
      <3>1. /\ coord.active # None /\ coord'.active = coord.active
            /\ coord'.pending \in Requests /\ coord'.pending # None
            /\ p # "Periodic" => coord'.pending.urgency > urgency("Periodic")
            /\ coord.pending # None => coord'.pending.urgency >= coord.pending.urgency
        BY <1>2, <1>5, <2>4
      <3>2. CASE p # "Periodic"
        BY <3>1, <3>2, Zenon
      <3>3. CASE p = "Periodic"
        <4>1. hist.owed # {}
          BY <1>2, <3>3, Zenon
        <4>2. /\ urgency("Periodic") = 1 /\ coord'.pending.urgency \in 1 .. 4
              /\ coord.pending # None => coord.pending.urgency \in 1 .. 4
          BY <1>1, <3>1 DEF urgency, Requests, Coordinators
        <4> QED
          BY <2>1, <3>1, <4>1, <4>2 DEF OwedIsHeld
      <3> QED
        BY <3>2, <3>3, Zenon
    <2> QED
      BY <1>2, <2>2, <2>3, <2>4, Zenon
  <1> QED
    BY <1>4, <1>6, <1>8, <1>9, <1>10, <1>11, <1>12, Zenon DEF MaintenanceInv

----------------------------------------------------------------------------
(* The steps together. *)

\* What a scenario may ask for is a purpose of the code.
LEMMA ScenarioPurposes ==
  ASSUME scenario \in Scenarios
  PROVE  /\ scenario.asked \subseteq MaintenancePurpose
         /\ scenario.waited \subseteq MaintenancePurpose
         /\ scenario.source \in MaintenanceSourceState /\ scenario.turns \in Nat
  BY ScenariosAssumption

\* Init: nothing is asked for, nothing is over.
LEMMA InitIsHonest == Init => MaintenanceInv
  <1> SUFFICES ASSUME Init PROVE MaintenanceInv
    OBVIOUS
  <1>1. /\ scenario \in Scenarios /\ scenario.source \in MaintenanceSourceState
        /\ scenario.turns \in Nat
    BY ScenarioPurposes DEF Init
  <1>2. /\ coord \in Coordinators /\ coord.next = 1
        /\ coord.active = None /\ coord.pending = None
    BY <1>1 DEF Init, NewCoordinator, Coordinators
  <1>3. /\ wk \in WorkerStates /\ wk.phase = "Running" /\ wk.start = FALSE
        /\ wk.latest = None
    BY DEF Init, WorkerStates
  <1>4. thr \in Threads /\ thr.pc = "recv"
    BY DEF Init, Threads
  <1>5. /\ waiter \in Waiters /\ waiter.pc = "idle" /\ owner \in Owners /\ owner.pc = "idle"
    BY <1>1 DEF Init, Waiters, Owners
  <1>6. hist \in Histories /\ hist.owed = {} /\ hist.published = {} /\ hist.ended = {}
    BY DEF Init, Histories
  <1>7. LiveRoots(coord, hist) /\ ThreadHolds(coord, thr, hist)
    BY <1>2, <1>4, <1>6 DEF LiveRoots, ThreadHolds
  <1>8. PhaseIsRight
    <2>1. /\ wk.phase \notin {"Stopping", "Stopped"} /\ owner.pc \notin {"joining", "gone"}
          /\ thr.pc # "gone" /\ ~wk.start
      BY <1>3, <1>4, <1>5
    <2> QED
      BY <2>1, Zenon DEF PhaseIsRight
  <1>9. LatestIsHonest /\ PlaceIsReserved /\ OwedIsCovered
    BY <1>3, <1>5, <1>6 DEF LatestIsHonest, PlaceIsReserved, OwedIsCovered, OwedIsHeld
  <1> QED
    BY <1>1, <1>2, <1>3, <1>4, <1>5, <1>6, <1>7, <1>8, <1>9, Zenon
    DEF MaintenanceInv, MaintenanceType

\* The worker thread's steps keep the invariant.
LEMMA WorkerStepKeeps ==
  ASSUME MaintenanceInv, WorkerStep
  PROVE  MaintenanceInv'
  BY TakeKeeps, CheckKeeps, ExecuteKeeps, BeginKeeps, PublishKeeps, PublishFailsKeeps,
     FinishKeeps, Zenon DEF WorkerStep

\* The scheduler thread touches the worker only through submit_inner.
LEMMA SchedulerStepKeeps ==
  ASSUME MaintenanceInv, SchedulerStep
  PROVE  MaintenanceInv'
  <1>1. waiter \in Waiters /\ owner \in Owners
    BY Zenon DEF MaintenanceInv, MaintenanceType
  <1>2. CASE SchedulerLoop \/ SchedulerPoll \/ SchedulerWakes
    <2>1. UNCHANGED <<scenario, coord, wk, thr, waiter, owner, hist>>
      BY <1>2, Zenon DEF SchedulerLoop, SchedulerPoll, SchedulerWakes
    <2> QED
      BY <1>1, <2>1, OtherKeeps, Zenon
  <1>3. CASE SchedulerSubmit
    <2>1. "Periodic" \in MaintenancePurpose /\ FALSE \in BOOLEAN
      BY DEF MaintenancePurpose
    <2>2. /\ submit_inner("Periodic", FALSE) /\ UNCHANGED <<scenario, thr, owner>>
          /\ waiter' = waiter
      BY <1>3, Zenon DEF SchedulerSubmit
    <2> QED
      BY <1>1, <2>1, <2>2, SubmitKeeps, Zenon
  <1> QED
    BY <1>2, <1>3, Zenon DEF SchedulerStep

\* The owner's calls and the steps they are made of keep the invariant.
LEMMA OwnerKeeps ==
  ASSUME MaintenanceInv, OwnerStep \/ OwnerCall
  PROVE  MaintenanceInv'
  <1>1. /\ wk \in WorkerStates /\ owner \in Owners /\ PhaseIsRight
    BY Zenon DEF MaintenanceInv, MaintenanceType
  <1>2. CASE \/ SwitchSchedule \/ PauseSchedule \/ ResumeSchedule \/ Joined
             \/ RecordChange \/ PauseScheduler \/ StopScheduler
    <2>1. UNCHANGED <<scenario, coord, wk, thr, waiter, hist>>
      BY <1>2, Zenon DEF SwitchSchedule, PauseSchedule, ResumeSchedule, Joined,
                         RecordChange, PauseScheduler, StopScheduler
    <2>2. /\ owner' \in Owners
          /\ owner'.pc \in {"joining", "gone"} <=> owner.pc \in {"joining", "gone"}
      <3>1. CASE SwitchSchedule
        BY <1>1, <3>1 DEF SwitchSchedule, Owners
      <3>2. CASE PauseSchedule
        BY <1>1, <3>2 DEF PauseSchedule, Owner, Owners
      <3>3. CASE ResumeSchedule
        BY <1>1, <3>3 DEF ResumeSchedule, Owner, Owners
      <3>4. CASE Joined
        BY <1>1, <3>4 DEF Joined, Owner, Owners
      <3>5. CASE RecordChange
        BY <1>1, <3>5 DEF RecordChange, Turn, Owners
      <3>6. CASE PauseScheduler
        BY <1>1, <3>6 DEF PauseScheduler, Turn, Owners
      <3>7. CASE StopScheduler
        BY <1>1, <3>7 DEF StopScheduler, Turn, Owners
      <3> QED
        BY <1>2, <3>1, <3>2, <3>3, <3>4, <3>5, <3>6, <3>7, Zenon
    <2> QED
      BY <2>1, <2>2, OtherKeeps, Zenon
  <1>3. wk.phase \in {"Running", "Paused", "Stopping", "Stopped"}
    BY <1>1 DEF WorkerStates
  <1>4. ASSUME owner.pc \in {"pauseWorker", "resume", "stopping"}
        PROVE  wk.phase \in {"Running", "Paused"}
    <2>1. owner.pc \notin {"joining", "gone"}
      BY <1>4
    <2>2. wk.phase \notin {"Stopping", "Stopped"}
      BY <1>1, <2>1, Zenon DEF PhaseIsRight
    <2> QED
      BY <1>3, <2>2
  <1>5. CASE PauseWorker
    <2>1. /\ coord' = cancel_active(coord) /\ UNCHANGED <<scenario, thr, waiter, hist>>
          /\ wk' = [wk EXCEPT !.phase = "Paused"]
      BY <1>5, Zenon DEF PauseWorker
    <2>2. owner' \in Owners /\ owner.pc = "pauseWorker" /\ owner'.pc \notin {"joining", "gone"}
      BY <1>1, <1>5 DEF PauseWorker, Owner, Owners
    <2>3. /\ wk' \in WorkerStates /\ wk'.start = wk.start /\ wk'.latest = wk.latest
          /\ wk'.waited = wk.waited /\ wk'.phase = "Paused"
      BY <1>1, <2>1 DEF WorkerStates
    <2>4. wk.phase \in {"Running", "Paused"}
      BY <1>4, <2>2
    <2>5. /\ wk'.phase \in {"Paused", "Stopping"}
          /\ wk'.phase = "Stopping" <=> owner'.pc \in {"joining", "gone"}
      BY <2>2, <2>3
    <2> QED
      BY <2>1, <2>2, <2>3, <2>4, <2>5, CancelKeeps, Zenon
  <1>6. CASE ResumeScheduler
    <2>1. CASE sched.phase = "Paused"
      <3>1. UNCHANGED <<scenario, coord, wk, thr, waiter, hist>>
        BY <1>6, <2>1, Zenon DEF ResumeScheduler
      <3>2. /\ owner' \in Owners
            /\ owner'.pc \in {"joining", "gone"} <=> owner.pc \in {"joining", "gone"}
        BY <1>1, <1>6, <2>1 DEF ResumeScheduler, Owners
      <3> QED
        BY <3>1, <3>2, OtherKeeps, Zenon
    <2>2. CASE sched.phase # "Paused"
      <3>1. /\ coord' = cancel_active(coord) /\ UNCHANGED <<scenario, thr, waiter, hist>>
            /\ wk' = [wk EXCEPT !.phase = "Paused"]
        BY <1>6, <2>2, Zenon DEF ResumeScheduler
      <3>2. owner' \in Owners /\ owner.pc = "resume" /\ owner'.pc \notin {"joining", "gone"}
        BY <1>1, <1>6, <2>2 DEF ResumeScheduler, Owners
      <3>3. /\ wk' \in WorkerStates /\ wk'.start = wk.start /\ wk'.latest = wk.latest
            /\ wk'.waited = wk.waited /\ wk'.phase = "Paused"
        BY <1>1, <3>1 DEF WorkerStates
      <3>4. wk.phase \in {"Running", "Paused"}
        BY <1>4, <3>2
      <3>5. /\ wk'.phase \in {"Paused", "Stopping"}
            /\ wk'.phase = "Stopping" <=> owner'.pc \in {"joining", "gone"}
        BY <3>2, <3>3
      <3> QED
        BY <3>1, <3>2, <3>3, <3>4, <3>5, CancelKeeps, Zenon
    <2> QED
      BY <2>1, <2>2, Zenon
  <1>7. CASE StopWorker
    <2>1. /\ coord' = cancel_active(coord) /\ UNCHANGED <<scenario, thr, waiter, hist>>
          /\ wk' = [wk EXCEPT !.phase = "Stopping", !.wake = TRUE]
      BY <1>7, Zenon DEF StopWorker
    <2>2. owner' \in Owners /\ owner.pc = "stopping" /\ owner'.pc = "joining"
      BY <1>1, <1>7 DEF StopWorker, Owner, Owners
    <2>3. /\ wk' \in WorkerStates /\ wk'.start = wk.start /\ wk'.latest = wk.latest
          /\ wk'.waited = wk.waited /\ wk'.phase = "Stopping"
      BY <1>1, <2>1, ZenonT(60) DEF WorkerStates
    <2>4. wk.phase \in {"Running", "Paused"}
      BY <1>4, <2>2
    <2>5. /\ wk'.phase \in {"Paused", "Stopping"}
          /\ wk'.phase = "Stopping" <=> owner'.pc \in {"joining", "gone"}
      BY <2>2, <2>3
    <2> QED
      BY <2>1, <2>2, <2>3, <2>4, <2>5, CancelKeeps, Zenon
  <1> QED
    BY <1>2, <1>5, <1>6, <1>7, SwitchKeeps, ResumeKeeps, Zenon DEF OwnerStep, OwnerCall

\* The callers of submit and submit_and_wait.
LEMMA CallersKeep ==
  ASSUME MaintenanceInv,
         \/ \E p \in scenario.asked : Submit(p)
         \/ \E p \in scenario.waited : SubmitAndWait(p)
  PROVE  MaintenanceInv'
  <1>1. waiter \in Waiters /\ coord \in Coordinators /\ scenario \in Scenarios
    BY Zenon DEF MaintenanceInv, MaintenanceType
  <1>2. ASSUME NEW p \in scenario.asked, Submit(p) PROVE MaintenanceInv'
    <2>1. p \in MaintenancePurpose /\ FALSE \in BOOLEAN
      BY <1>1, ScenarioPurposes
    <2>2. submit_inner(p, FALSE) /\ UNCHANGED <<scenario, thr, owner>> /\ waiter' = waiter
      BY <1>2, Zenon DEF Submit
    <2> QED
      BY <1>1, <2>1, <2>2, SubmitKeeps, Zenon
  <1>3. ASSUME NEW p \in scenario.waited, SubmitAndWait(p) PROVE MaintenanceInv'
    <2>1. p \in MaintenancePurpose /\ TRUE \in BOOLEAN
      BY <1>1, ScenarioPurposes
    <2>2. /\ submit_inner(p, TRUE) /\ UNCHANGED <<scenario, thr, owner>> /\ waiter.pc = "idle"
          /\ waiter' = IF Admission(p, TRUE) = "Started"
                       THEN [pc |-> "waiting", root |-> coord.next, got |-> None]
                       ELSE [waiter EXCEPT !.got = None]
      BY <1>3, Zenon DEF SubmitAndWait
    <2>3. coord.next \in Nat
      BY <1>1 DEF Coordinators
    <2>4. /\ waiter' \in Waiters
          /\ \/ /\ Admission(p, TRUE) = "Started"
                /\ waiter'.pc = "waiting" /\ waiter'.root = coord.next
             \/ waiter'.pc = "idle"
      BY <1>1, <2>2, <2>3, ZenonT(60) DEF Waiters
    <2> QED
      BY <2>1, <2>2, <2>4, SubmitKeeps, Zenon
  <1> QED
    BY <1>2, <1>3, Zenon

\* Every step keeps the inductive invariant.
LEMMA NextKeeps == MaintenanceInv /\ [Next]_vars => MaintenanceInv'
  <1> SUFFICES ASSUME MaintenanceInv, [Next]_vars PROVE MaintenanceInv'
    OBVIOUS
  <1>1. owner \in Owners
    BY Zenon DEF MaintenanceInv, MaintenanceType
  <1>2. CASE Tick \/ UNCHANGED vars
    <2>1. UNCHANGED <<scenario, coord, wk, thr, waiter, owner, hist>>
      BY <1>2, Zenon DEF Tick, vars
    <2> QED
      BY <1>1, <2>1, OtherKeeps, Zenon
  <1>3. CASE WorkerStep
    BY <1>3, WorkerStepKeeps, Zenon
  <1>4. CASE SchedulerStep
    BY <1>4, SchedulerStepKeeps, Zenon
  <1>5. CASE OwnerStep \/ OwnerCall
    BY <1>5, OwnerKeeps, Zenon
  <1>6. CASE WaitReturns
    BY <1>6, WaitKeeps, Zenon
  <1>7. CASE \/ \E p \in scenario.asked : Submit(p)
             \/ \E p \in scenario.waited : SubmitAndWait(p)
    BY <1>7, CallersKeep, Zenon
  <1> QED
    BY <1>2, <1>3, <1>4, <1>5, <1>6, <1>7, Zenon DEF Next

(***************************************************************************)
(* In every behaviour a completion says what became of its backup, the     *)
(* caller inside submit_and_wait finds the completion of its own request   *)
(* in the one place the worker keeps, and an admitted request is covered   *)
(* by a backup that starts after it, whatever the order in which requests, *)
(* the scheduler, pauses, resumes, policy changes and a shutdown meet the  *)
(* worker thread (maintenance/worker.rs, maintenance/coordinator.rs).      *)
(***************************************************************************)
THEOREM MaintenanceHonest == Spec => []MaintenanceIsHonest
  <1>1. Init => MaintenanceInv
    BY InitIsHonest
  <1>2. MaintenanceInv /\ [Next]_vars => MaintenanceInv'
    BY NextKeeps
  <1>3. MaintenanceInv => MaintenanceIsHonest
    BY InvIsHonest
  <1> QED
    BY <1>1, <1>2, <1>3, PTL DEF Spec
=============================================================================
