-------------------------- MODULE RefreshAdmission --------------------------
(***************************************************************************)
(* The coordinator of crates/engine/src/coordinator.rs used by callers     *)
(* that submit, cancel and finish in any order, with the history of what   *)
(* each request asked for.                                                 *)
(***************************************************************************)
EXTENDS RefreshCoordinator

CONSTANTS
    Deadlines,   \* the deadlines of the requests (NoDeadline may be one)
    MaxNow       \* bound of the monotonic clock

ASSUME AdmissionAssumption ==
    /\ Deadlines \subseteq Deadline
    /\ MaxNow \in Nat

VARIABLES
    refreshes,   \* the RefreshCoordinator
    clock,       \* the caller-supplied monotonic time
    coalesced,   \* history: the requests merged into the pending one
    serving,     \* history: the requests the active permit stands for
    answered     \* history: the ids finish has reported, latest last

admissionVars == <<refreshes, clock, coalesced, serving, answered>>

Request == [id : RequestId, urgency : RefreshUrgency, deadline : Deadline]

AdmissionInit ==
    /\ refreshes = NewCoordinator
    /\ clock = 0
    /\ coalesced = {}
    /\ serving = {}
    /\ answered = 0

Submit(urgency, deadline) ==
    LET admission == Admission(refreshes, deadline, clock)
        request == [id |-> refreshes.nextId, urgency |-> urgency,
                    deadline |-> deadline]
    IN  /\ refreshes' = AfterSubmit(refreshes, urgency, deadline, clock)
        /\ coalesced' = IF admission = "Coalesced"
                        THEN coalesced \cup {request} ELSE coalesced
        /\ serving' = IF admission = "Started" THEN {request} ELSE serving
        /\ UNCHANGED <<clock, answered>>

Cancel(id) ==
    /\ IsActive(refreshes, id)
    /\ refreshes' = AfterCancel(refreshes, id)
    /\ UNCHANGED <<clock, coalesced, serving, answered>>

\* The outcome that finish is told does not influence the coordinator.
Finish(id) ==
    /\ IsActive(refreshes, id)
    /\ refreshes' = AfterFinish(refreshes, clock)
    /\ serving' = IF PendingFate(refreshes, clock) = "FollowUp"
                  THEN coalesced ELSE {}
    /\ coalesced' = {}
    /\ answered' = id
    /\ UNCHANGED clock

ClockTick ==
    /\ clock < MaxNow
    /\ clock' = clock + 1
    /\ UNCHANGED <<refreshes, coalesced, serving, answered>>

AdmissionNext ==
    \/ \E u \in RefreshUrgency, d \in Deadlines : Submit(u, d)
    \/ \E id \in RequestId : Cancel(id)
    \/ \E id \in RequestId : Finish(id)
    \/ ClockTick

AdmissionSpec == AdmissionInit /\ [][AdmissionNext]_admissionVars

-----------------------------------------------------------------------------
TypeOK ==
    /\ refreshes \in Coordinator
    /\ clock \in Nat
    /\ coalesced \subseteq Request
    /\ serving \subseteq Request
    /\ answered \in 0 .. MaxRequestId

Covers(p, request) ==
    /\ p.urgency >= request.urgency
    /\ \/ p.deadline = NoDeadline
       \/ request.deadline # NoDeadline /\ request.deadline <= p.deadline

\* Coalescing never serves a request with less than it asked for: the pending
\* refresh, and the follow-up it becomes, has at least the urgency of each
\* request merged into it and does not expire before any of them.
CoalescingCovers ==
    /\ coalesced # {} <=> refreshes.pending # NoPending
    /\ \A r \in coalesced : Covers(refreshes.pending, r)
    /\ serving # {} <=> refreshes.active # NoPermit
    /\ \A r \in serving : Covers(refreshes.active, r)

\* A permit serves only requests admitted before its predecessor finished:
\* every id it stands for is at most its own, newer than every id answered
\* so far, and older than the next id.
IdsAreFresh ==
    /\ \A r \in serving :
            answered < r.id /\ r.id <= refreshes.active.id
    /\ \A r \in coalesced :
            refreshes.active.id < r.id /\ r.id < refreshes.nextId
    /\ refreshes.active # NoPermit =>
            answered < refreshes.active.id
            /\ refreshes.active.id < refreshes.nextId

\* Cancellation is exact: a permit that becomes active is not cancelled, and
\* no step cancels a request other than the active one.
CancellationIsExact ==
    [][/\ refreshes'.active \notin {refreshes.active, NoPermit} =>
            refreshes'.active.id \notin refreshes'.cancelled
       /\ \A id \in refreshes'.cancelled \ refreshes.cancelled :
            IsActive(refreshes, id)]_admissionVars

=============================================================================
