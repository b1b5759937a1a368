------------------------- MODULE RefreshCoordinator -------------------------
(***************************************************************************)
(* The admission data type of crates/engine/src/coordinator.rs.  At most   *)
(* one refresh is active; every request that arrives meanwhile is merged   *)
(* into one pending request, which becomes the follow-up when the active   *)
(* one finishes.  The coordinator is a plain value that its owner keeps    *)
(* under a mutex, so its methods are operators from a value to a value.    *)
(***************************************************************************)
EXTENDS Integers

CONSTANTS
    MaxRequestId,   \* u64::MAX: the last id allocate_request_id can return
    NoDeadline,     \* Option::None of Option<RefreshDeadline>
    NoPermit,       \* Option::None of the active permit
    NoPending       \* Option::None of the pending request

(***************************************************************************)
(* RefreshUrgency, in the order its derive(Ord) gives the variants.        *)
(***************************************************************************)
Hint == 0
Periodic == 1
Interactive == 2
Recovery == 3
RefreshUrgency == Hint .. Recovery

RefreshOutcome ==
    {"Completed", "Busy", "Cancelled", "DeadlineExceeded", "Failed"}

RequestId == 1 .. MaxRequestId

Deadline == Nat \cup {NoDeadline}

RefreshPermit ==
    [id : RequestId, urgency : RefreshUrgency, deadline : Deadline]

PendingRefresh == [urgency : RefreshUrgency, deadline : Deadline]

\* The absent values are outside the types whose absence they stand for.
ASSUME CoordinatorAssumption ==
    /\ MaxRequestId \in Nat \ {0}
    /\ NoDeadline \notin Nat
    /\ NoPermit \notin RefreshPermit
    /\ NoPending \notin PendingRefresh

\* nextId = MaxRequestId + 1 stands for next_request_id = None.  cancelled
\* holds the ids whose CancellationToken, shared by every clone of the
\* permit, is set.
Coordinator ==
    [nextId    : 1 .. MaxRequestId + 1,
     active    : RefreshPermit \cup {NoPermit},
     pending   : PendingRefresh \cup {NoPending},
     cancelled : SUBSET RequestId]

NewCoordinator ==
    [nextId |-> 1, active |-> NoPermit, pending |-> NoPending,
     cancelled |-> {}]

HigherUrgency(u, v) == IF u < v THEN v ELSE u

\* RefreshDeadline::is_exceeded_at, and the is_some_and around every use.
DeadlineExceeded(deadline, now) == deadline # NoDeadline /\ now >= deadline

LaterDeadline(d, e) ==
    IF d = NoDeadline \/ e = NoDeadline
    THEN NoDeadline
    ELSE IF d < e THEN e ELSE d

\* Mutant: the latest request replaces the pending one.
MergeLastWins(pending, urgency, deadline) ==
    [urgency |-> urgency, deadline |-> deadline]

\* PendingRefresh::merge
Merge(pending, urgency, deadline) ==
    [urgency  |-> HigherUrgency(pending.urgency, urgency),
     deadline |-> LaterDeadline(pending.deadline, deadline)]

\* A request that finds a refresh active becomes, or joins, the pending one.
Coalesce(pending, urgency, deadline) ==
    IF pending = NoPending
    THEN [urgency |-> urgency, deadline |-> deadline]
    ELSE Merge(pending, urgency, deadline)

\* allocate_request_id answers CapacityExceeded.
IdsExhausted(c) == c.nextId > MaxRequestId

-----------------------------------------------------------------------------
(***************************************************************************)
(* submit: the id is allocated first, so a request rejected for its        *)
(* deadline has consumed one.                                              *)
(***************************************************************************)
Admission(c, deadline, now) ==
    CASE IdsExhausted(c)                 -> "CapacityExceeded"
      [] /\ ~IdsExhausted(c)
         /\ DeadlineExceeded(deadline, now) -> "DeadlineExceeded"
      [] /\ ~IdsExhausted(c)
         /\ ~DeadlineExceeded(deadline, now)
         /\ c.active # NoPermit          -> "Coalesced"
      [] OTHER                           -> "Started"

AfterSubmit(c, urgency, deadline, now) ==
    CASE Admission(c, deadline, now) = "CapacityExceeded" -> c
      [] Admission(c, deadline, now) = "DeadlineExceeded" ->
            [c EXCEPT !.nextId = @ + 1]
      [] Admission(c, deadline, now) = "Coalesced" ->
            [c EXCEPT !.nextId = @ + 1,
                      !.pending = Coalesce(@, urgency, deadline)]
      [] OTHER ->
            [c EXCEPT !.nextId = @ + 1,
                      !.active = [id       |-> c.nextId,
                                  urgency  |-> urgency,
                                  deadline |-> deadline],
                      !.pending = NoPending]

(***************************************************************************)
(* cancel and finish answer StaleRequest unless the id is the active one.  *)
(***************************************************************************)
IsActive(c, id) == c.active # NoPermit /\ c.active.id = id

AfterCancel(c, id) == [c EXCEPT !.cancelled = @ \cup {id}]

\* finish: what the caller is told the refresh did
FinishOutcome(c, outcome, now) ==
    CASE c.active.id \in c.cancelled -> "Cancelled"
      [] /\ c.active.id \notin c.cancelled
         /\ outcome = "Completed"
         /\ DeadlineExceeded(c.active.deadline, now) -> "DeadlineExceeded"
      [] OTHER -> outcome

\* finish: what becomes of the pending request
PendingFate(c, now) ==
    CASE c.pending = NoPending -> "None"
      [] /\ c.pending # NoPending
         /\ DeadlineExceeded(c.pending.deadline, now) -> "DeadlineExceeded"
      [] /\ c.pending # NoPending
         /\ ~DeadlineExceeded(c.pending.deadline, now)
         /\ IdsExhausted(c) -> "CapacityExceeded"
      [] OTHER -> "FollowUp"

\* Mutant: the follow-up keeps the id, and so the token, of its predecessor.
AfterFinishSameId(c, now) ==
    IF PendingFate(c, now) = "FollowUp"
    THEN [c EXCEPT !.active = [id       |-> c.active.id,
                               urgency  |-> c.pending.urgency,
                               deadline |-> c.pending.deadline],
                   !.pending = NoPending]
    ELSE [c EXCEPT !.active = NoPermit, !.pending = NoPending]

AfterFinish(c, now) ==
    IF PendingFate(c, now) = "FollowUp"
    THEN [c EXCEPT !.nextId = @ + 1,
                   !.active = [id       |-> c.nextId,
                               urgency  |-> c.pending.urgency,
                               deadline |-> c.pending.deadline],
                   !.pending = NoPending]
    ELSE [c EXCEPT !.active = NoPermit, !.pending = NoPending]

=============================================================================
