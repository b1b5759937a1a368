----------------------- MODULE RefreshAdmissionProofs -----------------------
(***************************************************************************)
(* Proofs about RefreshAdmission, for any number of request ids, any set   *)
(* of deadlines and any clock bound.                                       *)
(***************************************************************************)
EXTENDS RefreshAdmission, TLAPS

\* A request waits only behind an active refresh.
PendingNeedsActive ==
    refreshes.pending # NoPending => refreshes.active # NoPermit

\* Every id answered or cancelled has been issued.
OnlyIssuedIds ==
    /\ answered < refreshes.nextId
    /\ \A id \in refreshes.cancelled : id < refreshes.nextId

(***************************************************************************)
(* The inductive invariant.  CoalescingCovers alone is not inductive: a    *)
(* request that starts at once empties the pending slot, which is only     *)
(* right because nothing waits while no refresh is active.  IdsAreFresh    *)
(* needs the next id to be above everything answered before.               *)
(***************************************************************************)
IInv ==
    /\ TypeOK
    /\ PendingNeedsActive
    /\ OnlyIssuedIds
    /\ CoalescingCovers
    /\ IdsAreFresh

-----------------------------------------------------------------------------
\* Merging covers both the pending request and the one merged into it, and
\* covering is transitive, so what the pending request covered stays covered.
LEMMA MergeCovers ==
    ASSUME NEW p \in PendingRefresh, NEW u \in RefreshUrgency,
           NEW d \in Deadline
    PROVE  /\ Merge(p, u, d) \in PendingRefresh
           /\ \A r \in Request : r.urgency = u /\ r.deadline = d =>
                    Covers(Merge(p, u, d), r)
           /\ \A r \in Request : Covers(p, r) => Covers(Merge(p, u, d), r)
  BY CoordinatorAssumption
  DEF Merge, HigherUrgency, LaterDeadline, Covers, PendingRefresh, Request,
      Deadline, RefreshUrgency, Hint, Recovery

\* What submit leaves behind, for each way it can answer.
SubmitEffect(c, u, d, t, e) ==
    LET permit == [id |-> c.nextId, urgency |-> u, deadline |-> d]
    IN  /\ e \in Coordinator
        /\ e.cancelled = c.cancelled
        /\ \/ /\ Admission(c, d, t) = "CapacityExceeded"
              /\ e = c
           \/ /\ Admission(c, d, t) = "DeadlineExceeded"
              /\ e.nextId = c.nextId + 1
              /\ e.active = c.active /\ e.pending = c.pending
           \/ /\ Admission(c, d, t) = "Coalesced"
              /\ permit \in RefreshPermit
              /\ c.active # NoPermit
              /\ e.nextId = c.nextId + 1 /\ e.active = c.active
              /\ e.pending = Coalesce(c.pending, u, d)
              /\ e.pending \in PendingRefresh
           \/ /\ Admission(c, d, t) = "Started"
              /\ permit \in RefreshPermit
              /\ c.active = NoPermit
              /\ e.nextId = c.nextId + 1
              /\ e.active = permit /\ e.pending = NoPending

\* submit has the effect stated above.
LEMMA SubmitHasEffect ==
    ASSUME NEW c \in Coordinator, NEW u \in RefreshUrgency,
           NEW d \in Deadline, NEW t \in Nat
    PROVE  SubmitEffect(c, u, d, t, AfterSubmit(c, u, d, t))
  <1> USE DEF SubmitEffect
  <1>1. CASE Admission(c, d, t) = "CapacityExceeded"
    BY <1>1 DEF AfterSubmit
  <1>2. ASSUME Admission(c, d, t) # "CapacityExceeded"
        PROVE  /\ c.nextId \in RequestId
               /\ c.nextId + 1 \in 1 .. MaxRequestId + 1
               /\ [id |-> c.nextId, urgency |-> u, deadline |-> d]
                    \in RefreshPermit
    <2>1. ~IdsExhausted(c)
      BY <1>2 DEF Admission
    <2>2. c.nextId \in 1 .. MaxRequestId + 1
      BY DEF Coordinator
    <2>3. c.nextId \in RequestId /\ c.nextId + 1 \in 1 .. MaxRequestId + 1
      BY <2>1, <2>2, CoordinatorAssumption DEF IdsExhausted, RequestId
    <2> QED
      BY <2>3 DEF RefreshPermit
  <1>3. CASE Admission(c, d, t) = "DeadlineExceeded"
    <2>1. AfterSubmit(c, u, d, t) = [c EXCEPT !.nextId = c.nextId + 1]
      BY <1>3 DEF AfterSubmit
    <2> QED
      BY <1>2, <1>3, <2>1 DEF Coordinator
  <1>4. CASE Admission(c, d, t) = "Coalesced"
    <2> DEFINE p == Coalesce(c.pending, u, d)
               e == AfterSubmit(c, u, d, t)
    <2>1. e = [c EXCEPT !.nextId = c.nextId + 1, !.pending = p]
      BY <1>4 DEF AfterSubmit
    <2>2. c.pending \in PendingRefresh \cup {NoPending}
      BY DEF Coordinator
    <2>3. p \in PendingRefresh
      BY <2>2, MergeCovers DEF Coalesce, PendingRefresh
    <2>4. c.active # NoPermit
      BY <1>4 DEF Admission
    <2>5. c.nextId + 1 \in 1 .. MaxRequestId + 1
      BY <1>2, <1>4
    <2> HIDE DEF p, e
    <2>6. /\ e \in Coordinator
          /\ e.nextId = c.nextId + 1 /\ e.active = c.active
          /\ e.pending = p /\ e.cancelled = c.cancelled
      BY <2>1, <2>3, <2>5, ZenonT(60) DEF Coordinator
    <2> QED
      BY <1>2, <1>4, <2>3, <2>4, <2>6, Zenon DEF p, e
  <1>5. CASE Admission(c, d, t) = "Started"
    <2> DEFINE permit == [id |-> c.nextId, urgency |-> u, deadline |-> d]
               e == AfterSubmit(c, u, d, t)
    <2>1. e = [c EXCEPT !.nextId = c.nextId + 1, !.active = permit,
                        !.pending = NoPending]
      BY <1>5 DEF AfterSubmit
    <2>2. c.active = NoPermit
      BY <1>5 DEF Admission
    <2>3. /\ c.nextId + 1 \in 1 .. MaxRequestId + 1
          /\ permit \in RefreshPermit
      BY <1>2, <1>5
    <2> HIDE DEF permit, e
    <2>4. /\ e \in Coordinator
          /\ e.nextId = c.nextId + 1 /\ e.active = permit
          /\ e.pending = NoPending /\ e.cancelled = c.cancelled
      BY <2>1, <2>3, ZenonT(60) DEF Coordinator
    <2> QED
      BY <1>5, <2>2, <2>3, <2>4, Zenon DEF permit, e
  <1> QED
    BY <1>1, <1>3, <1>4, <1>5 DEF Admission

\* What finish leaves behind: the follow-up, or an idle coordinator.
FinishEffect(c, t, e) ==
    /\ e \in Coordinator
    /\ e.cancelled = c.cancelled
    /\ e.pending = NoPending
    /\ \/ /\ PendingFate(c, t) = "FollowUp"
          /\ c.pending \in PendingRefresh
          /\ c.nextId \in RequestId
          /\ e.nextId = c.nextId + 1
          /\ e.active = [id |-> c.nextId, urgency |-> c.pending.urgency,
                         deadline |-> c.pending.deadline]
          /\ e.active \in RefreshPermit
       \/ /\ PendingFate(c, t) # "FollowUp"
          /\ e.nextId = c.nextId /\ e.active = NoPermit

\* finish has the effect stated above.
LEMMA FinishHasEffect ==
    ASSUME NEW c \in Coordinator, NEW t \in Nat
    PROVE  FinishEffect(c, t, AfterFinish(c, t))
  <1> USE DEF FinishEffect
  <1> DEFINE e == AfterFinish(c, t)
  <1>1. CASE PendingFate(c, t) = "FollowUp"
    <2> DEFINE permit == [id |-> c.nextId, urgency |-> c.pending.urgency,
                          deadline |-> c.pending.deadline]
    <2>1. e = [c EXCEPT !.nextId = c.nextId + 1, !.active = permit,
                        !.pending = NoPending]
      BY <1>1 DEF AfterFinish
    <2>2. c.pending # NoPending /\ ~IdsExhausted(c)
      BY <1>1 DEF PendingFate
    <2>3. /\ c.nextId \in RequestId
          /\ c.nextId + 1 \in 1 .. MaxRequestId + 1
      BY <2>2, CoordinatorAssumption DEF Coordinator, IdsExhausted, RequestId
    <2>4. c.pending \in PendingRefresh
      BY <2>2 DEF Coordinator
    <2>5. permit \in RefreshPermit
      BY <2>3, <2>4 DEF PendingRefresh, RefreshPermit
    <2> HIDE DEF permit, e
    <2>6. /\ e \in Coordinator
          /\ e.nextId = c.nextId + 1 /\ e.active = permit
          /\ e.pending = NoPending /\ e.cancelled = c.cancelled
      BY <2>1, <2>3, <2>5, ZenonT(60) DEF Coordinator
    <2> QED
      BY <1>1, <2>3, <2>4, <2>5, <2>6, Zenon DEF permit, e
  <1>2. CASE PendingFate(c, t) # "FollowUp"
    <2>1. e = [c EXCEPT !.active = NoPermit, !.pending = NoPending]
      BY <1>2 DEF AfterFinish
    <2> QED
      BY <1>2, <2>1, ZenonT(60) DEF Coordinator
  <1> QED
    BY <1>1, <1>2

-----------------------------------------------------------------------------
\* A new coordinator satisfies the invariant.
LEMMA InitIInv == AdmissionInit => IInv
  <1> SUFFICES ASSUME AdmissionInit PROVE IInv
    OBVIOUS
  <1>1. refreshes = NewCoordinator /\ refreshes \in Coordinator
    BY CoordinatorAssumption DEF AdmissionInit, NewCoordinator, Coordinator
  <1>2. /\ refreshes.nextId = 1 /\ refreshes.active = NoPermit
        /\ refreshes.pending = NoPending /\ refreshes.cancelled = {}
    BY <1>1 DEF NewCoordinator
  <1> QED
    BY <1>1, <1>2, CoordinatorAssumption
    DEF AdmissionInit, IInv, TypeOK, PendingNeedsActive, OnlyIssuedIds,
        CoalescingCovers, IdsAreFresh

\* submit keeps the invariant.
LEMMA SubmitPreserves ==
    ASSUME IInv, NEW u \in RefreshUrgency, NEW d \in Deadlines, Submit(u, d)
    PROVE  IInv'
  <1> DEFINE c == refreshes
             e == refreshes'
             request == [id |-> c.nextId, urgency |-> u, deadline |-> d]
  <1>1. d \in Deadline /\ c \in Coordinator /\ clock \in Nat
    BY AdmissionAssumption DEF IInv, TypeOK
  <1>2. SubmitEffect(c, u, d, clock, e)
    BY <1>1, SubmitHasEffect DEF Submit
  <1>3. e \in Coordinator /\ e.cancelled = c.cancelled
    BY <1>2 DEF SubmitEffect
  <1>4. CASE Admission(c, d, clock) \in {"CapacityExceeded", "DeadlineExceeded"}
    <2>1. /\ coalesced' = coalesced /\ serving' = serving
          /\ clock' = clock /\ answered' = answered
      BY <1>4 DEF Submit
    <2>2. e.active = c.active /\ e.pending = c.pending
      BY <1>2, <1>4 DEF SubmitEffect
    <2>3. e.nextId \in {c.nextId, c.nextId + 1}
      BY <1>2, <1>4 DEF SubmitEffect
    <2>4. (TypeOK /\ PendingNeedsActive /\ CoalescingCovers)'
      BY <1>3, <2>1, <2>2
      DEF IInv, TypeOK, PendingNeedsActive, CoalescingCovers, Covers
    <2>5. OnlyIssuedIds'
      BY <1>1, <1>3, <2>1, <2>3, CoordinatorAssumption
      DEF IInv, TypeOK, OnlyIssuedIds, Coordinator, RequestId
    <2>6. IdsAreFresh'
      <3>1. c.nextId \in Int /\ \A r \in coalesced : r.id \in Int
        BY <1>1, CoordinatorAssumption
        DEF IInv, TypeOK, Coordinator, Request, RequestId
      <3>2. c.active # NoPermit => c.active.id \in Int
        BY <1>1, CoordinatorAssumption
        DEF Coordinator, RefreshPermit, RequestId
      <3> QED
        BY <2>1, <2>2, <2>3, <3>1, <3>2 DEF IInv, IdsAreFresh
    <2> QED
      BY <2>4, <2>5, <2>6 DEF IInv
  <1>5. CASE Admission(c, d, clock) = "Coalesced"
    <2>1. /\ coalesced' = coalesced \cup {request} /\ serving' = serving
          /\ clock' = clock /\ answered' = answered
      BY <1>5 DEF Submit
    <2>2. /\ c.active # NoPermit /\ e.active = c.active
          /\ e.nextId = c.nextId + 1
          /\ request \in RefreshPermit
          /\ e.pending = Coalesce(c.pending, u, d)
          /\ e.pending \in PendingRefresh
      BY <1>2, <1>5 DEF SubmitEffect
    <2>3. request \in Request
      BY <2>2 DEF RefreshPermit, Request
    <2>4. (TypeOK /\ PendingNeedsActive)'
      BY <1>3, <2>1, <2>2, <2>3 DEF IInv, TypeOK, PendingNeedsActive
    <2>5. OnlyIssuedIds'
      BY <1>1, <1>3, <2>1, <2>2, CoordinatorAssumption
      DEF IInv, TypeOK, OnlyIssuedIds, Coordinator, RequestId
    <2>6. \A r \in coalesced' : Covers(e.pending, r)
      <3>1. CASE c.pending = NoPending
        <4>1. coalesced' = {request}
          BY <2>1, <3>1 DEF IInv, CoalescingCovers
        <4>2. e.pending = [urgency |-> u, deadline |-> d]
          BY <2>2, <3>1 DEF Coalesce
        <4> QED
          BY <1>1, <4>1, <4>2 DEF Covers, RefreshUrgency, Deadline
      <3>2. CASE c.pending # NoPending
        <4>1. c.pending \in PendingRefresh
          BY <1>1, <3>2 DEF Coordinator
        <4>2. e.pending = Merge(c.pending, u, d)
          BY <2>2, <3>2 DEF Coalesce
        <4>3. \A r \in coalesced : r \in Request /\ Covers(c.pending, r)
          BY DEF IInv, TypeOK, CoalescingCovers
        <4>4. \A r \in Request : Covers(c.pending, r) => Covers(e.pending, r)
          BY <1>1, <4>1, <4>2, MergeCovers
        <4>5. request.urgency = u /\ request.deadline = d
          OBVIOUS
        <4>6. Covers(e.pending, request)
          BY <1>1, <2>3, <4>1, <4>2, <4>5, MergeCovers
        <4> QED
          BY <2>1, <4>3, <4>4, <4>6
      <3> QED
        BY <3>1, <3>2
    <2>7. CoalescingCovers'
      BY <2>1, <2>2, <2>6, CoordinatorAssumption DEF IInv, CoalescingCovers, Covers
    <2>8. IdsAreFresh'
      <3>1. c.nextId \in Int /\ \A r \in coalesced : r.id \in Int
        BY <1>1, CoordinatorAssumption
        DEF IInv, TypeOK, Coordinator, Request, RequestId
      <3>2. c.active.id \in Int
        BY <1>1, <2>2, CoordinatorAssumption
        DEF Coordinator, RefreshPermit, RequestId
      <3>3. request.id = c.nextId
        OBVIOUS
      <3> HIDE DEF request
      <3> QED
        BY <2>1, <2>2, <3>1, <3>2, <3>3 DEF IInv, IdsAreFresh
    <2> QED
      BY <2>4, <2>5, <2>7, <2>8 DEF IInv
  <1>6. CASE Admission(c, d, clock) = "Started"
    <2>1. /\ coalesced' = coalesced /\ serving' = {request}
          /\ clock' = clock /\ answered' = answered
      BY <1>6 DEF Submit
    <2>2. /\ c.active = NoPermit /\ e.active = request
          /\ e.nextId = c.nextId + 1
          /\ request \in RefreshPermit
          /\ e.pending = NoPending
      BY <1>2, <1>6 DEF SubmitEffect
    <2>3. request \in Request
      BY <2>2 DEF RefreshPermit, Request
    <2>4. coalesced = {}
      BY <2>2 DEF IInv, PendingNeedsActive, CoalescingCovers
    <2>5. (TypeOK /\ PendingNeedsActive)'
      BY <1>3, <2>1, <2>2, <2>3 DEF IInv, TypeOK, PendingNeedsActive
    <2>6. OnlyIssuedIds'
      BY <1>1, <1>3, <2>1, <2>2, CoordinatorAssumption
      DEF IInv, TypeOK, OnlyIssuedIds, Coordinator, RequestId
    <2>7. CoalescingCovers'
      BY <1>1, <2>1, <2>2, <2>4, CoordinatorAssumption
      DEF CoalescingCovers, Covers, RefreshUrgency, Deadline
    <2>8. IdsAreFresh'
      <3>1. answered < c.nextId /\ c.nextId \in Int
        BY <1>1, CoordinatorAssumption DEF IInv, OnlyIssuedIds, Coordinator
      <3>2. request.id = c.nextId
        OBVIOUS
      <3> HIDE DEF request
      <3> QED
        BY <2>1, <2>2, <2>4, <3>1, <3>2 DEF IdsAreFresh
    <2> QED
      BY <2>5, <2>6, <2>7, <2>8 DEF IInv
  <1> QED
    BY <1>4, <1>5, <1>6 DEF Admission

\* The active permit, when it is the one an id names.
LEMMA ActivePermit ==
    ASSUME TypeOK, NEW id \in RequestId, IsActive(refreshes, id)
    PROVE  /\ refreshes \in Coordinator /\ clock \in Nat
           /\ refreshes.active # NoPermit
           /\ refreshes.active \in RefreshPermit
           /\ refreshes.active.id = id
           /\ id \in Int /\ refreshes.nextId \in Int
  BY CoordinatorAssumption DEF TypeOK, IsActive, Coordinator, RequestId

\* cancel keeps the invariant.
LEMMA CancelPreserves ==
    ASSUME IInv, NEW id \in RequestId, Cancel(id)
    PROVE  IInv'
  <1>1. refreshes.active # NoPermit /\ refreshes.active.id = id
    BY ActivePermit DEF IInv, Cancel
  <1>2. /\ refreshes' \in Coordinator
        /\ refreshes'.nextId = refreshes.nextId
        /\ refreshes'.active = refreshes.active
        /\ refreshes'.pending = refreshes.pending
        /\ refreshes'.cancelled = refreshes.cancelled \cup {id}
    BY DEF IInv, TypeOK, Cancel, AfterCancel, Coordinator
  <1>3. /\ coalesced' = coalesced /\ serving' = serving
        /\ clock' = clock /\ answered' = answered
    BY DEF Cancel
  <1>4. (TypeOK /\ PendingNeedsActive /\ CoalescingCovers /\ IdsAreFresh)'
    BY <1>2, <1>3
    DEF IInv, TypeOK, PendingNeedsActive, CoalescingCovers, Covers, IdsAreFresh
  <1>5. OnlyIssuedIds'
    BY <1>1, <1>2, <1>3 DEF IInv, OnlyIssuedIds, IdsAreFresh
  <1> QED
    BY <1>4, <1>5 DEF IInv

\* finish keeps the invariant.
LEMMA FinishPreserves ==
    ASSUME IInv, NEW id \in RequestId, Finish(id)
    PROVE  IInv'
  <1> DEFINE c == refreshes
             e == refreshes'
  <1>1. /\ c \in Coordinator /\ clock \in Nat
        /\ c.active # NoPermit /\ c.active.id = id
        /\ id \in Int /\ c.nextId \in Int
    BY ActivePermit DEF IInv, Finish
  <1>2. FinishEffect(c, clock, e)
    BY <1>1, FinishHasEffect DEF Finish
  <1>3. /\ e \in Coordinator /\ e.cancelled = c.cancelled
        /\ e.pending = NoPending
    BY <1>2 DEF FinishEffect
  <1>4. coalesced' = {} /\ answered' = id /\ clock' = clock
    BY DEF Finish
  <1>5. id < c.nextId
    BY <1>1 DEF IInv, IdsAreFresh
  <1>6. e.nextId \in {c.nextId, c.nextId + 1}
    BY <1>2 DEF FinishEffect
  <1>7. serving' \in {coalesced, {}}
    BY DEF Finish
  <1>8. (TypeOK /\ PendingNeedsActive)'
    BY <1>1, <1>3, <1>4, <1>7 DEF IInv, TypeOK, PendingNeedsActive, RequestId
  <1>9. OnlyIssuedIds'
    BY <1>1, <1>3, <1>4, <1>5, <1>6, CoordinatorAssumption
    DEF IInv, OnlyIssuedIds, Coordinator, RequestId
  <1>10. CASE PendingFate(c, clock) = "FollowUp"
    <2>1. /\ c.pending \in PendingRefresh /\ e.nextId = c.nextId + 1
          /\ e.active = [id |-> c.nextId, urgency |-> c.pending.urgency,
                         deadline |-> c.pending.deadline]
          /\ e.active \in RefreshPermit
      BY <1>2, <1>10 DEF FinishEffect
    <2>2. serving' = coalesced
      BY <1>10 DEF Finish
    <2>3. c.pending # NoPending /\ e.active # NoPermit
      BY <2>1, CoordinatorAssumption
    <2>4. /\ e.active.id = c.nextId
          /\ e.active.urgency = c.pending.urgency
          /\ e.active.deadline = c.pending.deadline
      BY <2>1
    <2>5. CoalescingCovers'
      BY <1>3, <1>4, <2>2, <2>3, <2>4 DEF IInv, CoalescingCovers, Covers
    <2>6. \A r \in coalesced : r.id \in Int
      BY CoordinatorAssumption DEF IInv, TypeOK, Request, RequestId
    <2>7. IdsAreFresh'
      BY <1>1, <1>4, <1>5, <2>1, <2>2, <2>4, <2>6 DEF IInv, IdsAreFresh
    <2> QED
      BY <1>8, <1>9, <2>5, <2>7 DEF IInv
  <1>11. CASE PendingFate(c, clock) # "FollowUp"
    <2>1. serving' = {} /\ e.active = NoPermit
      BY <1>2, <1>11 DEF Finish, FinishEffect
    <2> QED
      BY <1>3, <1>4, <1>8, <1>9, <2>1 DEF IInv, CoalescingCovers, IdsAreFresh
  <1> QED
    BY <1>10, <1>11

\* The clock keeps the invariant.
LEMMA TickPreserves ==
    ASSUME IInv, ClockTick
    PROVE  IInv'
  BY DEF IInv, TypeOK, PendingNeedsActive, OnlyIssuedIds, CoalescingCovers,
         IdsAreFresh, Covers, ClockTick

\* A step that changes nothing keeps the invariant.
LEMMA StutterPreserves ==
    ASSUME IInv, UNCHANGED admissionVars
    PROVE  IInv'
  BY DEF IInv, TypeOK, PendingNeedsActive, OnlyIssuedIds, CoalescingCovers,
         IdsAreFresh, Covers, admissionVars

\* Everything the coordinator's correctness rests on holds in every state.
THEOREM Inductive == AdmissionSpec => []IInv
  <1>1. ASSUME IInv, [AdmissionNext]_admissionVars PROVE IInv'
    BY <1>1, SubmitPreserves, CancelPreserves, FinishPreserves,
       TickPreserves, StutterPreserves DEF AdmissionNext
  <1> QED
    BY InitIInv, <1>1, PTL DEF AdmissionSpec

\* The coordinator keeps its shape: in particular ids stay in their range.
THEOREM TypeCorrect == AdmissionSpec => []TypeOK
  <1>1. IInv => TypeOK
    BY DEF IInv
  <1> QED
    BY Inductive, <1>1, PTL

\* However submissions, cancellations, completions and the clock interleave,
\* a refresh never serves a coalesced request with less urgency than it asked
\* for, and never expires before it.
THEOREM CoalescingIsSound == AdmissionSpec => []CoalescingCovers
  <1>1. IInv => CoalescingCovers
    BY DEF IInv
  <1> QED
    BY Inductive, <1>1, PTL

\* Ids are monotonic: whatever a permit stands for was submitted after
\* everything that was answered before it.
THEOREM IdsMonotonic == AdmissionSpec => []IdsAreFresh
  <1>1. IInv => IdsAreFresh
    BY DEF IInv
  <1> QED
    BY Inductive, <1>1, PTL

\* A cancellation reaches the active request only, and no refresh is born
\* cancelled.
THEOREM ExactCancellation == AdmissionSpec => CancellationIsExact
  <1> DEFINE Exact ==
        /\ refreshes'.active \notin {refreshes.active, NoPermit} =>
               refreshes'.active.id \notin refreshes'.cancelled
        /\ \A id \in refreshes'.cancelled \ refreshes.cancelled :
               IsActive(refreshes, id)
  <1>1. ASSUME IInv, [AdmissionNext]_admissionVars PROVE [Exact]_admissionVars
    <2>1. /\ refreshes \in Coordinator /\ clock \in Nat
          /\ refreshes.nextId \notin refreshes.cancelled
      BY <1>1, CoordinatorAssumption
      DEF IInv, TypeOK, OnlyIssuedIds, Coordinator, RequestId
    <2>2. ASSUME NEW u \in RefreshUrgency, NEW d \in Deadlines, Submit(u, d)
          PROVE  Exact
      <3>1. SubmitEffect(refreshes, u, d, clock, refreshes')
        BY <2>1, <2>2, SubmitHasEffect, AdmissionAssumption DEF Submit
      <3> QED
        BY <2>1, <3>1 DEF SubmitEffect
    <2>3. ASSUME NEW id \in RequestId, Cancel(id)
          PROVE  Exact
      BY <2>1, <2>3 DEF Cancel, AfterCancel, Coordinator
    <2>4. ASSUME NEW id \in RequestId, Finish(id)
          PROVE  Exact
      <3>1. FinishEffect(refreshes, clock, refreshes')
        BY <2>1, <2>4, FinishHasEffect DEF Finish
      <3> QED
        BY <2>1, <3>1 DEF FinishEffect
    <2>5. CASE ClockTick
      BY <2>5 DEF ClockTick
    <2> QED
      BY <1>1, <2>2, <2>3, <2>4, <2>5 DEF AdmissionNext
  <1> QED
    BY Inductive, <1>1, PTL DEF AdmissionSpec, CancellationIsExact

=============================================================================
