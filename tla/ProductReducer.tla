--------------------------- MODULE ProductReducer ---------------------------
(***************************************************************************)
(* The reducer of crates/product: one immutable snapshot, replaced by every*)
(* accepted answer.  A section carries the attempt of the refresh that     *)
(* answered it, so that an older answer never replaces a newer one, and an *)
(* answer is refused when the data status in the same snapshot describes   *)
(* another revision of the archive.  A payload is reduced to the revision  *)
(* its envelope names (rev) and to what the interactions need: the preset  *)
(* of a history, the page of a session list, the row of a session detail.  *)
(***************************************************************************)
EXTENDS Integers, FiniteSets

CONSTANT None   \* Option::None

UsageSections == {"analytics", "history", "activity", "sessions", "detail"}
Revisioned == UsageSections \cup {"quota", "benefit", "git"}
Sections == Revisioned \cup {"status", "lifetime"}

\* The component of the data status a section is checked against.
Component(s) == IF s \in UsageSections THEN "usage" ELSE s
Components == {"usage", "quota", "benefit", "git"}

-----------------------------------------------------------------------------
\* ProductSection
Waiting == [attempt |-> 0, payload |-> None, failure |-> None]
Ready(attempt, payload) ==
    [attempt |-> attempt, payload |-> payload, failure |-> None]
Unavailable(attempt, code) ==
    [attempt |-> attempt, payload |-> None, failure |-> code]
UnavailableRetaining(attempt, code, section) ==
    [attempt |-> attempt, payload |-> section.payload, failure |-> code]
IsReady(section) == section.payload # None /\ section.failure = None

\* ProductRuntimeSection, one for each runtime of the bundle
Runtimes == {"usage", "quota", "reminder", "git"}
RuntimeWaiting == [generation |-> 0, health |-> None, error |-> FALSE]
RuntimeSection(current, generation, health) ==
    IF health = None
    THEN [generation |-> generation, health |-> current.health, error |-> TRUE]
    ELSE [generation |-> generation, health |-> health, error |-> FALSE]

InitialSnapshot ==
    [generation |-> 0,
     sections   |-> [s \in Sections |-> Waiting],
     selection  |-> None,
     runtime    |-> [r \in Runtimes |-> RuntimeWaiting]]

-----------------------------------------------------------------------------
(***************************************************************************)
(* The health a runtime is reported with: the set of product parts it      *)
(* degrades.  An observed runtime has [core, outcome, failure]: whether    *)
(* lifecycle, scheduler and worker all run, the outcome of the last        *)
(* attempt, and the stage its failure names ("Watcher" for a degraded      *)
(* watcher).                                                               *)
(***************************************************************************)
UsageHealth(o) ==
    IF ~o.core \/ o.failure # None \/ o.outcome \notin {None, "Completed"}
    THEN {"usage"} ELSE {}

\* A publication failure is its own part's; every other stage stops both.
QuotaHealth(o) ==
    CASE ~o.core                            -> {"quota", "benefit"}
      [] o.core /\ o.failure = "BenefitPublication" -> {"benefit"}
      [] o.core /\ o.failure = "QuotaPublication"   -> {"quota"}
      [] o.core /\ o.failure \notin
                   {None, "BenefitPublication", "QuotaPublication"}
           -> {"quota", "benefit"}
      [] o.core /\ o.failure = None ->
           IF o.outcome \notin {None, "Completed"}
           THEN {"quota", "benefit"} ELSE {}

ReminderHealth(o) ==
    IF ~o.core \/ o.failure # None \/ o.outcome \notin {None, "Completed"}
    THEN {"benefit"} ELSE {}

GitHealth(o) ==
    IF ~o.core \/ o.failure # None \/ o.outcome \notin {None, "Completed"}
    THEN {"git"} ELSE {}

Health(r, o) ==
    CASE r = "usage"    -> UsageHealth(o)
      [] r = "quota"    -> QuotaHealth(o)
      [] r = "reminder" -> ReminderHealth(o)
      [] r = "git"      -> GitHealth(o)

\* usage_is_degraded, quota_is_degraded, benefit_is_degraded, git_is_degraded
Feeds(part) == IF part = "benefit" THEN {"quota", "reminder"} ELSE {part}
Degraded(snapshot, part) ==
    \E r \in Feeds(part) :
        \/ snapshot.runtime[r].error
        \/ /\ snapshot.runtime[r].health # None
           /\ part \in snapshot.runtime[r].health

-----------------------------------------------------------------------------
\* classify, for a section and for a session detail
Classify(current, candidate) ==
    CASE candidate < current -> "RejectedOlder"
      [] candidate = current -> "Coalesced"
      [] candidate > current -> "Accepted"

ClassifyDetail(snapshot, attempt, selection) ==
    LET current == snapshot.selection IN
    CASE current = None -> "Accepted"
      [] /\ current # None
         /\ selection.generation < current.generation -> "RejectedOlder"
      [] /\ current # None
         /\ selection.generation > current.generation -> "Accepted"
      [] /\ current # None
         /\ selection.generation = current.generation ->
            IF selection.row # current.row
            THEN "RejectedIncompatible"
            ELSE Classify(snapshot.sections["detail"].attempt, attempt)

\* Mutant: an answer is not compared with the status.
CompatibleAlways(snapshot, s, payload) == TRUE

\* usage_compatible, quota_compatible, benefit_overview_compatible and
\* git_compatible; lifetime is bound to nothing.
Compatible(snapshot, s, payload) ==
    LET status == snapshot.sections["status"].payload
    IN  \/ s \notin Revisioned
        \/ status = None
        \/ payload.rev = status[Component(s)]

Advance(snapshot) == [snapshot EXCEPT !.generation = @ + 1]

\* A new session page forgets the detail of the old one.
ReplaceSessions(snapshot, section) ==
    [Advance(snapshot) EXCEPT !.sections["sessions"] = section,
                              !.sections["detail"] = Waiting,
                              !.selection = None]

Replace(snapshot, s, section) ==
    IF s = "sessions"
    THEN ReplaceSessions(snapshot, section)
    ELSE [Advance(snapshot) EXCEPT !.sections[s] = section]

\* invalidate_if: the section keeps its own attempt, so that the answer of
\* the same refresh is still newer.
Stale(section, attempt) == Unavailable(section.attempt, "StaleSnapshot")

InvalidateIncompatible(snapshot, attempt) ==
    [snapshot EXCEPT !.sections =
        [s \in Sections |->
            LET section == snapshot.sections[s] IN
            IF /\ section.payload # None
               /\ ~Compatible(snapshot, s, section.payload)
            THEN Stale(section, attempt)
            ELSE section]]

\* section_methods!: publish and fail, with what they answer
PublishOutcome(snapshot, s, attempt, payload) ==
    LET class == Classify(snapshot.sections[s].attempt, attempt) IN
    IF class = "Accepted" /\ ~Compatible(snapshot, s, payload)
    THEN "RejectedIncompatible" ELSE class

Publish(snapshot, s, attempt, payload) ==
    IF PublishOutcome(snapshot, s, attempt, payload) = "Accepted"
    THEN Replace(snapshot, s, Ready(attempt, payload))
    ELSE snapshot

Fail(snapshot, s, attempt, code) ==
    IF Classify(snapshot.sections[s].attempt, attempt) = "Accepted"
    THEN Replace(snapshot, s,
             UnavailableRetaining(attempt, code, snapshot.sections[s]))
    ELSE snapshot

PublishStatus(snapshot, attempt, payload) ==
    IF Classify(snapshot.sections["status"].attempt, attempt) = "Accepted"
    THEN InvalidateIncompatible(
            [Advance(snapshot) EXCEPT
                !.sections["status"] = Ready(attempt, payload)], attempt)
    ELSE snapshot

\* publish_session_detail and fail_session_detail (payload = None)
ReduceDetail(snapshot, attempt, selection, payload) ==
    IF \/ ClassifyDetail(snapshot, attempt, selection) # "Accepted"
       \/ payload # None /\ ~Compatible(snapshot, "detail", payload)
    THEN snapshot
    ELSE [Advance(snapshot) EXCEPT
            !.selection = selection,
            !.sections["detail"] = IF payload = None
                                   THEN Unavailable(attempt, "Failed")
                                   ELSE Ready(attempt, payload)]

\* runtime_methods!, applied to the four runtimes of one observation; every
\* accepted one advances the generation.
ApplyRuntimeObservation(snapshot, o) ==
    LET accepted == {r \in Runtimes :
            Classify(snapshot.runtime[r].generation, o.generation)
                = "Accepted"}
    IN  [snapshot EXCEPT
            !.generation = @ + Cardinality(accepted),
            !.runtime = [r \in Runtimes |->
                IF r \in accepted
                THEN RuntimeSection(@[r], o.generation, o.health[r])
                ELSE @[r]]]

-----------------------------------------------------------------------------
(***************************************************************************)
(* derive_routes: why a route is not ready.  A snapshot without a status   *)
(* shows every data route as unavailable.                                  *)
(***************************************************************************)
PartReady(snapshot, s) ==
    /\ IsReady(snapshot.sections[s])
    /\ ~Degraded(snapshot, Component(s))
    /\ s \in {"quota", "benefit", "git"} =>
         snapshot.sections["status"].payload[s] > 0

RouteSections(route) ==
    CASE route = "Dashboard"     -> {"analytics", "quota", "benefit", "git"}
      [] route \in {"History", "Models"} -> {"history"}
      [] route = "Projects"      -> {"history", "git"}
      [] route = "Sessions"      -> {"sessions"}
      [] route = "Activity"      -> {"activity"}
      [] route = "Notifications" -> {"benefit"}
      [] route = "CompactWidget" -> {"quota"}
      [] route = "DataHealth"    -> {}

Routes == {"Dashboard", "History", "Models", "Projects", "Sessions",
           "Activity", "Notifications", "CompactWidget", "DataHealth"}

\* The routes that are unavailable while the aggregates are rebuilt.
AggregateRoutes == {"History", "Models", "Projects", "Sessions"}

RouteState(snapshot, route) ==
    LET status == snapshot.sections["status"].payload
        built == status # None /\ status.aggregate
    IN  CASE status = None -> "Unavailable"
          [] status # None /\ route \in AggregateRoutes /\ ~built ->
               "Unavailable"
          [] OTHER ->
               IF /\ IsReady(snapshot.sections["status"])
                  /\ route = "Dashboard" => built
                  /\ \A s \in RouteSections(route) : PartReady(snapshot, s)
               THEN "Ready" ELSE "Degraded"
=============================================================================
