---------------------------- MODULE BackupVault ----------------------------
(***************************************************************************)
(* The backup directory, the catalog rebuilt from it, the retention plan,  *)
(* and the restore that pins one package.                                  *)
(*                                                                         *)
(* Two threads work on them: the maintenance thread, which publishes a     *)
(* package and deletes what the plan does not keep, and the command        *)
(* thread, which projects the catalog to the user interface, verifies it   *)
(* and restores the package the user chose.  They share the last catalog   *)
(* and the pin, each behind its own lock.  A package is identified by what *)
(* it holds; damage changes that in place; a crash leaves the directory    *)
(* with the stage or the tombstone of the step it interrupted.             *)
(***************************************************************************)
EXTENDS Naturals, FiniteSets, Sequences
LOCAL INSTANCE FiniteSetsExt

CONSTANTS
    Scenarios,       \* what is on the disk, and how often each thing happens
    Slots,           \* 0..n-1, the names a package can have
    Newest, Daily, Weekly, MaxKept,      \* the retention tiers
    DaysPerWeek, TimePerDay,
    Budget           \* bytes

VARIABLES
    disk,       \* the package in each slot
    aside,      \* unfinished files in the directory: a stage, a tombstone
    rot,        \* packages damaged in place
    shared,     \* the last catalog, ApplicationStateOwner.catalog
    pin,        \* the package a restore has pinned
    locked,     \* whether the maintenance thread holds the lock of the pin
    bk,         \* the maintenance thread
    cm,         \* the command thread
    shown,      \* the catalog the user interface shows
    left        \* what may still happen

vars == <<disk, aside, rot, shared, pin, locked, bk, cm, shown, left>>

None == [none |-> TRUE]

----------------------------------------------------------------------------
(* The directory and the catalog. *)

Packages == {disk[s] : s \in {t \in Slots : disk[t] # None}}

\* scan refuses a directory with an unfinished stage or deletion.
Scannable == aside = {}

Newer(p, q) == p.created > q.created \/ (p.created = q.created /\ p.slot < q.slot)

NewestFirst(points) ==
    [i \in 1..Cardinality(points) |->
        CHOOSE x \in points : Cardinality({y \in points : Newer(y.p, x.p)}) = i - 1]

HealthBefore(previous, p) ==
    IF previous # None /\ \E i \in DOMAIN previous.points :
            previous.points[i].p = p /\ previous.points[i].health = "Verified" /\ p.id \notin rot
    THEN "Verified" ELSE "HeaderValid"

\* rebuild: newest first; only the proof of an unchanged package is carried over.
Rebuilt(previous) ==
    [gen |-> IF previous = None THEN 1 ELSE previous.gen + 1,
     points |-> NewestFirst({[p |-> p, health |-> HealthBefore(previous, p)] : p \in Packages})]

\* verify_all_packages: a package that does not verify stays, marked corrupt.
VerifiedAll(c) ==
    [c EXCEPT !.points = [i \in DOMAIN c.points |->
        [c.points[i] EXCEPT !.health =
            IF @ = "HeaderValid" THEN (IF c.points[i].p.id \in rot THEN "Corrupt" ELSE "Verified")
            ELSE @]]]

OnDisk(c) == {c.points[i].p : i \in DOMAIN c.points} = Packages

\* revalidate_all_verified: every proof still holds for the bytes on the disk.
StillVerified(c) ==
    \A i \in DOMAIN c.points : c.points[i].health = "Verified" =>
        c.points[i].p \in Packages /\ c.points[i].p.id \notin rot

\* resolve_binding
Resolved(c, binding) ==
    \E i \in DOMAIN c.points : c.points[i].p = binding /\ c.points[i].health = "Verified"

BindPublished(c, p) ==
    [c EXCEPT !.points = [i \in DOMAIN c.points |->
        IF c.points[i].p = p THEN [c.points[i] EXCEPT !.health = "Verified"] ELSE c.points[i]]]

----------------------------------------------------------------------------
(* The retention plan.  Facts are points, newest first. *)

Verified(facts) == {i \in DOMAIN facts : facts[i].health = "Verified"}

RankAmong(i, set) == Cardinality({j \in set : j <= i})

\* The newest package from before a migration that none from after it follows.
MigrationGuard(facts) ==
    {i \in Verified(facts) :
        /\ facts[i].p.purpose = "PreMigration"
        /\ \A j \in Verified(facts) : facts[j].p.purpose = "PostMigration"
                => facts[j].p.created <= facts[i].p.created
        /\ \A j \in 1..(i - 1) : j \in Verified(facts) => facts[j].p.purpose # "PreMigration"}

Protected(facts, candidate, pinned) ==
    {i \in Verified(facts) : facts[i].p = candidate \/ facts[i].p = pinned
                             \/ RankAmong(i, Verified(facts)) <= 2}
        \cup MigrationGuard(facts)

\* The first of some indices, as many as there is room for.
First(n, set) == {i \in set : RankAmong(i, set) <= n}
Room(keep) == IF Cardinality(keep) < MaxKept THEN MaxKept - Cardinality(keep) ELSE 0

KeepNewest(facts, keep) ==
    keep \cup First(Room(keep), First(Newest, Verified(facts)) \ keep)

DayOf(p) == p.created \div TimePerDay
WeekOf(p) == (DayOf(p) + 3) \div DaysPerWeek

\* One tier: the newest package of every period that has none yet.
KeepTier(facts, keep, period, limit) ==
    LET unrepresented ==
            {i \in Verified(facts) \ keep :
                \A j \in keep \cup {k \in Verified(facts) : k < i} :
                    period[j] # period[i]}
    IN  keep \cup First(IF limit < Room(keep) THEN limit ELSE Room(keep), unrepresented)

Bytes(facts, keep) ==
    MapThenSumSet(LAMBDA i : facts[i].p.size, (DOMAIN facts \ Verified(facts)) \cup keep)

\* The oldest unprotected packages go until the rest fits the budget.
WithinBudget(facts, keep, protected) ==
    LET removable == keep \ protected
        rest(n) == protected \cup First(n, removable)
        fits == {n \in 0..Cardinality(removable) : Bytes(facts, rest(n)) <= Budget}
    IN  IF fits = {} THEN None
        ELSE [keep |-> rest(CHOOSE n \in fits : \A m \in fits : m <= n)]

\* plan_facts: what is kept, or None when the protected packages do not fit.
Plan(facts, candidate, pinned) ==
    LET protected == Protected(facts, candidate, pinned)
        days == [i \in DOMAIN facts |-> DayOf(facts[i].p)]
        weeks == [i \in DOMAIN facts |-> WeekOf(facts[i].p)]
        tiers == KeepTier(facts,
                          KeepTier(facts, KeepNewest(facts, protected), days, Daily),
                          weeks, Weekly)
    IN  IF Cardinality(protected) > MaxKept THEN None
        ELSE WithinBudget(facts, tiers, protected)

\* The oldest verified package the plan does not keep; 0 when there is none.
NextDeletion(facts, plan) ==
    LET gone == Verified(facts) \ plan.keep
    IN  IF gone = {} THEN 0 ELSE CHOOSE i \in gone : \A j \in gone : j <= i

\* The facts of a catalog together with a candidate that is not yet published.
WithCandidate(c, p) ==
    NewestFirst({c.points[i] : i \in DOMAIN c.points} \cup {[p |-> p, health |-> "Verified"]})

----------------------------------------------------------------------------
Idle == [pc |-> "idle", previous |-> None, cat |-> None, package |-> None, protected |-> None,
         planned |-> {}, before |-> {}, outcome |-> "", cancel |-> FALSE]

Init ==
    /\ \E s \in Scenarios :
         /\ disk = s.disk /\ left = s.left
    /\ aside = {} /\ rot = {} /\ shared = None /\ pin = None /\ locked = FALSE
    /\ bk = Idle
    /\ cm = [pc |-> "idle", previous |-> None, cat |-> None, chosen |-> None, got |-> None]
    /\ shown = None

FreeSlot == CHOOSE s \in Slots : disk[s] = None /\ \A t \in Slots : disk[t] = None => s <= t
Full == \A s \in Slots : disk[s] # None

(* The maintenance thread: ApplicationBackupOperation::try_execute. *)

Begin(protected) ==
    bk' = [Idle EXCEPT !.pc = "rebuild", !.previous = shared, !.protected = protected]

StartBackup ==
    /\ bk.pc = "idle" /\ cm.pc \in {"idle", "build", "store"} /\ left.backups > 0
    /\ left' = [left EXCEPT !.backups = @ - 1]
    /\ Begin(None)
    /\ UNCHANGED <<disk, aside, rot, shared, pin, locked, cm, shown>>

Failed == [Idle EXCEPT !.outcome = IF bk.cancel THEN "Cancelled" ELSE "Failed"]

Rebuild ==
    /\ bk.pc = "rebuild"
    /\ bk' = IF ~Scannable THEN Failed
             ELSE [bk EXCEPT !.pc = "share", !.cat = VerifiedAll(Rebuilt(bk.previous))]
    /\ UNCHANGED <<disk, aside, rot, shared, pin, locked, cm, shown, left>>

Share ==
    /\ bk.pc = "share"
    /\ shared' = bk.cat
    /\ bk' = [bk EXCEPT !.pc = "stage"]
    /\ UNCHANGED <<disk, aside, rot, pin, locked, cm, shown, left>>

\* The snapshot may fail or be cancelled; the package is written to a stage.
Stage ==
    /\ bk.pc = "stage"
    /\ \/ bk' = Failed /\ UNCHANGED <<aside, left>>
       \/ /\ ~bk.cancel /\ ~Full /\ Scannable
          /\ aside' = aside \cup {"stage"}
          /\ left' = [left EXCEPT !.clock = @ + 1]
          /\ \E purpose \in left.purposes :
               bk' = [bk EXCEPT !.pc = "admit",
                        !.package = [id |-> left.clock, slot |-> FreeSlot, created |-> left.clock,
                                     size |-> 1, purpose |-> purpose]]
    /\ UNCHANGED <<disk, rot, shared, pin, locked, cm, shown>>

\* preflight deletes nothing: the plan with the candidate must exist.
Admit ==
    /\ bk.pc = "admit"
    /\ IF \/ bk.cancel
          \/ Len(bk.cat.points) >= Cardinality(Slots)
          \/ bk.protected # None /\ ~Resolved(bk.cat, bk.protected)
          \/ Plan(WithCandidate(bk.cat, bk.package), bk.package, bk.protected) = None
       THEN bk' = Failed /\ aside' = aside \ {"stage"}
       ELSE bk' = [bk EXCEPT !.pc = "publish"] /\ UNCHANGED aside
    /\ UNCHANGED <<disk, rot, shared, pin, locked, cm, shown, left>>

Publish ==
    /\ bk.pc = "publish"
    /\ disk' = [disk EXCEPT ![bk.package.slot] = bk.package]
    /\ aside' = aside \ {"stage"}
    /\ bk' = [bk EXCEPT !.pc = "confirm"]
    /\ UNCHANGED <<rot, shared, pin, locked, cm, shown, left>>

\* The published package is bound, and every earlier one must still be there.
Confirm ==
    /\ bk.pc = "confirm"
    /\ LET c == BindPublished(Rebuilt(bk.cat), bk.package)
           plan == Plan(c.points, bk.package, bk.protected)
           complete == /\ Len(c.points) = Len(bk.cat.points) + 1
                       /\ \A i \in DOMAIN bk.cat.points :
                             /\ bk.cat.points[i].p \in Packages
                             /\ bk.cat.points[i].health = "Verified" => bk.cat.points[i].p.id \notin rot
       IN  bk' = IF ~Scannable \/ ~complete \/ plan = None THEN Failed
                 ELSE [bk EXCEPT !.pc = "retain", !.cat = c,
                         !.planned = {c.points[i].p : i \in plan.keep},
                         !.before = {c.points[i].p : i \in Verified(c.points)}]
    /\ UNCHANGED <<disk, aside, rot, shared, pin, locked, cm, shown, left>>

\* Mutant: the plan protects only the package the backup was started for.
PinIgnored == bk.protected

\* The pin is read under its lock, which is kept until the deletion is done.
PinSeen == IF pin # None THEN pin ELSE bk.protected

\* delete_next: the whole verified set is read again before the one deletion.
Retain ==
    /\ bk.pc = "retain"
    /\ LET plan == Plan(bk.cat.points, bk.package, PinSeen)
           i == NextDeletion(bk.cat.points, plan)
       IN  IF \/ pin # None /\ ~Resolved(bk.cat, pin)
              \/ pin # None /\ bk.protected # None /\ bk.protected # pin
              \/ ~StillVerified(bk.cat) \/ plan = None
           THEN bk' = Failed /\ UNCHANGED <<disk, aside, locked>>
           ELSE IF i = 0
           THEN bk' = [bk EXCEPT !.pc = "settle"] /\ UNCHANGED <<disk, aside, locked>>
           ELSE IF ~Scannable \/ ~OnDisk(bk.cat)
           THEN bk' = Failed /\ UNCHANGED <<disk, aside, locked>>
           ELSE /\ bk' = [bk EXCEPT !.pc = "remove"]
                /\ disk' = [disk EXCEPT ![bk.cat.points[i].p.slot] = None]
                /\ aside' = aside \cup {"tombstone"}
                /\ locked' = TRUE
    /\ UNCHANGED <<rot, shared, pin, cm, shown, left>>

RemoveTombstone ==
    /\ bk.pc = "remove"
    /\ aside' = aside \ {"tombstone"}
    /\ locked' = FALSE
    /\ bk' = [bk EXCEPT !.pc = "again"]
    /\ UNCHANGED <<disk, rot, shared, pin, cm, shown, left>>

Again ==
    /\ bk.pc = "again"
    /\ bk' = IF ~Scannable THEN Failed ELSE [bk EXCEPT !.pc = "retain", !.cat = Rebuilt(@)]
    /\ UNCHANGED <<disk, aside, rot, shared, pin, locked, cm, shown, left>>

Settle ==
    /\ bk.pc = "settle"
    /\ shared' = bk.cat
    /\ bk' = [bk EXCEPT !.pc = "idle", !.outcome = "Published"]
    /\ UNCHANGED <<disk, aside, rot, pin, locked, cm, shown, left>>

BackupStep == Rebuild \/ Share \/ Stage \/ Admit \/ Publish \/ Confirm \/ Retain
              \/ RemoveTombstone \/ Again \/ Settle

----------------------------------------------------------------------------
(* The command thread: a projection after every command, the verification, *)
(* and the restore.                                                         *)

StartCommand(verb) ==
    /\ cm.pc = "idle" /\ left.commands > 0
    /\ left' = [left EXCEPT !.commands = @ - 1]
    /\ cm' = [cm EXCEPT !.pc = "build", !.previous = shared, !.got = [verb |-> verb]]
    /\ UNCHANGED <<disk, aside, rot, shared, pin, locked, bk, shown>>

Build ==
    /\ cm.pc = "build"
    /\ LET c == Rebuilt(cm.previous)
       IN  cm' = IF ~Scannable THEN [cm EXCEPT !.pc = "idle", !.got = None]
                 ELSE [cm EXCEPT !.pc = "store", !.cat = IF cm.got.verb = "verify"
                                                         THEN VerifiedAll(c) ELSE c]
    /\ UNCHANGED <<disk, aside, rot, shared, pin, locked, bk, shown, left>>

\* verify_backups stores what it found; the projection is then shown.
Store ==
    /\ cm.pc = "store"
    /\ shared' = cm.cat
    /\ shown' = IF cm.got.verb = "show" THEN cm.cat ELSE shown
    /\ cm' = IF cm.got.verb = "show" THEN [cm EXCEPT !.pc = "idle", !.got = None]
             ELSE [cm EXCEPT !.pc = "build", !.previous = cm.cat, !.got = [verb |-> "show"]]
    /\ UNCHANGED <<disk, aside, rot, pin, locked, bk, left>>

\* bind_backup_selection: the row the user chose, in the catalog of its generation.
Bind ==
    /\ cm.pc = "idle" /\ left.restores > 0 /\ shown # None /\ ~locked
    /\ left' = [left EXCEPT !.restores = @ - 1]
    /\ \E i \in DOMAIN shown.points :
         IF /\ shared # None /\ shared.gen = shown.gen /\ i \in DOMAIN shared.points
            /\ Scannable /\ OnDisk(shared)
            /\ shared.points[i].health = "Verified" /\ shared.points[i].p.id \notin rot
         THEN /\ pin' = shared.points[i].p
              /\ cm' = [cm EXCEPT !.pc = "stop", !.chosen = shown.points[i].p]
              /\ bk' = [bk EXCEPT !.cancel = TRUE]
         ELSE UNCHANGED <<pin, cm, bk>>
    /\ UNCHANGED <<disk, aside, rot, shared, locked, shown>>

\* The running services are stopped; then one more backup protects the pinned one.
StartProtected ==
    /\ cm.pc = "stop" /\ bk.pc = "idle"
    /\ Begin(pin)
    /\ cm' = [cm EXCEPT !.pc = "wait"]
    /\ UNCHANGED <<disk, aside, rot, shared, pin, locked, shown, left>>

\* Without its safety backup the restore gives up; otherwise it finds its package.
Restore ==
    /\ cm.pc = "wait" /\ bk.pc = "idle"
    /\ pin' = None
    /\ LET c == VerifiedAll(Rebuilt(shared))
           ready == bk.outcome = "Published" /\ Scannable /\ Resolved(c, pin)
       IN  /\ cm' = [cm EXCEPT !.pc = "idle",
                       !.got = IF ready THEN [restored |-> pin] ELSE None]
           /\ shared' = IF ready THEN c ELSE shared
    /\ UNCHANGED <<disk, aside, rot, locked, bk, shown, left>>

CommandStep == Build \/ Store \/ StartProtected \/ Restore

----------------------------------------------------------------------------
(* Faults. *)

Damage ==
    /\ left.damage > 0 /\ left' = [left EXCEPT !.damage = @ - 1]
    /\ \E p \in Packages : p.id \notin rot /\ rot' = rot \cup {p.id}
    /\ UNCHANGED <<disk, aside, shared, pin, locked, bk, cm, shown>>

Crash ==
    /\ left.crashes > 0 /\ left' = [left EXCEPT !.crashes = @ - 1]
    /\ shared' = None /\ pin' = None /\ locked' = FALSE /\ bk' = Idle /\ shown' = None
    /\ cm' = [pc |-> "idle", previous |-> None, cat |-> None, chosen |-> None, got |-> None]
    /\ UNCHANGED <<disk, aside, rot>>

Next == BackupStep \/ CommandStep \/ StartBackup \/ StartCommand("show") \/ StartCommand("verify")
        \/ Bind \/ Damage \/ Crash

Spec == Init /\ [][Next]_vars

----------------------------------------------------------------------------
(* Properties. *)

\* A package that a restore has pinned stays: retention reads the pin under its
\* lock before every deletion, also when the backup began before the restore.
PinnedSurvives == pin # None => pin \in Packages

\* A backup that reports success has kept what must not be lost, whatever was
\* deleted one at a time with a new plan each: the new package, the two newest
\* verified ones, the last one from before a migration nothing has followed;
\* what is verified is within the limits; and without a late pin or damage, all
\* the first plan kept is still there.
RetentionKeeps ==
    bk.pc = "settle" =>
        LET facts == bk.cat.points
            newest(n) == {p \in bk.before : Cardinality({q \in bk.before : Newer(q, p)}) < n}
            guard == {p \in bk.before :
                         /\ p.purpose = "PreMigration"
                         /\ \A q \in bk.before : q.purpose \in {"PreMigration", "PostMigration"}
                                                  => ~Newer(q, p) \/ q = p}
        IN  /\ newest(2) \cup guard \cup {bk.package} \subseteq Packages
            /\ Cardinality(Verified(facts)) <= MaxKept
            /\ Bytes(facts, Verified(facts)) <= Budget
            /\ PinSeen = bk.protected /\ (\A p \in bk.before : p.id \notin rot)
                  => bk.planned \subseteq Packages

\* A restore that is carried out restores the package whose row the user chose.
RestoresTheChosen == cm.got # None /\ "restored" \in DOMAIN cm.got => cm.got.restored = cm.chosen

\* The package a restore has pinned is there when it is read, and retention removes no
\* package its rules protect.
VaultKeeps == PinnedSurvives /\ RetentionKeeps
=============================================================================
