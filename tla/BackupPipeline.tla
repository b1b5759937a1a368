--------------------------- MODULE BackupPipeline ---------------------------
(***************************************************************************)
(* How a backup is made (store/backup.rs, state/package, platform          *)
(* durable_file, backup_directory and file_dialog, app/state.rs).          *)
(*                                                                         *)
(* The maintenance thread copies the live archive page by page into a      *)
(* candidate file of the staging directory, verifies it, packs it into a   *)
(* stage of the backup directory and publishes the stage under a free      *)
(* slot.  The command thread does the same for an export, compacts the     *)
(* candidate first when asked to, and moves the package to the file the    *)
(* user selected.  They share both directories while the usage writer      *)
(* commits and other programs touch files.  A crash leaves every file as   *)
(* it is; the next launch looks at the leftovers.                          *)
(*                                                                         *)
(* A file is [id, bytes]: its physical identity and what a digest of it    *)
(* tells apart, a version of the archive or Partial or Foreign.            *)
(***************************************************************************)
EXTENDS Naturals, FiniteSets

CONSTANTS
    Scenarios,      \* how often each thing happens, and what is selected
    Attempts,       \* 0..n-1, SNAPSHOT_ATTEMPTS names of each kind
    Slots,          \* 0..n-1, names of packages
    Pages,          \* steps one copy takes
    MaxRetries,     \* MAX_TRANSIENT_RETRIES
    MaxArtifacts    \* MAX_RECOVERY_STAGING_ARTIFACTS

VARIABLES
    archive,    \* the last committed version of the archive
    staging,    \* candidate name -> file or None
    sides,      \* candidates with a rollback journal beside them
    failures,   \* cleanup_failures
    slots,      \* slot -> package or None
    stages,     \* thread -> its stage in the backup directory or None
    output,     \* the selected file, the file it displaced, the stage beside it
    owed,       \* files of other programs nobody but they may remove
    job,        \* thread -> what it is doing
    app,        \* "running", "down", or why a launch was refused
    fresh,      \* the next physical identity
    left        \* what may still happen

vars == <<archive, staging, sides, failures, slots, stages, output, owed, job, app, fresh, left>>

None == [none |-> TRUE]
NoName == <<"none", 0>>
Partial == 0
Foreign == 1000      \* bytes no backup ever wrote

Threads == {"maintenance", "export"}
Names == {"snapshot", "compact"} \X Attempts

Idle == [pc |-> "idle", kind |-> "none", since |-> 0, name |-> NoName, snap |-> NoName,
         proof |-> None, source |-> None, at |-> [v |-> 0, pages |-> 0], retries |-> 0,
         data |-> Partial, chosen |-> 0, cancelled |-> FALSE, result |-> "none"]

Spend(what) == left[what] > 0 /\ left' = [left EXCEPT ![what] = @ - 1]

\* A version whose content passes verify_integrity, foreign keys, schema, counts,
\* generations and semantics.
Sound(bytes) == bytes \in 1..archive /\ bytes \notin left.unsound

----------------------------------------------------------------------------
(* Candidates. *)

Own(j) == {n \in {j.name, j.snap} : n # NoName}

\* try_remove_candidate_files for the candidates a thread lets go of, by name; a
\* file that cannot be removed stays and is counted.  Closing the copy's connection
\* has removed its journal by then.
Dropped(t, stuck) ==
    LET gone == Own(job[t]) \ stuck
    IN  /\ staging' = [n \in Names |-> IF n \in gone THEN None ELSE staging[n]]
        /\ sides' = sides \ Own(job[t])
        /\ failures' = failures + Cardinality({n \in stuck : staging[n] # None})

\* A thread gives up or is done: its candidates and its unpublished stage go.
Ends(t, result) ==
    \E stuck \in IF left.stuck > 0 THEN SUBSET Own(job[t]) ELSE {{}} :
        /\ Dropped(t, stuck)
        /\ stages' = [stages EXCEPT ![t] = None]
        /\ job' = [job EXCEPT ![t] = [Idle EXCEPT !.result = result]]
        /\ left' = IF stuck = {} THEN left ELSE [left EXCEPT !.stuck = @ - 1]
        /\ UNCHANGED <<archive, slots, app, fresh, owed>>

\* An export also removes the stage beside the selected file, unless the file was
\* replaced in between and the stage is evidence.
Fail(t) == /\ Ends(t, IF job[t].cancelled THEN "cancelled" ELSE "failed")
           /\ output' = IF t = "export" THEN [output EXCEPT !.stage = None] ELSE output

FailKeeping(t) == Ends(t, "failed") /\ UNCHANGED output

Goes(t, pc) == job' = [job EXCEPT ![t].pc = pc]

\* capture_candidate_identity equals the proof.
Revalidated(name, proof) == staging[name] # None /\ staging[name] = proof

\* BackupControl::check
Checked(t) == ~job[t].cancelled

FreeAttempts(kind) == {i \in Attempts : staging[<<kind, i>>] = None}
FirstAttempt(kind) ==
    <<kind, CHOOSE i \in FreeAttempts(kind) : \A k \in FreeAttempts(kind) : i <= k>>

\* create_candidate: the first name not taken.
Creates(t, kind) ==
    LET name == FirstAttempt(kind)
    IN  /\ staging' = [staging EXCEPT ![name] = [id |-> fresh, bytes |-> Partial]]
        /\ fresh' = fresh + 1

\* create_online_snapshot up to its loop: the source is opened, a candidate created.
SnapshotOpen(t) ==
    /\ job[t].pc = "snapshot"
    /\ IF ~Checked(t) \/ FreeAttempts("snapshot") = {} THEN Fail(t)
       ELSE /\ Creates(t, "snapshot")
            /\ job' = [job EXCEPT ![t].pc = "copy", ![t].name = FirstAttempt("snapshot")]
            /\ UNCHANGED <<archive, sides, failures, slots, stages, output, owed, app, left>>

\* backup.step (SQLite, external): a source changed since the last step is copied
\* from its first page again.  From the first page to the last there is a rollback
\* journal beside the copy.
Stepped(at) == [v |-> archive, pages |-> IF at.v = archive THEN at.pages + 1 ELSE 1]

\* One turn of the loop of create_online_snapshot: more, done, or busy.
SnapshotStep(t) ==
    /\ job[t].pc = "copy"
    /\ LET at == Stepped(job[t].at)
       IN \/ /\ ~Checked(t)
             /\ Fail(t)
          \/ /\ Checked(t)
             /\ at.pages < Pages
             /\ job' = [job EXCEPT ![t].at = at, ![t].retries = 0]
             /\ sides' = sides \cup {job[t].name}
             /\ UNCHANGED <<archive, staging, failures, slots, stages, output, owed, app, fresh, left>>
          \/ /\ Checked(t)
             /\ at.pages = Pages
             /\ staging' = [staging EXCEPT ![job[t].name].bytes = archive]
             /\ sides' = sides \ {job[t].name}
             /\ Goes(t, "capture")
             /\ UNCHANGED <<archive, failures, slots, stages, output, owed, app, fresh, left>>
          \/ /\ Checked(t)
             /\ Spend("busy")
             /\ job[t].retries < MaxRetries
             /\ job' = [job EXCEPT ![t].retries = @ + 1]
             /\ UNCHANGED <<archive, staging, sides, failures, slots, stages, output, owed, app, fresh>>
          \/ /\ Checked(t)
             /\ left.busy > 0
             /\ job[t].retries = MaxRetries
             /\ Fail(t)

\* verify_backup_candidate: the identity before, sidecars refused, ...
VerifyCapture(t) ==
    /\ job[t].pc = "capture"
    /\ IF ~Checked(t) \/ staging[job[t].name] = None \/ job[t].name \in sides THEN Fail(t)
       ELSE /\ job' = [job EXCEPT ![t].pc = "inspect", ![t].proof = staging[job[t].name]]
            /\ UNCHANGED <<archive, staging, sides, failures, slots, stages, output, owed, app, fresh, left>>

\* ... the content inspected, ...
VerifyContent(t) ==
    /\ job[t].pc = "inspect"
    /\ IF ~Checked(t) \/ staging[job[t].name] = None THEN Fail(t)
       ELSE IF ~Sound(staging[job[t].name].bytes) THEN Fail(t)
       ELSE /\ Goes(t, "compare")
            /\ UNCHANGED <<archive, staging, sides, failures, slots, stages, output, owed, app, fresh, left>>

\* Mutant: the identity after the inspection is taken without being compared.
UnchangedAlways(t) == staging[job[t].name] # None

UnchangedSince(t) == Revalidated(job[t].name, job[t].proof)

\* ... and the identity after it, which must be the one before.
VerifyCompare(t) ==
    /\ job[t].pc = "compare"
    /\ IF ~Checked(t) \/ ~UnchangedSince(t) THEN Fail(t)
       ELSE /\ job' = [job EXCEPT
                    ![t].pc = IF @ = "compare" /\ job[t].kind = "compact" /\ job[t].snap = NoName
                              THEN "compact" ELSE "stage",
                    ![t].proof = staging[job[t].name]]
            /\ UNCHANGED <<archive, staging, sides, failures, slots, stages, output, owed, app, fresh, left>>

\* create_compact_snapshot: the snapshot is still the verified one, ...
CompactOpen(t) ==
    /\ job[t].pc = "compact"
    /\ IF ~Checked(t) \/ ~Revalidated(job[t].name, job[t].proof) \/ FreeAttempts("compact") = {}
       THEN Fail(t)
       ELSE /\ Creates(t, "compact")
            /\ job' = [job EXCEPT ![t].pc = "vacuum", ![t].snap = job[t].name,
                                  ![t].source = job[t].proof, ![t].name = FirstAttempt("compact")]
            /\ UNCHANGED <<archive, sides, failures, slots, stages, output, owed, app, left>>

\* ... VACUUM INTO reads it, ...
Vacuum(t) ==
    /\ job[t].pc = "vacuum"
    /\ IF ~Checked(t) \/ staging[job[t].snap] = None \/ staging[job[t].name] = None THEN Fail(t)
       ELSE /\ staging' = [staging EXCEPT ![job[t].name].bytes = staging[job[t].snap].bytes]
            /\ Goes(t, "vacuumed")
            /\ UNCHANGED <<archive, sides, failures, slots, stages, output, owed, app, fresh, left>>

\* ... and it is still the verified one; the compact copy is verified in turn.
VacuumCheck(t) ==
    /\ job[t].pc = "vacuumed"
    /\ IF ~Checked(t) \/ ~Revalidated(job[t].snap, job[t].source) THEN Fail(t)
       ELSE /\ Goes(t, "capture")
            /\ UNCHANGED <<archive, staging, sides, failures, slots, stages, output, owed, app, fresh, left>>

----------------------------------------------------------------------------
(* The package. *)

\* scan: an unfinished stage of anyone refuses the directory.
Scannable == \A t \in Threads : stages[t] = None

FreeSlots == {s \in Slots : slots[s] = None}

\* BackupDirectory::create_staged, after the settings candidate is taken.
StageCreate(t) ==
    /\ job[t].pc = "stage"
    /\ IF ~Scannable \/ FreeSlots = {} THEN Fail(t)
       ELSE /\ stages' = [stages EXCEPT ![t] =
                  [slot |-> CHOOSE s \in FreeSlots : \A r \in FreeSlots : s <= r,
                   bytes |-> Partial, sealed |-> FALSE]]
            /\ Goes(t, "open")
            /\ UNCHANGED <<archive, staging, sides, failures, slots, output, owed, app, fresh, left>>

\* VerifiedBackupCandidate::open_reader
OpenReader(t) ==
    /\ job[t].pc = "open"
    /\ IF ~Checked(t) \/ ~Revalidated(job[t].name, job[t].proof) THEN Fail(t)
       ELSE /\ Goes(t, "write")
            /\ UNCHANGED <<archive, staging, sides, failures, slots, stages, output, owed, app, fresh, left>>

\* write_backup_stream: settings, then what the opened file holds now.
WriteStream(t) ==
    /\ job[t].pc = "write"
    /\ LET f == staging[job[t].name]
           read == IF f # None /\ f.id = job[t].proof.id THEN f.bytes ELSE job[t].proof.bytes
       IN IF ~Checked(t) \/ read # job[t].proof.bytes THEN Fail(t)
          ELSE /\ job' = [job EXCEPT ![t].pc = "finish", ![t].data = read]
               /\ UNCHANGED <<archive, staging, sides, failures, slots, stages, output, owed, app, fresh, left>>

\* finish, then seal: the source is still the verified one and the stage holds what
\* was written; otherwise the stage is discarded.
FinishSeal(t) ==
    /\ job[t].pc = "finish"
    /\ IF ~Checked(t) \/ ~Revalidated(job[t].name, job[t].proof) THEN Fail(t)
       ELSE /\ stages' = [stages EXCEPT ![t].bytes = job[t].data, ![t].sealed = TRUE]
            /\ Goes(t, "reread")
            /\ UNCHANGED <<archive, staging, sides, failures, slots, output, owed, app, fresh, left>>

\* verify_backup_stage.  The export's candidates are dropped when the package is ready.
VerifyStage(t) ==
    /\ job[t].pc = "reread"
    /\ IF \/ stages[t].bytes # job[t].data
          \/ t = "export" /\ job[t].cancelled
       THEN Fail(t)
       ELSE IF t = "maintenance"
       THEN /\ Goes(t, "publish")
            /\ UNCHANGED <<archive, staging, sides, failures, slots, stages, output, owed, app, fresh, left>>
       ELSE /\ Dropped(t, {})
            /\ job' = [job EXCEPT ![t].pc = "target", ![t].name = NoName, ![t].snap = NoName]
            /\ UNCHANGED <<archive, slots, stages, output, owed, app, fresh, left>>

\* begin_publication, then BackupDirectory::publish: the bytes of the stage are
\* verified once more and moved into the slot if it is still free.
Publish(t) ==
    /\ job[t].pc = "publish"
    /\ IF job[t].cancelled \/ stages[t].bytes # job[t].data \/ slots[stages[t].slot] # None
       THEN Fail(t)
       ELSE /\ slots' = [slots EXCEPT ![stages[t].slot] =
                          [bytes |-> stages[t].bytes, since |-> job[t].since]]
            /\ stages' = [stages EXCEPT ![t] = None]
            /\ Goes(t, "rebuild")
            /\ UNCHANGED <<archive, staging, sides, failures, output, owed, app, fresh, left>>

\* The catalog is rebuilt; retention follows.
Rebuild(t) ==
    /\ job[t].pc = "rebuild"
    /\ Ends(t, IF Scannable THEN "published" ELSE "failed")
    /\ UNCHANGED output

----------------------------------------------------------------------------
(* The selected file. *)

IdOf(f) == IF f = None THEN 0 ELSE f.id

\* ensure_selection_current
SelectionCurrent(t) == IdOf(output.file) = job[t].chosen

\* SelectedOutputFile::create_staged
TargetStage(t) ==
    /\ job[t].pc = "target"
    /\ IF ~SelectionCurrent(t) THEN Fail(t)
       ELSE /\ output' = [output EXCEPT !.stage = [id |-> fresh, bytes |-> Partial]]
            /\ fresh' = fresh + 1
            /\ Goes(t, "transfer")
            /\ UNCHANGED <<archive, staging, sides, failures, slots, stages, owed, app, left>>

Transferred(t) ==
    /\ output' = [output EXCEPT !.stage.bytes = job[t].data]
    /\ stages' = [stages EXCEPT ![t] = None]
    /\ Goes(t, "commit")
    /\ UNCHANGED <<archive, staging, sides, failures, slots, owed, app, fresh, left>>

\* copy_verified_stage_to_durable: the stage is read again and must be what was
\* verified; then it is discarded, and a cancelled export discards the output too.
TransferCopy(t) ==
    /\ job[t].pc = "transfer" /\ job[t].kind = "compact"
    /\ IF stages[t].bytes # job[t].data \/ job[t].cancelled THEN Fail(t) ELSE Transferred(t)

\* export_encrypted_backup: encrypt instead of copy; the output is not read back.
TransferEncrypted(t) ==
    /\ job[t].pc = "transfer" /\ job[t].kind = "encrypted"
    /\ IF stages[t].bytes # job[t].data \/ job[t].cancelled THEN Fail(t) ELSE Transferred(t)

\* ConfigPackage::write: the settings alone, no stage in the backup directory.
TransferConfig(t) ==
    /\ job[t].pc = "transfer" /\ job[t].kind = "config"
    /\ IF job[t].cancelled THEN Fail(t) ELSE Transferred(t)

\* begin_irreversible, and the checks of publish before the file is touched.
Commit(t) ==
    /\ job[t].pc = "commit"
    /\ IF job[t].cancelled \/ ~SelectionCurrent(t) THEN Fail(t)
       ELSE /\ Goes(t, IF job[t].chosen = 0 THEN "move" ELSE "replace")
            /\ UNCHANGED <<archive, staging, sides, failures, slots, stages, output, owed, app, fresh, left>>

\* publish_new: a name that got taken is left alone.
PublishNew(t) ==
    /\ job[t].pc = "move"
    /\ IF output.file # None THEN Fail(t)
       ELSE /\ output' = [output EXCEPT !.file = output.stage, !.stage = None]
            /\ job' = [job EXCEPT ![t].pc = "check", ![t].chosen = output.stage.id]
            /\ UNCHANGED <<archive, staging, sides, failures, slots, stages, owed, app, fresh, left>>

\* replace_selected: one native call moves the file there is to the displaced name
\* and the stage to the target.
Replace(t) ==
    /\ job[t].pc = "replace"
    /\ IF output.file = None THEN Fail(t)
       ELSE /\ output' = [file |-> output.stage, displaced |-> output.file, stage |-> None]
            /\ job' = [job EXCEPT ![t].pc = "displaced", ![t].proof = output.stage]
            /\ UNCHANGED <<archive, staging, sides, failures, slots, stages, owed, app, fresh, left>>

\* Mutant: whatever was displaced is taken for the selected file.
DisplacedAny(t) == TRUE

DisplacedSelected(t) == IdOf(output.displaced) = job[t].chosen

\* The displaced file must be the selected one; anything else goes back, or stays
\* where it is when the target is no longer what was just put there.
ReplaceCheck(t) ==
    /\ job[t].pc = "displaced"
    /\ IF DisplacedSelected(t)
       THEN /\ Goes(t, "settle")
            /\ UNCHANGED <<archive, staging, sides, failures, slots, stages, output, owed, app, fresh, left>>
       ELSE IF output.file = job[t].proof
       THEN /\ Goes(t, "rollback")
            /\ UNCHANGED <<archive, staging, sides, failures, slots, stages, output, owed, app, fresh, left>>
       ELSE FailKeeping(t)

\* The second native call puts the displaced file back and what it finds there aside;
\* the stage is deleted only when that is the stage.
Rollback(t) ==
    /\ job[t].pc = "rollback"
    /\ Ends(t, "failed")
    /\ output' = [file |-> output.displaced, displaced |-> None,
                  stage |-> IF output.file = job[t].proof THEN None ELSE output.file]

\* The new file is verified in place, then the old one deleted.
Settle(t) ==
    /\ job[t].pc = "settle"
    /\ IF output.file # job[t].proof THEN FailKeeping(t)
       ELSE /\ output' = [output EXCEPT !.displaced = None]
            /\ owed' = owed \ {job[t].chosen}
            /\ job' = [job EXCEPT ![t].pc = "check", ![t].chosen = job[t].proof.id]
            /\ UNCHANGED <<archive, staging, sides, failures, slots, stages, app, fresh, left>>

\* open_reader and inspect: what was published is read back (encrypted: its digest
\* is the one that was written).
ReadBack(t) ==
    /\ job[t].pc = "check"
    /\ Ends(t, IF SelectionCurrent(t) /\ output.file.bytes = job[t].data
               THEN "exported" ELSE "failed")
    /\ UNCHANGED output

----------------------------------------------------------------------------
(* What starts the threads, and what happens around them. *)

\* try_execute: the catalog is rebuilt first.
StartMaintenance ==
    /\ app = "running" /\ job["maintenance"].pc = "idle" /\ Spend("backups")
    /\ job' = [job EXCEPT !["maintenance"] =
                 IF Scannable
                 THEN [Idle EXCEPT !.pc = "snapshot", !.kind = "full", !.since = archive]
                 ELSE [Idle EXCEPT !.result = "failed"]]
    /\ UNCHANGED <<archive, staging, sides, failures, slots, stages, output, owed, app, fresh>>

\* export_compact_backup, export_encrypted_backup, export_config: the output was
\* selected, absent or with its identity, when the command was given.
StartExport ==
    /\ app = "running" /\ job["export"].pc = "idle" /\ Spend("exports")
    /\ output.stage = None /\ output.displaced = None
    /\ job' = [job EXCEPT !["export"] =
                 [Idle EXCEPT !.pc = IF left.kind = "config" THEN "target" ELSE "snapshot",
                              !.kind = left.kind, !.since = archive,
                              !.data = IF left.kind = "config" THEN archive ELSE Partial,
                              !.chosen = IdOf(output.file)]]
    /\ UNCHANGED <<archive, staging, sides, failures, slots, stages, output, owed, app, fresh>>

WriterCommits ==
    /\ app = "running" /\ Spend("commits")
    /\ archive' = archive + 1
    /\ UNCHANGED <<staging, sides, failures, slots, stages, output, owed, job, app, fresh>>

\* The flag an operation's control and permit share.
Cancel(t) ==
    /\ job[t].pc # "idle" /\ ~job[t].cancelled /\ Spend("cancels")
    /\ job' = [job EXCEPT ![t].cancelled = TRUE]
    /\ UNCHANGED <<archive, staging, sides, failures, slots, stages, output, owed, app, fresh>>

\* Another program changes a candidate nobody is writing: in place, by another file
\* with the same bytes, or by removing it; or it changes a sealed stage.
Disturb ==
    /\ Spend("touches")
    /\ \/ \E n \in Names :
            /\ staging[n] # None
            /\ ~\E t \in Threads : job[t].name = n /\ job[t].pc \in {"copy", "vacuum"}
            /\ \/ staging' = [staging EXCEPT ![n].bytes = Foreign] /\ UNCHANGED fresh
               \/ staging' = [staging EXCEPT ![n].id = fresh] /\ fresh' = fresh + 1
               \/ staging' = [staging EXCEPT ![n] = None] /\ UNCHANGED fresh
            /\ UNCHANGED stages
       \/ \E t \in Threads :
            /\ stages[t] # None /\ stages[t].sealed
            /\ stages' = [stages EXCEPT ![t].bytes = Foreign]
            /\ UNCHANGED <<staging, fresh>>
    /\ UNCHANGED <<archive, sides, failures, slots, output, owed, job, app>>

\* Another program saves its own file under the selected name.
ReplaceTarget ==
    /\ Spend("saves")
    /\ output' = [output EXCEPT !.file = [id |-> fresh, bytes |-> Foreign]]
    /\ owed' = (owed \ {IdOf(output.file)}) \cup {fresh}
    /\ fresh' = fresh + 1
    /\ UNCHANGED <<archive, staging, sides, failures, slots, stages, job, app>>

Crash ==
    /\ app = "running" /\ Spend("crashes")
    /\ app' = "down"
    /\ job' = [t \in Threads |-> Idle]
    /\ failures' = 0
    /\ UNCHANGED <<archive, staging, sides, slots, stages, output, owed, fresh>>

\* Directory entries of the staging directory.
Entries == Cardinality({n \in Names : staging[n] # None}) + Cardinality(sides)

\* recover_abandoned_candidates
SweptStaging == [n \in Names |-> None]

\* StateBootstrap::prepare with no restore pending: has_recovery_evidence counts the
\* staging directory, the backup directory is scanned, resume sweeps the candidates.
Launch ==
    /\ app = "down"
    /\ IF Entries > MaxArtifacts
       THEN app' = "refused_staging" /\ UNCHANGED <<staging, sides>>
       ELSE IF ~Scannable
       THEN app' = "refused_backups" /\ UNCHANGED <<staging, sides>>
       ELSE /\ app' = "running"
            /\ staging' = SweptStaging
            /\ sides' = {}
    /\ UNCHANGED <<archive, failures, slots, stages, output, owed, job, fresh, left>>

----------------------------------------------------------------------------

Work(t) ==
    \/ SnapshotOpen(t) \/ SnapshotStep(t)
    \/ VerifyCapture(t) \/ VerifyContent(t) \/ VerifyCompare(t)
    \/ CompactOpen(t) \/ Vacuum(t) \/ VacuumCheck(t)
    \/ StageCreate(t) \/ OpenReader(t) \/ WriteStream(t) \/ FinishSeal(t) \/ VerifyStage(t)
    \/ Publish(t) \/ Rebuild(t)
    \/ TargetStage(t) \/ TransferCopy(t) \/ TransferEncrypted(t) \/ TransferConfig(t) \/ Commit(t)
    \/ PublishNew(t) \/ Replace(t) \/ ReplaceCheck(t) \/ Rollback(t) \/ Settle(t) \/ ReadBack(t)

Init ==
    /\ left \in Scenarios
    /\ archive = 1
    /\ staging = [n \in Names |-> None]
    /\ sides = {}
    /\ failures = 0
    /\ slots = [s \in Slots |-> None]
    /\ stages = [t \in Threads |-> None]
    /\ output = [file |-> IF left.selected THEN [id |-> 1, bytes |-> Foreign] ELSE None,
                 displaced |-> None, stage |-> None]
    /\ owed = IF left.selected THEN {1} ELSE {}
    /\ job = [t \in Threads |-> Idle]
    /\ app = "running"
    /\ fresh = 2

Next ==
    \/ \E t \in Threads : Work(t) \/ Cancel(t)
    \/ StartMaintenance \/ StartExport
    \/ WriterCommits \/ Disturb \/ ReplaceTarget \/ Crash \/ Launch

Spec == Init /\ [][Next]_vars

----------------------------------------------------------------------------

\* A published package, and the file an export reads back as its own, holds one
\* committed version of the archive, one that passes verification and no older than the
\* operation that made it, whatever the writer commits while it is copied and whatever
\* happens to the candidate or the stage between verification, packing and publication
\* (verify_backup_candidate, create_compact_snapshot, open_reader, finish, publish).
BackupsAreCommitted ==
    /\ \A s \in Slots : slots[s] # None =>
           Sound(slots[s].bytes) /\ slots[s].bytes >= slots[s].since
    /\ job["export"].pc = "check" /\ SelectionCurrent("export") /\ job["export"].kind # "config" =>
           Sound(output.file.bytes) /\ output.file.bytes >= job["export"].since

\* While nothing runs, the staging directory holds no candidate that is not counted as
\* a cleanup failure and the backup directory no stage, also after a launch that
\* followed a crash (Drop of BackupCandidate, recover_abandoned_candidates).
StagingDrains ==
    app = "running" /\ (\A t \in Threads : job[t].pc = "idle") =>
        Scannable /\ sides = {}
        /\ Cardinality({n \in Names : staging[n] # None}) <= failures

\* A file of another program that is or was under the selected name is never
\* overwritten or deleted, except the selected one once its replacement is verified in
\* place; it may end up under the name of the displaced file or of the stage
\* (replace_selected_with).
OthersKept ==
    \A i \in owed : i \in {IdOf(output.file), IdOf(output.displaced), IdOf(output.stage)}

\* A launch is not refused for the candidates a crash left in the staging directory:
\* their names are fixed and resume sweeps them (has_recovery_evidence, called first).
CandidatesRecovered == app # "refused_staging"

\* Once the application rests after a launch nothing is left in staging, and a file of
\* another program beside or under the selected name is never removed.
FilesAccounted == StagingDrains /\ OthersKept
=============================================================================
