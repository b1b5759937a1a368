------------------------------- MODULE MCBackup -------------------------------
(*****************************************************************************)
(* Backup and restore, component by component: snapshots, packages and       *)
(* exports; the vault of backups with its retention and its catalog; the     *)
(* maintenance worker with its schedule; the recovery at startup.  A         *)
(* behaviour is one of one of the Parts.                                     *)
(*****************************************************************************)
EXTENDS BackupMaintenance, Integers, Sequences, TLC

CONSTANTS
    Parts,   \* the components this instance runs
    Missing, Invalid, MaxQuarantine, MaxLaunches, MaxSessions, RecoveryScenarios,
    PipelineScenarios, Attempts, PipelineSlots, Pages, MaxRetries, MaxArtifacts,
    VaultScenarios, VaultSlots, Newest, Daily, Weekly, MaxKept, DaysPerWeek,
    TimePerDay, Budget

VARIABLES
    part,    \* the component that runs in this behaviour
    recoveryActive, recoveryStage, recoveryQuar, recoveryJournal, recoveryRun,
    recoverySettings, recoveryBackups, recoverySessions, recoveryLaunched, recoveryP,
    recoveryLeft, pipeArchive, pipeStaging, pipeSides, pipeFailures, pipeSlots,
    pipeStages, pipeOutput, pipeOwed, pipeJob, pipeApp, pipeFresh, pipeLeft, vaultDisk,
    vaultAside, vaultRot, vaultShared, vaultPin, vaultLocked, vaultBk, vaultCm,
    vaultShown, vaultLeft

Recovery == INSTANCE StateRecovery WITH
    active <- recoveryActive, stage <- recoveryStage, quar <- recoveryQuar,
    journal <- recoveryJournal, run <- recoveryRun, settings <- recoverySettings,
    backups <- recoveryBackups, sessions <- recoverySessions,
    launched <- recoveryLaunched, p <- recoveryP, left <- recoveryLeft,
    Scenarios <- RecoveryScenarios

Pipeline == INSTANCE BackupPipeline WITH
    archive <- pipeArchive, staging <- pipeStaging, sides <- pipeSides,
    failures <- pipeFailures, slots <- pipeSlots, stages <- pipeStages,
    output <- pipeOutput, owed <- pipeOwed, job <- pipeJob, app <- pipeApp,
    fresh <- pipeFresh, left <- pipeLeft, Scenarios <- PipelineScenarios,
    Slots <- PipelineSlots

Vault == INSTANCE BackupVault WITH
    disk <- vaultDisk, aside <- vaultAside, rot <- vaultRot, shared <- vaultShared,
    pin <- vaultPin, locked <- vaultLocked, bk <- vaultBk, cm <- vaultCm,
    shown <- vaultShown, left <- vaultLeft, Scenarios <- VaultScenarios,
    Slots <- VaultSlots

-----------------------------------------------------------------------------
(* The instance of StateRecovery.                                            *)

Whole(of, n) == [of |-> of, n |-> n, ok |-> TRUE]
NoMain == [of |-> "none", n |-> 0, ok |-> FALSE]

Package(ok) == [file |-> Whole("backup", 1), ok |-> ok, portable |-> "saved"]

Set(main, sidecars) == [main |-> main, wal |-> sidecars, shm |-> sidecars]
Healthy == Set(Whole("live", 1), 0)
Crashed == Set([Whole("live", 1) EXCEPT !.ok = FALSE], 1)
Lost == Set(NoMain, 1)

Calm == [installed |-> TRUE, active |-> Healthy, backups |-> <<Package(TRUE)>>, resolves |-> TRUE,
         crash |-> 0, restore |-> 0, damage |-> 0, lose |-> 0, start |-> 0, replace |-> 0, torn |-> 0,
         verify |-> 0, record |-> 0, records |-> 0]

MCScenarios ==
  { [Calm EXCEPT !.installed = FALSE, !.active = Set(NoMain, 0), !.backups = <<>>, !.crash = 2, !.start = 1],
    [Calm EXCEPT !.active = Crashed, !.crash = 3],
    [Calm EXCEPT !.active = Lost, !.crash = 2, !.start = 1],
    [Calm EXCEPT !.active = Crashed, !.backups = <<Package(FALSE)>>, !.crash = 2, !.start = 1],
    [Calm EXCEPT !.restore = 1, !.crash = 2, !.damage = 1, !.resolves = FALSE],
    [Calm EXCEPT !.restore = 1, !.crash = 2, !.lose = 1],
    [Calm EXCEPT !.restore = 3],
    [Calm EXCEPT !.active = Crashed, !.crash = 1, !.replace = 1, !.verify = 1, !.resolves = FALSE],
    [Calm EXCEPT !.active = Crashed, !.torn = 1, !.resolves = FALSE],
    [Calm EXCEPT !.restore = 1, !.crash = 2, !.verify = 1, !.resolves = FALSE],
    [Calm EXCEPT !.restore = 1, !.crash = 2, !.record = 1, !.records = 1, !.resolves = FALSE],
    [Calm EXCEPT !.active = Crashed, !.crash = 3, !.record = 1, !.records = 1, !.resolves = FALSE] }

-----------------------------------------------------------------------------
(* The instance of BackupPipeline.                                           *)

PipelineQuiet == [backups |-> 0, exports |-> 0, commits |-> 0, cancels |-> 0, touches |-> 0,
          saves |-> 0, crashes |-> 0, stuck |-> 0, busy |-> 0,
          kind |-> "compact", selected |-> FALSE, unsound |-> {}]

\* One backup beside one compact export.
Together == [PipelineQuiet EXCEPT !.backups = 1, !.exports = 1, !.commits = 1]

PipelineMCScenarios ==
    {[Together EXCEPT !.cancels = 1],
     [Together EXCEPT !.touches = 1],
     \* Other programs in the staging directory; the second version is not sound.
     [PipelineQuiet EXCEPT !.exports = 1, !.commits = 1, !.touches = 2, !.unsound = {2}],
     [PipelineQuiet EXCEPT !.backups = 2, !.commits = 2, !.touches = 1, !.cancels = 1],
     [PipelineQuiet EXCEPT !.backups = 2, !.commits = 1, !.stuck = 2, !.busy = 3],
     \* Other programs at the selected file.
     [PipelineQuiet EXCEPT !.exports = 2, !.kind = "config", !.saves = 2, !.crashes = 1, !.cancels = 1,
                   !.selected = TRUE],
     [PipelineQuiet EXCEPT !.exports = 1, !.kind = "encrypted", !.saves = 1, !.commits = 1],
     \* A crash while neither, one or both run.
     [PipelineQuiet EXCEPT !.exports = 1, !.backups = 1, !.crashes = 1]}

Overlap == {[PipelineQuiet EXCEPT !.exports = 1, !.backups = 1, !.crashes = 1]}

-----------------------------------------------------------------------------
(* The instance of BackupVault.                                              *)

P(n, s, purpose) == [id |-> n, slot |-> s, created |-> n, size |-> 1, purpose |-> purpose]

Disk(ps) == [s \in VaultSlots |-> IF \E p \in ps : p.slot = s THEN CHOOSE p \in ps : p.slot = s ELSE [none |-> TRUE]]

Left(b, c, r, d, k, purposes) ==
    [backups |-> b, commands |-> c, restores |-> r, damage |-> d, crashes |-> k, clock |-> 6,
     purposes |-> purposes]

Four(f) == Disk({P(1, 0, f[1]), P(2, 1, f[2]), P(4, 2, f[3]), P(5, 3, f[4])})
Purposes == {"Periodic", "PreMigration", "PostMigration"}

\* Every history of purposes, two backups in a row.
Histories == {[disk |-> Four(f), left |-> Left(1, 0, 0, 0, 0, {"Periodic"})] : f \in [1..4 -> Purposes]}
\* Projections, a verification and a restore while a backup runs.
Periodic == [i \in 1..4 |-> "Periodic"]
Restores == {[disk |-> Four(Periodic), left |-> Left(1, 2, 1, 0, 0, {"Periodic"})]}
Faults == {[disk |-> Four(Periodic), left |-> Left(1, 1, 1, 1, 0, {"Periodic"})]}
Crashes == {[disk |-> Four(Periodic), left |-> Left(1, 1, 0, 0, 1, {"Periodic"})]}

AllScenarios == Histories \cup Restores \cup Faults \cup Crashes

-----------------------------------------------------------------------------
(* The instance of BackupMaintenance.                                        *)

\* Requests meet each other, failing sources and a waiting caller.
Requests ==
    [source |-> "HealthyUnpublished", asked |-> {"Manual", "PreRestore"},
     waited |-> {"PreMigration"}, asks |-> 3, calls |-> {}, turns |-> 0,
     scheduler |-> FALSE, failing |-> TRUE]

\* The worker is stopped around requests.
Stops ==
    [source |-> "Healthy", asked |-> {"Manual"}, waited |-> {"PreRestore"}, asks |-> 2,
     calls |-> {"stop"}, turns |-> 1, scheduler |-> FALSE, failing |-> FALSE]

\* The automatic backups, with changes, policy switches, pauses and a shutdown.
Automatic ==
    [source |-> "Healthy", asked |-> {}, waited |-> {"Manual"}, asks |-> 1,
     calls |-> {"pause", "stop"}, turns |-> 2, scheduler |-> TRUE, failing |-> FALSE]

Policy ==
    [source |-> "Healthy", asked |-> {}, waited |-> {}, asks |-> 0,
     calls |-> {"change", "policy"}, turns |-> 2, scheduler |-> TRUE, failing |-> FALSE]

\* Nothing to back up: guards are bypassed, everything else refused.
Empty ==
    [source |-> "EmptyInstallation", asked |-> {"Manual", "PreRestore"}, waited |-> {}, asks |-> 2,
     calls |-> {}, turns |-> 0, scheduler |-> FALSE, failing |-> FALSE]

MaintenanceMCScenarios == {Requests, Stops, Automatic, Policy, Empty}

recoveryVars == <<recoveryActive, recoveryStage, recoveryQuar, recoveryJournal, recoveryRun,
    recoverySettings, recoveryBackups, recoverySessions, recoveryLaunched, recoveryP,
    recoveryLeft>>
pipeVars == <<pipeArchive, pipeStaging, pipeSides, pipeFailures, pipeSlots, pipeStages,
    pipeOutput, pipeOwed, pipeJob, pipeApp, pipeFresh, pipeLeft>>
vaultVars == <<vaultDisk, vaultAside, vaultRot, vaultShared, vaultPin, vaultLocked, vaultBk,
    vaultCm, vaultShown, vaultLeft>>
allVars == <<part, recoveryVars, pipeVars, vaultVars, vars>>

\* One component runs; the others stay in one of their initial states.
AllInit ==
    /\ part \in Parts
    /\ Recovery!Init
    /\ part # "recovery" => recoveryLeft = CHOOSE s \in RecoveryScenarios : ~s.installed
    /\ Pipeline!Init
    /\ part # "pipeline" => pipeLeft = CHOOSE s \in PipelineScenarios : ~s.selected
    /\ Vault!Init
    /\ part # "vault" => vaultDisk = (CHOOSE s \in VaultScenarios : TRUE).disk /\ vaultLeft = (CHOOSE s \in VaultScenarios : TRUE).left
    /\ Init
    /\ part # "maintenance" => scenario = CHOOSE s \in Scenarios : ~s.scheduler

AllNext ==
    \/ part = "recovery" /\ Recovery!Next /\ UNCHANGED <<part, pipeVars, vaultVars, vars>>
    \/ part = "pipeline" /\ Pipeline!Next /\ UNCHANGED <<part, recoveryVars, vaultVars, vars>>
    \/ part = "vault" /\ Vault!Next /\ UNCHANGED <<part, recoveryVars, pipeVars, vars>>
    \/ part = "maintenance" /\ Next /\ UNCHANGED <<part, recoveryVars, pipeVars, vaultVars>>
    \/ part \in {"recovery", "pipeline", "vault", "maintenance"} /\ UNCHANGED allVars

AllSpec == AllInit /\ [][AllNext]_allVars

\* The fairness of each component, while it is the one that runs.
FairAllSpec ==
    /\ AllSpec
    /\ WF_recoveryVars(part = "recovery" /\ (Recovery!Start \/ Recovery!Operate))
    /\ WF_recoveryVars(part = "recovery" /\ Recovery!Quit)
    /\ WF_vars(part = "maintenance" /\ WorkerStep)
    /\ WF_vars(part = "maintenance" /\ SchedulerStep)
    /\ WF_vars(part = "maintenance" /\ OwnerStep)

-----------------------------------------------------------------------------
\* The files a restore set aside stay whole until the operation is superseded; the log
\* and the index beside an archive that is opened are its own; a restored archive that
\* dies is launched only so often; and an archive is opened only when no operation is
\* under way, through crashes between any two file operations (archive_recovery.rs,
\* bootstrap.rs).
RecoveryIsSafe == part = "recovery" => Recovery!RecoveryIsSafe

\* Once nothing more fails, a restore that was begun ends: the archive opens or safe mode
\* says why not (bootstrap.rs: resume).
RestoreResolves == part = "recovery" => Recovery!RestoreResolves

\* A backup or an export that is published holds one committed version of the archive,
\* whatever the writers did while it was copied (backup.rs).
BackupsAreCommitted == part = "pipeline" => Pipeline!BackupsAreCommitted

\* Once the application rests after a launch nothing is left in staging, and a file of
\* another program beside or under the selected name is never removed
\* (archive_recovery.rs recover_abandoned, durable_file.rs).
FilesAccounted == part = "pipeline" => Pipeline!FilesAccounted

\* The package a restore has pinned is still there when it is read, and retention never
\* removes a package that the newest, daily and weekly rules protect, nor the last
\* verified one (retention.rs, backup_directory.rs, app/state.rs).
VaultKeeps == part = "vault" => Vault!VaultKeeps

\* A launch is not refused for the candidates a crash left in the staging directory:
\* their names are fixed and resume sweeps them (bootstrap.rs: has_recovery_evidence).
CandidatesRecovered == part = "pipeline" => Pipeline!CandidatesRecovered

\* A restore that is carried out restores the package whose row the user chose
\* (app/state.rs: the generation and ordinal of the reviewed row).
RestoresTheChosen == part = "vault" => Vault!RestoresTheChosen
=============================================================================
