--------------------------- MODULE StateRecovery ---------------------------
(***************************************************************************)
(* Starting the application on a data directory that may be damaged, and   *)
(* replacing its archive: StateBootstrap (crates/state/src/bootstrap.rs),  *)
(* RecoveryCoordinator and its journal (state/src/recovery), the file      *)
(* moves of ArchiveRecoveryScope (platform/src/archive_recovery.rs), the   *)
(* run state (state/src/run_state.rs) and the application's restore and    *)
(* rebuild commands (app/src/application.rs).                              *)
(*                                                                         *)
(* The process holds the archive's lease throughout, so that what it reads *)
(* joins the next thing it writes: a step is at most one change of one     *)
(* file, and a crash may fall between any two.  The files move as Windows  *)
(* moves them.  An input/output error that no action names ends the        *)
(* operation where it is, which is what a crash does to the files.         *)
(* Schema migration and the retention of backups are left out.             *)
(***************************************************************************)
EXTENDS Integers, Sequences, RecordPair

CONSTANTS
  MaxQuarantine,  \* MAX_QUARANTINE_SETS
  MaxLaunches,    \* MAX_RECOVERY_LAUNCHES
  MaxSessions,    \* bounds the times the archive is opened
  Scenarios       \* the directory at the start, and what may go wrong: see Init

VARIABLES
  active,    \* the archive: main file, -wal, -shm
  stage,     \* staging: the reservation and the candidate of an operation
  quar,      \* quar[g]: the quarantine directory of operation g
  journal,   \* the recovery journal, a RecordPair
  run,       \* the run state, a RecordPair
  settings,  \* the settings, a RecordPair
  backups,   \* the backup packages, oldest first
  sessions,  \* how often the archive has been opened
  launched,  \* how often in a row bootstrap has launched a restored archive
  p,         \* the process
  left       \* what may still go wrong

disk == <<active, stage, quar, settings, backups, sessions>>
vars == <<disk, journal, run, launched, p, left>>

-----------------------------------------------------------------------------
(* Files.  A main file is what session n left ("live"), what a backup of    *)
(* session n holds ("backup") or what operation n created ("fresh"); ok:    *)
(* it verifies.  A sidecar is known by the session that wrote it, 0 is none. *)

File(of, n) == [of |-> of, n |-> n, ok |-> TRUE]
NoFile == [of |-> "none", n |-> 0, ok |-> FALSE]

NoSet == [main |-> NoFile, wal |-> 0, shm |-> 0]
NoStage == [reserved |-> FALSE, cand |-> NoFile]
NoQuarantine == [main |-> NoFile, wal |-> 0, shm |-> 0, failed |-> NoFile]

\* Which session's sidecars belong beside a main file: none, for one just restored.
SidecarsOf(main) == IF main.of = "live" THEN main.n ELSE 0

HasArchiveArtifact == active # NoSet

J == journal.cur
Pending == HasRecord(journal) /\ J.phase # "Complete"

\* next_operation_generation, where it does not fail.
NextOperation == IF HasRecord(journal) THEN J.gen + 1 ELSE 1

NoLaunch == [gen |-> 0, launches |-> 0]
Unclean(last, rec) == [phase |-> "unclean", last |-> last, rec |-> rec]
Portable(gen, portable) == [gen |-> gen, portable |-> portable]
Clean(accepted) == [phase |-> "clean", last |-> accepted, rec |-> NoLaunch]

\* RunStateStore::load: the condition a launch finds.
Condition ==
  IF ~HasRecord(run) THEN (IF HasArtifact(run) THEN "invalid" ELSE "missing")
  ELSE IF IsFallback(run) THEN "invalid" ELSE run.cur.phase

LastRecovery == IF HasRecord(run) THEN run.cur.last ELSE 0
PriorLaunch == IF HasRecord(run) THEN run.cur.rec ELSE NoLaunch

-----------------------------------------------------------------------------
(* pc: the next step; ret: who asked for the operation ("resume", "auto",   *)
(* "restore" or "rebuild"); mode: "data", "full" or "fresh"; pick: the      *)
(* backup; quick, evidence, prior: what bootstrap saw before it wrote;      *)
(* rec, last: the RunSession;       src: source_reconciliation_required;    *)
(* error: why an operation is being undone.                                 *)

Down ==
  [pc |-> "down", ret |-> "resume", mode |-> "data", pick |-> 0, resumed |-> FALSE,
   quick |-> FALSE, evidence |-> FALSE, prior |-> 0, rec |-> NoLaunch, last |-> 0,
   receipt |-> 0, src |-> FALSE, outcome |-> "healthy", error |-> "none"]

At(pc) == p.pc = pc
Go(pc) == p' = [p EXCEPT !.pc = pc]
Idle(outcome) == p' = [p EXCEPT !.pc = "idle", !.outcome = outcome]
Spend(kind) == left[kind] > 0 /\ left' = [left EXCEPT ![kind] = @ - 1]

Usable(i) == backups[i].ok

Init ==
  /\ left \in Scenarios
  /\ active = left.active
  /\ backups = left.backups
  /\ settings = IF left.installed THEN Saved(Saved(Empty, Portable(1, "mine")), Portable(2, "mine"))
                 ELSE Empty
  /\ run = IF ~left.installed THEN Empty
           ELSE IF active.wal # 0 THEN Saved(Saved(Empty, Clean(0)), Unclean(0, NoLaunch))
           ELSE Saved(Saved(Empty, Unclean(0, NoLaunch)), Clean(0))
  /\ sessions = IF left.installed THEN 1 ELSE 0
  /\ stage = NoStage /\ quar = <<>> /\ journal = Empty
  /\ launched = NoLaunch /\ p = Down

-----------------------------------------------------------------------------
(* How an operation ends that fails: bootstrap turns the error into an      *)
(* outcome, a command leaves the outcome of the start as it was.            *)

\* prepared_from_state_error, and automatic_recover, which tries the next backup
\* after an integrity error and fails there when the journal is pending.
OutcomeOf(error) ==
  IF p.ret \in {"restore", "rebuild"} THEN p.outcome
  ELSE IF error = "unavailable" THEN "unavailable"
  ELSE IF p.ret = "auto" /\ error = "integrity" /\ \A i \in 1 .. p.pick - 1 : ~Usable(i)
  THEN "required" ELSE "safe"

Fail(error) == Idle(OutcomeOf(error))

-----------------------------------------------------------------------------
(* Bootstrap. *)

\* prior_durable_evidence
PriorEvidence ==
  \/ HasArchiveArtifact \/ stage # NoStage \/ quar # <<>>
  \/ HasArtifact(settings) \/ backups # <<>> \/ Condition # "missing"

\* StateBootstrap::prepare up to the unclean marker, RunStateStore::begin.
Begin ==
  /\ At("down")
  /\ run' = Saved(run, Unclean(LastRecovery, PriorLaunch))
  /\ p' = [Down EXCEPT !.pc = "resume", !.rec = PriorLaunch, !.last = LastRecovery,
             !.quick = Condition # "clean", !.prior = PriorLaunch.launches,
             !.evidence = PriorEvidence]
  /\ UNCHANGED <<disk, journal, launched, left>>

PcOf == [Prepared |-> "dir", SidecarsQuarantined |-> "promote", MainReplaced |-> "verify",
         ReopenedVerified |-> "settings", SettingsPublished |-> "finish"]

\* SettingsStore::prepare_restore: the generation that holds backup i's settings.
RestoreTarget(i) ==
  IF ~HasRecord(settings) THEN 1
  ELSE IF settings.cur.portable = backups[i].portable THEN settings.cur.gen
  ELSE settings.cur.gen + 1

\* Mutant: the candidate that was promoted before the journal advanced is missed.
ResumableStaged ==
  /\ J.mode # "fresh" => Usable(J.pick)
  /\ J.mode = "full" => RestoreTarget(J.pick) = J.target
  /\ J.phase \in {"Prepared", "SidecarsQuarantined"} => stage.cand = J.cand

\* What resume asks of the backup, the settings and the candidate of the journal.
Resumable ==
  /\ J.mode # "fresh" => Usable(J.pick)
  /\ J.mode = "full" => RestoreTarget(J.pick) = J.target
  /\ J.phase \in {"Prepared", "SidecarsQuarantined"} =>
       stage.cand = J.cand \/ (stage.cand = NoFile /\ active.main = J.cand)

Continue ==
  IF Resumable THEN p' = [p EXCEPT !.pc = PcOf[J.phase], !.resumed = TRUE]
               ELSE Fail("integrity")

\* RecoveryCoordinator::resume.  A receipt the last clean run accepted is dropped.
Resume ==
  /\ At("resume")
  /\ \/ /\ ~HasRecord(journal) /\ HasArtifact(journal)
        /\ Fail("required")
        /\ UNCHANGED <<stage, journal>>
     \/ /\ ~Pending /\ (HasArtifact(journal) => HasRecord(journal))
        /\ stage' = NoStage
        /\ p' = [p EXCEPT !.pc = "inspect",
                   !.receipt = IF HasRecord(journal) /\ J.gen # p.last THEN J.gen ELSE 0]
        /\ UNCHANGED journal
     \/ /\ Pending /\ J.phase = "Prepared"
        /\ journal' = Saved(journal, J)
        /\ Go("again")
        /\ UNCHANGED stage
     \/ /\ Pending /\ J.phase # "Prepared"
        /\ Continue
        /\ UNCHANGED <<stage, journal>>
  /\ UNCHANGED <<active, quar, settings, backups, sessions, run, launched, left>>

\* RecoveryJournalStore::begin writes both slots.
ResumePrepared ==
  /\ At("again")
  /\ journal' = Saved(journal, J)
  /\ Continue
  /\ UNCHANGED <<disk, run, launched, left>>

UsableBackups == {i \in DOMAIN backups : Usable(i)}

\* automatic_recover: the newest backup that verifies.
Recover ==
  IF UsableBackups = {} THEN Idle("required")
  ELSE p' = [p EXCEPT !.pc = "reserve", !.ret = "auto", !.mode = "data",
                      !.pick = CHOOSE i \in UsableBackups : \A k \in UsableBackups : k =< i]

\* A completed reconstruction that no launch has been accepted for.
SourceReconciliation == HasRecord(journal) /\ J.phase = "Complete" /\ J.mode = "fresh"

\* inspect_startup_archive and what prepare makes of it.  After a clean run a
\* damaged page may go unseen.
Inspect ==
  /\ At("inspect")
  /\ \/ /\ active.main = NoFile /\ ~p.evidence /\ p.receipt = 0
        /\ Go("open")
     \/ /\ active.main = NoFile /\ p.evidence /\ p.receipt = 0
        /\ Recover
     \/ /\ active.main # NoFile /\ ~active.main.ok /\ p.receipt = 0
        /\ Recover
     \/ /\ ~active.main.ok /\ p.receipt # 0
        /\ Idle("required")
     \/ /\ active.main # NoFile /\ (active.main.ok \/ ~p.quick)
        /\ IF p.receipt # 0 THEN Go("bind")
           ELSE IF p.prior > 0
           THEN p' = [p EXCEPT !.pc = "idle", !.outcome = "safe", !.src = SourceReconciliation]
           ELSE Go("open")
  /\ UNCHANGED <<disk, journal, run, launched, left>>

-----------------------------------------------------------------------------
(* An operation up to its journal: restore_selected_authorized and           *)
(* reconstruct_definitively_corrupt_with_observer.                           *)

Reserve ==
  /\ At("reserve")
  /\ IF Len(quar) >= MaxQuarantine
       THEN stage' = NoStage /\ Fail("capacity")
       ELSE stage' = [NoStage EXCEPT !.reserved = TRUE] /\ Go("stage")
  /\ UNCHANGED <<active, quar, settings, backups, sessions, journal, run, launched, left>>

Candidate == IF p.mode = "fresh" THEN File("fresh", NextOperation) ELSE backups[p.pick].file

StageCandidate ==
  /\ At("stage")
  /\ stage' = [stage EXCEPT !.cand = Candidate]
  /\ Go("prepare")
  /\ UNCHANGED <<active, quar, settings, backups, sessions, journal, run, launched, left>>

\* require_definitive_corruption, for an operation the owner did not select.
MayReplace == p.ret = "restore" \/ ~active.main.ok

Prepare ==
  /\ At("prepare")
  /\ IF MayReplace
       THEN /\ journal' = Saved(journal,
                 [gen |-> NextOperation, phase |-> "Prepared", mode |-> p.mode, pick |-> p.pick,
                  cand |-> stage.cand, before |-> active,
                  target |-> IF p.mode = "full" THEN RestoreTarget(p.pick) ELSE 0])
            /\ Go("prepared")
       ELSE Fail("input") /\ UNCHANGED journal
  /\ UNCHANGED <<disk, run, launched, left>>

PrepareAgain ==
  /\ At("prepared")
  /\ journal' = Saved(journal, J)
  /\ p' = [p EXCEPT !.pc = "dir", !.resumed = FALSE]
  /\ UNCHANGED <<disk, run, launched, left>>

-----------------------------------------------------------------------------
(* continue_restore: each phase does its work, then advances the journal.    *)

Advance(phase) == journal' = Saved(journal, [J EXCEPT !.phase = phase])

Q == quar[J.gen]
Before == J.before

\* ensure_operation_directory
MakeDirectory ==
  /\ At("dir")
  /\ IF Len(quar) >= J.gen
       THEN (IF p.resumed THEN Go("reservation") ELSE Fail("integrity")) /\ UNCHANGED quar
       ELSE IF Len(quar) >= MaxQuarantine THEN Fail("capacity") /\ UNCHANGED quar
       ELSE quar' = Append(quar, NoQuarantine) /\ Go("reservation")
  /\ UNCHANGED <<active, stage, settings, backups, sessions, journal, run, launched, left>>

RemoveReservation ==
  /\ At("reservation")
  /\ IF stage.reserved \/ p.resumed
       THEN stage' = [stage EXCEPT !.reserved = FALSE] /\ Go("wal")
       ELSE Fail("integrity") /\ UNCHANGED stage
  /\ UNCHANGED <<active, quar, settings, backups, sessions, journal, run, launched, left>>

\* require_movable_layout, and the conditions of move_expected.
Movable(source, target, expected) ==
  IF expected = 0 THEN source = 0 /\ target = 0
  ELSE {source, target} = {0, expected}

\* quarantine_sidecars looks at all three files before it moves the first.
MoveWal ==
  /\ At("wal")
  /\ IF /\ active.main = Before.main
        /\ Movable(active.wal, Q.wal, Before.wal) /\ Movable(active.shm, Q.shm, Before.shm)
       THEN /\ active' = [active EXCEPT !.wal = 0]
            /\ quar' = [quar EXCEPT ![J.gen].wal = Before.wal]
            /\ Go("shm")
       ELSE Fail("integrity") /\ UNCHANGED <<active, quar>>
  /\ UNCHANGED <<stage, settings, backups, sessions, journal, run, launched, left>>

MoveShm ==
  /\ At("shm")
  /\ active' = [active EXCEPT !.shm = 0]
  /\ quar' = [quar EXCEPT ![J.gen].shm = Before.shm]
  /\ Go("moved")
  /\ UNCHANGED <<stage, settings, backups, sessions, journal, run, launched, left>>

SidecarsMoved ==
  /\ At("moved")
  /\ Advance("SidecarsQuarantined")
  /\ Go("promote")
  /\ UNCHANGED <<disk, run, launched, left>>

\* require_quarantined_sidecars
SidecarsQuarantined ==
  /\ active.wal = 0 /\ active.shm = 0
  /\ Q.wal = Before.wal /\ Q.shm = Before.shm

\* The two states replace_existing_main and promote_missing_main accept.
Promoted ==
  /\ active.main = J.cand /\ stage.cand = NoFile
  /\ Before.main # NoFile => Q.main = Before.main
Promotable ==
  /\ active.main = Before.main /\ stage.cand = J.cand /\ Q.main = NoFile

\* Mutant: the file that is replaced gets no backup name.
PromoteOver ==
  /\ At("promote")
  /\ IF SidecarsQuarantined /\ Promotable
       THEN /\ active' = [active EXCEPT !.main = J.cand]
            /\ stage' = [stage EXCEPT !.cand = NoFile]
            /\ Go("promoted")
            /\ UNCHANGED quar
       ELSE /\ IF SidecarsQuarantined /\ Promoted THEN Go("promoted") ELSE Fail("integrity")
            /\ UNCHANGED <<active, quar, stage>>
  /\ UNCHANGED <<settings, backups, sessions, journal, run, launched, left>>

PromoteMain ==
  /\ At("promote")
  /\ IF SidecarsQuarantined /\ Promotable
       THEN /\ active' = [active EXCEPT !.main = J.cand]
            /\ quar' = [quar EXCEPT ![J.gen].main = Before.main]
            /\ stage' = [stage EXCEPT !.cand = NoFile]
            /\ Go("promoted")
       ELSE /\ IF SidecarsQuarantined /\ Promoted THEN Go("promoted") ELSE Fail("integrity")
            /\ UNCHANGED <<active, quar, stage>>
  /\ UNCHANGED <<settings, backups, sessions, journal, run, launched, left>>

\* The replacement fails and nothing has moved, so that the sidecars are put back
\* (classify_unavailable_promotion), or the old main file has moved and cannot be
\* put back (restore_displaced_target).
PromoteFails ==
  /\ At("promote") /\ SidecarsQuarantined /\ Promotable
  /\ \/ /\ Spend("replace")
        /\ p' = [p EXCEPT !.pc = "undowal", !.error = "unavailable"]
        /\ UNCHANGED <<active, quar>>
     \/ /\ Spend("torn") /\ Before.main # NoFile
        /\ active' = [active EXCEPT !.main = NoFile]
        /\ quar' = [quar EXCEPT ![J.gen].main = Before.main]
        /\ Fail("required")
  /\ UNCHANGED <<stage, settings, backups, sessions, journal, run, launched>>

MainPromoted ==
  /\ At("promoted")
  /\ Advance("MainReplaced")
  /\ Go("verify")
  /\ UNCHANGED <<disk, run, launched, left>>

Rollback(error) == p' = [p EXCEPT !.pc = "undo", !.error = error]

Verify ==
  /\ At("verify")
  /\ IF active.main = J.cand
       THEN Advance("ReopenedVerified") /\ Go("settings")
       ELSE Rollback("integrity") /\ UNCHANGED journal
  /\ UNCHANGED <<disk, run, launched, left>>

\* The verification itself fails, or the settings cannot be saved.
WorkFails ==
  /\ At("verify") \/ At("settings")
  /\ Spend("verify")
  /\ Rollback("unavailable")
  /\ UNCHANGED <<disk, journal, run, launched>>

\* SettingsStore::verify_target
TargetPublished ==
  HasRecord(settings) /\ settings.cur = Portable(J.target, backups[J.pick].portable)

PublishSettings ==
  /\ At("settings")
  /\ IF active.main # J.cand
       THEN Rollback("integrity") /\ UNCHANGED <<journal, settings>>
       ELSE IF J.mode = "full" /\ ~TargetPublished
       THEN /\ settings' = Saved(settings, Portable(J.target, backups[J.pick].portable))
            /\ Go("published")
            /\ UNCHANGED journal
       ELSE Advance("SettingsPublished") /\ Go("finish") /\ UNCHANGED settings
  /\ UNCHANGED <<active, stage, quar, backups, sessions, run, launched, left>>

SettingsCommitted ==
  /\ At("published")
  /\ Advance("SettingsPublished")
  /\ Go("finish")
  /\ UNCHANGED <<disk, run, launched, left>>

\* The last look at the archive does not roll back, the one at the settings does.
Finish ==
  /\ At("finish")
  /\ IF active.main # J.cand THEN Fail("integrity") /\ UNCHANGED journal
     ELSE IF J.mode = "full" /\ ~TargetPublished THEN Rollback("required") /\ UNCHANGED journal
     ELSE /\ Advance("Complete")
          /\ p' = [p EXCEPT !.receipt = IF p.ret = "resume" /\ J.gen = p.last THEN 0 ELSE J.gen,
                     !.pc = IF p.ret \in {"restore", "rebuild"} THEN "bind" ELSE "inspect"]
  /\ UNCHANGED <<disk, run, launched, left>>

\* rollback: the main file, then the sidecars, each accepted where it belongs.
RollbackMain ==
  /\ At("undo")
  /\ IF Q.main = Before.main /\ Q.failed = NoFile /\ active.main # NoFile
       THEN /\ active' = [active EXCEPT !.main = Before.main]
            /\ quar' = [quar EXCEPT ![J.gen] = [@ EXCEPT !.main = NoFile, !.failed = active.main]]
            /\ Go("undowal")
       ELSE /\ IF active.main = Before.main /\ Q.main = NoFile /\ Q.failed # NoFile
                 THEN Go("undowal") ELSE Fail("integrity")
            /\ UNCHANGED <<active, quar>>
  /\ UNCHANGED <<stage, settings, backups, sessions, journal, run, launched, left>>

RestoreWal ==
  /\ At("undowal")
  /\ IF Movable(Q.wal, active.wal, Before.wal)
       THEN /\ active' = [active EXCEPT !.wal = Before.wal]
            /\ quar' = [quar EXCEPT ![J.gen].wal = 0]
            /\ Go("undoshm")
       ELSE Fail("integrity") /\ UNCHANGED <<active, quar>>
  /\ UNCHANGED <<stage, settings, backups, sessions, journal, run, launched, left>>

RestoreShm ==
  /\ At("undoshm")
  /\ IF Movable(Q.shm, active.shm, Before.shm)
       THEN /\ active' = [active EXCEPT !.shm = Before.shm]
            /\ quar' = [quar EXCEPT ![J.gen].shm = 0]
            /\ Fail(p.error)
       ELSE Fail("integrity") /\ UNCHANGED <<active, quar>>
  /\ UNCHANGED <<stage, settings, backups, sessions, journal, run, launched, left>>

-----------------------------------------------------------------------------
(* The run state and the running application. *)

\* start_recovered_candidate: how many launches of this operation the record counts.
Completed == IF p.rec.gen = p.receipt THEN p.rec.launches ELSE 0

OutOfOrder == p.receipt < p.rec.gen \/ p.receipt < p.last

\* start_recovered_candidate and start_candidate, for bootstrap and for the commands.
Bind ==
  /\ At("bind")
  /\ IF OutOfOrder
       THEN (IF p.ret \in {"restore", "rebuild"} THEN Fail("integrity") ELSE p' = Down)
            /\ UNCHANGED <<run, launched>>
     ELSE IF p.rec.gen # p.receipt /\ p.receipt = p.last
       THEN p' = [p EXCEPT !.pc = "open", !.src = SourceReconciliation] /\ UNCHANGED <<run, launched>>
     ELSE IF Completed >= MaxLaunches
       THEN /\ IF p.ret \in {"restore", "rebuild"} THEN Fail("safe")
               ELSE p' = [p EXCEPT !.pc = "idle", !.outcome = "safe", !.src = SourceReconciliation]
            /\ UNCHANGED <<run, launched>>
     ELSE LET rec == [gen |-> p.receipt, launches |-> Completed + 1] IN
          /\ run' = Saved(run, Unclean(p.last, rec))
          /\ launched' = [gen |-> p.receipt,
               launches |-> IF launched.gen = p.receipt THEN launched.launches + 1 ELSE 1]
          /\ p' = [p EXCEPT !.pc = "open", !.rec = rec, !.src = SourceReconciliation,
               !.outcome = IF SourceReconciliation /\ p.ret \notin {"restore", "rebuild"}
                           THEN "required" ELSE p.outcome]
  /\ UNCHANGED <<disk, journal, left>>

\* SQLite on the archive: a main file it changes, with sidecars of its own.
Opened(n) ==
  [main |-> [of |-> "live", n |-> n, ok |-> active.main = NoFile \/ active.main.ok],
   wal |-> n, shm |-> n]
Closed(set) == [set EXCEPT !.wal = 0, !.shm = 0]

\* prepare_live_bundle, finish_live_bundle, start_restored_bundle, start_reconstructed_bundle
Open ==
  /\ At("open") /\ sessions < MaxSessions
  /\ active' = Opened(sessions + 1)
  /\ sessions' = sessions + 1
  /\ p' = [p EXCEPT !.pc = "live", !.src = FALSE, !.outcome = "healthy"]
  /\ UNCHANGED <<stage, quar, settings, backups, journal, run, launched, left>>

\* The owners cannot start, before or after they opened the archive.
OpenFails ==
  /\ At("open") /\ sessions < MaxSessions
  /\ Spend("start")
  /\ \/ UNCHANGED <<active, sessions>>
     \/ active' = Closed(Opened(sessions + 1)) /\ sessions' = sessions + 1
  /\ Go("idle")
  /\ UNCHANGED <<stage, quar, settings, backups, journal, run, launched>>

\* Application::shutdown joins every owner, then publishes the clean record.
Shutdown ==
  /\ At("live")
  /\ active' = Closed(active)
  /\ Go("joined")
  /\ UNCHANGED <<stage, quar, settings, backups, sessions, journal, run, launched, left>>

MarkClean ==
  /\ At("joined")
  /\ run' = Saved(run, Clean(IF p.rec # NoLaunch THEN p.rec.gen ELSE p.last))
  /\ launched' = NoLaunch
  /\ p' = Down
  /\ UNCHANGED <<disk, journal, left>>

\* try_restore_operation: the owners stop, a backup is taken, the operation begins.
RestoreSelected(i, mode) ==
  /\ At("live") /\ Usable(i)
  /\ Spend("restore")
  /\ active' = Closed(active)
  /\ p' = [p EXCEPT !.pc = "backup", !.ret = "restore", !.mode = mode, !.pick = i]
  /\ UNCHANGED <<stage, quar, settings, backups, sessions, journal, run, launched>>

PreRestoreBackup ==
  /\ At("backup") /\ active.main.ok
  /\ backups' = Append(backups, [file |-> File("backup", sessions), ok |-> TRUE,
                                 portable |-> settings.cur.portable])
  /\ Go("reserve")
  /\ UNCHANGED <<active, stage, quar, settings, sessions, journal, run, launched, left>>

\* restart_current_after_pre_mutation_exit: no backup, or the command is cancelled.
AbandonRestore ==
  /\ At("backup") \/ (At("reserve") /\ p.ret = "restore")
  /\ Go("open")
  /\ UNCHANGED <<disk, journal, run, launched, left>>

\* try_rebuild_operation, where it is not refused before it writes.
Rebuild ==
  /\ At("idle") /\ p.outcome \in {"required", "safe"}
  /\ \/ p.src /\ p' = [p EXCEPT !.pc = "open", !.ret = "rebuild"]
     \/ /\ ~p.src /\ UsableBackups = {} /\ ~Pending /\ (HasArtifact(journal) => HasRecord(journal))
        /\ HasArchiveArtifact \/ backups # <<>>
        /\ p' = [p EXCEPT !.pc = "reserve", !.ret = "rebuild", !.mode = "fresh", !.pick = 0]
  /\ UNCHANGED <<disk, journal, run, launched, left>>

Quit ==
  /\ At("idle")
  /\ p' = Down
  /\ UNCHANGED <<disk, journal, run, launched, left>>

-----------------------------------------------------------------------------
(* The world. *)

Crash ==
  /\ ~At("down")
  /\ Spend("crash")
  /\ p' = Down
  /\ UNCHANGED <<disk, journal, run, launched>>

\* Between two runs the main file is damaged or removed; not one that a pending
\* operation is to preserve.
HarmMain ==
  /\ At("down") /\ active.main # NoFile
  /\ Pending => active.main # J.before.main
  /\ \/ Spend("damage") /\ active' = [active EXCEPT !.main.ok = FALSE]
     \/ Spend("lose") /\ ~Pending /\ active' = [active EXCEPT !.main = NoFile]
  /\ UNCHANGED <<stage, quar, settings, backups, sessions, journal, run, launched, p>>

\* What AtomicRecord!Lose allows.
Losses(r) ==
  {LostCurrent(x) : x \in {y \in {r} : HasRecord(y)}}
    \cup {LostPrevious(x) : x \in {y \in {r} : HasRecord(y) /\ y.prev # Missing}}

LoseRecord ==
  /\ At("down")
  /\ Spend("record")
  /\ \/ journal' \in Losses(journal) /\ UNCHANGED <<run, settings>>
     \/ run' \in Losses(run) /\ UNCHANGED <<journal, settings>>
     \/ settings' \in Losses(settings) /\ UNCHANGED <<journal, run>>
  /\ UNCHANGED <<active, stage, quar, backups, sessions, launched, p>>

-----------------------------------------------------------------------------
Start ==
  \/ Begin \/ Resume \/ ResumePrepared \/ Inspect \/ Bind

Operate ==
  \/ Reserve \/ StageCandidate \/ Prepare \/ PrepareAgain
  \/ MakeDirectory \/ RemoveReservation \/ MoveWal \/ MoveShm \/ SidecarsMoved
  \/ PromoteMain \/ MainPromoted \/ Verify \/ PublishSettings \/ SettingsCommitted
  \/ Finish \/ RollbackMain \/ RestoreWal \/ RestoreShm

Use ==
  \/ Open \/ Shutdown \/ MarkClean \/ PreRestoreBackup \/ AbandonRestore \/ Rebuild \/ Quit
  \/ \E i \in DOMAIN backups, mode \in {"data", "full"} : RestoreSelected(i, mode)

World ==
  PromoteFails \/ WorkFails \/ OpenFails \/ Crash \/ HarmMain \/ LoseRecord

Next == Start \/ Operate \/ Use \/ World

Spec == Init /\ [][Next]_vars

\* The application's own steps are taken; an application that shows a failed start
\* is quit and started again.
FairSpec == Spec /\ WF_vars(Start \/ Operate) /\ WF_vars(Quit)

-----------------------------------------------------------------------------
(***************************************************************************)
(* Nothing that was in the archive when an operation was journalled is     *)
(* lost: until the operation is superseded each of the three files is in   *)
(* place or in the operation's quarantine, wherever a crash or a failed    *)
(* replacement interrupts the moves (archive_recovery.rs:335-580).         *)
(***************************************************************************)
PriorPreserved ==
  HasRecord(journal) =>
    \A f \in {"main", "wal", "shm"} :
      \/ Before[f] = NoSet[f]
      \/ active[f] = Before[f]
      \/ J.gen =< Len(quar) /\ Q[f] = Before[f]

(***************************************************************************)
(* SQLite never finds the log of another database beside the main file:    *)
(* sidecars leave before a restored file comes and return after it is gone *)
(* (archive_recovery.rs:372-507, restore.rs:608-763).                      *)
(***************************************************************************)
SidecarsMatch ==
  active.main # NoFile =>
    active.wal \in {0, SidecarsOf(active.main)} /\ active.shm \in {0, SidecarsOf(active.main)}

(***************************************************************************)
(* The same restored archive is launched at most twice without a clean     *)
(* shutdown; each lost slot of the run state forgets one launch at most    *)
(* (run_state.rs:268-292, 410-508).                                        *)
(***************************************************************************)
LaunchesBounded ==
  launched.launches =< MaxLaunches + (left.records - left.record)

(***************************************************************************)
(* SQLite is let at the archive only when no operation is pending, an      *)
(* interrupted restore being resumed first, and creates an empty one only  *)
(* where there never was any: an installation that lost its archive is not *)
(* taken for a first install (bootstrap.rs:125-254).                       *)
(***************************************************************************)
OpensSettled ==
  At("open") => ~Pending /\ (active.main = NoFile => sessions = 0)

(***************************************************************************)
(* A journalled operation ends: whatever interrupts it, starting the       *)
(* application again resumes it to Complete (restore.rs:489-763).          *)
(***************************************************************************)
RestoreResolves ==
  (left.resolves /\ Pending) ~> ~Pending

\* Through crashes between any two file operations: the files a restore set aside stay
\* whole until the operation is superseded, the log and the index beside an archive that is
\* opened are its own, a restored archive that dies is launched only so often, and an
\* archive is opened only when no operation is under way.
RecoveryIsSafe == PriorPreserved /\ SidecarsMatch /\ LaunchesBounded /\ OpensSettled
=============================================================================
