--------------------------- MODULE ArchiveRefresh ---------------------------
(***************************************************************************)
(* The refreshes of the live runtime over the usage archive: the startup   *)
(* recovery (runtime/src/recovery.rs), the reconciliation and the targeted *)
(* refresh (runtime/src/incremental.rs), the full rebuild                  *)
(* (engine/src/executor.rs over runtime/src/store_archive.rs) and the      *)
(* choice between them (runtime/src/live.rs).                              *)
(*                                                                         *)
(* disk is the provider's directory, which changes under the process; db   *)
(* is the archive, which survives a crash; job is what the process holds   *)
(* in memory; shown is the snapshot published to the readers.  One step is *)
(* at most one transaction of the store, so that a crash, a cancellation   *)
(* or a change of a file can fall between any two of them.                 *)
(***************************************************************************)
EXTENDS UsageArchive

CONSTANTS MaxLength,      \* lines in a file
          MaxIncarnation, \* incarnations of a file
          BatchLines,     \* lines the reader returns at once
          PresenceBatch,  \* MAX_PENDING_PRESENCE
          MaxPend,        \* MAX_APPEND_EVENTS: batches a tail pass holds for one commit
          MaxHeld,        \* MAX_PENDING_CURRENT_SOURCES: the same for a rebuild
          Scenarios       \* what the world and the clock may do: see Init

VARIABLES disk, hints, db, job, shown, left

vars == <<disk, hints, db, job, shown, left>>

None == 0      \* no file: job.at

\* inc counts the incarnations of a file that have existed; there: it exists now.
Absent == [inc |-> 0, len |-> 0, torn |-> FALSE, there |-> FALSE]
NewFile(inc, len) == [inc |-> inc, len |-> len, torn |-> FALSE, there |-> TRUE]

\* Process memory at rest.  primed: a discovery has been made since startup, so
\* that changed paths can be resolved.
Resting(primed) ==
    [pc |-> "idle", full |-> FALSE, targeted |-> FALSE, partial |-> FALSE, replay |-> FALSE,
     primed |-> primed, scan |-> 0, todo |-> {}, found |-> {}, queued |-> {}, good |-> TRUE,
     then |-> "end", at |-> None, pos |-> Blank, pend |-> <<>>, fresh |-> TRUE]

Down == [Resting(FALSE) EXCEPT !.pc = "down"]

View(d) == [quality |-> d.quality, visible |-> d.visible]
NothingShown == View(EmptyArchive)

Present == { f \in Files : disk[f].there }

\* A scenario: the files that exist when the process first starts, and how many
\* times the world may grow, replace, remove or tear a file, and crash or cancel
\* the process.
Init ==
    /\ left \in Scenarios
    /\ disk = [f \in Files |-> IF f \in left.initial THEN NewFile(1, 1) ELSE Absent]
    /\ hints = {}
    /\ db = EmptyArchive
    /\ job = Down
    /\ shown = NothingShown

-----------------------------------------------------------------------------
(* The world.  A change is hinted to the process, or the hint is lost. *)

Spend(kind) == left[kind] > 0 /\ left' = [left EXCEPT ![kind] = @ - 1]

Changed(f, file) ==
    /\ disk' = [disk EXCEPT ![f] = file]
    /\ hints' \in {hints, hints \cup {f}}
    /\ UNCHANGED <<db, job, shown>>

GrowFile(f) ==
    /\ disk[f].there /\ disk[f].len < MaxLength
    /\ Spend("grow")
    /\ Changed(f, [disk[f] EXCEPT !.len = @ + 1, !.torn = FALSE])

\* A writer is in the middle of a line; GrowFile completes it.
TearFile(f) ==
    /\ disk[f].there /\ ~disk[f].torn /\ disk[f].len < MaxLength
    /\ Spend("tear")
    /\ Changed(f, [disk[f] EXCEPT !.torn = TRUE])

\* A new file, or another one in the place of a file: truncated, rewritten or new.
ReplaceFile(f) ==
    /\ disk[f].inc < MaxIncarnation
    /\ Spend("replace")
    /\ \E n \in 1..MaxLength : Changed(f, NewFile(disk[f].inc + 1, n))

RemoveFile(f) ==
    /\ disk[f].there
    /\ Spend("remove")
    /\ Changed(f, [disk[f] EXCEPT !.there = FALSE])

\* The same file is back: a directory moved away and back, a drive mounted again.
RestoreFile(f) ==
    /\ ~disk[f].there /\ disk[f].inc # 0
    /\ Spend("restore")
    /\ Changed(f, [disk[f] EXCEPT !.there = TRUE])

-----------------------------------------------------------------------------
(* Steps of the process *)

Same == UNCHANGED <<disk, hints, left>>
To(pc) == [job EXCEPT !.pc = pc]
Goto(j) == job' = j /\ UNCHANGED <<db, shown>> /\ Same
Commit(d, j) == db' = d /\ job' = j /\ UNCHANGED shown /\ Same

\* The end of a refresh, in success or in failure: the runtime publishes a new
\* snapshot when the archive has a newer generation than the one it shows.
End(d) ==
    /\ db' = [d EXCEPT !.news = FALSE]
    /\ shown' = IF d.news THEN View(d) ELSE shown
    /\ job' = Resting(job.primed)
    /\ Same

\* A rebuild publishes its progress in the same way while it runs.
Progress(d, j) ==
    /\ db' = [d EXCEPT !.news = FALSE]
    /\ shown' = IF d.news THEN View(d) ELSE shown
    /\ job' = j
    /\ Same

-----------------------------------------------------------------------------
(* Startup recovery *)

Start == job.pc \in {"down", "refused"} /\ Goto(To("orphan"))

\* A scan left running by a crash is closed as failed, then its set.
CloseOrphanScan ==
    /\ job.pc = "orphan"
    /\ \/ db.scan.child = "running" /\ Commit(FinishScan(db, FALSE), job)
       \/ db.scan.child \in {"complete", "failed"} /\ Commit(FinishScanSet(db), job)
       \/ ScanIdle(db) /\ Goto(To("restage"))

Refuse == Goto(To("refused"))

\* A staged revision found at startup.  Beside a current revision it is kept for
\* the next scan to judge; otherwise what it holds is published, or finished.  (A
\* staged revision of another build is discarded; the build does not change here.)
RecoverStaging ==
    /\ job.pc = "restage"
    /\ \/ (~db.stg.live \/ db.cur.live) /\ End(db)
       \/ /\ db.stg.live /\ ~db.cur.live
          /\ \/ CanPublishPartial(db) /\ Selected(db.stg) # {} /\ End(PublishPartial(db))
             \/ CanPublishPartial(db) /\ Selected(db.stg) = {} /\ Goto(To("recontinue"))
             \/ ~CanPublishPartial(db) /\ Refuse

ResumeStaging ==
    /\ job.pc = "recontinue"
    /\ \/ db.stg.parked # {} /\ StagingClosed(db) /\ Commit(ContinueStaging(db), job)
       \/ db.stg.parked # {} /\ ~StagingClosed(db) /\ End(Discard(db))
       \/ db.stg.parked = {} /\ CanSeal(db) /\ Commit(Seal(db), To("repromote"))
       \/ db.stg.parked = {} /\ ~CanSeal(db) /\ End(Discard(db))

PromoteRecovered ==
    /\ job.pc = "repromote"
    /\ End(IF CanPromote(db) THEN Promote(db) ELSE Discard(db))

-----------------------------------------------------------------------------
(* What a refresh does: reconcile, look at the changed paths, or rebuild *)

Reconciled(d) ==
    [Resting(TRUE) EXCEPT !.pc = IF d.quality = "partial" THEN "settle" ELSE "scan",
                          !.full = d.quality \notin {"complete", "partial"},
                          !.partial = (d.quality = "partial"),
                          !.then = IF d.quality = "partial" THEN "tail" ELSE "end"]

\* A reconciliation can always be asked for; it discards the changed paths.
Reconcile ==
    /\ job.pc = "idle"
    /\ hints' = {}
    /\ job' = Reconciled(db)
    /\ UNCHANGED <<disk, db, shown, left>>

Targeted ==
    /\ job.pc = "idle" /\ hints # {} /\ job.primed
    /\ db.quality = "complete"
    /\ hints' = {}
    /\ job' = [Resting(TRUE) EXCEPT !.pc = "preflight", !.targeted = TRUE, !.todo = hints,
                                    !.found = hints]
    /\ UNCHANGED <<disk, db, shown, left>>

-----------------------------------------------------------------------------
(* The scan of a reconciliation or of a rebuild *)

BeginScan ==
    /\ job.pc = "scan"
    /\ IF ScanIdle(db)
       THEN LET id == FreshScan(db)
            IN Commit(BeginScanSet(db, id),
                      [To("visit") EXCEPT !.scan = id, !.todo = Present, !.found = {},
                                          !.queued = {}, !.good = TRUE])
       ELSE End(db)

\* Presence is queued and written when the queue is full.
Presence(d, f) ==
    LET queued == job.queued \cup {f}
        full   == Cardinality(queued) >= PresenceBatch
    IN /\ db' = IF full THEN ObserveScanSources(d, job.scan, queued) ELSE d
       /\ job' = [job EXCEPT !.todo = @ \ {f}, !.queued = IF full THEN {} ELSE queued,
                             !.found = IF d.src[f].row = "provisional" THEN @ \cup {f} ELSE @]
       /\ UNCHANGED shown
       /\ Same

\* A file that has gone when its turn comes leaves the scan incomplete.
VisitSource ==
    /\ job.pc = "visit" /\ job.todo # {}
    /\ LET f    == Min(job.todo)
           file == disk[f]
       IN \/ ~file.there /\ Goto([job EXCEPT !.todo = @ \ {f}, !.good = FALSE])
          \/ file.there /\ db.src[f].row = "registered" /\ Presence(db, f)
          \/ /\ file.there /\ db.src[f].row # "registered" /\ job.full
             /\ Presence(RegisterRebuildSource(db, f, file.inc), f)
          \/ /\ file.there /\ db.src[f].row # "registered" /\ ~job.full
             /\ IF DiscoveryConflicts(db, f, file.inc, file.len)
                THEN Goto([job EXCEPT !.todo = {}, !.good = FALSE, !.then = "mark"])
                ELSE Presence(RegisterScanDiscovered(db, f, file.inc, file.len), f)

FinishScope ==
    /\ job.pc = "visit" /\ job.todo = {}
    /\ Commit(FinishScan(ObserveScanSources(db, job.scan, job.queued), job.good),
              [To("close") EXCEPT !.queued = {}])

CloseScanSet ==
    /\ job.pc = "close"
    /\ LET d == FinishScanSet(db)
       IN \/ job.good /\ Commit(d, To(IF job.full THEN "stage" ELSE "publish"))
          \/ ~job.good /\ job.then = "mark" /\ Commit(d, To("mark"))
          \/ ~job.good /\ job.then # "mark" /\ End(d)

\* The revision takes over the scan and the sources it found.
PublishCurrentScan ==
    /\ job.pc = "publish"
    /\ IF CanPublishScan(db, job.scan, job.found)
       THEN Commit(PublishScan(db, job.scan, job.found),
                   [To("preflight") EXCEPT !.todo = Present])
       ELSE End(db)

\* The refresh that asks for a rebuild goes on to make it.
MarkRebuild ==
    /\ job.pc = "mark"
    /\ Commit(MarkRebuildRequired(db), [Resting(TRUE) EXCEPT !.pc = "scan", !.full = TRUE])

-----------------------------------------------------------------------------
(* The tail passes: every checkpoint is validated, then the tails are read *)

\* What the stored checkpoint of a file that is there means for the reader.
Verdict(f) ==
    CASE db.src[f].row # "registered"       -> "stale"
      [] db.src[f].at.inc = 0               -> "invalid"
      [] db.src[f].at.inc # disk[f].inc     -> "rebuild"
      [] OTHER                              -> "ok"

\* How an error ends the passes.  A targeted refresh falls back on a reconciliation
\* when the archive does not know the path; a partial publication gives way to a
\* rebuild on any inconsistency.  The request for a rebuild carries the cursor the
\* passes began with, and is refused when they have committed since.
TailFailed(d, verdict) ==
    CASE job.targeted /\ verdict = "stale" ->
            db' = d /\ job' = Reconciled(d) /\ UNCHANGED shown /\ Same
      [] /\ verdict \in IF job.partial THEN {"rebuild", "invalid", "stale"} ELSE {"rebuild"}
         /\ job.fresh \/ job.targeted -> Commit(d, To("mark"))
      [] OTHER -> End(d)

Skip(f) == [job EXCEPT !.todo = @ \ {f}, !.good = FALSE]

Preflight ==
    /\ job.pc = "preflight" /\ job.todo # {}
    /\ LET f == Min(job.todo)
       IN \/ ~disk[f].there /\ ~job.targeted /\ Goto(Skip(f))
          \/ ~disk[f].there /\ job.targeted /\ TailFailed(db, "stale")
          \/ disk[f].there /\ Verdict(f) = "ok" /\ Goto([job EXCEPT !.todo = @ \ {f}])
          \/ disk[f].there /\ Verdict(f) # "ok" /\ TailFailed(db, Verdict(f))

BeginApply ==
    /\ job.pc = "preflight" /\ job.todo = {}
    /\ IF job.good
       THEN Goto([To("apply") EXCEPT !.todo = IF job.targeted THEN job.found ELSE Present])
       ELSE End(db)

\* The next batch of a file: up to the end of the file, or BatchLines of it.
Batch(f, at) ==
    LET to == Min({at.off + BatchLines, disk[f].len})
    IN [f |-> f, inc |-> disk[f].inc, from |-> at.off, to |-> to,
        last |-> to = disk[f].len, ok |-> TRUE]

\* A batch that runs into an incomplete line is an error of the reader.
Blocked(f, batch) == batch.last /\ disk[f].torn

Settling(d, then, j) ==
    IF d.cur.parked # {} THEN [j EXCEPT !.pc = "settle", !.then = then] ELSE j

\* The commit of the held batches, all prepared with the same cursor.
FlushPending(after) ==
    IF (\A b \in Range(job.pend) : b.ok) /\ CanAppendCurrent(db, job.pend)
    THEN LET d == AppendCurrent(db, job.pend)
         IN Commit(d, Settling(d, "apply", [after EXCEPT !.fresh = FALSE]))
    ELSE IF job.targeted /\ job.todo = {} THEN End(db)
         ELSE TailFailed(db, IF \E b, c \in Range(job.pend) : b.ok # c.ok
                             THEN "invalid" ELSE "stale")

\* A batch that overflows the held ones flushes them; it was prepared before that,
\* and so carries a cursor the flush has made stale.
QueueFinalBatch(batch) ==
    LET done == [job EXCEPT !.todo = @ \ {batch.f}, !.at = None]
    IN IF Len(job.pend) < MaxPend
       THEN Goto([done EXCEPT !.pend = Append(@, batch)])
       ELSE FlushPending([done EXCEPT !.pend = <<[batch EXCEPT !.ok = FALSE]>>])

AppendNow(batch) ==
    IF CanAppendCurrent(db, <<batch>>)
    THEN LET d == AppendCurrent(db, <<batch>>)
         IN Commit(d, Settling(d, "apply", [job EXCEPT !.at = batch.f, !.fresh = FALSE]))
    ELSE TailFailed(db, "stale")

CompleteUnchanged(f) ==
    IF CanCompleteSource(db, f)
    THEN LET d == CompleteSource(db, f)
         IN Commit(d, Settling(d, "apply", [job EXCEPT !.todo = @ \ {f}, !.at = None,
                                                       !.fresh = @ /\ d = db]))
    ELSE TailFailed(db, "stale")

ApplyMissing(f) ==
    \/ job.at = None /\ ~job.targeted /\ Goto(Skip(f))
    \/ job.at = None /\ job.targeted /\ TailFailed(db, "stale")
    \/ job.at = f /\ TailFailed(db, "gone")

ApplySource ==
    /\ job.pc = "apply" /\ job.todo # {}
    /\ LET f     == Min(job.todo)
           batch == Batch(f, db.src[f].at)
           empty == batch.from = batch.to /\ ~disk[f].torn
           known == disk[f].there /\ Verdict(f) = "ok"
           reads == known /\ ~Blocked(f, batch)
       IN \/ ~disk[f].there /\ ApplyMissing(f)
          \/ disk[f].there /\ ~known /\ TailFailed(db, Verdict(f))
          \/ known /\ Blocked(f, batch) /\ TailFailed(db, "invalid")
          \/ reads /\ batch.last /\ ~empty /\ QueueFinalBatch(batch)
          \/ reads /\ (empty \/ ~batch.last) /\ job.pend # <<>>
             /\ FlushPending([job EXCEPT !.pend = <<>>])
          \/ reads /\ empty /\ job.pend = <<>> /\ CompleteUnchanged(f)
          \/ reads /\ ~batch.last /\ job.pend = <<>> /\ AppendNow(batch)

FinishApply ==
    /\ job.pc = "apply" /\ job.todo = {}
    /\ \/ job.pend # <<>> /\ FlushPending([job EXCEPT !.pend = <<>>])
       \/ job.pend = <<>> /\ job.good /\ Goto([To("settle") EXCEPT !.then = "end"])
       \/ job.pend = <<>> /\ ~job.good /\ End(db)

\* Queued work is settled as far as it can be.  Work that cannot be taken up although
\* no source is pending exhausts the continuations of the run.
Settle ==
    /\ job.pc = "settle"
    /\ LET stuck   == Pending(db.cur) = {} /\ db.cur.parked # {} /\ ~ActionableCurrent(db)
           d       == IF db.quality = "partial" THEN ContinueCurrent(db) ELSE db
           settled == d.quality = "complete"
       IN \/ (db.quality \notin {"complete", "partial"} \/ stuck) /\ End(d)
          \/ db.quality \in {"complete", "partial"} /\ ~stuck
             /\ \/ job.then = "apply" /\ Commit(d, To("apply"))
                \/ job.then = "tail" /\ ~settled
                   /\ Commit(d, [To("preflight") EXCEPT !.todo = Present])
                \/ (job.then = "end" \/ (job.then = "tail" /\ settled)) /\ End(d)

-----------------------------------------------------------------------------
(* The full rebuild, after its scan *)

\* An unsealed staged revision that the scan confirms is taken up again, or taken
\* up with the new sources; any other is discarded and a new one begun.
Stage ==
    /\ job.pc = "stage"
    /\ LET id     == job.scan
           exact  == ManifestMatches(db, db.stg, id)
           next   == [To("replay") EXCEPT !.replay = TRUE, !.todo = Present]
           usable == db.stg.live /\ ~db.stg.sealed
       IN \/ usable /\ exact /\ Commit(RebindStaging(db, id), next)
          \/ usable /\ ~exact /\ CanExtendStaging(db, id) /\ Commit(ExtendStaging(db, id), next)
          \/ db.stg.live /\ ~(usable /\ (exact \/ CanExtendStaging(db, id)))
             /\ Commit(Discard(db), job)
          \/ ~db.stg.live /\ CanBeginRevision(db, id) /\ Commit(BeginRevision(db, id), next)
          \/ ~db.stg.live /\ ~CanBeginRevision(db, id) /\ End(db)

\* The revision this rebuild writes was published early and is now the current one.
Shared == ~db.stg.live

Abort == Goto([To("abort") EXCEPT !.pend = <<>>])

\* Where the reading of a source begins: a published revision always begins at the
\* start of the file; a staged one where it stopped.
OpenSource ==
    /\ job.pc = "replay" /\ job.at = None /\ job.todo # {}
    /\ LET f    == Min(job.todo)
           file == disk[f]
           at   == db.stg.at[f]
       IN \/ ~file.there /\ Goto(Skip(f))
          \/ file.there /\ Shared /\ Goto([job EXCEPT !.at = f, !.pos = At(file.inc, 0)])
          \/ /\ file.there /\ ~Shared /\ f \notin Members(db.stg)
             /\ Abort
          \/ file.there /\ ~Shared /\ f \in Members(db.stg)
             /\ \/ db.stg.state[f] = "pending" /\ at.off = 0
                   /\ Commit(PrepareSource(db, f, file.inc),
                             [job EXCEPT !.at = f, !.pos = At(file.inc, 0)])
                \/ at.off > 0 /\ at.inc # file.inc /\ Abort
                \/ at.off > 0 /\ at.inc = file.inc /\ db.stg.state[f] = "pending"
                   /\ Goto([job EXCEPT !.at = f, !.pos = at])
                \/ at.off > 0 /\ at.inc = file.inc /\ db.stg.state[f] = "complete"
                   /\ Goto([job EXCEPT !.todo = @ \ {f}])

\* The reader's place after a batch.
Passed(j, batch) ==
    IF batch.last THEN [j EXCEPT !.at = None, !.todo = @ \ {batch.f}]
    ELSE [j EXCEPT !.pos = At(batch.inc, batch.to)]

\* The offset the next held batch of a source must start at.
Expected(f) ==
    LET held == SelectSeq(job.pend, LAMBDA b : b.f = f)
    IN IF held = <<>> THEN db.src[f].at.off ELSE Last(held).to

HoldBatch(batch) ==
    LET pend == Append(job.pend, batch)
    IN IF Len(pend) < MaxHeld THEN Goto(Passed([job EXCEPT !.pend = pend], batch))
       ELSE IF CanAppendCurrent(db, pend)
            THEN Progress(AppendCurrent(db, pend), Passed([job EXCEPT !.pend = <<>>], batch))
            ELSE Abort

ReadSource ==
    /\ job.pc = "replay" /\ job.at # None
    /\ LET f     == job.at
           batch == Batch(f, job.pos)
           reads == disk[f].there /\ disk[f].inc = job.pos.inc /\ ~Blocked(f, batch)
       IN \/ ~reads /\ Abort
          \/ reads /\ ~Shared
             /\ Commit(StagedAppend(db, f, batch.inc, batch.from, batch.to, batch.last),
                       Passed(To("share"), batch))
          \/ reads /\ Shared /\ f \in Members(db.cur) /\ batch.from = Expected(f)
             /\ HoldBatch(batch)
          \/ reads /\ Shared /\ ~(f \in Members(db.cur) /\ batch.from = Expected(f)) /\ Abort

\* After a staged append the revision is published early when it can replace
\* nothing, or a publication that asked for a rebuild.
Share ==
    /\ job.pc = "share"
    /\ LET d == IF CanPublishPartial(db) /\ Selected(db.stg) # {} THEN PublishPartial(db) ELSE db
       IN Progress(d, To("replay"))

FinishReading ==
    /\ job.pc = "replay" /\ job.at = None /\ job.todo = {}
    /\ IF job.good THEN Goto(To("continue")) ELSE Abort

Continue ==
    /\ job.pc = "continue"
    /\ \/ job.pend # <<>> /\ CanAppendCurrent(db, job.pend)
          /\ Progress(AppendCurrent(db, job.pend), [job EXCEPT !.pend = <<>>])
       \/ job.pend # <<>> /\ ~CanAppendCurrent(db, job.pend) /\ Abort
       \/ job.pend = <<>> /\ Shared
          /\ \/ db.quality = "complete" /\ Goto(To("seal"))
             \/ db.quality = "partial" /\ ActionableCurrent(db) /\ Commit(ContinueCurrent(db), job)
             \/ db.quality = "partial" /\ ~ActionableCurrent(db)
                /\ Commit(ContinueCurrent(db), To("abort"))
             \/ db.quality \notin {"complete", "partial"} /\ Abort
       \/ job.pend = <<>> /\ ~Shared
          /\ \/ db.stg.parked # {} /\ StagingClosed(db) /\ Commit(ContinueStaging(db), job)
             \/ db.stg.parked # {} /\ ~StagingClosed(db) /\ Abort
             \/ db.stg.parked = {} /\ Goto(To("seal"))

SealRevision ==
    /\ job.pc = "seal"
    /\ \/ Shared /\ Goto(To("promote"))
       \/ ~Shared /\ CanSeal(db) /\ Commit(Seal(db), To("promote"))
       \/ ~Shared /\ ~CanSeal(db) /\ Abort

PromoteRevision ==
    /\ job.pc = "promote"
    /\ \/ Shared /\ End(db)
       \/ ~Shared /\ CanPromote(db) /\ End(Promote(db))
       \/ ~Shared /\ ~CanPromote(db) /\ Abort

\* A failed rebuild discards what it staged; what it published stays.
DiscardFailed ==
    /\ job.pc = "abort"
    /\ End(IF db.stg.live THEN Discard(db) ELSE db)

-----------------------------------------------------------------------------
(* Interruptions *)

\* A cancellation or a deadline, noticed at a check of the operation.
Interrupt ==
    /\ Spend("cancel")
    /\ \/ /\ job.pc = "visit"
          /\ job' = [job EXCEPT !.todo = {}, !.good = FALSE, !.then = "end"]
          /\ UNCHANGED <<db, shown>>
       \/ /\ job.pc \in {"preflight", "apply", "settle", "stage"}
          /\ db' = [db EXCEPT !.news = FALSE]
          /\ shown' = IF db.news THEN View(db) ELSE shown
          /\ job' = Resting(job.primed)
       \/ /\ job.pc \in {"replay", "continue", "seal", "promote"}
          /\ job' = [To("abort") EXCEPT !.pend = <<>>]
          /\ UNCHANGED <<db, shown>>
    /\ UNCHANGED <<disk, hints>>

\* The process ends: everything it held in memory is gone, the hints included.
Crash ==
    /\ job.pc \notin {"down", "refused"}
    /\ Spend("crash")
    /\ job' = Down
    /\ hints' = {}
    /\ shown' = NothingShown
    /\ db' = [db EXCEPT !.news = TRUE]
    /\ UNCHANGED disk

-----------------------------------------------------------------------------
Recovery == Start \/ CloseOrphanScan \/ RecoverStaging \/ ResumeStaging \/ PromoteRecovered
Scan == BeginScan \/ VisitSource \/ FinishScope \/ CloseScanSet
TailPasses == PublishCurrentScan \/ MarkRebuild \/ Preflight \/ BeginApply \/ ApplySource
              \/ FinishApply \/ Settle
Rebuild == Stage \/ OpenSource \/ ReadSource \/ Share \/ FinishReading \/ Continue
           \/ SealRevision \/ PromoteRevision \/ DiscardFailed
Work == Recovery \/ Scan \/ TailPasses \/ Rebuild

World == \E f \in Files : GrowFile(f) \/ TearFile(f) \/ ReplaceFile(f) \/ RemoveFile(f)
                          \/ RestoreFile(f)

Next == Work \/ Reconcile \/ Targeted \/ World \/ Interrupt \/ Crash

Spec == Init /\ [][Next]_vars

\* The process runs, and the scheduler asks for a reconciliation again and again.
FairSpec == Spec /\ WF_vars(Work) /\ WF_vars(Reconcile)

-----------------------------------------------------------------------------
(* Properties *)

\* No event that was read is lost: up to the stored checkpoint of a source of the
\* current revision every line is in the projection or in the queue of parked work
\* (the append and the continuation of crates/store/src/usage/replay.rs).
ReadIsKept ==
    \A f \in Members(db.cur) :
        Lines(f, db.src[f].at.inc, 0, db.src[f].at.off) \subseteq db.visible \cup db.cur.parked

\* A publication that calls itself complete is: every source of its revision was read
\* to the end, no work is queued, and every line up to the checkpoints is in the
\* projection, not merely parked (the quality each transaction recomputes).
CompleteIsHonest ==
    db.quality = "complete" =>
        /\ Pending(db.cur) = {} /\ db.cur.parked = {}
        /\ \A f \in Members(db.cur) :
              Lines(f, db.src[f].at.inc, 0, db.src[f].at.off) \subseteq db.visible

\* An event that was published stays published: neither a rebuild, nor a promotion,
\* nor the removal of its file takes it out of the projection (the retention of
\* promote_replay_revision).
NothingForgotten == [][db.visible \subseteq db'.visible]_vars

\* Between two refreshes the readers see the archive as it is, also after a refresh
\* that failed, was cancelled or was a recovery (publish_current of runtime/src/live.rs).
ShownIsCurrent == job.pc = "idle" => shown = View(db)

\* No refresh and no startup leaves a scan running: the next one could not begin.
NoScanLeftRunning == job.pc = "idle" => ScanIdle(db)

\* While no file is ever removed, no source of the current revision is taken for
\* missing, whatever scans were cancelled or cut short by a crash.
NoFalseAbsence == left.lasting => \A f \in Members(db.cur) : ~db.src[f].missing

\* Startup always succeeds on an archive the process itself has left behind.
StartupRecovers == job.pc # "refused"

Tidy == \A f \in Present : ~disk[f].torn
AllShown == \A f \in Present : Lines(f, disk[f].inc, 0, disk[f].len) \subseteq shown.visible

\* The same, and in a publication that is complete, when no file is ever removed and no
\* startup is refused.
CatchesUp ==
    <>[]Tidy /\ left.lasting /\ []StartupRecovers
        => <>[](AllShown /\ shown.quality = "complete")

\* Through crashes, cancellations and failed refreshes: every line up to a stored
\* checkpoint is in the projection or in the queue of parked work; a publication that calls
\* itself complete is; between two refreshes the readers see the archive as it is and no
\* scan is left running; and no file is taken for missing that never was removed.
ArchiveIsHonest ==
    ReadIsKept /\ CompleteIsHonest /\ ShownIsCurrent /\ NoScanLeftRunning /\ NoFalseAbsence
=============================================================================
