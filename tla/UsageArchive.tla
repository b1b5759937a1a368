---------------------------- MODULE UsageArchive ----------------------------
(***************************************************************************)
(* The lifecycle part of the usage archive (crates/store/src/usage): what  *)
(* one transaction of the store does to the source rows, the running scan, *)
(* the current and the staged replay revision, and the publication state.  *)
(*                                                                         *)
(* An archive d is one record; every operator below is one transaction and *)
(* maps the archive before it to the archive after it, and the predicate   *)
(* defined next to it is the condition under which the store commits it.   *)
(* There is one scope.  Identifiers of scans are only ever compared for    *)
(* equality, so a scan takes the least identifier nothing refers to.       *)
(*                                                                         *)
(* A line of a file is <<file, incarnation, number>>: a file that is       *)
(* truncated, rewritten or replaced starts a new incarnation.  A line of   *)
(* Deferred carries an event whose parent session is not known when it is  *)
(* read: it is parked as queued work and becomes visible once every source *)
(* has been read (how work is classified is ReplayClassification).         *)
(***************************************************************************)
EXTENDS Integers, FiniteSets, Sequences, SequencesExt, FiniteSetsExt

CONSTANTS Files,      \* the provider's files, in the order of their keys
          Deferred    \* the <<file, number>> of the lines with a missing parent

FilesAreKeys == Files \subseteq Nat \ {0} /\ IsFiniteSet(Files)

\* A stored checkpoint: the incarnation read and the committed offset.  Blank
\* is the start a revision writes for a source before the source is prepared.
Blank == [inc |-> 0, off |-> 0]
At(inc, off) == [inc |-> inc, off |-> off]

NoRow == [row |-> "none", at |-> Blank, len |-> 0, missing |-> FALSE, seen |-> 0]

NoRev == [live |-> FALSE, scan |-> 0, state |-> [f \in Files |-> "out"],
          at |-> [f \in Files |-> Blank], parked |-> {}, sealed |-> FALSE]

NoScan == [id |-> 0, child |-> "none"]

EmptyArchive ==
    [src |-> [f \in Files |-> NoRow], scan |-> NoScan, scanned |-> FALSE,
     cur |-> NoRev, stg |-> NoRev, quality |-> "empty", visible |-> {}, news |-> FALSE]

Lines(f, inc, from, to) == { <<f, inc, i>> : i \in (from + 1)..to }
Parked(ls) == { l \in ls : <<l[1], l[3]>> \in Deferred }

Members(rev) == { f \in Files : rev.state[f] # "out" }
Pending(rev) == { f \in Files : rev.state[f] = "pending" }
Rows(d) == { f \in Files : d.src[f].row # "none" }

-----------------------------------------------------------------------------
(* Scans *)

FreshScan(d) ==
    Min((1..(Cardinality(Files) + 4))
        \ ({ d.src[f].seen : f \in Files } \cup {d.cur.scan, d.stg.scan, d.scan.id}))

ScanIdle(d) == d.scan = NoScan
BeginScanSet(d, id) == [d EXCEPT !.scan = [id |-> id, child |-> "running"]]

ObserveScanSources(d, id, fs) ==
    [d EXCEPT !.src = [f \in Files |-> IF f \in fs THEN [@[f] EXCEPT !.seen = id] ELSE @[f]]]

\* Only a complete scan proves which sources are missing.
FinalizePresence(d, complete) ==
    [f \in Files |-> IF complete /\ f \in Rows(d)
                     THEN [d.src[f] EXCEPT !.missing = (d.src[f].seen # d.scan.id)]
                     ELSE d.src[f]]

FinishScan(d, complete) ==
    [d EXCEPT !.src = FinalizePresence(d, complete),
              !.scan.child = IF complete THEN "complete" ELSE "failed",
              !.scanned = @ \/ complete]

FinishScanSet(d) == [d EXCEPT !.scan = NoScan]

\* A source row exists whose recorded start is not the file that is there now.
DiscoveryConflicts(d, f, inc, len) ==
    d.src[f].row = "provisional" /\ <<d.src[f].at.inc, d.src[f].len>> # <<inc, len>>

RegisterScanDiscovered(d, f, inc, len) ==
    [d EXCEPT !.src[f] = [row |-> "provisional", at |-> At(inc, 0), len |-> len,
                          missing |-> TRUE, seen |-> d.scan.id]]

RegisterRebuildSource(d, f, inc) ==
    [d EXCEPT !.src[f] = [@ EXCEPT !.row = "registered", !.at = At(inc, 0), !.len = 0,
                                   !.missing = IF d.src[f].row = "none"
                                               THEN d.scanned ELSE @]]

-----------------------------------------------------------------------------
(* Manifests: which sources a revision covers, and whether a scan says so *)

PresentIn(d, id) == { f \in Rows(d) : d.src[f].seen = id /\ ~d.src[f].missing }
ScanSetMatches(d, id) == \A f \in Rows(d) : d.src[f].missing = (d.src[f].seen # id)
ManifestMatches(d, rev, id) == ScanSetMatches(d, id) /\ PresentIn(d, id) = Members(rev)
StagingClosed(d) == ManifestMatches(d, d.stg, d.stg.scan) /\ Pending(d.stg) = {}
CurrentClosed(d) ==
    /\ ScanSetMatches(d, d.cur.scan)
    /\ \A f \in Members(d.cur) : d.src[f].row = "registered"
    /\ \A f \in Rows(d) : ~d.src[f].missing =>
          d.src[f].seen = d.cur.scan /\ f \in Members(d.cur)

-----------------------------------------------------------------------------
(* The staged revision *)

CanBeginRevision(d, id) ==
    /\ ~d.stg.live
    /\ ScanSetMatches(d, id)
    /\ \A f \in PresentIn(d, id) : d.src[f].row = "registered"

Staged(d, id, kept) ==
    [live |-> TRUE, scan |-> id, sealed |-> FALSE, parked |-> kept.parked,
     state |-> [f \in Files |-> IF f \in Members(kept) THEN kept.state[f]
                                ELSE IF f \in PresentIn(d, id) THEN "pending" ELSE "out"],
     at |-> kept.at]

BeginRevision(d, id) == [d EXCEPT !.stg = Staged(d, id, NoRev)]
RebindStaging(d, id) == [d EXCEPT !.stg.scan = id]

CanExtendStaging(d, id) ==
    /\ ScanSetMatches(d, id)
    /\ Members(d.stg) \subseteq PresentIn(d, id)
    /\ Members(d.stg) # PresentIn(d, id)
    /\ \A f \in PresentIn(d, id) : d.src[f].row = "registered"
ExtendStaging(d, id) == [d EXCEPT !.stg = Staged(d, id, d.stg)]

PrepareSource(d, f, inc) == [d EXCEPT !.stg.at[f] = At(inc, 0)]

StagedAppend(d, f, inc, from, to, last) ==
    [d EXCEPT !.stg.at[f] = At(inc, to),
              !.stg.state[f] = IF last THEN "complete" ELSE "pending",
              !.stg.parked = @ \cup Parked(Lines(f, inc, from, to))]

Selected(rev) ==
    UNION { Lines(f, rev.at[f].inc, 0, rev.at[f].off) : f \in Members(rev) } \ rev.parked

ContinueStaging(d) == [d EXCEPT !.stg.parked = {}]

CanSeal(d) == ~d.stg.sealed /\ StagingClosed(d) /\ d.stg.parked = {}
Seal(d) == [d EXCEPT !.stg.sealed = TRUE]

Discard(d) == [d EXCEPT !.stg = NoRev]

-----------------------------------------------------------------------------
(* Publication: the staged revision becomes the current one *)

\* Mutant: the projection is replaced by what the new revision selects.
MaterializeOnly(d) == Selected(d.stg)
\* Events of earlier revisions are retained beside what the new one selects.
Materialize(d) == d.visible \cup Selected(d.stg)

Published(d, quality) ==
    [d EXCEPT !.visible = Materialize(d), !.quality = quality, !.news = TRUE,
              !.cur = [d.stg EXCEPT !.sealed = TRUE, !.at = NoRev.at], !.stg = NoRev,
              !.src = [f \in Files |->
                          IF f \in Members(d.stg)
                          THEN [@[f] EXCEPT !.row = "registered", !.at = d.stg.at[f],
                                            !.missing = FALSE]
                          ELSE @[f]]]

CanPublishPartial(d) ==
    /\ d.stg.live /\ ~d.stg.sealed
    /\ ManifestMatches(d, d.stg, d.stg.scan)
    /\ \/ d.quality = "empty" /\ ~d.cur.live
       \/ d.quality = "recovery_pending"
PublishPartial(d) == Published(d, "partial")

CanPromote(d) == d.stg.live /\ d.stg.sealed /\ StagingClosed(d) /\ d.stg.parked = {}
Promote(d) == Published(d, "complete")

-----------------------------------------------------------------------------
(* The current revision *)

\* Mutant: the quality only looks at the sources, not at the queued work.
QualityOfSources(rev) == IF Pending(rev) # {} THEN "partial" ELSE "complete"
QualityOf(rev) == IF rev.parked # {} \/ Pending(rev) # {} THEN "partial" ELSE "complete"

CommitCurrent(d, cur) == [d EXCEPT !.cur = cur, !.quality = QualityOf(cur), !.news = TRUE]

\* batch: [f, inc, from, to, last], the lines from+1..to of file f
AppendedTo(d, batch) ==
    LET new == Lines(batch.f, batch.inc, batch.from, batch.to)
        at  == [d EXCEPT !.src[batch.f].at = At(batch.inc, batch.to),
                         !.visible = @ \cup (new \ Parked(new))]
    IN CommitCurrent(at, [d.cur EXCEPT
            !.state[batch.f] = IF batch.last THEN "complete" ELSE "pending",
            !.parked = @ \cup Parked(new)])

CanAppendCurrent(d, batches) ==
    /\ d.quality \in {"complete", "partial"}
    /\ \A b \in Range(batches) : b.f \in Members(d.cur)
AppendCurrent(d, batches) == FoldLeft(AppendedTo, d, batches)

CanCompleteSource(d, f) == f \in Members(d.cur)
CompleteSource(d, f) ==
    IF d.cur.state[f] = "complete" THEN d
    ELSE CommitCurrent(d, [d.cur EXCEPT !.state[f] = "complete"])

\* A page of queued work: it is only taken up once the manifest is closed.
ActionableCurrent(d) == CurrentClosed(d) /\ Pending(d.cur) = {} /\ d.cur.parked # {}
ContinueCurrent(d) ==
    IF Pending(d.cur) # {} THEN d
    ELSE IF ActionableCurrent(d)
         THEN CommitCurrent([d EXCEPT !.visible = @ \cup d.cur.parked],
                            [d.cur EXCEPT !.parked = {}])
         ELSE CommitCurrent(d, d.cur)

MarkRebuildRequired(d) == [d EXCEPT !.quality = "recovery_pending", !.news = TRUE]

CanPublishScan(d, id, found) ==
    /\ d.quality = "complete"
    /\ Pending(d.cur) = {}
    /\ \A f \in Members(d.cur) : ~d.src[f].missing => d.src[f].seen = id
    /\ PresentIn(d, id) \ Members(d.cur) = found
\* Mutant: the sources the scan discovered are left out of the revision.
PublishScanOnly(d, id, found) == CommitCurrent(d, [d.cur EXCEPT !.scan = id])
PublishScan(d, id, found) ==
    CommitCurrent(
        [d EXCEPT !.src = [f \in Files |-> IF f \in found
                                           THEN [@[f] EXCEPT !.row = "registered", !.len = 0]
                                           ELSE @[f]]],
        [d.cur EXCEPT !.scan = id,
                      !.state = [f \in Files |-> IF f \in found THEN "pending" ELSE @[f]]])
=============================================================================
