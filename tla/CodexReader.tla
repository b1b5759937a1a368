----------------------------- MODULE CodexReader -----------------------------
(***************************************************************************)
(* Reading one session log that another program is writing (codex/reader,  *)
(* codex/files and the adapter that drives them, runtime/codex_adapter).   *)
(*                                                                         *)
(* A file is a sequence of cells: "nl" ends a line, any other cell is one  *)
(* line's worth of text, so that a line of two cells or more is oversized. *)
(* Its digest is its content.  The log is appended to in pieces that need  *)
(* not end a line; it may be truncated, rewritten in place, moved to the   *)
(* archive directory or copied back, between any two reads of the reader:  *)
(*   open    metadata, and the checkpoint against it                       *)
(*   check   the anchor bytes                                              *)
(*   frame   one buffer of content, cut into lines and parsed              *)
(*   proof   the content once more, into the chunk digests                 *)
(*   anchor  the new anchor bytes                                          *)
(*   observe the metadata once more                                        *)
(*   path    what the path names now                                       *)
(* A batch and its checkpoint are stored in one transaction; the adapter   *)
(* meanwhile prefetches the next one in a thread of its own.               *)
(***************************************************************************)
EXTENDS CodexParser, TLC

CONSTANTS Days,        \* what may happen: budgets, the writes, and the consumer
          BufferCells, \* READ_BUFFER_BYTES
          MaxEvents,   \* MAX_BATCH_EVENTS
          MaxCells,    \* MAX_BATCH_COMPLETE_BYTES
          ChunkCells,  \* SOURCE_CHUNK_BYTES
          AnchorCells  \* MAX_ANCHOR_BYTES

VARIABLES disk,    \* physical identity -> [content, mtime, rewrites]
          dir,     \* place -> the identity of the file there, or 0
          stored,  \* what the archive holds of the source, or None
          walk,    \* the enumeration: the place it is at, and whether a file is open
          rd,      \* the read under way, or None
          held,    \* the batch that is about to be stored, or None
          cache,   \* the proof cache of the pass
          left     \* what may still happen

vars == <<disk, dir, stored, walk, rd, held, cache, left>>

None == [none |-> TRUE]

Min2(a, b) == IF a < b THEN a ELSE b

\* The cells of a range, as far as the file still has them.
Slice(content, from, to) == SubSeq(content, from + 1, Min2(to, Len(content)))

(***************************************************************************)
(* Checkpoints.                                                            *)
(***************************************************************************)
NoAnchor == [start |-> 0, bytes |-> <<>>]

\* initialize_source_checkpoint
InitialCheckpoint(id) ==
    [id |-> id, committed |-> 0, scan |-> 0, length |-> Len(disk[id].content),
     mtime |-> disk[id].mtime, anchor |-> NoAnchor, resume |-> Snapshot(NewState),
     discarding |-> FALSE, tail |-> FALSE]

\* ReaderCheckpointV1::new
ValidCheckpoint(cp) ==
    /\ Resumable(cp.resume)
    /\ cp.committed <= cp.scan /\ cp.scan <= cp.length
    /\ ~cp.discarding => cp.scan = cp.committed
    /\ cp.anchor.start + Len(cp.anchor.bytes) <= cp.committed
    /\ cp.discarding => cp.tail /\ cp.scan # cp.committed

\* The metadata against a checkpoint: the file it was taken of, neither shorter nor
\* rewritten at its length.
MetadataVerdict(cp, id, length, mtime) ==
    CASE cp.id # id -> "identity"
      [] cp.id = id /\ length < cp.length -> "truncated"
      [] cp.id = id /\ length = cp.length /\ mtime # cp.mtime -> "rewritten"
      [] OTHER -> "same"

\* The bytes before the committed offset are still the ones the checkpoint saw.
AnchorHolds(cp, content, length) ==
    Slice(content, cp.anchor.start, cp.anchor.start + Len(cp.anchor.bytes)) = cp.anchor.bytes

\* Mutant: an incomplete tail is waited for also in the middle of an oversized line.
NothingNewTail(cp, length, mtime) ==
    /\ length = cp.length /\ mtime = cp.mtime
    /\ cp.tail \/ cp.scan = length

\* Nothing to read since the checkpoint.
NothingNew(cp, length, mtime) ==
    /\ length = cp.length /\ mtime = cp.mtime
    /\ (cp.tail /\ ~cp.discarding) \/ cp.scan = length

\* validate_source_checkpoint
CheckpointStatus(cp, id) ==
    LET now     == disk[id]
        verdict == MetadataVerdict(cp, id, Len(now.content), now.mtime)
    IN IF verdict # "same" \/ ~AnchorHolds(cp, now.content, Len(now.content)) THEN "rebuild"
       ELSE IF NothingNew(cp, Len(now.content), now.mtime) THEN "unchanged" ELSE "appended"

(***************************************************************************)
(* Framing: cells into lines.                                              *)
(***************************************************************************)
\* read_lines, before its loop
NewFrame(cp, length) ==
    [abs |-> cp.scan, committed |-> cp.committed, end |-> length, state |-> cp.resume,
     events |-> <<>>, relations |-> <<>>, bytes |-> 0, complete |-> 0, current |-> 0,
     line |-> <<>>, consumed |-> <<>>, discarding |-> cp.discarding, blocked |-> FALSE,
     done |-> FALSE, reached |-> FALSE,
     limit |-> IF cp.discarding THEN MaxCells ELSE 1 + BufferCells]

\* A complete line: an oversized one is passed over, an empty one is nothing.
Parsed(f, parsed) ==
    [f EXCEPT !.state = parsed.state,
              !.events = @ \o parsed.event,
              !.relations = @ \o parsed.relation,
              !.blocked = @ \/ parsed.outcome = "malformed"]

Committed(g) ==
    LET spent == g.complete + g.current
        full  == Len(g.events) + Len(g.relations) >= MaxEvents \/ spent >= MaxCells
    IN [g EXCEPT !.committed = g.abs, !.complete = spent, !.current = 0, !.line = <<>>,
                 !.done = full, !.reached = full /\ g.abs >= g.end]

Completed(f) ==
    Committed(IF f.discarding THEN [f EXCEPT !.discarding = FALSE, !.blocked = TRUE]
              ELSE IF f.line = <<>> THEN f
              ELSE Parsed(f, ParseLine(f.state, Head(f.line), f.committed)))

\* The end of a piece that completes no line: an oversized line is given up at the limit.
Unfinished(f) ==
    IF f.discarding /\ f.bytes >= f.limit
    THEN [f EXCEPT !.done = TRUE, !.reached = f.abs >= f.end] ELSE f

\* One turn of read_lines' loop, over what the buffer still holds.
FrameStep(f, available) ==
    LET at       == SelectInSeq(available, LAMBDA c : c = "nl")
        taken    == IF at = 0 THEN available ELSE SubSeq(available, 1, at)
        text     == IF at = 0 THEN available ELSE SubSeq(available, 1, at - 1)
        oversize == f.discarding \/ Len(f.line) + Len(text) > 1
        g == [f EXCEPT !.abs = @ + Len(taken), !.bytes = @ + Len(taken),
                       !.current = @ + Len(taken), !.consumed = @ \o taken,
                       !.discarding = oversize,
                       !.line = IF oversize THEN <<>> ELSE @ \o text]
    IN IF at # 0 THEN Completed(g) ELSE Unfinished(g)

\* The turns over one buffer.
FrameBuffer(f, buffer) ==
    LET after[i \in 0..Len(buffer)] ==
            IF i = 0 THEN f
            ELSE LET g == after[i - 1]
                 IN IF g.done \/ g.abs - f.abs >= Len(buffer) THEN g
                    ELSE FrameStep(g, SubSeq(buffer, g.abs - f.abs + 1, Len(buffer)))
    IN after[Len(buffer)]

Incomplete(f) == f.discarding \/ (f.reached /\ f.line # <<>>)

ScanOffset(f) == IF f.discarding THEN f.abs ELSE f.committed

(***************************************************************************)
(* Chunk proofs: the content in chunks of ChunkCells cells, the last one   *)
(* partial.                                                                *)
(***************************************************************************)
NoCache == [id |-> 0, length |-> 0, mtime |-> 0, chunk |-> 0, covered |-> <<>>]

\* ReaderProofCache::bind
Bound(c, id, length, mtime) ==
    IF c.id = id /\ c.length = length /\ c.mtime = mtime THEN c
    ELSE [id |-> id, length |-> length, mtime |-> mtime, chunk |-> 0, covered |-> <<>>]

\* The rows for content that starts at a chunk's start.
ChunkRows(first, content) ==
    LET n == (Len(content) + ChunkCells - 1) \div ChunkCells
    IN [i \in first..(first + n - 1) |->
          Slice(content, (i - first) * ChunkCells,
                (i - first + 1) * ChunkCells)]

\* validate_and_extend_chunk_proofs over what the file holds now.
ExtendProofs(content, start, bytes, verified, c) ==
    LET index    == start \div ChunkCells
        advances == verified > start
        prefix   == IF c.chunk = index /\ Len(c.covered) = start % ChunkCells THEN c.covered
                    ELSE Slice(content, index * ChunkCells, start)
        all      == prefix \o Slice(content, start, verified)
        whole    == Len(all) \div ChunkCells
    IN [observed |-> Slice(content, start, start + bytes),
        previous |-> IF advances /\ prefix # <<>> THEN <<[index |-> index, row |-> prefix]>>
                     ELSE <<>>,
        rows     |-> IF advances THEN ChunkRows(index, all) ELSE <<>>,
        cache    |-> IF advances
                     THEN [c EXCEPT !.chunk = index + whole,
                                    !.covered = Slice(all, whole * ChunkCells, Len(all))]
                     ELSE c]

\* verify_chunk_proof and verify_chunk_conflicts
ProofsFit(rows, previous, updates) ==
    /\ previous # <<>> => /\ previous[1].index \in DOMAIN rows
                          /\ rows[previous[1].index] = previous[1].row
    /\ \A i \in DOMAIN updates \cap DOMAIN rows :
          rows[i] # updates[i] => /\ previous # <<>>
                                  /\ previous[1].index = i
                                  /\ previous[1].row = rows[i]

(***************************************************************************)
(* One read: read_source_batch_with_cache.                                 *)
(***************************************************************************)
StartOf(cp, place, prefetch, c) ==
    [stage |-> "open", cp |-> cp, place |-> place, prefetch |-> prefetch, cache |-> c,
     id |-> 0, length |-> 0, mtime |-> 0, frame |-> None, proof |-> None,
     anchor |-> NoAnchor, outcome |-> "none"]

Ended(r, outcome) == [r EXCEPT !.stage = "done", !.outcome = outcome]

Reading(stage) == rd # None /\ rd.stage = stage

Handle == disk[rd.id]

\* open_source, bind, and the metadata of the checkpoint.
Open ==
    /\ Reading("open")
    /\ LET id     == dir[rd.place]
           length == Len(disk[id].content)
           mtime  == disk[id].mtime
           r == [rd EXCEPT !.id = id, !.length = length, !.mtime = mtime,
                           !.cache = Bound(@, id, length, mtime)]
       IN rd' = IF id = 0 THEN Ended(rd, "unavailable")
                ELSE IF MetadataVerdict(rd.cp, id, length, mtime) # "same"
                THEN Ended(r, "rebuild")
                ELSE [r EXCEPT !.stage = "check"]
    /\ UNCHANGED <<disk, dir, stored, walk, held, cache, left>>

\* The anchor of the checkpoint, and whether there is anything to read.
Check ==
    /\ Reading("check")
    /\ rd' = IF ~AnchorHolds(rd.cp, Handle.content, rd.length) THEN Ended(rd, "rebuild")
             ELSE IF NothingNew(rd.cp, rd.length, rd.mtime) THEN Ended(rd, "unchanged")
             ELSE [rd EXCEPT !.stage = "frame", !.frame = NewFrame(rd.cp, rd.length)]
    /\ UNCHANGED <<disk, dir, stored, walk, held, cache, left>>

\* One fill of the buffer, up to the length seen at opening, and its lines.
Framed(f) == [rd EXCEPT !.stage = IF f.done THEN "proof" ELSE @, !.frame = f]

Frame ==
    /\ Reading("frame")
    /\ LET f      == rd.frame
           buffer == Slice(Handle.content, f.abs, Min2(f.abs + BufferCells, f.end))
       IN rd' = Framed(IF buffer = <<>> THEN [f EXCEPT !.done = TRUE, !.reached = TRUE]
                       ELSE FrameBuffer(f, buffer))
    /\ UNCHANGED <<disk, dir, stored, walk, held, cache, left>>

\* Mutant: the content is not compared with what was parsed.
SameContentAlways(observed, consumed) == Len(observed) = Len(consumed)

\* What was hashed is what was parsed.
SameContent(observed, consumed) == observed = consumed

\* validate_and_extend_chunk_proofs, and its comparison with what was parsed.
Proof ==
    /\ Reading("proof")
    /\ LET f     == rd.frame
           start == rd.cp.scan
           p == ExtendProofs(Handle.content, start, f.bytes, ScanOffset(f), rd.cache)
       IN rd' = IF SameContent(p.observed, f.consumed)
                THEN [rd EXCEPT !.stage = "anchor", !.proof = p, !.cache = p.cache]
                ELSE Ended([rd EXCEPT !.cache = p.cache], "stale")
    /\ UNCHANGED <<disk, dir, stored, walk, held, cache, left>>

\* boundary_anchor
Anchor ==
    /\ Reading("anchor")
    /\ LET committed == rd.frame.committed
           start == committed - Min2(committed, AnchorCells)
       IN rd' = IF Len(Handle.content) < committed THEN Ended(rd, "stale")
                ELSE [rd EXCEPT !.stage = "observe",
                                !.anchor = [start |-> start,
                                            bytes |-> Slice(Handle.content, start, committed)]]
    /\ UNCHANGED <<disk, dir, stored, walk, held, cache, left>>

\* observation_invalidated: growth is allowed, nothing else.
Invalidated(length, mtime, now) ==
    \/ Len(now.content) < length
    \/ Len(now.content) = length /\ now.mtime # mtime

\* current_handle_observation
Observe ==
    /\ Reading("observe")
    /\ rd' = IF Invalidated(rd.length, rd.mtime, Handle) THEN Ended(rd, "stale")
             ELSE [rd EXCEPT !.stage = "path"]
    /\ UNCHANGED <<disk, dir, stored, walk, held, cache, left>>

\* The checkpoint after the batch.
NextCheckpoint(r) ==
    [id |-> r.id, committed |-> r.frame.committed, scan |-> ScanOffset(r.frame),
     length |-> r.length, mtime |-> r.mtime, anchor |-> r.anchor,
     resume |-> Snapshot(r.frame.state), discarding |-> r.frame.discarding,
     tail |-> Incomplete(r.frame)]

\* revalidate_path_identity, and the batch.
Path ==
    /\ Reading("path")
    /\ rd' = IF dir[rd.place] # rd.id THEN Ended(rd, "stale")
             ELSE IF ~ValidCheckpoint(NextCheckpoint(rd)) THEN Ended(rd, "invalid")
             ELSE Ended(rd, "batch")
    /\ UNCHANGED <<disk, dir, stored, walk, held, cache, left>>

(***************************************************************************)
(* The adapter and the archive: one pass over the two directories.         *)
(***************************************************************************)
Off == [place |-> "off", busy |-> FALSE]

Spend(what) == left[what] > 0 /\ left' = [left EXCEPT ![what] = @ - 1]

Fresh(id) == [cp |-> InitialCheckpoint(id), events |-> <<>>, relations |-> <<>>,
              rows |-> <<>>, rewrites |-> disk[id].rewrites]

EndPass == walk' = Off /\ rd' = None /\ held' = None /\ cache' = NoCache

NextPlace == walk' = IF walk.place = "active" THEN [place |-> "archived", busy |-> FALSE]
                     ELSE Off

\* enumerate_profile_sources
BeginPass ==
    /\ walk = Off
    /\ walk' = [place |-> "active", busy |-> FALSE]
    /\ UNCHANGED <<disk, dir, stored, rd, held, cache, left>>

\* archive_is_shadowed
Shadowed(place) == place = "archived" /\ dir["active"] # 0

\* walk_source finds nothing to emit in a directory.
SkipPlace ==
    /\ walk # Off /\ ~walk.busy
    /\ dir[walk.place] = 0 \/ Shadowed(walk.place)
    /\ NextPlace
    /\ UNCHANGED <<disk, dir, stored, rd, held, cache, left>>

\* walk_source emits the file: an unknown source is registered, and a checkpoint that
\* no longer fits makes the archive start it anew.
EmitFile ==
    /\ walk # Off /\ ~walk.busy
    /\ dir[walk.place] # 0 /\ ~Shadowed(walk.place)
    /\ LET id == dir[walk.place]
       IN IF stored = None \/ CheckpointStatus(stored.cp, id) = "rebuild"
          THEN stored' = Fresh(id) ELSE UNCHANGED stored
    /\ walk' = [walk EXCEPT !.busy = TRUE]
    /\ cache' = NoCache
    /\ UNCHANGED <<disk, dir, rd, held, left>>

\* read_batch without a prefetched result.
StartRead ==
    /\ walk.busy /\ rd = None /\ held = None
    /\ rd' = StartOf(stored.cp, walk.place, FALSE, cache)
    /\ UNCHANGED <<disk, dir, stored, walk, held, cache, left>>

BatchOf(r) == [cp |-> NextCheckpoint(r), events |-> r.frame.events,
               relations |-> r.frame.relations, previous |-> r.proof.previous,
               rows |-> r.proof.rows, reached |-> r.frame.reached]

\* has_blocking_input_diagnostic: an adapter's batch has no incomplete tail, malformed
\* line or oversized line; the reader itself allows them.
Blocking(f) == left.strict /\ (f.blocked \/ Incomplete(f))

\* read_batch with a batch: while it is stored the next one is prefetched, unless no
\* thread could be started.
TakeBatch ==
    /\ Reading("done") /\ rd.outcome = "batch"
    /\ rd.prefetch => held = None
    /\ rd.cp = stored.cp
    /\ ~Blocking(rd.frame)
    /\ held' = BatchOf(rd)
    /\ cache' = rd.cache
    /\ \/ /\ ~rd.frame.reached
          /\ rd' = StartOf(NextCheckpoint(rd), rd.place, TRUE, rd.cache)
          /\ UNCHANGED left
       \/ /\ rd.frame.reached
          /\ rd' = None
          /\ UNCHANGED left
       \/ /\ ~rd.frame.reached
          /\ rd' = None
          /\ Spend("nothread")
    /\ UNCHANGED <<disk, dir, stored, walk>>

\* read_batch with nothing new: the source is done.
TakeUnchanged ==
    /\ Reading("done") /\ rd.outcome = "unchanged"
    /\ held = None
    /\ rd' = None
    /\ NextPlace
    /\ UNCHANGED <<disk, dir, stored, held, cache, left>>

\* read_batch with an error ends the pass; RebuildRequired starts the source anew.
TakeFailure ==
    /\ Reading("done")
    /\ held = None
    /\ \/ rd.outcome \in {"unavailable", "stale", "invalid", "rebuild"}
       \/ rd.outcome = "batch" /\ (Blocking(rd.frame) \/ rd.cp # stored.cp)
    /\ stored' = IF rd.outcome = "rebuild" THEN None ELSE stored
    /\ EndPass
    /\ UNCHANGED <<disk, dir, left>>

\* The archive takes a batch whose proofs extend its own.
Accepted(batch) == ProofsFit(stored.rows, batch.previous, batch.rows)

\* append_current_batch: observations, chunk rows and checkpoint in one transaction.
StoreBatch ==
    /\ held # None
    /\ Accepted(held)
    /\ stored' = [stored EXCEPT !.cp = held.cp, !.events = @ \o held.events,
                                !.relations = @ \o held.relations,
                                !.rows = held.rows @@ @]
    /\ held' = None
    /\ IF held.reached THEN NextPlace ELSE UNCHANGED walk
    /\ UNCHANGED <<disk, dir, rd, cache, left>>

\* StaleCheckpoint: the pass fails.
RefuseBatch ==
    /\ held # None
    /\ ~Accepted(held)
    /\ EndPass
    /\ UNCHANGED <<disk, dir, stored, left>>

\* The pass is cancelled: a read of its own stops, a prefetch is joined and dropped.
Cancel ==
    /\ walk # Off
    /\ Spend("cancel")
    /\ EndPass
    /\ UNCHANGED <<disk, dir, stored>>

(***************************************************************************)
(* The program that writes the log, and whatever else touches it.          *)
(***************************************************************************)
Touched(id, content, rewrites) ==
    disk' = [disk EXCEPT ![id] = [content |-> content, mtime |-> @.mtime + 1,
                                  rewrites |-> @.rewrites + rewrites]]

Write ==
    /\ left.writes # <<>> /\ dir["active"] # 0
    /\ Touched(dir["active"], disk[dir["active"]].content \o Head(left.writes), 0)
    /\ left' = [left EXCEPT !.writes = Tail(@)]
    /\ UNCHANGED <<dir, stored, walk, rd, held, cache>>

Truncate ==
    /\ Spend("truncate")
    /\ dir["active"] # 0
    /\ \E n \in 0..(Len(disk[dir["active"]].content) - 1) :
          Touched(dir["active"], SubSeq(disk[dir["active"]].content, 1, n), 1)
    /\ UNCHANGED <<dir, stored, walk, rd, held, cache>>

Rewrite ==
    /\ Spend("rewrite")
    /\ dir["active"] # 0
    /\ \E n \in 1..Len(disk[dir["active"]].content) :
          /\ disk[dir["active"]].content[n] # "nl"
          /\ Touched(dir["active"], [disk[dir["active"]].content EXCEPT ![n] = "other"], 1)
    /\ UNCHANGED <<dir, stored, walk, rd, held, cache>>

\* The session is archived: the file moves, and keeps its identity.
Archive ==
    /\ Spend("archive")
    /\ dir["active"] # 0 /\ dir["archived"] = 0
    /\ dir' = [active |-> 0, archived |-> dir["active"]]
    /\ UNCHANGED <<disk, stored, walk, rd, held, cache>>

\* A copy of the archived file is put back.
Restore ==
    /\ Spend("restore")
    /\ dir["active"] = 0 /\ dir["archived"] # 0
    /\ disk' = Append(disk, [disk[dir["archived"]] EXCEPT !.mtime = @ + 1])
    /\ dir' = [dir EXCEPT !["active"] = Len(disk) + 1]
    /\ UNCHANGED <<stored, walk, rd, held, cache>>

Init ==
    /\ disk = <<[content |-> <<>>, mtime |-> 0, rewrites |-> 0]>>
    /\ dir = [active |-> 1, archived |-> 0]
    /\ stored = None
    /\ walk = Off
    /\ rd = None /\ held = None /\ cache = NoCache
    /\ left \in Days

Progress ==
    \/ BeginPass \/ SkipPlace \/ EmitFile \/ StartRead
    \/ Open \/ Check \/ Frame \/ Proof \/ Anchor \/ Observe \/ Path
    \/ TakeBatch \/ TakeUnchanged \/ TakeFailure \/ StoreBatch \/ RefuseBatch

Next == Progress \/ Cancel \/ Write \/ Truncate \/ Rewrite \/ Archive \/ Restore

Spec == Init /\ [][Next]_vars

Moves == <<stored, walk, rd, held>>' # <<stored, walk, rd, held>>

\* Refreshes keep coming and every step of one is taken: some action of Progress is
\* always enabled, so this is its weak fairness.
FairSpec == Spec /\ []<><<Moves>>_vars

(***************************************************************************)
(* Properties.                                                             *)
(***************************************************************************)
\* The lines of a content that ends a line, parsed by one parser from the start.
Reference(content) ==
    LET ends == {i \in 1..Len(content) : content[i] = "nl"}
        before(i) == Cardinality({j \in ends : j < i})
        n == Cardinality(ends)
        last(k) == IF k = 0 THEN 0 ELSE CHOOSE i \in ends : before(i) = k - 1
        after[k \in 0..n] ==
            IF k = 0 THEN [state |-> NewState, events |-> <<>>, relations |-> <<>>]
            ELSE LET p    == after[k - 1]
                     line == SubSeq(content, last(k - 1) + 1, last(k) - 1)
                     With(got) == [state |-> got.state, events |-> p.events \o got.event,
                                   relations |-> p.relations \o got.relation]
                 IN IF Len(line) # 1 THEN p
                    ELSE With(ParseLine(p.state, line[1], last(k - 1)))
    IN after[n]

Intact == stored # None /\ disk[stored.cp.id].rewrites = stored.rewrites

\* As long as nobody rewrites the log, what the archive holds of it is what one parse
\* of the committed part from the start yields, event by event with ordinals, deltas,
\* activity and lineage: whatever the batch limits, the buffer edges, partial and
\* oversized lines, restarts from a checkpoint, prefetched reads and moves of the file
\* were (read_source_batch_with_cache, read_lines, ParserState::snapshot).
AppliedIsParsed ==
    Intact => LET ref == Reference(Slice(disk[stored.cp.id].content, 0, stored.cp.committed))
              IN stored.events = ref.events /\ stored.relations = ref.relations

\* The chunk rows of the archive attest exactly the bytes its events were parsed from,
\* also when the log is rewritten while it is read or between two reads: a rewrite
\* never leaves rows of the new content beside events of the old one
\* (validate_and_extend_chunk_proofs, verify_chunk_proof).
ProofsAttestEvents ==
    stored # None =>
        LET bytes == FlattenSeq([i \in 1..Cardinality(DOMAIN stored.rows) |-> stored.rows[i - 1]])
            ref   == Reference(Slice(bytes, 0, stored.cp.committed))
        IN /\ Len(bytes) = stored.cp.scan
           /\ stored.events = ref.events

\* Every state the parser can reach is accepted when it is read back: no log content
\* makes a checkpoint that refuses itself and stops the log for good
\* (normalize_lineage_conflict, record_tool against ParserState::from_resume).
StatesResume == rd # None => rd.outcome # "invalid"

Settled == /\ left.writes = <<>> /\ stored # None
           /\ \A what \in {"truncate", "rewrite", "archive", "restore", "cancel"} : left[what] = 0

Clean(content) == LET n == Len(content)
                  IN /\ n > 0 => content[n] = "nl"
                     /\ \A i \in 1..(n - 1) : content[i] = "nl" \/ content[i + 1] = "nl"
                     /\ \A i \in 1..n : content[i] # "nl" =>
                          ParseLine(NewState, content[i], 0).outcome # "malformed"

CaughtUp == stored # None /\ stored.cp.scan = Len(disk[stored.cp.id].content)

\* A log that only grew and has come to rest is read to its end: no batch limit,
\* oversized line, discarded prefetch or move leaves the reader short of it for ever
\* (read_lines always advances; the adapter asks again).
CatchesUp == (Settled /\ Intact /\ (left.strict => Clean(disk[stored.cp.id].content))) ~> CaughtUp

\* What the archive holds of a log is what one parse from the start yields, the chunk rows
\* attest exactly the bytes the events were parsed from, and every stored state of the
\* parser is accepted when it is read back.
ReadIsParsed == AppliedIsParsed /\ ProofsAttestEvents /\ StatesResume
=============================================================================
