------------------------------- MODULE MCIngest -------------------------------
(*****************************************************************************)
(* The way of usage into the archive, component by component: the reader of  *)
(* the provider's logs, the classification of replayed events, and the       *)
(* scans, appends and rebuilds of the archive.  A behaviour is one of one of *)
(* the Parts.                                                                *)
(*****************************************************************************)
EXTENDS Integers, Sequences, TLC

CONSTANTS
    Parts,   \* the components this instance runs
    ArchiveFiles, Deferred, MaxLength, MaxIncarnation, BatchLines, PresenceBatch,
    MaxPend, MaxHeld, Scenarios, Sessions, NoSession, MaxOrdinal, MaxDepth, Fanout,
    MaxBatch, MaxContinuations, Corpora, u1, u2, u3, u4, Raw, ToolFeatures, NameHint,
    HashHint, MaxTools, Days, BufferCells, MaxEvents, MaxCells, ChunkCells, AnchorCells

VARIABLES
    part,    \* the component that runs in this behaviour
    archiveDisk, archiveHints, archiveDb, archiveJob, archiveShown, archiveLeft,
    classCorpus, classPos, classCaught, classMode, classSpent, classStore, readerDisk,
    readerDir, readerStored, readerWalk, readerRd, readerHeld, readerCache, readerLeft

Archive == INSTANCE ArchiveRefresh WITH
    disk <- archiveDisk, hints <- archiveHints, db <- archiveDb, job <- archiveJob,
    shown <- archiveShown, left <- archiveLeft, Files <- ArchiveFiles

Classification == INSTANCE ReplayClassification WITH
    corpus <- classCorpus, pos <- classPos, caught <- classCaught, mode <- classMode,
    spent <- classSpent, store <- classStore

Reader == INSTANCE CodexReader WITH
    disk <- readerDisk, dir <- readerDir, stored <- readerStored, walk <- readerWalk,
    rd <- readerRd, held <- readerHeld, cache <- readerCache, left <- readerLeft

-----------------------------------------------------------------------------
(* The instance of ArchiveRefresh.                                           *)

MCFiles == {1, 2}
MCDeferred == {<<1, 2>>}

Scenario(initial, grow, tear, replace, remove, restore, crash, cancel) ==
    [initial |-> initial, grow |-> grow, tear |-> tear, replace |-> replace,
     remove |-> remove, restore |-> restore, crash |-> crash, cancel |-> cancel,
     lasting |-> remove = 0]

\* Growth under crashes; replacement under crashes and cancellations; incomplete lines;
\* an empty directory that fills, or stays empty under a crash; removals and returns.
MCScenarios ==
    { Scenario({1, 2}, 2, 0, 0, 0, 0, 1, 0),
      Scenario({1, 2}, 0, 0, 1, 0, 0, 1, 1),
      Scenario({1}, 1, 0, 1, 0, 0, 1, 0),
      Scenario({2}, 1, 1, 1, 0, 0, 0, 0),
      Scenario({}, 1, 0, 2, 0, 0, 0, 0),
      Scenario({}, 0, 0, 0, 0, 0, 1, 0),
      Scenario({1, 2}, 0, 0, 0, 1, 1, 1, 1),
      Scenario({2}, 1, 1, 0, 1, 1, 0, 0) }

\* A process that dies while it imports an empty directory for the first time.
FirstImport == { Scenario({}, 0, 0, 0, 0, 0, 1, 0) }

ASSUME ArchiveFilesAreKeys == Archive!FilesAreKeys
-----------------------------------------------------------------------------
(* The instance of ReplayClassification.                                     *)

Use(s, p, o, u) == [kind |-> "event", session |-> s, parent |-> p, ordinal |-> o,
                    usage |-> u, strong |-> TRUE, conflict |-> FALSE]
Meta(s, p) == [kind |-> "relation", session |-> s, parent |-> p, ordinal |-> 0,
               usage |-> u1, strong |-> FALSE, conflict |-> FALSE]

Uses(s, p, us) == [i \in 1 .. Len(us) |-> Use(s, p, i - 1, us[i])]
Root(s, us) == Uses(s, NoSession, us)
Fork(s, p, us) == <<Meta(s, p)>> \o Uses(s, p, us)
\* The parent is named after the first line of usage.
LateFork(s, p, us) == <<Use(s, NoSession, 0, us[1]), Meta(s, p)>> \o Tail(Uses(s, p, us))
Weak(file) == [i \in 1 .. Len(file) |-> [file[i] EXCEPT !.strong = (i > 2)]]
\* Two parents: the second is named after the first line of usage.
Torn(s, p, q, us) ==
    LET Refuse(line) == [line EXCEPT !.conflict = TRUE]
        file == Fork(s, p, us)
    IN  SubSeq(file, 1, 2) \o <<Refuse(Meta(s, q))>>
        \o [i \in 1 .. Len(us) - 1 |-> Refuse(file[i + 2])]

Lineages ==
    {<<Fork(2, 1, <<u1, u2, u3>>), Root(1, <<u1, u2, u4>>)>>,
     <<Fork(2, 1, <<u1, u3, u4>>), Root(1, <<u1, u2, u4>>)>>,
     <<Root(1, <<u1, u2>>), Fork(3, 2, <<u1, u2>>), Fork(2, 1, <<u1, u3>>)>>,
     <<LateFork(2, 1, <<u1, u2>>), Root(1, <<u1, u2>>), Fork(3, 2, <<u1, u2>>)>>,
     <<Weak(Fork(2, 1, <<u1, u2>>)), Weak(Root(1, <<u1, u2>>))>>,
     <<Fork(2, 1, <<u1>>), Fork(1, 2, <<u1>>), Fork(3, 1, <<u1>>)>>,
     <<Torn(2, 1, 4, <<u1, u2>>), Root(1, <<u1>>), Fork(3, 2, <<u1, u2>>)>>,
     <<Root(1, <<u1>>), Fork(2, 1, <<u1>>), Fork(3, 1, <<u1>>), Fork(4, 1, <<u2>>)>>,
     <<Root(1, <<u1>>), Fork(2, 1, <<u1>>), Fork(3, 2, <<u1>>), Fork(4, 3, <<u1>>)>>}

ASSUME ClassificationClassificationAssumption == Classification!ClassificationAssumption
-----------------------------------------------------------------------------
(* The instance of CodexReader.                                              *)

Line == [relevant |-> TRUE, json |-> TRUE, time |-> 1, payload |-> TRUE, models |-> <<>>,
         tier |-> "none", header |-> FALSE, id |-> "none", session |-> "none", cwd |-> "missing", parents |-> <<>>,
         tool |-> "none", count |-> FALSE, last |-> -1, total |-> -1,
         plain |-> -1, own |-> <<>>]

Lines == [meta  |-> [Line EXCEPT !.header = TRUE, !.id = "s", !.session = "t", !.cwd = "repo",
                               !.models = <<"invalid", "m">>],
          fork  |-> [Line EXCEPT !.parents = <<"s">>],
          split |-> [Line EXCEPT !.parents = <<"p", "q">>, !.cwd = "invalid"],
          tool  |-> [Line EXCEPT !.tool = "cat"],
          patch |-> [Line EXCEPT !.tool = "patch", !.tier = "fast"],
          two   |-> [Line EXCEPT !.count = TRUE, !.total = 2],
          five  |-> [Line EXCEPT !.count = TRUE, !.total = 5, !.own = <<"none", "m2">>],
          one   |-> [Line EXCEPT !.count = TRUE, !.last = 1, !.total = 1],
          plain |-> [Line EXCEPT !.plain = 3, !.payload = FALSE],
          late  |-> [Line EXCEPT !.plain = 3, !.time = 0],
          noise |-> [Line EXCEPT !.relevant = FALSE],
          other |-> [Line EXCEPT !.relevant = FALSE],
          junk  |-> [Line EXCEPT !.json = FALSE]]

Tools == [cat |-> {"read"}, patch |-> {"edit"}]

Day == [writes |-> <<>>, truncate |-> 0, rewrite |-> 0, archive |-> 0, restore |-> 0,
        cancel |-> 0, nothread |-> 0, strict |-> TRUE]

\* A log that grows while it is read, in pieces that cut lines.
Growing == {
    [Day EXCEPT !.writes = <<<<"meta", "nl", "two">>, <<"nl", "tool", "nl", "five", "nl">>,
                             <<"two", "nl">>>>, !.cancel = 1],
    [Day EXCEPT !.writes = <<<<"tool", "nl", "two", "nl", "patch", "nl", "two", "nl">>,
                             <<"five", "nl", "plain", "nl">>>>, !.nothread = 1],
    [Day EXCEPT !.writes = <<<<"fork", "nl", "meta", "nl">>, <<"one", "nl", "tool", "nl">>,
                             <<"patch", "nl", "split", "nl">>>>, !.cancel = 1],
    [Day EXCEPT !.strict = FALSE,
                !.writes = <<<<"meta", "nl", "two", "two", "two">>, <<"two", "five">>,
                             <<"nl", "two", "nl", "late", "nl">>, <<"junk", "nl", "five", "nl">>>>]}

\* A log that is archived, put back, truncated or rewritten meanwhile.
Disturbed == {
    [Day EXCEPT !.writes = <<<<"meta", "nl", "two", "nl">>, <<"five", "nl">>>>,
                !.archive = 1, !.restore = 1],
    [Day EXCEPT !.writes = <<<<"two", "nl", "one", "nl">>, <<"five", "nl">>>>, !.rewrite = 1],
    [Day EXCEPT !.writes = <<<<"two", "nl", "five", "nl">>, <<"one", "nl">>>>, !.truncate = 1]}

AllDays == Growing \cup Disturbed

archiveVars == <<archiveDisk, archiveHints, archiveDb, archiveJob, archiveShown, archiveLeft>>
classVars == <<classCorpus, classPos, classCaught, classMode, classSpent, classStore>>
readerVars == <<readerDisk, readerDir, readerStored, readerWalk, readerRd, readerHeld, readerCache,
    readerLeft>>
allVars == <<part, archiveVars, classVars, readerVars>>

\* One component runs; the others stay in one of their initial states.
AllInit ==
    /\ part \in Parts
    /\ Archive!Init
    /\ part # "archive" => archiveLeft = CHOOSE s \in Scenarios : s.initial = {}
    /\ Classification!Init
    /\ part # "classification" => classCorpus = CHOOSE files \in Corpora : TRUE
    /\ part # "classification" => classCaught = {}
    /\ Reader!Init
    /\ part # "reader" => readerLeft = CHOOSE day \in Days : TRUE

AllNext ==
    \/ part = "archive" /\ Archive!Next /\ UNCHANGED <<part, classVars, readerVars>>
    \/ part = "classification" /\ Classification!Next /\ UNCHANGED <<part, archiveVars, readerVars>>
    \/ part = "reader" /\ Reader!Next /\ UNCHANGED <<part, archiveVars, classVars>>
    \/ part \in {"classification", "reader"} /\ UNCHANGED allVars

AllSpec == AllInit /\ [][AllNext]_allVars

\* The fairness of each component, while it is the one that runs.
FairAllSpec ==
    /\ AllSpec
    /\ WF_archiveVars(part = "archive" /\ Archive!Work)
    /\ WF_archiveVars(part = "archive" /\ Archive!Reconcile)
    /\ (part = "reader") => []<><<Reader!Moves>>_readerVars

-----------------------------------------------------------------------------
\* Every line up to a stored checkpoint is in the projection or in the queue of parked
\* work; a publication that calls itself complete is; between two refreshes the readers
\* see the archive as it is and no scan is left running; and no file is taken for missing
\* that never was removed: through crashes, cancellations and failed refreshes
\* (replay.rs, scan.rs, live.rs).
ArchiveIsHonest == part = "archive" => Archive!ArchiveIsHonest

\* An event that was published stays published: neither a rebuild, nor a promotion, nor
\* the removal of its file takes it out of the projection (promote_replay_revision).
NothingForgotten == Archive!NothingForgotten

\* Once the files rest and end in complete lines, the readers come to see every line and
\* go on seeing it in a publication that is complete, when no file is ever removed and no
\* startup is refused (the reconciliations of runtime/live.rs).
ArchiveCatchesUp == part = "archive" => Archive!CatchesUp

\* Whatever the order and the batches in which files are read, the bounded work settles
\* before a run gives up, leaves every observation with the disposition the lineage
\* evidence admits, suppresses usage only on proof, and a drained current revision counts
\* every event that some file shows to be the session's own, once (replay.rs: classify,
\* continue_replay_work, select, promote).
ClassificationIsExact ==
    part = "classification" => Classification!ClassificationIsExact

\* What the archive holds of a log that only grew is what one parse from the start
\* yields, whatever the batch limits, buffer edges, restarts and moves were; the chunk
\* rows attest exactly the bytes the events were parsed from, also when the log is
\* rewritten meanwhile; and every state of the parser is accepted when it is read back
\* (reader/mod.rs, parser).
ReadIsParsed == part = "reader" => Reader!ReadIsParsed

\* A log that only grew and has come to rest is read to its end: no batch limit,
\* oversized line, discarded prefetch or move leaves the reader short of it for ever
\* (reader/mod.rs: read_lines).
ReaderCatchesUp == part = "reader" => Reader!CatchesUp

\* A startup takes up what the last process left: it promotes a sealed revision and
\* discards an invalid unpublished one, and is not refused for either (recovery.rs).
StartupRecovers == part = "archive" => Archive!StartupRecovers
=============================================================================
