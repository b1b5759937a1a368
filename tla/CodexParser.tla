----------------------------- MODULE CodexParser -----------------------------
(***************************************************************************)
(* What one complete line of a Codex session log does (codex/parser): its  *)
(* effect on the parser's state and the usage event or session relation it *)
(* yields, and what of the state survives in a checkpoint.  A line is a    *)
(* token; Raw gives the fields its JSON has after the wire types have      *)
(* rejected what is malformed in them.  The five token counters of a usage *)
(* record move together, so one number stands for them; the five display   *)
(* fields that keep their last value are one, "tier".                      *)
(***************************************************************************)
EXTENDS Integers, Sequences, FiniteSets, SequencesExt, FiniteSetsExt

CONSTANTS Raw,          \* [line token -> its fields]
          ToolFeatures, \* [tool name -> the markers it contains]
          NameHint,     \* the session the file name suggests, or "none"
          HashHint,     \* the session hashed from the path
          MaxTools      \* MAX_TOOL_NAMES

Nothing == "none"

NoCount == -1

Kinds == {"read", "edit", "terminal"}

NoActivity == [k \in Kinds |-> 0]

\* classify_tool: the first list of markers with a match.
ClassifyTool(name) ==
    CASE "read" \in ToolFeatures[name] -> "read"
      [] "edit" \in ToolFeatures[name] -> "edit"
      [] OTHER -> "terminal"

\* ParserState::new
NewState == [model |-> Nothing, totals |-> NoCount, tier |-> Nothing, session |-> Nothing,
             parent |-> Nothing, conflict |-> FALSE, ordinal |-> 0, project |-> Nothing,
             candidate |-> Nothing, placed |-> Nothing, hint |-> <<>>,
             pending |-> NoActivity, aggregate |-> NoActivity,
             tools |-> <<>>, others |-> 0]

Or(a, b) == IF a # Nothing THEN a ELSE b

(***************************************************************************)
(* What a line says.                                                       *)
(***************************************************************************)
\* lineage_metadata: the first parent named; a second, different one conflicts.
Lineage(r) == [parent   |-> IF r.parents = <<>> THEN Nothing ELSE Head(r.parents),
               conflict |-> \E i \in 1..Len(r.parents) : r.parents[i] # r.parents[1]]

\* repository_candidate
Candidate(r) == CASE r.cwd = "missing" -> "missing"
                  [] r.cwd = "invalid" -> "clear"
                  [] OTHER             -> r.cwd

\* project_alias: the directory's own name.
Alias(r) == IF r.cwd \in {"missing", "invalid"} THEN Nothing ELSE r.cwd

\* first_model and normalize_explicit_model: the first usable name of several fields.
FirstModel(names) ==
    LET usable == {i \in 1..Len(names) : names[i] \notin {Nothing, "invalid"}}
    IN IF usable = {} THEN Nothing ELSE names[Min(usable)]

\* session_metadata: a session header names itself, any other line its session.
SessionOf(r) == IF r.header THEN Or(r.id, r.session) ELSE r.session

\* MetadataUpdate::default
NoMetadata == [model |-> Nothing, tier |-> Nothing, session |-> Nothing, project |-> Nothing,
               candidate |-> "missing", parent |-> Nothing, conflict |-> FALSE]

\* metadata_update, with or without the model
Metadata(r, withModel) ==
    IF ~r.payload THEN NoMetadata
    ELSE [model     |-> IF withModel THEN FirstModel(r.models) ELSE Nothing,
          tier      |-> r.tier,
          session   |-> SessionOf(r),
          project   |-> Alias(r),
          candidate |-> Candidate(r),
          parent    |-> Lineage(r).parent,
          conflict  |-> Lineage(r).conflict]

\* resolved_session_id
Session(s, m) == Or(m.session, Or(s.session, Or(NameHint, HashHint)))

\* normalize_lineage_conflict
Normalized(s, m) ==
    LET session   == Session(s, m)
        effective == Or(m.parent, s.parent)
    IN [m EXCEPT !.conflict = \/ @
                              \/ s.conflict
                              \/ effective # Nothing /\ effective = session
                              \/ /\ m.parent # Nothing
                                 /\ s.parent # Nothing
                                 /\ m.parent # s.parent]

\* apply_metadata
ApplyMetadata(s, m) ==
    [s EXCEPT !.parent    = IF @ = Nothing THEN m.parent ELSE @,
              !.conflict  = @ \/ m.conflict
                              \/ (m.parent # Nothing /\ s.parent \notin {Nothing, m.parent}),
              !.model     = Or(m.model, @),
              !.tier      = Or(m.tier, @),
              !.session   = Or(m.session, @),
              !.project   = Or(m.project, @),
              !.candidate = CASE m.candidate = "missing" -> @
                              [] m.candidate = "clear"   -> Nothing
                              [] OTHER                   -> m.candidate,
              !.placed    = CASE m.candidate = "missing" -> @
                              [] m.candidate = "clear"   -> Nothing
                              [] OTHER                   -> m.project]

\* tool_update and record_tool: the call counts for its kind and under its name, or
\* as another tool when the names are full.
RecordTool(s, name) ==
    IF name = Nothing THEN s
    ELSE LET kind  == ClassifyTool(name)
             known == name \in DOMAIN s.tools
             room  == Cardinality(DOMAIN s.tools) < MaxTools
         IN [s EXCEPT !.pending[kind] = @ + 1, !.aggregate[kind] = @ + 1,
                      !.tools = IF known THEN [@ EXCEPT ![name] = @ + 1]
                                ELSE IF room THEN [n \in DOMAIN @ \cup {name} |->
                                                     IF n = name THEN 1 ELSE @[n]]
                                ELSE @,
                      !.others = IF known \/ room THEN @ ELSE @ + 1]

\* record_repository_activity_hint: the latest place the session worked in.
RecordHint(s, m, time) ==
    LET place   == IF m.candidate = "missing" THEN s.candidate ELSE m.candidate
        project == IF m.candidate = "missing" THEN s.placed ELSE m.project
    IN IF time = 0 \/ m.candidate = "clear" \/ place = Nothing THEN s
       ELSE [s EXCEPT !.hint = <<[session |-> Session(s, m), at |-> time,
                                  candidate |-> place, project |-> project]>>]

(***************************************************************************)
(* Usage.                                                                  *)
(***************************************************************************)
\* subtract_usage: what was used since the previous total; a counter that went down
\* started anew.
Subtract(current, previous) ==
    IF previous # NoCount /\ current >= previous THEN current - previous ELSE current

\* line_effect and effect_from_result, or usage NoCount when the line has none.
Effect(r, totals) ==
    LET of(usage, baseline, explicit, own) ==
            [usage |-> usage, baseline |-> baseline, model |-> explicit, own |-> own]
    IN IF r.count
       THEN IF r.last # NoCount THEN of(r.last, r.total, FirstModel(r.own), TRUE)
            ELSE IF r.total # NoCount
            THEN of(Subtract(r.total, totals), r.total, FirstModel(r.own), TRUE)
            ELSE of(NoCount, NoCount, Nothing, TRUE)
       ELSE of(r.plain, NoCount, FirstModel(r.own), FALSE)

\* resolve_model: the line's own model, the session's, or the fallback.
ResolveModel(explicit, m, s) == Or(explicit, Or(m.model, Or(s.model, "unknown")))

Silent(s, outcome) == [state |-> s, outcome |-> outcome, event |-> <<>>, relation |-> <<>>]

\* The part of parse_line for a line without usage.
ParseMetadata(r, s, m, offset) ==
    [Silent(RecordTool(ApplyMetadata(RecordHint(s, m, r.time), m), r.tool), "metadata") EXCEPT
       !.relation = IF m.parent = Nothing THEN <<>>
                    ELSE <<[session |-> Session(s, m), parent |-> m.parent,
                            conflict |-> m.conflict, offset |-> offset]>>]

\* The part of parse_line for a line whose usage is zero: it moves the baseline.
ParseZero(r, s, m, effect) ==
    Silent([RecordTool(ApplyMetadata(s, m), r.tool)
              EXCEPT !.totals = IF effect.baseline # NoCount THEN effect.baseline ELSE @],
           "zero")

\* ObservationDraft::new with what parse_line hands it.
Draft(r, s, m, effect, offset) ==
    [session |-> Session(s, m), parent |-> Or(m.parent, s.parent), conflict |-> m.conflict,
     ordinal |-> s.ordinal, offset |-> offset, time |-> r.time,
     model |-> ResolveModel(effect.model, m, s), usage |-> effect.usage,
     cumulative |-> effect.baseline, tier |-> Or(m.tier, s.tier),
     project |-> Or(m.project, s.project),
     activity |-> IF r.tool = Nothing THEN s.pending
                  ELSE [s.pending EXCEPT ![ClassifyTool(r.tool)] = @ + 1]]

\* The part of parse_line for a line with usage.
ParseUsage(r, s, m, effect, offset) ==
    LET t == RecordTool(ApplyMetadata(RecordHint(s, m, r.time), m), r.tool)
    IN [Silent([t EXCEPT !.totals  = IF effect.baseline # NoCount THEN effect.baseline ELSE @,
                         !.model   = ResolveModel(effect.model, m, s),
                         !.session = Or(@, Session(s, m)),
                         !.ordinal = @ + 1,
                         !.pending = NoActivity], "usage")
        EXCEPT !.event = <<Draft(r, s, m, effect, offset)>>]

\* parse_line
ParseEffect(r, s, effect, offset) ==
    LET m(withModel) == Normalized(s, Metadata(r, withModel))
    IN CASE effect.usage = NoCount -> ParseMetadata(r, s, m(TRUE), offset)
         [] effect.usage # NoCount /\ r.time = 0 -> Silent(s, "malformed")
         [] effect.usage = 0 /\ r.time # 0       -> ParseZero(r, s, m(TRUE), effect)
         [] OTHER -> ParseUsage(r, s, m(~effect.own /\ effect.model = Nothing), effect, offset)

ParseRecord(s, r, offset) ==
    CASE ~r.relevant           -> Silent(s, "irrelevant")
      [] r.relevant /\ ~r.json -> Silent(s, "malformed")
      [] r.relevant /\ r.json  -> ParseEffect(r, s, Effect(r, s.totals), offset)

ParseLine(s, token, offset) == ParseRecord(s, Raw[token], offset)

(***************************************************************************)
(* Resumption.                                                             *)
(***************************************************************************)

\* snapshot: everything but the repository paths.
Snapshot(s) == [s EXCEPT !.candidate = Nothing, !.placed = Nothing, !.hint = <<>>]

\* from_resume: the saved states that are accepted.
Resumable(s) ==
    /\ s.others > 0 => Cardinality(DOMAIN s.tools) = MaxTools
    /\ \A n \in DOMAIN s.tools : s.tools[n] > 0
    /\ \A k \in Kinds : s.pending[k] <= s.aggregate[k]
    /\ s.parent # Nothing /\ s.parent = s.session => s.conflict
=============================================================================
