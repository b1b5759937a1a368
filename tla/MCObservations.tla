---------------------------- MODULE MCObservations ----------------------------
(*****************************************************************************)
(* Three stores of observations: the benefit inventory, the quota runtime    *)
(* and the Git output runtime. A behaviour is one of one of the Parts.       *)
(*****************************************************************************)
EXTENDS Integers, Sequences, TLC

CONSTANTS
    Parts,   \* the components this instance runs
    Scopes, Lots, Defaults, MaxLots, MaxChanges, MaxDeliveries, KeptChanges,
    KeptDeliveries, BenefitPage, MaxScopes, MaxOverviewLots, FreshFor, StaleFor,
    PageSize, Histories, Observations, Profiles, MaxSamples, MaxHistory, SoftSamples,
    MaxWindows, Windows, Answers, QuotaDays, LastTime, Page, Commits, Features, Alias,
    ShallowCut, MaxDays, MaxPaths, MaxRepositories, MaxAssociations, IdOrder, Repo,
    RepoOf, Hints, Scripts, GitDays, MaxSlots, MaxHeads, UsageAnswer, GitLastTime,
    FirstDay, LastDay

VARIABLES
    part,    \* the component that runs in this behaviour
    benefitDb, benefitNow, benefitLeft, benefitPast, quotaDb, quotaStats, quotaWall,
    quotaOpen, quotaWk, quotaProc, quotaAtt, quotaLatest, quotaCadence, quotaLeft,
    quotaPast, gitWorld, gitHints, gitPhase, gitDue, gitPending, gitAtt, gitDb,
    gitWall, gitLeft, gitWrong

Benefits == INSTANCE BenefitInventory WITH
    db <- benefitDb, now <- benefitNow, left <- benefitLeft, past <- benefitPast,
    Page <- BenefitPage

Quota == INSTANCE QuotaRuntime WITH
    db <- quotaDb, stats <- quotaStats, wall <- quotaWall, open <- quotaOpen,
    wk <- quotaWk, proc <- quotaProc, att <- quotaAtt, latest <- quotaLatest,
    cadence <- quotaCadence, left <- quotaLeft, past <- quotaPast, Days <- QuotaDays

Git == INSTANCE GitRuntime WITH
    world <- gitWorld, hints <- gitHints, phase <- gitPhase, due <- gitDue,
    pending <- gitPending, att <- gitAtt, db <- gitDb, wall <- gitWall,
    left <- gitLeft, wrong <- gitWrong, Commit <- Commits, Days <- GitDays,
    Usage <- UsageAnswer, LastTime <- GitLastTime

-----------------------------------------------------------------------------
(* The instance of BenefitInventory.                                         *)

Lot(l, state, expiry) ==
    [lot |-> l, is |-> [state |-> state, quantity |-> 1, expiry |-> expiry, other |-> 0]]

Answer(complete, lots) == [complete |-> complete, lots |-> lots]

MCObservations ==
    {Answer(TRUE, {Lot(1, "available", 4)}),
     Answer(TRUE, {Lot(1, "activated", 4)}),
     Answer(TRUE, {Lot(1, "available", 3), Lot(2, "available", 4)}),
     Answer(FALSE, {Lot(2, "available", 4)}),
     Answer(TRUE, {})}

MCDefaults == [rev |-> 1, leads |-> {1, 2}, channels |-> {"in_app"}]

MCHistories ==
    {[observe |-> 5, profile |-> 0, deliver |-> 0, maintain |-> 2, time |-> 0],
     [observe |-> 2, profile |-> 1, deliver |-> 2, maintain |-> 0, time |-> 2],
     [observe |-> 2, profile |-> 0, deliver |-> 3, maintain |-> 1, time |-> 2]}

-----------------------------------------------------------------------------
(* The instance of QuotaRuntime.                                             *)

Window(slot, used, resets) == [slot |-> slot, used |-> used, minutes |-> 300, resets |-> resets]

Limit(windows) == [id |-> "codex", embedded |-> "codex", windows |-> windows]

Codex(account, limits, credits) ==
    [kind |-> "codex", account |-> account, limits |-> limits, credits |-> credits]

First == <<"codex", "primary", 300>>
Second == <<"codex", "secondary", 300>>

Both(u, r) == Codex("chatgpt", <<Limit(<<Window("primary", u, r), Window("secondary", 1, 9)>>)>>, {[available |-> 2, detailed |-> 1]})

Only(u, r) == Codex("chatgpt", <<Limit(<<Window("primary", u, r)>>)>>, {})

Bad == {Codex("apikey", <<>>, {}), Codex("chatgpt", <<>>, {}),
        Codex("chatgpt", <<Limit(<<Window("primary", 101, 5)>>)>>, {}),
        Codex("chatgpt", <<Limit(<<Window("primary", 5, 5)>>)>>, {[available |-> 0, detailed |-> 1]})}

Def == [rev |-> 1, semantics |-> "rolling", thresholds |-> [maxUsed |-> -1, minRemaining |-> -1, minDrop |-> -1]]

Fact(n, def, used, unit, unitsUsed, cap, evidence, provider) ==
    [window |-> First, def |-> def,
     sample |-> [id |-> n, at |-> 0, rev |-> def.rev, provider |-> provider, used |-> used, remaining |-> -1,
                 unit |-> unit, unitsUsed |-> unitsUsed, cap |-> cap, resets |-> 3,
                 quality |-> "authoritative", confidence |-> "high", evidence |-> evidence, occurred |-> -1]]

Other(f) == [kind |-> "source", facts |-> <<f>>]

Def2 == [Def EXCEPT !.rev = 2]

Others == {Other(Fact(1, Def, 4, "tokens", 4, 9, "none", "p")), Other(Fact(2, Def, 2, "tokens", 2, 12, "none", "p")),
           Other(Fact(3, Def, 2, "tokens", 2, 9, "explicit", "q")), Other(Fact(4, Def2, 4, "calls", 1, 9, "manual", "p"))}

MCWindows == {First, Second}

MCAnswers == [usage  |-> {Only(5, 4), Only(2, 4), Only(1, 8)},
              stops  |-> {Both(3, 4), Both(2, 8)},
              faults |-> {Both(3, 4)} \cup Bad,
              others |-> Others \cup {Only(5, 4)}]

Day(pool, submit, store, process, silence, clock, cleanup, pause, back, maintain, crash) ==
    [pool |-> pool, submit |-> submit, store |-> store, process |-> process, silence |-> silence, clock |-> clock,
     cleanup |-> cleanup, pause |-> pause, back |-> back, maintain |-> maintain, crash |-> crash]

MCDays == {Day("usage", 3, 0, 0, 0, 0, 0, 0, 0, 1, 0), Day("stops", 1, 0, 0, 0, 0, 0, 1, 0, 0, 0),
           Day("faults", 1, 0, 1, 1, 1, 1, 0, 0, 0, 0), Day("stops", 1, 1, 0, 0, 0, 0, 0, 1, 0, 0), Day("stops", 1, 0, 0, 0, 0, 0, 0, 0, 0, 1),
           Day("others", 2, 0, 0, 0, 0, 0, 0, 0, 1, 0)}

-----------------------------------------------------------------------------
(* The instance of GitRuntime.                                               *)

Text(path, n) == [path |-> path, from |-> path, kind |-> "text", lines |-> n, renamed |-> FALSE]
Moved(from, path, n) == [path |-> path, from |-> from, kind |-> "text", lines |-> n, renamed |-> TRUE]
Opaque(path, kind) == [path |-> path, from |-> path, kind |-> kind, lines |-> 0, renamed |-> FALSE]

By(author, day, parents, paths) == [author |-> author, day |-> day, parents |-> parents, paths |-> paths]

MCCommit == <<By("me", 1, <<>>, <<Text("src", 3)>>),
              By("me", 2, <<1>>, <<Moved("old", "src", 2), Text("doc", 1)>>),
              By("you", 3, <<1>>, <<Text("vendored", 4)>>),
              By("me", 3, <<2, 3>>, <<Text("src", 9)>>),
              By("me", 1, <<2>>, <<Opaque("logo", "binary"), Text("src", 5), Opaque("lib", "submodule")>>),
              By("me", 4, <<1>>, <<Text("test", 2)>>)>>

MCFeatures == [p \in {"src", "old", "doc", "vendored", "logo", "lib", "test"} |->
                 CASE p = "src" -> {"code"} [] p = "old" -> {"code"} [] p = "doc" -> {"docs"}
                   [] p = "vendored" -> {"vendor", "code"} [] p = "logo" -> {"asset"}
                   [] p = "lib" -> {} [] p = "test" -> {"test", "code"}]

MCAlias == [plain |-> [me |-> "me", you |-> "you"], joined |-> [me |-> "me", you |-> "me"],
            renamed |-> [me |-> "us", you |-> "you"]]

At(a, b) == [refs |-> [a |-> a, b |-> b], author |-> "me", mailmap |-> "plain", shallow |-> FALSE, present |-> TRUE]

Still == <<At(1, 0)>>

Grow    == <<At(1, 0), At(2, 0), At(4, 0)>>
Branch  == <<At(2, 0), At(2, 6), At(5, 6)>>
Rewrite == <<At(5, 0), At(6, 0), At(6, 2)>>
Config  == <<[At(3, 2) EXCEPT !.mailmap = "renamed"], At(3, 2), [At(3, 2) EXCEPT !.mailmap = "joined"]>>
Fade    == <<At(2, 0), [At(2, 0) EXCEPT !.author = "nobody"], [At(0, 0) EXCEPT !.present = FALSE], At(6, 0)>>
Deepen  == <<[At(2, 0) EXCEPT !.shallow = TRUE], [At(4, 0) EXCEPT !.shallow = TRUE], At(4, 6)>>
Empty   == <<At(0, 0), At(1, 0)>>

MCRepo == {"r1", "r2"}

On(s) == [r1 |-> s, r2 |-> Still]

MCScripts == [grow |-> On(Grow), branch |-> On(Branch), rewrite |-> On(Rewrite), config |-> On(Config),
              fade |-> On(Fade), deepen |-> On(Deepen), empty |-> On(Empty), still |-> On(Still)]

MCRepoOf == [main |-> "r1", tree |-> "r1", side |-> "r2"]

Hint(path, session, project) == [path |-> path, session |-> session, project |-> project, activity |-> 1]

MCHints == {Hint("main", "s1", "alpha"), Hint("tree", "s2", "alpha"), Hint("side", "s1", "none")}

GitDay(script, paths, hint, poll, fault, busy, pause, recover, stop, crash) ==
    [script |-> script, paths |-> paths, hint |-> hint, poll |-> poll, fault |-> fault, busy |-> busy,
     pause |-> pause, recover |-> recover, stop |-> stop, crash |-> crash]

MCUsage == [failed |-> "none", complete |-> TRUE, at |-> 1, projects |-> <<"beta", "alpha">>,
            cost |-> [alpha |-> 7, beta |-> 11]]

MCIdOrder == <<"r2", "r1">>

One == {"main"}
Two == {"main", "tree"}
All == {"main", "tree", "side"}

GitMCDays == {GitDay("grow", One, 1, 2, 0, 0, 0, 0, 0, 0), GitDay("branch", One, 1, 2, 0, 0, 0, 0, 0, 0),
           GitDay("rewrite", Two, 2, 1, 0, 0, 0, 0, 0, 0), GitDay("config", One, 1, 2, 0, 0, 0, 0, 0, 0),
           GitDay("fade", One, 1, 1, 0, 1, 0, 0, 0, 0), GitDay("deepen", One, 1, 2, 0, 0, 0, 0, 0, 0),
           GitDay("empty", One, 1, 1, 0, 0, 1, 0, 0, 0), GitDay("grow", One, 1, 1, 1, 0, 0, 1, 0, 0),
           GitDay("rewrite", One, 1, 1, 0, 0, 0, 0, 1, 1), GitDay("still", All, 3, 0, 0, 0, 0, 0, 0, 0)}

benefitVars == <<benefitDb, benefitNow, benefitLeft, benefitPast>>
quotaVars == <<quotaDb, quotaStats, quotaWall, quotaOpen, quotaWk, quotaProc, quotaAtt,
    quotaLatest, quotaCadence, quotaLeft, quotaPast>>
gitVars == <<gitWorld, gitHints, gitPhase, gitDue, gitPending, gitAtt, gitDb, gitWall, gitLeft,
    gitWrong>>
allVars == <<part, benefitVars, quotaVars, gitVars>>

\* One component runs; the others stay in one of their initial states.
AllInit ==
    /\ part \in Parts
    /\ Benefits!Init
    /\ part # "benefits" => benefitLeft = CHOOSE h \in Histories : TRUE
    /\ Quota!Init
    /\ part # "quota" => quotaLeft = CHOOSE d \in QuotaDays : TRUE
    /\ Git!Init
    /\ part # "git" => gitLeft = CHOOSE d \in GitDays : TRUE

AllNext ==
    \/ part = "benefits" /\ Benefits!Next /\ UNCHANGED <<part, quotaVars, gitVars>>
    \/ part = "quota" /\ Quota!Next /\ UNCHANGED <<part, benefitVars, gitVars>>
    \/ part = "git" /\ Git!Next /\ UNCHANGED <<part, benefitVars, quotaVars>>
    \/ part \in {"benefits", "git"} /\ UNCHANGED allVars

AllSpec == AllInit /\ [][AllNext]_allVars

\* The fairness of each component, while it is the one that runs.
FairAllSpec ==
    /\ AllSpec
    /\ WF_quotaVars(part = "quota" /\ (Quota!PipesClosed \/ Quota!Collect))
    /\ WF_quotaVars(part = "quota" /\ ((Quota!Exchange /\ ~ quotaProc.expired) \/ Quota!Expire))

-----------------------------------------------------------------------------
\* Whatever observations, retirements and trimmings came before: every query over the
\* inventory answers, no revision of a lot is used twice, and every reminder is owed,
\* delivered or obsolete, once (benefit_write.rs, benefit_maintenance.rs,
\* query/benefit.rs).
InventoryIsSound == part = "benefits" => Benefits!InventoryIsSound

\* What an attempt reports as a success is stored, the maxima of an epoch survive
\* retention, the history is one chain of epochs and transitions, and every row that is
\* stored can be read (quota_write.rs, quota_maintenance.rs, quota/detector.rs,
\* query/quota.rs).
QuotaIsSound == part = "quota" => Quota!QuotaIsSound

\* An attempt to read the quota ends: the process it started is stopped at its deadline
\* and its pipes are closed (codex transport).
AttemptEnds == part = "quota" => Quota!AttemptEnds

\* The stored output is what one scan of the repository as it was inspected yields, a
\* result is published only for the request it was made for, and a range of days is
\* called complete only when none of its rows were dropped (runtime/git, git_write,
\* git_query.rs).
OutputIsSound == part = "git" => Git!OutputIsSound

\* The tables every observation leaves behind pass the validation of the next writable
\* open, also when a lot that had ended is reported again (migration.rs:
\* validate_benefit_state).
ArchiveReopens == part = "benefits" => Benefits!ArchiveReopens
=============================================================================
