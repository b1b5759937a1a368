---------------------------- MODULE QuotaRuntime ----------------------------
(***************************************************************************)
(* The provider quota runtime (runtime/quota, codex/quota): one worker      *)
(* reads the wall clock, talks to the provider's app-server process under a *)
(* timeout, normalizes its two answers, and publishes every window and the  *)
(* benefit inventory under the writer lease, one transaction each.          *)
(*                                                                          *)
(* An answer of the provider is a record of the account, the windows and    *)
(* the reset credits; texts are abstracted to whether they are accepted.    *)
(* The scheduler and the worker's queue are the ones of RefreshScheduler    *)
(* and RefreshWorker: here a request starts an attempt or becomes the one   *)
(* follow-up.  left bounds the environment.                                 *)
(***************************************************************************)
EXTENDS QuotaStore

CONSTANTS Windows,      \* the window identities that can occur
          Answers,      \* what the provider may answer, by kind of day
          Days,         \* the environment's budgets, one is chosen
          LastTime,     \* the wall clock's last value
          Page          \* the page size of maintenance

VARIABLES db,       \* the quota tables, by window
          stats,    \* the row of quota_state
          wall,     \* the wall clock
          open,     \* the admission gate
          wk,       \* the worker: step, follow-up, cancellation
          proc,     \* the app-server process and the thread talking to it
          att,      \* what the attempt has gathered
          latest,   \* the published refresh snapshot
          cadence,  \* the poll health the attempt leaves with the scheduler
          left,     \* what the environment may still do
          past      \* history: the samples committed, the windows the last quota success is about

vars == <<db, stats, wall, open, wk, proc, att, latest, cadence, left, past>>

Spend(what) == left[what] > 0 /\ left' = [left EXCEPT ![what] = @ - 1]

-----------------------------------------------------------------------------
(* Normalization of the provider's answers.                                 *)

\* normalize_window: the definition and the sample of one slot of a limit.
Observation(limit, slot, win, at) ==
    LET id == <<limit, slot, win.minutes>>
        d  == [rev |-> 1, semantics |-> "fixed",
               thresholds |-> [maxUsed |-> 100, minRemaining |-> None, minDrop |-> 1]]
        s  == [id |-> at * 1000 + win.used * 10 + (win.resets % 10), at |-> at, rev |-> 1,
               provider |-> "none", used |-> win.used, remaining |-> None, unit |-> "none",
               unitsUsed |-> None, cap |-> None, resets |-> win.resets, quality |-> "authoritative",
               confidence |-> "medium", evidence |-> "none", occurred |-> None]
    IN [window |-> id, def |-> d, sample |-> s]

WindowInvalid(win) == win.used < 0 \/ win.used > 100 \/ win.minutes = 0 \/ win.resets = 0

\* append_snapshot: the primary window of a limit, then the secondary one.
Slots(limit, at) ==
    [i \in 1..Len(limit.windows) |-> Observation(limit.id, limit.windows[i].slot, limit.windows[i], at)]

LimitInvalid(limit) ==
    \/ limit.embedded # "none" /\ limit.embedded # limit.id
    \/ \E i \in 1..Len(limit.windows) : WindowInvalid(limit.windows[i])

\* normalize_reset_credits: what is not detailed becomes one aggregate lot.
Credits(c) ==
    [lots |-> c.detailed, aggregate |-> c.available - c.detailed,
     completeness |-> IF c.available = c.detailed THEN "complete" ELSE "partial_details"]

Poll(error, quota, benefits) == [error |-> error, quota |-> quota, benefits |-> benefits]

\* normalize_wire: any part that is invalid refuses the whole poll.
NormalizeWire(a, at) ==
    LET quota == FlattenSeq([i \in 1..Len(a.limits) |-> Slots(a.limits[i], at)])
    IN CASE a.account # "chatgpt"                                  -> Poll("account", <<>>, {})
         [] a.account = "chatgpt" /\ (\/ \E c \in a.credits : c.detailed > c.available
                                      \/ \E i \in 1..Len(a.limits) : LimitInvalid(a.limits[i]))
                                                                   -> Poll("invalid_data", <<>>, {})
         [] OTHER -> IF quota = <<>> THEN Poll("unavailable", <<>>, {})
                     ELSE Poll("none", quota, {Credits(c) : c \in a.credits})

\* A source other than Codex reports its windows with evidence of its own.
Reported(a, at) ==
    Poll("none", [i \in 1..Len(a.facts) |->
                    [window |-> a.facts[i].window, def |-> a.facts[i].def,
                     sample |-> [a.facts[i].sample EXCEPT !.id = at * 1000 + @, !.at = at]]], {})

-----------------------------------------------------------------------------
(* What an attempt reports.                                                 *)

NoReport == [statuses |-> <<>>, failure |-> "none", seen |-> 0, done |-> 0, benefitFailure |-> "none"]

ReportFor(poll) == [NoReport EXCEPT !.seen = Cardinality(poll.benefits)]

\* store_publication_code.
PublicationCode(status) ==
    CASE status = "capacity"                                       -> "capacity"
      [] status \in {"invalid", "invalid_stored", "stale_revision"} -> "invalid"
      [] status = "store_busy"                                     -> "busy"
      [] OTHER                                                     -> "store_unavailable"

\* mark_unpublished_domains_failed.
MarkUnpublished(r, count, code) ==
    [r EXCEPT !.failure = IF @ = "none" /\ Len(r.statuses) < count THEN code ELSE @,
              !.benefitFailure = IF @ = "none" /\ r.done < r.seen THEN code ELSE @]

\* publication_successes.
Successes(r, count, attempted) ==
    [quota   |-> attempted /\ r.failure = "none" /\ Len(r.statuses) = count,
     benefit |-> attempted /\ r.seen > 0 /\ r.benefitFailure = "none" /\ r.done = r.seen]

Result(outcome, retry, r, at, good) ==
    [outcome |-> outcome, retry |-> retry, report |-> r, at |-> at, good |-> good]

NothingGood == [quota |-> FALSE, benefit |-> FALSE]

\* AttemptResult::control, ::clock and ::source.
ControlResult(r, count, at, attempted) ==
    Result("cancelled", "normal", r, at, Successes(r, count, attempted))

ClockResult == Result("failed", "normal", NoReport, None, NothingGood)

\* transport_outcome and transport_retry_mode.
SourceResult(error, at) ==
    Result(IF error = "deadline" THEN "deadline_exceeded" ELSE "failed",
           IF error \in {"unavailable", "spawn", "deadline", "exited", "cleanup"} THEN "accelerated" ELSE "normal",
           NoReport, at, NothingGood)

RetryFor(codes) == IF "busy" \in codes THEN "accelerated" ELSE "normal"

OutcomeFor(codes) ==
    IF "cancelled" \in codes THEN "cancelled" ELSE IF "busy" \in codes THEN "busy" ELSE "failed"

\* AttemptResult::publication: the lease, the store or the control stopped the publication.
PublicationResult(code, r, count, at) ==
    LET marked == MarkUnpublished(r, count, code)
    IN IF code = "cancelled" THEN ControlResult(marked, count, at, TRUE)
       ELSE Result(OutcomeFor({code}), RetryFor({code}), marked, at, Successes(marked, count, TRUE))

\* AttemptResult::completed and ::domain_publication.
PublishedResult(r, count, at) ==
    LET codes == {r.failure, r.benefitFailure} \ {"none"}
    IN IF codes = {} THEN Result("completed", "normal", r, at, Successes(r, count, TRUE))
       ELSE Result(OutcomeFor(codes), RetryFor(codes), r, at, Successes(r, count, TRUE))

\* finish: the snapshot keeps the times of earlier successes.
Publish(l, res) ==
    [sequence |-> l.sequence + 1, outcome |-> res.outcome, retry |-> res.retry, report |-> res.report,
     success |-> IF res.outcome = "completed" THEN res.at ELSE l.success,
     quota   |-> IF res.good.quota THEN res.at ELSE l.quota,
     benefit |-> IF res.good.benefit THEN res.at ELSE l.benefit]

NotRun == [sequence |-> 0, outcome |-> "none", retry |-> "normal", report |-> NoReport,
           success |-> None, quota |-> None, benefit |-> None]

-----------------------------------------------------------------------------
NoAttempt == [at |-> None, poll |-> [error |-> "none", quota |-> <<>>, benefits |-> {}], next |-> 1, report |-> NoReport]

NoProcess == [child |-> "none", io |-> 0, got |-> "none", expired |-> FALSE]

\* The worker is at step s of the attempt.
At(s) == wk.step = s

Goes(s) == wk' = [wk EXCEPT !.step = s]

\* The attempt ends: the snapshot and the cadence are published, a follow-up starts.
End(res) ==
    /\ latest' = Publish(latest, res)
    /\ cadence' = IF res.retry = "accelerated" THEN "degraded" ELSE "healthy"
    /\ wk' = [step |-> IF wk.pending THEN "begin" ELSE "idle", pending |-> FALSE, cancelled |-> FALSE]
    /\ att' = NoAttempt
    /\ past' = IF res.good.quota
               THEN [past EXCEPT !.claimed = {att.poll.quota[i].window : i \in 1..Len(att.poll.quota)}]
               ELSE past

Kept == UNCHANGED <<latest, cadence>>

\* run: the permit's control is checked and the wall clock is read.
Begin ==
    /\ At("begin")
    /\ \/ /\ wk.cancelled
          /\ End(ControlResult(NoReport, 0, None, FALSE))
          /\ UNCHANGED left
       \/ /\ ~ wk.cancelled
          /\ Spend("clock")
          /\ End(ClockResult)
       \/ /\ ~ wk.cancelled
          /\ att' = [NoAttempt EXCEPT !.at = wall]
          /\ Goes("spawn")
          /\ Kept /\ UNCHANGED <<left, past>>
    /\ UNCHANGED <<db, stats, wall, open, proc>>

\* poll: the executable is resolved and the process is started with its I/O thread.
Spawn ==
    /\ At("spawn")
    /\ \/ /\ \E e \in {"discovery", "spawn"} : End(SourceResult(e, att.at))
          /\ Spend("process")
          /\ UNCHANGED proc
       \/ /\ proc' = [NoProcess EXCEPT !.child = "running"]
          /\ Goes("poll")
          /\ Kept /\ UNCHANGED <<left, att, past>>
    /\ UNCHANGED <<db, stats, wall, open>>

\* run_protocol: initialize, account/read and account/rateLimits/read, one answer each.
Exchange ==
    /\ proc.child = "running" /\ proc.io < 3
    /\ \/ /\ proc' = [proc EXCEPT !.io = @ + 1]
          /\ UNCHANGED left
       \/ /\ \E e \in {"protocol", "rpc", "version", "exited"} :
               proc' = [proc EXCEPT !.io = 3, !.got = e, !.child = IF e = "exited" THEN "gone" ELSE @]
          /\ Spend("process")
    /\ UNCHANGED <<db, stats, wall, open, wk, att, latest, cadence, past>>

\* Mutant: the process is left running when the wait has expired.
StoppedLeft(p) == p

\* stop_and_reap: the process is killed, which ends the pipes of the I/O thread.
Stopped(p) == [p EXCEPT !.child = "gone"]

\* recv_timeout: the answers did not arrive in time.
Expire ==
    /\ At("poll") /\ proc.io < 3 /\ ~ proc.expired
    /\ Spend("silence")
    /\ proc' = Stopped([proc EXCEPT !.expired = TRUE])
    /\ UNCHANGED <<db, stats, wall, open, wk, att, latest, cadence, past>>

\* The thread finds its pipes closed.
PipesClosed ==
    /\ proc.child = "gone" /\ proc.io < 3
    /\ proc' = [proc EXCEPT !.io = 3, !.got = "exited"]
    /\ UNCHANGED <<db, stats, wall, open, wk, att, latest, cadence, left, past>>

\* OperationControl::check fails.
Interrupted == wk.cancelled

\* stop_reap_and_join: the process is reaped, the thread joined, what it read is taken.
Collect ==
    /\ At("poll") /\ proc.io = 3
    /\ proc' = NoProcess
    /\ Goes("normalize") /\ Kept
    /\ \/ att' = [att EXCEPT !.poll.error = "cleanup"] /\ Spend("cleanup")
       \/ att' = [att EXCEPT !.poll.error = IF proc.expired THEN "deadline" ELSE proc.got] /\ UNCHANGED left
    /\ UNCHANGED <<db, stats, wall, open, past>>

\* normalize_wire, and the checks of run before the publication.
Normalize ==
    /\ At("normalize")
    /\ \/ /\ att.poll.error # "none"
          /\ End(SourceResult(att.poll.error, att.at))
       \/ /\ att.poll.error = "none"
          /\ \E a \in Answers[left.pool] :
               LET poll == IF a.kind = "codex" THEN NormalizeWire(a, att.at) ELSE Reported(a, att.at)
               IN IF poll.error # "none" THEN End(SourceResult(poll.error, att.at))
                  ELSE IF Interrupted
                  THEN End(ControlResult(ReportFor(poll), Len(poll.quota), att.at, FALSE))
                  ELSE /\ att' = [att EXCEPT !.poll = poll, !.report = ReportFor(poll)]
                       /\ Goes("lease")
                       /\ Kept /\ UNCHANGED past
    /\ UNCHANGED <<db, stats, wall, open, proc, left>>

Count == Len(att.poll.quota)

StopPublication(code) == End(PublicationResult(code, att.report, Count, att.at))

\* publish: the lease is tried once and the store is opened.
Acquire ==
    /\ At("lease")
    /\ \/ /\ Interrupted /\ StopPublication("cancelled") /\ UNCHANGED left
       \/ /\ ~ Interrupted
          /\ Spend("store")
          /\ \E code \in {"busy", "store_unavailable"} : StopPublication(code)
       \/ /\ ~ Interrupted
          /\ Goes("apply")
          /\ Kept /\ UNCHANGED <<att, left, past>>
    /\ UNCHANGED <<db, stats, wall, open, proc>>

\* publish_quota_state.
Tallied(row, from, to, s) ==
    [row EXCEPT !.rev = @ + 1,
                !.samples = @ + (Cardinality(to.samples) - Cardinality(from.samples)),
                !.closed = @ + (Cardinality(to.closed) - Cardinality(from.closed)),
                !.transitions = @ + (Cardinality(to.transitions) - Cardinality(from.transitions)),
                !.published = Max({@, s.at})]

\* One window of the poll: apply_quota_observation commits or the remaining windows are left out.
Apply ==
    /\ At("apply") /\ att.next <= Count
    /\ UNCHANGED <<wall, open, proc>>
    /\ \/ /\ Interrupted
          /\ StopPublication("cancelled")
          /\ UNCHANGED <<db, stats, left>>
       \/ /\ ~ Interrupted
          /\ Spend("store")
          /\ att' = [att EXCEPT !.report.failure = "store_unavailable", !.next = Count + 1]
          /\ Kept /\ UNCHANGED <<db, stats, wk, past>>
       \/ /\ ~ Interrupted
          /\ UNCHANGED <<left, wk>> /\ Kept
          /\ LET o   == att.poll.quota[att.next]
                 old == db[o.window]
                 ans == ApplyObservation(old, o.def, o.sample)
             IN IF ans.status \in Applied
                THEN /\ db' = [db EXCEPT ![o.window] = ans.window]
                     /\ stats' = IF ans.window = old THEN stats ELSE Tallied(stats, old, ans.window, o.sample)
                     /\ att' = [att EXCEPT !.report.statuses = Append(@, ans.status), !.next = @ + 1]
                     /\ past' = IF ans.window = old THEN past
                                ELSE [past EXCEPT !.samples = @ \cup {[window |-> o.window, sample |-> o.sample, epoch |-> ans.window.epoch.id]}]
                ELSE /\ att' = [att EXCEPT !.report.failure = PublicationCode(ans.status), !.next = Count + 1]
                     /\ UNCHANGED <<db, stats, past>>

\* The benefit inventory, in a transaction of its own (BenefitInventory), and the last check.
ApplyBenefit ==
    /\ At("apply") /\ att.next > Count
    /\ UNCHANGED <<db, stats, wall, open, proc>>
    /\ \/ /\ Interrupted
          /\ StopPublication("cancelled")
          /\ UNCHANGED left
       \/ /\ ~ Interrupted /\ att.report.seen = 1
          /\ Goes("close") /\ Kept
          /\ \/ /\ Spend("store")
                /\ att' = [att EXCEPT !.report.benefitFailure = "store_unavailable"]
                /\ UNCHANGED past
             \/ /\ att' = [att EXCEPT !.report.done = 1]
                /\ past' = [past EXCEPT !.benefit = Max({@, att.at})]
                /\ UNCHANGED left
       \/ /\ ~ Interrupted /\ att.report.seen = 0
          /\ Goes("close") /\ Kept
          /\ UNCHANGED <<att, left, past>>

Close ==
    /\ At("close")
    /\ IF Interrupted THEN StopPublication("cancelled")
                      ELSE End(PublishedResult(att.report, Count, att.at))
    /\ UNCHANGED <<db, stats, wall, open, proc, left>>

-----------------------------------------------------------------------------
(* The environment.                                                         *)

\* The scheduler submits: startup, the cadence, refresh_now, or a resume.
Submit ==
    /\ open /\ Spend("submit")
    /\ wk' = IF At("idle") THEN [wk EXCEPT !.step = "begin"] ELSE [wk EXCEPT !.pending = TRUE]
    /\ UNCHANGED <<db, stats, wall, open, proc, att, latest, cadence, past>>

\* pause: admission closes and the active permit is cancelled; the follow-up is not.
Pause ==
    /\ open /\ Spend("pause")
    /\ open' = FALSE
    /\ wk' = IF At("idle") THEN wk ELSE [wk EXCEPT !.cancelled = TRUE]
    /\ UNCHANGED <<db, stats, wall, proc, att, latest, cadence, past>>

\* resume: admission opens and the scheduler forces one recovery refresh.
Resume ==
    /\ ~ open
    /\ open' = TRUE
    /\ wk' = IF At("idle") THEN [wk EXCEPT !.step = "begin"] ELSE [wk EXCEPT !.pending = TRUE]
    /\ UNCHANGED <<db, stats, wall, proc, att, latest, cadence, left, past>>

\* The wall clock moves on, or is set back; only an attempt that begins reads it.
Tick ==
    /\ wk.step \in {"idle", "begin"}
    /\ \/ wall < LastTime /\ wall' = wall + 1 /\ UNCHANGED left
       \/ wall > 1 /\ wall' = wall - 1 /\ Spend("back")
    /\ UNCHANGED <<db, stats, open, wk, proc, att, latest, cadence, past>>

\* maintain_quota_history_page of one window.
Maintain ==
    /\ Spend("maintain")
    /\ \E w \in Windows :
         LET next == MaintainPage(db[w], Page)
         IN /\ db' = [db EXCEPT ![w] = next]
            /\ stats' = [stats EXCEPT !.samples = @ - (Cardinality(db[w].samples) - Cardinality(next.samples))]
    /\ UNCHANGED <<wall, open, wk, proc, att, latest, cadence, past>>

\* The application dies at any point and starts again: only the archive is kept.
Crash ==
    /\ Spend("crash")
    /\ open' = TRUE /\ wk' = [step |-> "begin", pending |-> FALSE, cancelled |-> FALSE]
    /\ proc' = NoProcess /\ att' = NoAttempt /\ latest' = NotRun /\ cadence' = "healthy"
    /\ past' = [past EXCEPT !.claimed = {}]
    /\ UNCHANGED <<db, stats, wall>>

\* Nothing is left to do.
Rest == At("idle") /\ UNCHANGED vars

Init ==
    /\ db = [w \in Windows |-> QuotaTables]
    /\ stats = [rev |-> 0, samples |-> 0, closed |-> 0, transitions |-> 0, published |-> 0]
    /\ wall = 1 /\ open = TRUE
    /\ wk = [step |-> "begin", pending |-> FALSE, cancelled |-> FALSE]
    /\ proc = NoProcess /\ att = NoAttempt /\ latest = NotRun /\ cadence = "healthy"
    /\ left \in Days
    /\ past = [samples |-> {}, claimed |-> {}, benefit |-> None]

Attempt == Begin \/ Spawn \/ Exchange \/ PipesClosed \/ Collect \/ Normalize \/ Acquire \/ Apply \/ ApplyBenefit \/ Close

Next == Attempt \/ Expire \/ Submit \/ Pause \/ Resume \/ Tick \/ Maintain \/ Crash \/ Rest

Spec == Init /\ [][Next]_vars

\* The worker and its I/O thread are scheduled; the provider answers or the wait expires.
Fairness ==
    /\ WF_vars(PipesClosed \/ Collect)
    /\ WF_vars((Exchange /\ ~ proc.expired) \/ Expire)

FairSpec == Spec /\ Fairness

-----------------------------------------------------------------------------
(* Properties.                                                              *)

\* The epochs of a window: the closed ones and the current one.
Epochs(w) == {c.epoch : c \in w.closed} \cup ({w.epoch} \ {NoEpoch})

\* What was committed in an epoch of a window.
Committed(w, e) == {p.sample : p \in {q \in past.samples : q.window = w /\ q.epoch = e.id}}

\* The runtime snapshot claims a quota success only for a poll all of whose windows are stored at
\* least as recently as that poll, and a benefit success only when the inventory was committed
\* (publication_successes over partial publications, cancellations and store failures).
SuccessIsStored ==
    /\ \A w \in past.claimed : db[w].epoch # NoEpoch /\ db[w].epoch.lastAt >= latest.quota
    /\ latest.benefit <= past.benefit

\* The maximum an epoch reports is the largest ratio ever committed in it, and the sample that
\* proves it is still retained (maximum_ratio, delete_unprotected_sample, maintenance).
MaximaKept ==
    \A w \in Windows : \A e \in Epochs(db[w]) :
        LET used == {s.used : s \in Committed(w, e)}
        IN /\ e.maxUsed \in used /\ \A u \in used : u <= e.maxUsed
           /\ e.maxUsed # None => \E s \in db[w].samples : s.id = e.maxUsedId /\ s.used = e.maxUsed

\* The transitions of a window are numbered without a gap, each one starts in the epoch the one
\* before it led to, and each reset closed exactly one epoch, with its last sample
\* (exact_next_sequence, insert_epoch_history, insert_transition).
HistoryIsChained ==
    \A w \in Windows :
        LET t == db[w]
            n == Cardinality(t.transitions)
            resets == {r \in t.transitions : r.kind # "allowance_changed"}
        IN /\ {r.seq : r \in t.transitions} = 1..n
           /\ t.epoch # NoEpoch => t.epoch.seq = n
           /\ \A r \in t.transitions :
                r.to = IF r.seq = n THEN t.epoch.id ELSE (CHOOSE q \in t.transitions : q.seq = r.seq + 1).from
           /\ {<<c.epoch.id, c.closing, c.epoch.last>> : c \in t.closed} = {<<r.from, r.seq, r.pre>> : r \in resets}

\* What the writers committed, every reader gets: the overview shows each observed window, fresh
\* only when all of them are, following the cursors of a window's pages yields all its transitions
\* newest first, and the next launch finds the tables valid (capture_quota_overview,
\* capture_quota_transitions, validate_quota_state; retention removes samples they join with).
StoredIsReadable ==
    LET overview == QuotaOverview(db, wall)
        asked == QuotaWindows(db, Windows, wall)
        observed == {w \in Windows : db[w].epoch # NoEpoch}
    IN /\ ValidQuota(db, stats)
       /\ overview.code = "ok" /\ asked.code = "ok"
       /\ overview.is.shown = observed
       /\ overview.is.freshness = "fresh" =>
             observed # {} /\ \A w \in observed : wall \in db[w].epoch.lastAt..(db[w].epoch.lastAt + FreshFor)
       /\ asked.is.shown = observed /\ (asked.is.freshness # "unavailable" => observed = Windows)
       /\ \A w \in Windows :
             LET read == Paged(db, stats.rev, w)
             IN /\ read.ok /\ read.end
                /\ {read.rows[i] : i \in 1..Len(read.rows)} = db[w].transitions
                /\ Len(read.rows) = Cardinality(db[w].transitions)

\* An attempt ends whatever the provider does: the wait expires, the process is killed, the I/O
\* thread is joined (CodexQuotaTransport::poll).
AttemptEnds == (wk.step = "poll") ~> (wk.step # "poll")

\* What was reported as a success is stored, maxima survive retention, the history is one
\* chain, and what is stored can be read.
QuotaIsSound == SuccessIsStored /\ MaximaKept /\ HistoryIsChained /\ StoredIsReadable
=============================================================================
