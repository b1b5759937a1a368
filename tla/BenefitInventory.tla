-------------------------- MODULE BenefitInventory --------------------------
(***************************************************************************)
(* The life of the benefit tables: inventories observed by the quota       *)
(* runtime, reminder profiles changed by the user, due reminders delivered *)
(* and acknowledged, and the history trimmed, in any order.  Each action   *)
(* is one immediate transaction of the store.                              *)
(***************************************************************************)
EXTENDS BenefitStore

CONSTANTS
    Histories,      \* what happens: see the fields in Init
    Observations,   \* the inventories a provider may report, without id and time
    Profiles        \* the lead times a user may choose

VARIABLES
    db,
    now,
    left,       \* how often each transaction still happens
    past        \* every delivery and revision there ever was

vars == <<db, now, left, past>>

Init ==
    /\ db = Empty
    /\ now = 1
    /\ left \in Histories
    /\ past = [delivered |-> {}, revisions |-> {}, passed |-> 0]

Spend(what) == left[what] > 0 /\ left' = [left EXCEPT ![what] = @ - 1]

Commit(r) ==
    /\ db' = r.db
    /\ past' = [past EXCEPT !.delivered = @ \cup r.db.delivered,
                            !.revisions = @ \cup r.db.revisions]
    /\ UNCHANGED now

\* A provider's answer, with the identity and the time of its observation;
\* an answer may be applied again, or after a later one.
Observe ==
    /\ Spend("observe")
    /\ \E s \in Scopes : \E o \in Observations, at \in {1, now},
                           id \in {left.observe, db.scope[s].seen} \ {0} :
         LET r == Applied(db, s, [id |-> id, at |-> at, complete |-> o.complete, lots |-> o.lots])
         IN  /\ db' = r.db
             /\ past' = [past EXCEPT !.revisions = @ \cup r.db.revisions]
             /\ UNCHANGED now

Override ==
    /\ Spend("profile")
    /\ \E s \in Scopes, p \in Profiles :
         Commit(Overridden(db, s, [rev |-> db.global.rev + 1, leads |-> p, channels |-> {"in_app"}]))

ClearOverride ==
    /\ Spend("profile")
    /\ \E s \in Scopes : Commit(Overridden(db, s, Nothing))

Globalize ==
    /\ Spend("profile")
    /\ \E p \in Profiles :
         Commit(Globalized(db, [rev |-> db.global.rev + 1, leads |-> p, channels |-> {"in_app"}]))

Deliver ==
    /\ Spend("deliver")
    /\ LET r == Processed(db, now)
       IN  /\ db' = r.db
           /\ past' = [past EXCEPT !.delivered = @ \cup r.db.delivered, !.passed = Max({@, now})]
           /\ UNCHANGED now

Acknowledge ==
    /\ Unacknowledged(db) # {}
    /\ Commit(Acknowledged(db, FirstRows(Unacknowledged(db), EarlierDelivery)))
    /\ UNCHANGED left

Maintain ==
    /\ Spend("maintain")
    /\ \E s \in Scopes : Commit(Done(Maintained(db, s)))

Tick ==
    /\ Spend("time")
    /\ now' = now + 1
    /\ UNCHANGED <<db, past>>

Next ==
    \/ Observe \/ Override \/ ClearOverride \/ Globalize
    \/ Deliver \/ Acknowledge \/ Maintain \/ Tick

Spec == Init /\ [][Next]_vars

----------------------------------------------------------------------------

\* One revision number of a lot means one content for good: a lot that was
\* retired and comes back goes on counting, even when
\* maintain_benefit_history_page trimmed its history in between.
RevisionsNotReused ==
    \A r, q \in past.revisions :
        r.scope = q.scope /\ r.lot = q.lot /\ r.rev = q.rev => r.is = q.is

\* Every reminder the current inventory and the profile ask for is in the
\* queue, or was delivered at least as urgently, or expired before the last
\* pass: neither a page of process_due_benefit_reminders nor a rebuild_due
\* drops one.
RemindersAccounted ==
    \A s \in Scopes : \A d \in Scheduled(s, db.current[s], active_profile(db, s)) :
        \/ d \in db.due
        \/ d.expiry <= past.passed
        \/ \E e \in past.delivered : /\ Reminder(e) = [Reminder(d) EXCEPT !.lead = e.lead]
                                     /\ e.lead <= d.lead

\* Whatever was observed, delivered and trimmed, the reads find all of it: the overview
\* shows exactly the current lots by expiry, as does the inventory of the scope, following the cursors of the change pages
\* gives every retained change once, and the newest change of a lot is the one that
\* made it what the overview shows (capture_benefit_overview, capture_benefit_changes
\* over what maintain_benefit_history_page leaves).  The stored counters of changes,
\* reminders and deliveries are the rows there are.
InventoryIsReadable ==
    LET read == BenefitOverview(db, now)
    IN  /\ read.code = "ok"
        /\ db.counts = [RowCounts(db) EXCEPT !.current = db.counts.current]
        /\ \A s \in Scopes : Observed(db, s) =>
              LET lots == read.is.scopes[s].lots
                  alone == BenefitInventoryOf(db, s, now)
                  paged == PagedChanges(db, s)
              IN  /\ alone.code = "ok" /\ alone.lots = lots
                  /\ {lots[i] : i \in DOMAIN lots} = db.current[s]
                  /\ \A i, j \in DOMAIN lots : i < j => ~Sooner(lots[j], lots[i])
                  /\ paged.ok /\ paged.end
                  /\ Len(paged.rows) = Cardinality({c \in db.changes : c.scope = s})
                  /\ \A l \in Lots :
                        LET of == {i \in DOMAIN paged.rows : paged.rows[i].lot = l}
                        IN  of # {} => {c.rev : c \in {c \in db.current[s] : c.lot = l}} =
                                       {paged.rows[Min(of)].after} \ {0}

\* The archive opens again after whatever the writers committed: the counters they keep
\* in benefit_state are the rows validate_benefit_state counts.
ArchiveReopens == ValidBenefit(db)

\* Whatever observations, retirements and trimmings came before: what is stored can be
\* read, no revision is used twice, and every reminder is accounted for.
InventoryIsSound == InventoryIsReadable /\ RevisionsNotReused /\ RemindersAccounted
=============================================================================
