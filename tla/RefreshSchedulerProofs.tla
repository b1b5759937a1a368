----------------------- MODULE RefreshSchedulerProofs -----------------------
(***************************************************************************)
(* The proofs about the hint flags and the scheduler thread: submissions   *)
(* and sleeps are timely, and the whole implements HintLatch, for any      *)
(* callers, windows, intervals and clock, and for every order of the       *)
(* atomic accesses of hints.rs and scheduler.rs.                           *)
(***************************************************************************)
EXTENDS RefreshScheduler, TLAPS

Hinters == Callers \cup {Owner}

CallerEntry ==
    [pc : {"Idle", "Health", "Check", "Clock", "Record", "Or", "Wake"},
     signal : Signal, flags : SUBSET Flag, tick : Nat]

ThreadLocals ==
    [pc : {"Phase", "PausedRecv", "OrForced", "Flags", "Latest", "NowAgain", "Take",
           "LatestAfter", "PutBack", "MaySubmit", "Submit", "Interval", "Sleep", "Done"},
     now : Nat, lastNow : Nat, lastSubmit : Nat, latest : Nat, quiet : Nat,
     until : Nat, taken : SUBSET Flag, urgency : UrgencyFlag,
     after : {"Phase", "Flags"}]

SchedulerType ==
    /\ budget \in Budget
    /\ hintPhase \in SchedulerPhase /\ flags \in SUBSET Flag
    /\ latest \in Nat /\ health \in {"Healthy", "Degraded"}
    /\ wakeup \in BOOLEAN
    /\ schedulerClock \in Nat
    /\ caller \in [Hinters -> CallerEntry]
    /\ thread \in ThreadLocals
    /\ flagged \in Nat /\ held \in Nat

\* The thread is gone exactly when the phase says so: no one else ends it.
GoneIsDead == thread.pc = "Done" <=> hintPhase \in {"Stopped", "Faulted"}

(***************************************************************************)
(* The thread's locals t, when h is the newest tick of the hints it took:  *)
(* flags are held only between the swap and the answer, under an urgency   *)
(* that covers them, and those that were not forced are taken after the    *)
(* quiet window of the latest tick it knows.                               *)
(***************************************************************************)
LocalsAreRight(t, h) ==
    /\ t.taken # {} => t.pc \in {"LatestAfter", "PutBack", "MaySubmit", "Submit"}
    /\ \A f \in t.taken : UrgencyRank(f) <= UrgencyRank(t.urgency)
    /\ t.pc \in {"Take", "LatestAfter"} => t.latest + Quiet <= t.now
    /\ t.pc \in {"MaySubmit", "Submit"} /\ t.taken # {} /\ "force" \notin t.taken =>
          h + Quiet <= t.now

\* A flag is set after its tick was recorded: what the flags stand for is never
\* newer than latest_hint_tick.
TicksAreRecorded ==
    /\ flagged <= latest /\ held <= latest
    /\ \A c \in Hinters : caller[c].pc = "Or" => caller[c].tick <= latest

\* A phase the thread has yet to see comes with a wake, sent or about to be.
PhaseIsHeard ==
    thread.pc \notin {"Phase", "PausedRecv", "Done"} /\ hintPhase # "Running" =>
        wakeup \/ caller[Owner].pc = "Wake"

\* So does a health the thread did not know when it went to sleep.
HealthIsHeard ==
    thread.pc = "Sleep" /\ health = "Degraded" =>
        \/ wakeup
        \/ \E c \in Hinters : caller[c].pc \notin {"Idle", "Health"}
        \/ thread.until <= thread.lastSubmit + DegradedPoll

(***************************************************************************)
(* The inductive invariant.  The quiet window is kept only because a tick  *)
(* is recorded before its flag is set, and the sleep is short enough only  *)
(* because a caller that turns back at a phase that is not running leaves  *)
(* its wake to whoever changed the phase.                                  *)
(***************************************************************************)
SchedulerInv ==
    /\ SchedulerType
    /\ GoneIsDead
    /\ LocalsAreRight(thread, held)
    /\ TicksAreRecorded
    /\ PhaseIsHeard
    /\ HealthIsHeard

\* The inductive invariant contains what is claimed.
LEMMA InvIsTimely == SchedulerInv => SchedulerIsTimely
  <1> SUFFICES ASSUME SchedulerInv PROVE SchedulerIsTimely
    OBVIOUS
  <1>1. QuietBeforeSubmit
    BY DEF SchedulerInv, LocalsAreRight, QuietBeforeSubmit, At
  <1>2. DegradedPollIsTimely
    BY Zenon DEF SchedulerInv, HealthIsHeard, DegradedPollIsTimely, At, Hinters
  <1> QED
    BY <1>1, <1>2 DEF SchedulerIsTimely

----------------------------------------------------------------------------
(* The operators. *)

\* Signals set known flags, and an urgency covers the flags it is taken from.
LEMMA SignalType ==
  ASSUME NEW signal \in Signal
  PROVE  SignalFlags(signal) \in SUBSET Flag
  <1>1. CASE signal = "changed"
    BY <1>1 DEF SignalFlags, Flag, UrgencyFlag
  <1>2. CASE signal \in UrgencyFlag
    BY <1>2 DEF SignalFlags, Flag, UrgencyFlag
  <1>3. CASE signal \in {"healthy", "error"}
    BY <1>3 DEF SignalFlags, Flag, UrgencyFlag, Forced
  <1> QED
    BY <1>1, <1>2, <1>3 DEF Signal

\* urgency_from_flags: a submission ranks at least as high as what it took.
LEMMA UrgencyCovers ==
  ASSUME NEW taken \in SUBSET Flag
  PROVE  /\ FlagsUrgency(taken) \in UrgencyFlag
         /\ \A f \in taken : UrgencyRank(f) <= UrgencyRank(FlagsUrgency(taken))
  <1>1. CASE "recovery" \in taken
    <2>1. FlagsUrgency(taken) = "recovery"
      BY <1>1 DEF FlagsUrgency
    <2> QED
      BY <2>1 DEF UrgencyRank, UrgencyFlag, Flag
  <1>2. CASE "recovery" \notin taken /\ "interactive" \in taken
    <2>1. FlagsUrgency(taken) = "interactive"
      BY <1>2 DEF FlagsUrgency
    <2> QED
      BY <1>2, <2>1 DEF UrgencyRank, UrgencyFlag, Flag
  <1>3. CASE taken \cap {"recovery", "interactive"} = {} /\ "periodic" \in taken
    <2>1. "recovery" \notin taken /\ "interactive" \notin taken
      BY <1>3
    <2>2. FlagsUrgency(taken) = "periodic"
      BY <1>3, <2>1 DEF FlagsUrgency
    <2> QED
      BY <2>1, <2>2 DEF UrgencyRank, UrgencyFlag, Flag
  <1>4. CASE "recovery" \notin taken /\ "interactive" \notin taken /\ "periodic" \notin taken
    <2>1. FlagsUrgency(taken) = "hint"
      BY <1>4 DEF FlagsUrgency
    <2> QED
      BY <1>4, <2>1 DEF UrgencyRank, UrgencyFlag, Flag
  <1> QED
    BY <1>1, <1>2, <1>3, <1>4

\* The head of the loop, and the end of the thread, hold no flags.
LEMMA FreshType ==
  ASSUME SchedulerType
  PROVE  /\ NoQuiet \in Nat
         /\ Fresh \in ThreadLocals /\ Fresh.pc = "Phase" /\ Fresh.taken = {}
         /\ Fresh.lastSubmit = thread.lastSubmit
         /\ Finished \in ThreadLocals /\ Finished.pc = "Done" /\ Finished.taken = {}
  <1>1. NoQuiet \in Nat
    BY DEF SchedulerType, Budget, NoQuiet
  <1>2. /\ Fresh \in ThreadLocals /\ Fresh.pc = "Phase" /\ Fresh.taken = {}
        /\ Fresh.lastSubmit = thread.lastSubmit
    BY <1>1, ZenonT(60) DEF SchedulerType, ThreadLocals, Fresh, UrgencyFlag
  <1>3. Finished \in ThreadLocals /\ Finished.pc = "Done" /\ Finished.taken = {}
    BY <1>2, ZenonT(60) DEF ThreadLocals, Finished
  <1> QED
    BY <1>1, <1>2, <1>3

\* Locals without flags are right wherever no quiet window has to have passed.
LEMMA EmptyIsRight ==
  ASSUME NEW t, t.taken = {}, t.pc \notin {"Take", "LatestAfter"}, NEW h
  PROVE  LocalsAreRight(t, h)
  BY DEF LocalsAreRight

\* The decision about the quiet window takes flags only after it has passed.
LEMMA DecideIsRight ==
  ASSUME SchedulerType, NEW locals \in ThreadLocals, locals.taken = {}
  PROVE  /\ Decide(locals) \in ThreadLocals
         /\ Decide(locals).pc \in {"OrForced", "Take", "Interval"}
         /\ Decide(locals).taken = {}
         /\ \A h : LocalsAreRight(Decide(locals), h)
  <1> DEFINE deadline == locals.latest + Quiet
  <1>1. deadline \in Nat /\ budget.top \in Nat
    BY SchedulerAssumption DEF SchedulerType, Budget, ThreadLocals
  <1>2. CASE deadline > budget.top
    <2>1. Decide(locals) = [locals EXCEPT !.pc = "OrForced", !.after = "Phase"]
      BY <1>1, <1>2 DEF Decide, Discontinuity
    <2>2. /\ Decide(locals) \in ThreadLocals /\ Decide(locals).pc = "OrForced"
          /\ Decide(locals).taken = {}
      BY <2>1, ZenonT(60) DEF ThreadLocals
    <2> QED
      BY <2>2 DEF LocalsAreRight
  <1>3. CASE deadline <= budget.top /\ locals.now >= deadline
    <2>1. Decide(locals) = [locals EXCEPT !.pc = "Take", !.quiet = deadline]
      BY <1>1, <1>3 DEF Decide
    <2>2. /\ Decide(locals) \in ThreadLocals /\ Decide(locals).pc = "Take"
          /\ Decide(locals).taken = {} /\ Decide(locals).now = locals.now
          /\ Decide(locals).latest = locals.latest
      BY <1>1, <2>1, ZenonT(60) DEF ThreadLocals
    <2>3. Decide(locals).latest + Quiet <= Decide(locals).now
      BY <1>1, <1>3, <2>2 DEF ThreadLocals
    <2> QED
      BY <2>2, <2>3 DEF LocalsAreRight
  <1>4. CASE deadline <= budget.top /\ ~(locals.now >= deadline)
    <2>1. Decide(locals) = [locals EXCEPT !.pc = "Interval", !.quiet = deadline]
      BY <1>1, <1>4 DEF Decide
    <2>2. /\ Decide(locals) \in ThreadLocals /\ Decide(locals).pc = "Interval"
          /\ Decide(locals).taken = {}
      BY <1>1, <2>1, ZenonT(60) DEF ThreadLocals
    <2> QED
      BY <2>2 DEF LocalsAreRight
  <1> QED
    BY <1>1, <1>2, <1>3, <1>4

----------------------------------------------------------------------------
(* The callers. *)

\* A step of one caller leaves the other callers where they are.
LEMMA CallerSet ==
  ASSUME SchedulerType, NEW c \in Hinters, NEW e \in CallerEntry, SetCaller(c, e)
  PROVE  /\ caller' \in [Hinters -> CallerEntry]
         /\ caller'[c] = e
         /\ \A d \in Hinters : d # c => caller'[d] = caller[d]
  BY DEF SchedulerType, SetCaller

\* What a step of a caller must do to keep the invariant: record a tick before it
\* sets the flag, and not go back to rest without a wake while the thread sleeps.
LEMMA CallerMoves ==
  ASSUME SchedulerInv, NEW c \in Hinters, NEW e \in CallerEntry, SetCaller(c, e),
         UNCHANGED <<hintPhase, thread, budget, schedulerClock, held>>,
         latest' \in Nat, latest <= latest', flags' \in SUBSET Flag,
         health' \in {"Healthy", "Degraded"}, flagged' \in Nat, flagged' <= latest',
         wakeup' \in BOOLEAN, wakeup => wakeup',
         e.pc = "Or" => e.tick <= latest',
         caller[c].pc = "Wake" => wakeup' \/ thread.pc = "Done",
         health' = health \/ e.pc \notin {"Idle", "Health"},
         \/ caller[c].pc \in {"Idle", "Health"} \/ e.pc \notin {"Idle", "Health"}
         \/ wakeup' \/ thread.pc = "Done" \/ hintPhase # "Running"
  PROVE  SchedulerInv'
  <1>1. /\ caller' \in [Hinters -> CallerEntry]
        /\ caller'[c] = e
        /\ \A d \in Hinters : d # c => caller'[d] = caller[d]
    BY CallerSet DEF SchedulerInv
  <1>2. SchedulerType'
    BY <1>1 DEF SchedulerInv, SchedulerType
  <1>3. GoneIsDead'
    BY Zenon DEF SchedulerInv, GoneIsDead
  <1>4. LocalsAreRight(thread, held)'
    BY Zenon DEF SchedulerInv, LocalsAreRight
  <1>5. TicksAreRecorded'
    <2>1. flagged' <= latest' /\ held' <= latest'
      BY DEF SchedulerInv, SchedulerType, TicksAreRecorded
    <2>2. ASSUME NEW d \in Hinters, caller'[d].pc = "Or"
          PROVE  caller'[d].tick <= latest'
      <3>1. CASE d = c
        BY <1>1, <2>2, <3>1
      <3>2. CASE d # c
        <4>1. caller[d].pc = "Or" /\ caller'[d].tick = caller[d].tick
          BY <1>1, <2>2, <3>2, Zenon
        <4>2. caller[d].tick \in Nat /\ latest \in Nat
          BY DEF SchedulerInv, SchedulerType, CallerEntry
        <4>3. caller[d].tick <= latest
          BY <4>1, Zenon DEF SchedulerInv, TicksAreRecorded
        <4> QED
          BY <4>1, <4>2, <4>3
      <3> QED
        BY <3>1, <3>2
    <2> QED
      BY <2>1, <2>2, Zenon DEF TicksAreRecorded
  <1>6. Owner \in Hinters
    BY DEF Hinters
  <1>7. PhaseIsHeard'
    <2> SUFFICES ASSUME thread.pc \notin {"Phase", "PausedRecv", "Done"},
                        hintPhase # "Running", ~wakeup'
                 PROVE  caller'[Owner].pc = "Wake"
      BY Zenon DEF PhaseIsHeard
    <2>1. caller[Owner].pc = "Wake"
      BY Zenon DEF SchedulerInv, PhaseIsHeard
    <2>2. c # Owner
      BY <2>1, Zenon
    <2> QED
      BY <1>1, <1>6, <2>1, <2>2, Zenon
  <1>8. HealthIsHeard'
    <2> SUFFICES ASSUME thread.pc = "Sleep", health' = "Degraded", ~wakeup',
                        e.pc \in {"Idle", "Health"},
                        ~(thread.until <= thread.lastSubmit + DegradedPoll)
                 PROVE  \E d \in Hinters : caller'[d].pc \notin {"Idle", "Health"}
      BY <1>1, Zenon DEF HealthIsHeard
    <2>1. PICK d \in Hinters : caller[d].pc \notin {"Idle", "Health"}
      BY Zenon DEF SchedulerInv, HealthIsHeard
    <2>2. CASE d # c
      BY <1>1, <2>1, <2>2, Zenon
    <2>3. CASE d = c
      <3>1. hintPhase # "Running" /\ thread.pc \notin {"Phase", "PausedRecv", "Done"}
        BY <2>1, <2>3
      <3>2. caller[Owner].pc = "Wake"
        BY <3>1, Zenon DEF SchedulerInv, PhaseIsHeard
      <3>3. c # Owner
        BY <3>1, <3>2
      <3>4. caller'[Owner].pc = "Wake"
        BY <1>1, <1>6, <3>2, <3>3, Zenon
      <3> QED
        BY <1>6, <3>4
    <2> QED
      BY <2>2, <2>3
  <1> QED
    BY <1>2, <1>3, <1>4, <1>5, <1>7, <1>8, Zenon DEF SchedulerInv

\* The entries the callers' steps write.
LEMMA RestingType ==
  /\ Resting \in CallerEntry /\ Resting.pc = "Idle"
  /\ \A pc \in {"Idle", "Health", "Check", "Clock", "Record", "Or", "Wake"},
        signal \in Signal, marks \in SUBSET Flag :
        /\ [Resting EXCEPT !.pc = pc] \in CallerEntry
        /\ [Resting EXCEPT !.pc = pc].pc = pc
        /\ [Resting EXCEPT !.pc = pc, !.signal = signal, !.flags = marks] \in CallerEntry
        /\ [Resting EXCEPT !.pc = pc, !.signal = signal, !.flags = marks].pc = pc
  BY ZenonT(60) DEF Resting, CallerEntry, Signal

\* A method of RefreshHintSink is entered.
LEMMA RaiseKeeps ==
  ASSUME SchedulerInv, NEW c \in Hinters, NEW signal \in Signal, Raise(c, signal)
  PROVE  SchedulerInv'
  <1> DEFINE pc == IF signal \in {"healthy", "error"} THEN "Health" ELSE "Clock"
             e == [Resting EXCEPT !.pc = pc, !.signal = signal,
                                  !.flags = SignalFlags(signal)]
  <1>1. pc \in {"Health", "Clock"}
    OBVIOUS
  <1>2. /\ SetCaller(c, e) /\ caller[c].pc = "Idle"
        /\ UNCHANGED <<hintPhase, thread, budget, schedulerClock, held>>
        /\ UNCHANGED <<latest, flags, health, flagged, wakeup>>
    BY DEF Raise, hintState, histories
  <1> HIDE DEF pc
  <1>3. e \in CallerEntry /\ e.pc \in {"Health", "Clock"}
    <2>1. SignalFlags(signal) \in SUBSET Flag
      BY SignalType
    <2> QED
      BY <1>1, <2>1, ZenonT(60) DEF Resting, CallerEntry
  <1> HIDE DEF e
  <1> QED
    BY <1>2, <1>3, CallerMoves DEF SchedulerInv, SchedulerType, TicksAreRecorded

\* The watcher's health is stored before the thread is woken.
LEMMA StoreHealthKeeps ==
  ASSUME SchedulerInv, NEW c \in Hinters, StoreHealth(c)
  PROVE  SchedulerInv'
  <1> DEFINE pc == IF caller[c].signal = "error" THEN "Check" ELSE "Wake"
             e == [caller[c] EXCEPT !.pc = pc]
  <1>1. pc \in {"Check", "Wake"}
    OBVIOUS
  <1>2. e \in CallerEntry /\ e.pc \in {"Check", "Wake"}
    BY <1>1 DEF SchedulerInv, SchedulerType, CallerEntry
  <1>3. /\ SetCaller(c, e) /\ caller[c].pc = "Health"
        /\ UNCHANGED <<hintPhase, thread, budget, schedulerClock, held>>
        /\ UNCHANGED <<latest, flags, flagged, wakeup>>
        /\ health' \in {"Healthy", "Degraded"}
    BY DEF StoreHealth, histories
  <1> HIDE DEF e
  <1> QED
    BY <1>2, <1>3, CallerMoves DEF SchedulerInv, SchedulerType, TicksAreRecorded

\* signal gives up when the scheduler is no longer running.
LEMMA SignalCheckKeeps ==
  ASSUME SchedulerInv, NEW c \in Hinters, SignalCheck(c)
  PROVE  SchedulerInv'
  <1> DEFINE e == IF hintPhase = "Running" THEN [caller[c] EXCEPT !.pc = "Clock"]
                                           ELSE Resting
  <1>1. /\ e \in CallerEntry
        /\ hintPhase = "Running" => e.pc = "Clock"
        /\ hintPhase # "Running" => e.pc = "Idle"
    <2>1. /\ [caller[c] EXCEPT !.pc = "Clock"] \in CallerEntry
          /\ [caller[c] EXCEPT !.pc = "Clock"].pc = "Clock"
      BY DEF SchedulerInv, SchedulerType, CallerEntry
    <2> QED
      BY <2>1, RestingType, Zenon
  <1>2. /\ SetCaller(c, e) /\ caller[c].pc = "Check"
        /\ UNCHANGED <<hintPhase, thread, budget, schedulerClock, held>>
        /\ UNCHANGED <<latest, flags, health, flagged, wakeup>>
    BY DEF SignalCheck, hintState, histories
  <1> HIDE DEF e
  <1> QED
    BY <1>1, <1>2, CallerMoves DEF SchedulerInv, SchedulerType, TicksAreRecorded

\* The clock is read for the tick of the hint.
LEMMA SignalClockKeeps ==
  ASSUME SchedulerInv, NEW c \in Hinters, SignalClock(c)
  PROVE  SchedulerInv'
  <1> DEFINE e == [caller[c] EXCEPT !.pc = "Record", !.tick = schedulerClock]
  <1>1. e \in CallerEntry /\ e.pc = "Record"
    BY ZenonT(60) DEF SchedulerInv, SchedulerType, CallerEntry
  <1>2. /\ SetCaller(c, e) /\ caller[c].pc = "Clock"
        /\ UNCHANGED <<hintPhase, thread, budget, schedulerClock, held>>
        /\ UNCHANGED <<latest, flags, health, flagged, wakeup>>
    BY DEF SignalClock, hintState, histories
  <1> HIDE DEF e
  <1> QED
    BY <1>1, <1>2, CallerMoves DEF SchedulerInv, SchedulerType, TicksAreRecorded

\* Both orders of two numbers, as Larger and Smaller put them.
LEMMA OrderedPairs ==
  ASSUME NEW a \in Nat, NEW b \in Nat
  PROVE  /\ Larger(a, b) \in Nat /\ a <= Larger(a, b) /\ b <= Larger(a, b)
         /\ \A n \in Nat : a <= n /\ b <= n => Larger(a, b) <= n
         /\ Smaller(a, b) \in Nat /\ Smaller(a, b) <= a /\ Smaller(a, b) <= b
  BY DEF Larger, Smaller

\* fetch_max of the latest tick.
LEMMA SignalRecordKeeps ==
  ASSUME SchedulerInv, NEW c \in Hinters, SignalRecord(c)
  PROVE  SchedulerInv'
  <1> DEFINE marks == IF caller[c].tick < latest \/ budget.full
                      THEN caller[c].flags \cup {"force", "recovery"}
                      ELSE caller[c].flags
             e == [caller[c] EXCEPT !.pc = "Or", !.flags = marks]
  <1>1. /\ caller[c] \in CallerEntry /\ caller[c].tick \in Nat /\ latest \in Nat
        /\ caller[c].flags \in SUBSET Flag
    BY DEF SchedulerInv, SchedulerType, CallerEntry
  <1>2. marks \in SUBSET Flag
    BY <1>1 DEF Flag, UrgencyFlag
  <1>3. /\ SetCaller(c, e) /\ caller[c].pc = "Record"
        /\ UNCHANGED <<hintPhase, thread, budget, schedulerClock, held>>
        /\ UNCHANGED <<flags, health, flagged, wakeup>>
        /\ latest' = Larger(latest, caller[c].tick)
    BY <1>1 DEF SignalRecord, histories
  <1> HIDE DEF marks
  <1>4. e \in CallerEntry /\ e.pc = "Or" /\ e.tick = caller[c].tick
    BY <1>1, <1>2, ZenonT(60) DEF CallerEntry
  <1>5. latest' \in Nat /\ latest <= latest' /\ e.tick <= latest'
    BY <1>1, <1>3, <1>4, OrderedPairs
  <1>6. flagged' \in Nat /\ flagged' <= latest'
    BY <1>1, <1>3, <1>5 DEF SchedulerInv, SchedulerType, TicksAreRecorded
  <1> HIDE DEF e
  <1> QED
    BY <1>3, <1>4, <1>5, <1>6, CallerMoves DEF SchedulerInv, SchedulerType

\* fetch_or of the flags.
LEMMA SignalOrKeeps ==
  ASSUME SchedulerInv, NEW c \in Hinters, SignalOr(c)
  PROVE  SchedulerInv'
  <1> DEFINE e == [caller[c] EXCEPT !.pc = "Wake"]
  <1>1. /\ caller[c].tick \in Nat /\ latest \in Nat /\ flagged \in Nat
        /\ caller[c].flags \in SUBSET Flag /\ flags \in SUBSET Flag
    BY DEF SchedulerInv, SchedulerType, CallerEntry
  <1>2. e \in CallerEntry /\ e.pc = "Wake"
    BY DEF SchedulerInv, SchedulerType, CallerEntry
  <1>3. /\ SetCaller(c, e) /\ caller[c].pc = "Or"
        /\ UNCHANGED <<hintPhase, thread, budget, schedulerClock, held>>
        /\ UNCHANGED <<latest, health, wakeup>>
        /\ flags' = flags \cup caller[c].flags
        /\ flagged' = Larger(flagged, caller[c].tick)
    BY DEF SignalOr
  <1>4. caller[c].tick <= latest /\ flagged <= latest
    BY <1>3 DEF SchedulerInv, TicksAreRecorded
  <1>5. flagged' \in Nat /\ flagged' <= latest'
    BY <1>1, <1>3, <1>4, OrderedPairs
  <1>6. flags' \in SUBSET Flag
    BY <1>1, <1>3
  <1> HIDE DEF e
  <1> QED
    BY <1>1, <1>2, <1>3, <1>5, <1>6, CallerMoves DEF SchedulerInv, SchedulerType

\* try_send: the wake is there once the caller is at rest.
LEMMA SignalWakeKeeps ==
  ASSUME SchedulerInv, NEW c \in Hinters, SignalWake(c)
  PROVE  SchedulerInv'
  <1>1. /\ SetCaller(c, Resting) /\ caller[c].pc = "Wake"
        /\ UNCHANGED <<hintPhase, thread, budget, schedulerClock, held>>
        /\ UNCHANGED <<latest, flags, health, flagged>>
    BY DEF SignalWake, hintState, histories
  <1>2. wakeup' = (wakeup \/ thread.pc # "Done")
    BY DEF SignalWake, Signalled
  <1>3. wakeup' \in BOOLEAN /\ (wakeup => wakeup') /\ (wakeup' \/ thread.pc = "Done")
    BY <1>2, Zenon
  <1>4. /\ latest' \in Nat /\ latest <= latest' /\ flags' \in SUBSET Flag
        /\ health' \in {"Healthy", "Degraded"} /\ flagged' \in Nat /\ flagged' <= latest'
        /\ health' = health
    BY <1>1 DEF SchedulerInv, SchedulerType, TicksAreRecorded
  <1>5. Resting \in CallerEntry /\ Resting.pc # "Or"
    BY RestingType
  <1> QED
    BY <1>1, <1>3, <1>4, <1>5, CallerMoves, Zenon

----------------------------------------------------------------------------
(* The owner and the clock. *)

\* The owner changes the phase and is about to wake the thread, or to raise a hint.
LEMMA PhaseMoves ==
  ASSUME SchedulerInv, NEW e \in CallerEntry, SetCaller(Owner, e),
         UNCHANGED <<thread, flags, latest, health, wakeup, schedulerClock, flagged, held>>,
         budget' \in Budget, hintPhase' \in SchedulerPhase,
         hintPhase' \in {"Stopped", "Faulted"} <=> hintPhase \in {"Stopped", "Faulted"},
         caller[Owner].pc = "Idle", e.pc # "Or",
         e.pc = "Wake" \/ hintPhase' = "Running"
  PROVE  SchedulerInv'
  <1>1. Owner \in Hinters
    BY DEF Hinters
  <1>2. /\ caller' \in [Hinters -> CallerEntry]
        /\ caller'[Owner] = e
        /\ \A d \in Hinters : d # Owner => caller'[d] = caller[d]
    BY <1>1, CallerSet DEF SchedulerInv
  <1>3. SchedulerType'
    BY <1>2 DEF SchedulerInv, SchedulerType
  <1>4. GoneIsDead'
    BY Zenon DEF SchedulerInv, GoneIsDead
  <1>5. LocalsAreRight(thread, held)'
    BY Zenon DEF SchedulerInv, LocalsAreRight
  <1>6. TicksAreRecorded'
    BY <1>2, Zenon DEF SchedulerInv, TicksAreRecorded
  <1>7. PhaseIsHeard'
    BY <1>2, Zenon DEF PhaseIsHeard
  <1>8. HealthIsHeard'
    BY <1>2, Zenon DEF SchedulerInv, HealthIsHeard
  <1> QED
    BY <1>3, <1>4, <1>5, <1>6, <1>7, <1>8, Zenon DEF SchedulerInv

\* pause, resume and shutdown.
LEMMA OwnerKeeps ==
  ASSUME SchedulerInv, Pause \/ Resume \/ Shutdown
  PROVE  SchedulerInv'
  <1>1. /\ hintPhase \in SchedulerPhase /\ budget \in Budget
        /\ budget.commands > 0 => [budget EXCEPT !.commands = @ - 1] \in Budget
    BY DEF SchedulerInv, SchedulerType, Budget
  <1>2. CASE Pause
    <2>1. /\ SetCaller(Owner, [Resting EXCEPT !.pc = "Wake"]) /\ caller[Owner].pc = "Idle"
          /\ UNCHANGED <<thread, flags, latest, health, wakeup, schedulerClock, flagged, held>>
          /\ hintPhase = "Running" /\ hintPhase' = "Paused" /\ budget' \in Budget
      BY <1>1, <1>2 DEF Pause, histories
    <2>2. /\ [Resting EXCEPT !.pc = "Wake"] \in CallerEntry
          /\ [Resting EXCEPT !.pc = "Wake"].pc = "Wake"
      BY RestingType, ZenonT(60) DEF Resting, Signal
    <2> QED
      BY <2>1, <2>2, PhaseMoves, ZenonT(60) DEF SchedulerPhase
  <1>3. CASE Resume
    <2> DEFINE e == [Resting EXCEPT !.pc = "Check", !.signal = "recovery",
                                    !.flags = SignalFlags("recovery")]
    <2>1. /\ SetCaller(Owner, e) /\ caller[Owner].pc = "Idle"
          /\ UNCHANGED <<thread, flags, latest, health, wakeup, schedulerClock, flagged, held>>
          /\ hintPhase = "Paused" /\ hintPhase' = "Running" /\ budget' \in Budget
      BY <1>1, <1>3 DEF Resume, histories
    <2>2. "recovery" \in Signal
      BY DEF Signal, UrgencyFlag
    <2>3. e \in CallerEntry /\ e.pc = "Check"
      BY <2>2, SignalType, RestingType, ZenonT(60)
    <2> HIDE DEF e
    <2> QED
      BY <2>1, <2>3, PhaseMoves DEF SchedulerPhase
  <1>4. CASE Shutdown
    <2>1. /\ SetCaller(Owner, [Resting EXCEPT !.pc = "Wake"]) /\ caller[Owner].pc = "Idle"
          /\ UNCHANGED <<thread, flags, latest, health, wakeup, schedulerClock, flagged, held>>
          /\ hintPhase' = IF hintPhase \in {"Running", "Paused"} THEN "Stopping" ELSE hintPhase
          /\ budget' \in Budget
      BY <1>1, <1>4 DEF Shutdown, histories
    <2>2. /\ [Resting EXCEPT !.pc = "Wake"] \in CallerEntry
          /\ [Resting EXCEPT !.pc = "Wake"].pc = "Wake"
      BY RestingType DEF Resting, Signal
    <2>3. /\ hintPhase' \in SchedulerPhase
          /\ hintPhase' \in {"Stopped", "Faulted"} <=> hintPhase \in {"Stopped", "Faulted"}
      BY <1>1, <2>1 DEF SchedulerPhase
    <2> QED
      BY <2>1, <2>2, <2>3, PhaseMoves, ZenonT(60)
  <1> QED
    BY <1>2, <1>3, <1>4

\* A thread that was joined had settled the phase itself.
LEMMA JoinSettled ==
  ASSUME SchedulerInv, Join
  PROVE  /\ UNCHANGED <<hintState, wakeup, caller, thread, budget, histories>>
         /\ UNCHANGED schedulerClock
  <1>1. hintPhase \in {"Stopped", "Faulted"}
    BY Zenon DEF SchedulerInv, GoneIsDead, Join
  <1> QED
    BY <1>1 DEF Join, PhaseAfterJoin, hintState

\* Steps that leave the hints, the callers and the thread as they are.
LEMMA RestKeeps ==
  ASSUME SchedulerInv, UNCHANGED <<hintState, wakeup, caller, thread, histories>>,
         schedulerClock' \in Nat, budget' \in Budget
  PROVE  SchedulerInv'
  <1>1. UNCHANGED <<hintPhase, flags, latest, health, flagged, held>>
    BY DEF hintState, histories
  <1>2. SchedulerType'
    BY <1>1 DEF SchedulerInv, SchedulerType
  <1>3. GoneIsDead' /\ LocalsAreRight(thread, held)'
    BY <1>1, Zenon DEF SchedulerInv, GoneIsDead, LocalsAreRight
  <1>4. TicksAreRecorded' /\ PhaseIsHeard' /\ HealthIsHeard'
    BY <1>1, Zenon DEF SchedulerInv, TicksAreRecorded, PhaseIsHeard, HealthIsHeard
  <1> QED
    BY <1>2, <1>3, <1>4, Zenon DEF SchedulerInv

\* Time, the end of shutdown and steps that change nothing.
LEMMA ClockKeeps ==
  ASSUME SchedulerInv,
         SchedulerTick \/ StepBack \/ Join \/ SchedulerTerminated \/ UNCHANGED schedulerVars
  PROVE  SchedulerInv'
  <1>1. schedulerClock \in Nat /\ budget \in Budget
    BY DEF SchedulerInv, SchedulerType
  <1>2. CASE SchedulerTick
    BY <1>1, <1>2, RestKeeps DEF SchedulerTick
  <1>3. CASE StepBack
    <2>1. schedulerClock' \in Nat /\ budget' \in Budget
      BY <1>1, <1>3 DEF StepBack, Budget
    <2> QED
      BY <1>3, <2>1, RestKeeps DEF StepBack
  <1>4. CASE Join
    BY <1>1, <1>4, JoinSettled, RestKeeps
  <1>5. CASE SchedulerTerminated \/ UNCHANGED schedulerVars
    BY <1>1, <1>5, RestKeeps DEF SchedulerTerminated, schedulerVars
  <1> QED
    BY <1>2, <1>3, <1>4, <1>5

----------------------------------------------------------------------------
(* The thread. *)

\* The thread goes on, and to sleep only in LoadHealth: what it takes into its
\* locals is right, and a phase it has not seen is still announced.
LEMMA ThreadMoves ==
  ASSUME SchedulerInv, thread' \in ThreadLocals, LocalsAreRight(thread', held'),
         UNCHANGED <<hintPhase, latest, health, wakeup, schedulerClock, caller, budget>>,
         flags' \in SUBSET Flag, flagged' \in Nat, flagged' <= latest,
         held' \in Nat, held' <= latest,
         thread.pc # "Done", thread'.pc \notin {"Done", "Sleep"},
         \/ thread'.pc \in {"Phase", "PausedRecv"} \/ hintPhase = "Running"
         \/ thread.pc \notin {"Phase", "PausedRecv"}
  PROVE  SchedulerInv'
  <1>1. SchedulerType'
    BY DEF SchedulerInv, SchedulerType
  <1>2. GoneIsDead'
    BY Zenon DEF SchedulerInv, GoneIsDead
  <1>3. LocalsAreRight(thread, held)'
    OBVIOUS
  <1>4. TicksAreRecorded'
    BY Zenon DEF SchedulerInv, TicksAreRecorded
  <1>5. PhaseIsHeard'
    BY DEF SchedulerInv, PhaseIsHeard
  <1>6. HealthIsHeard'
    BY Zenon DEF HealthIsHeard
  <1> QED
    BY <1>1, <1>2, <1>3, <1>4, <1>5, <1>6, Zenon DEF SchedulerInv

\* The thread ends, and the phase says so.
LEMMA ThreadEnds ==
  ASSUME SchedulerInv, thread' \in ThreadLocals, thread'.pc = "Done", thread'.taken = {},
         UNCHANGED <<flags, latest, health, wakeup, schedulerClock, caller, budget, flagged>>,
         held' \in Nat, held' <= latest, hintPhase' \in {"Stopped", "Faulted"}
  PROVE  SchedulerInv'
  <1>1. SchedulerType'
    BY DEF SchedulerInv, SchedulerType, SchedulerPhase
  <1>2. GoneIsDead'
    BY Zenon DEF GoneIsDead
  <1>3. LocalsAreRight(thread, held)'
    BY EmptyIsRight DEF LocalsAreRight
  <1>4. TicksAreRecorded'
    BY Zenon DEF SchedulerInv, TicksAreRecorded
  <1>5. PhaseIsHeard' /\ HealthIsHeard'
    BY DEF PhaseIsHeard, HealthIsHeard
  <1> QED
    BY <1>1, <1>2, <1>3, <1>4, <1>5, Zenon DEF SchedulerInv

\* The thread wakes up and looks at the phase again.
LEMMA ThreadWakes ==
  ASSUME SchedulerInv, PausedRecv \/ Awake
  PROVE  /\ SchedulerInv'
         /\ UNCHANGED <<hintPhase, flags>>
         /\ thread.taken = {} /\ thread.pc # "Submit"
         /\ thread'.taken = {} /\ thread'.pc = "Phase"
  <1>1. /\ thread' = Fresh /\ wakeup' = FALSE /\ thread.pc \in {"PausedRecv", "Sleep"}
        /\ UNCHANGED <<hintPhase, flags, latest, health, flagged, held>>
        /\ UNCHANGED <<schedulerClock, caller, budget>>
    BY DEF PausedRecv, Awake, At, Goto, othersIdle, hintState, histories
  <1>2. thread' \in ThreadLocals /\ thread'.pc = "Phase" /\ thread'.taken = {}
    BY <1>1, FreshType, Zenon DEF SchedulerInv
  <1>3. thread.taken = {}
    BY <1>1 DEF SchedulerInv, LocalsAreRight
  <1>4. SchedulerType'
    BY <1>1, <1>2, ZenonT(60) DEF SchedulerInv, SchedulerType
  <1>5. GoneIsDead'
    BY <1>1, <1>2 DEF SchedulerInv, GoneIsDead
  <1>6. LocalsAreRight(thread, held)'
    BY <1>2 DEF LocalsAreRight
  <1>7. TicksAreRecorded'
    BY <1>1, Zenon DEF SchedulerInv, TicksAreRecorded
  <1>8. PhaseIsHeard' /\ HealthIsHeard'
    BY <1>2 DEF PhaseIsHeard, HealthIsHeard
  <1> QED
    BY <1>1, <1>2, <1>3, <1>4, <1>5, <1>6, <1>7, <1>8 DEF SchedulerInv

\* The phase is read: the thread goes on, sleeps while paused, or ends.
LEMMA ReadPhaseEffect ==
  ASSUME SchedulerInv, ReadPhase
  PROVE  /\ UNCHANGED <<flags, latest, health, wakeup, schedulerClock, caller, budget>>
         /\ UNCHANGED <<flagged, held>>
         /\ thread.pc = "Phase" /\ thread.taken = {}
         /\ thread' \in ThreadLocals /\ thread'.taken = {}
         /\ \/ /\ hintPhase = "Running" /\ hintPhase' = hintPhase
               /\ thread'.pc \in {"Flags", "OrForced"}
            \/ hintPhase = "Paused" /\ hintPhase' = hintPhase /\ thread'.pc = "PausedRecv"
            \/ hintPhase = "Stopping" /\ hintPhase' = "Stopped" /\ thread'.pc = "Done"
  <1>1. /\ UNCHANGED <<flags, latest, health, wakeup, schedulerClock, caller, budget>>
        /\ UNCHANGED <<flagged, held>>
        /\ thread.pc = "Phase"
        /\ hintPhase' = IF hintPhase = "Stopping" THEN "Stopped" ELSE hintPhase
    BY DEF ReadPhase, At, Goto, othersIdle, histories
  <1>2. thread.taken = {}
    BY <1>1 DEF SchedulerInv, LocalsAreRight
  <1>3. hintPhase \in {"Running", "Paused", "Stopping"}
    BY <1>1 DEF SchedulerInv, SchedulerType, SchedulerPhase, GoneIsDead
  <1>4. /\ thread \in ThreadLocals /\ schedulerClock \in Nat
        /\ thread.lastNow \in Nat
    BY DEF SchedulerInv, SchedulerType, ThreadLocals
  <1>5. /\ Fresh \in ThreadLocals /\ Fresh.taken = {}
        /\ Finished \in ThreadLocals /\ Finished.pc = "Done" /\ Finished.taken = {}
    BY FreshType, Zenon DEF SchedulerInv
  <1>6. CASE hintPhase = "Running" /\ schedulerClock >= thread.lastNow
    <2>1. thread' = [[Fresh EXCEPT !.now = schedulerClock, !.lastNow = schedulerClock]
                     EXCEPT !.pc = "Flags"]
      BY <1>4, <1>6 DEF ReadPhase, Goto
    <2>2. thread' \in ThreadLocals /\ thread'.taken = {} /\ thread'.pc = "Flags"
      BY <1>4, <1>5, <2>1, ZenonT(60) DEF ThreadLocals
    <2> QED
      BY <1>1, <1>2, <1>6, <2>2
  <1>7. CASE hintPhase = "Running" /\ ~(schedulerClock >= thread.lastNow)
    <2>1. thread' = [[Fresh EXCEPT !.now = schedulerClock, !.lastNow = schedulerClock]
                     EXCEPT !.pc = "OrForced", !.after = "Flags"]
      BY <1>4, <1>7 DEF ReadPhase, Goto, Discontinuity
    <2>2. thread' \in ThreadLocals /\ thread'.taken = {} /\ thread'.pc = "OrForced"
      BY <1>4, <1>5, <2>1, ZenonT(60) DEF ThreadLocals
    <2> QED
      BY <1>1, <1>2, <1>7, <2>2
  <1>8. CASE hintPhase = "Paused"
    <2>1. thread' = [Fresh EXCEPT !.pc = "PausedRecv"]
      BY <1>8 DEF ReadPhase, Goto
    <2>2. thread' \in ThreadLocals /\ thread'.taken = {} /\ thread'.pc = "PausedRecv"
      BY <1>5, <2>1 DEF ThreadLocals
    <2> QED
      BY <1>1, <1>2, <1>8, <2>2
  <1>9. CASE hintPhase = "Stopping"
    <2>1. thread' = Finished
      BY <1>9 DEF ReadPhase, Goto
    <2> QED
      BY <1>1, <1>2, <1>5, <1>9, <2>1
  <1> QED
    BY <1>3, <1>6, <1>7, <1>8, <1>9

\* The thread looks at the flags, the latest tick and the clock: it holds nothing,
\* and may only add to the flags.
LEMMA LookEffect ==
  ASSUME SchedulerInv, OrForced \/ LoadFlags \/ LoadLatest \/ ReadNowAgain
  PROVE  /\ UNCHANGED <<hintPhase, latest, health, wakeup, schedulerClock, caller, budget>>
         /\ UNCHANGED <<flagged, held>>
         /\ flags \subseteq flags' /\ flags' \in SUBSET Flag
         /\ thread.taken = {} /\ thread'.taken = {}
         /\ thread.pc \notin {"Phase", "PausedRecv", "Done", "Submit"}
         /\ thread'.pc \notin {"Done", "Sleep", "Submit"}
         /\ thread' \in ThreadLocals /\ LocalsAreRight(thread', held')
  <1>1. /\ UNCHANGED <<hintPhase, latest, health, wakeup, schedulerClock, caller, budget>>
        /\ UNCHANGED <<flagged, held>>
        /\ flags' = flags \/ flags' = flags \cup Forced
        /\ thread.pc \in {"OrForced", "Flags", "Latest", "NowAgain"}
    BY DEF OrForced, LoadFlags, LoadLatest, ReadNowAgain, At, Goto, othersIdle,
           hintState, histories
  <1>2. flags \subseteq flags' /\ flags' \in SUBSET Flag
    BY <1>1, ZenonT(60) DEF SchedulerInv, SchedulerType, Forced, Flag, UrgencyFlag
  <1>3. thread.taken = {}
    BY <1>1 DEF SchedulerInv, LocalsAreRight
  <1>4. /\ SchedulerType /\ thread \in ThreadLocals /\ schedulerClock \in Nat /\ latest \in Nat
        /\ thread.after \in {"Phase", "Flags"} /\ thread.now \in Nat
    BY DEF SchedulerInv, SchedulerType, ThreadLocals
  <1>5. /\ thread' \in ThreadLocals /\ thread'.taken = {}
        /\ thread'.pc \notin {"Done", "Sleep", "Submit"}
        /\ LocalsAreRight(thread', held')
    <2>1. CASE OrForced
      <3>1. \/ thread' = Fresh
            \/ thread' = [thread EXCEPT !.pc = "Flags", !.after = "Phase"]
        BY <1>4, <2>1, ZenonT(60) DEF OrForced, Goto
      <3>2. thread' \in ThreadLocals /\ thread'.taken = {} /\ thread'.pc \in {"Phase", "Flags"}
        BY <1>3, <1>4, <3>1, FreshType, ZenonT(60) DEF ThreadLocals
      <3> QED
        BY <3>2 DEF LocalsAreRight
    <2>2. CASE LoadFlags
      <3>1. \/ thread' = [thread EXCEPT !.pc = "Latest"]
            \/ thread' = [thread EXCEPT !.pc = "Interval"]
        BY <2>2 DEF LoadFlags, Goto
      <3>2. /\ thread' \in ThreadLocals /\ thread'.taken = {}
            /\ thread'.pc \in {"Latest", "Interval"}
        BY <1>3, <1>4, <3>1 DEF ThreadLocals
      <3> QED
        BY <3>2 DEF LocalsAreRight
    <2>3. CASE LoadLatest
      <3> DEFINE read == [thread EXCEPT !.latest = latest]
      <3>1. read \in ThreadLocals /\ read.taken = {}
        BY <1>3, <1>4 DEF ThreadLocals
      <3>2. \/ thread' = [read EXCEPT !.pc = "NowAgain"]
            \/ thread' = Decide(read)
        BY <2>3 DEF LoadLatest, Goto
      <3> HIDE DEF read
      <3>3. CASE thread' = [read EXCEPT !.pc = "NowAgain"]
        <4>1. thread' \in ThreadLocals /\ thread'.taken = {} /\ thread'.pc = "NowAgain"
          BY <3>1, <3>3 DEF ThreadLocals
        <4> QED
          BY <4>1 DEF LocalsAreRight
      <3>4. CASE thread' = Decide(read)
        BY <1>4, <3>1, <3>4, DecideIsRight
      <3> QED
        BY <3>2, <3>3, <3>4
    <2>4. CASE ReadNowAgain
      <3> DEFINE read == [thread EXCEPT !.now = schedulerClock, !.lastNow = schedulerClock]
                 lost == [[thread EXCEPT !.now = schedulerClock]
                          EXCEPT !.pc = "OrForced", !.after = "Phase"]
      <3>1. read \in ThreadLocals /\ read.taken = {}
        BY <1>3, <1>4, ZenonT(60) DEF ThreadLocals
      <3>2. lost \in ThreadLocals /\ lost.taken = {} /\ lost.pc = "OrForced"
        BY <1>3, <1>4, ZenonT(60) DEF ThreadLocals
      <3>3. thread' = lost \/ thread' = Decide(read)
        BY <2>4 DEF ReadNowAgain, Goto, Discontinuity
      <3> HIDE DEF read, lost
      <3>4. CASE thread' = lost
        BY <3>2, <3>4 DEF LocalsAreRight
      <3>5. CASE thread' = Decide(read)
        BY <1>4, <3>1, <3>5, DecideIsRight
      <3> QED
        BY <3>3, <3>4, <3>5
    <2> QED
      BY <2>1, <2>2, <2>3, <2>4
  <1> QED
    BY <1>1, <1>2, <1>3, <1>5

\* The flags are taken: at once when forced, and else after the quiet window.
LEMMA TakeEffect ==
  ASSUME SchedulerInv, LoadForced \/ TakeQuiet
  PROVE  /\ UNCHANGED <<hintPhase, latest, health, wakeup, schedulerClock, caller, budget>>
         /\ flags' = {} /\ flagged' = 0 /\ held' = flagged
         /\ thread.taken = {} /\ thread'.taken = flags
         /\ thread.pc \in {"Flags", "Take"} /\ thread'.pc \in {"MaySubmit", "LatestAfter"}
         /\ thread' \in ThreadLocals /\ LocalsAreRight(thread', held')
  <1>1. /\ UNCHANGED <<hintPhase, latest, health, wakeup, schedulerClock, caller, budget>>
        /\ flags' = {} /\ flagged' = 0 /\ held' = flagged
        /\ thread.pc \in {"Flags", "Take"}
    BY DEF LoadForced, TakeQuiet, TakeFlags, At, Goto, othersIdle
  <1>2. thread.taken = {}
    BY <1>1 DEF SchedulerInv, LocalsAreRight
  <1>3. thread \in ThreadLocals /\ flags \in SUBSET Flag
    BY DEF SchedulerInv, SchedulerType
  <1>4. /\ FlagsUrgency(flags) \in UrgencyFlag
        /\ \A f \in flags : UrgencyRank(f) <= UrgencyRank(FlagsUrgency(flags))
    BY <1>3, UrgencyCovers
  <1> DEFINE taking(next) == [thread EXCEPT !.pc = next, !.taken = flags,
                                            !.urgency = FlagsUrgency(flags)]
  <1>5. ASSUME NEW next \in {"MaySubmit", "LatestAfter"}
        PROVE  /\ taking(next) \in ThreadLocals /\ taking(next).pc = next
               /\ taking(next).taken = flags
               /\ taking(next).urgency = FlagsUrgency(flags)
               /\ taking(next).latest = thread.latest /\ taking(next).now = thread.now
    BY <1>3, <1>4, ZenonT(60) DEF ThreadLocals
  <1>6. CASE LoadForced
    <2>1. thread' = taking("MaySubmit") /\ "force" \in flags
      BY <1>6 DEF LoadForced, TakeFlags, Goto
    <2> HIDE DEF taking
    <2>2. /\ thread' \in ThreadLocals /\ thread'.pc = "MaySubmit" /\ thread'.taken = flags
          /\ thread'.urgency = FlagsUrgency(flags)
      BY <1>5, <2>1
    <2>3. LocalsAreRight(thread', held')
      BY <1>4, <2>1, <2>2 DEF LocalsAreRight
    <2> QED
      BY <1>1, <1>2, <2>2, <2>3
  <1>7. CASE TakeQuiet
    <2>1. thread' = taking("LatestAfter") /\ thread.pc = "Take"
      BY <1>7 DEF TakeQuiet, TakeFlags, Goto, At
    <2> HIDE DEF taking
    <2>2. /\ thread' \in ThreadLocals /\ thread'.pc = "LatestAfter" /\ thread'.taken = flags
          /\ thread'.urgency = FlagsUrgency(flags)
          /\ thread'.latest = thread.latest /\ thread'.now = thread.now
      BY <1>5, <2>1
    <2>3. thread.latest + Quiet <= thread.now
      BY <2>1 DEF SchedulerInv, LocalsAreRight
    <2>4. LocalsAreRight(thread', held')
      BY <1>4, <2>2, <2>3 DEF LocalsAreRight
    <2> QED
      BY <1>1, <1>2, <2>2, <2>4
  <1> QED
    BY <1>6, <1>7

\* A later tick, or a phase that is not running, sends the flags back; otherwise
\* the latest tick is as old as the quiet window asks.
LEMMA HoldEffect ==
  ASSUME SchedulerInv, LoadLatestAfter \/ MaySubmit
  PROVE  /\ UNCHANGED <<hintPhase, latest, health, wakeup, schedulerClock, caller, budget>>
         /\ UNCHANGED <<flags, flagged, held>>
         /\ thread'.taken = thread.taken /\ thread'.urgency = thread.urgency
         /\ thread.pc \in {"LatestAfter", "MaySubmit"}
         /\ thread'.pc \in {"PutBack", "MaySubmit", "Submit"}
         /\ thread'.pc = "Submit" => hintPhase = "Running"
         /\ thread' \in ThreadLocals /\ LocalsAreRight(thread', held')
  <1>1. /\ UNCHANGED <<hintPhase, latest, health, wakeup, schedulerClock, caller, budget>>
        /\ UNCHANGED <<flags, flagged, held>>
        /\ thread.pc \in {"LatestAfter", "MaySubmit"}
    BY DEF LoadLatestAfter, MaySubmit, At, Goto, othersIdle, hintState, histories
  <1>2. thread \in ThreadLocals
    BY DEF SchedulerInv, SchedulerType
  <1>3. PICK next \in {"PutBack", "MaySubmit", "Submit"} :
          /\ thread' = [thread EXCEPT !.pc = next]
          /\ next = "MaySubmit" => thread.pc = "LatestAfter" /\ ~(latest > thread.latest)
          /\ next = "Submit" => thread.pc = "MaySubmit" /\ hintPhase = "Running"
    BY DEF LoadLatestAfter, MaySubmit, At, Goto, NewerHint
  <1>4. /\ thread' \in ThreadLocals /\ thread'.pc = next
        /\ thread'.taken = thread.taken /\ thread'.urgency = thread.urgency
        /\ thread'.now = thread.now
    BY <1>2, <1>3 DEF ThreadLocals
  <1>5. \A f \in thread'.taken : UrgencyRank(f) <= UrgencyRank(thread'.urgency)
    BY <1>4 DEF SchedulerInv, LocalsAreRight
  <1>6. ASSUME next \in {"MaySubmit", "Submit"}, thread.taken # {}, "force" \notin thread.taken
        PROVE  held + Quiet <= thread.now
    <2>1. CASE next = "Submit"
      BY <1>3, <1>6, <2>1 DEF SchedulerInv, LocalsAreRight
    <2>2. CASE next = "MaySubmit"
      <3>1. thread.latest + Quiet <= thread.now
        BY <1>3, <2>2 DEF SchedulerInv, LocalsAreRight
      <3>2. held <= latest /\ ~(latest > thread.latest)
        BY <1>3, <2>2 DEF SchedulerInv, TicksAreRecorded
      <3>3. {held, latest, thread.latest, thread.now, Quiet} \subseteq Nat
        BY SchedulerAssumption DEF SchedulerInv, SchedulerType, ThreadLocals
      <3> QED
        BY <3>1, <3>2, <3>3
    <2> QED
      BY <1>6, <2>1, <2>2
  <1>7. LocalsAreRight(thread', held')
    BY <1>1, <1>4, <1>5, <1>6 DEF LocalsAreRight
  <1> QED
    BY <1>1, <1>3, <1>4, <1>7

\* Deferred flags are put back as they were taken.
LEMMA PutBackEffect ==
  ASSUME SchedulerInv, PutBack
  PROVE  /\ UNCHANGED <<hintPhase, latest, health, wakeup, schedulerClock, caller, budget>>
         /\ flags' = flags \cup thread.taken /\ flags' \in SUBSET Flag
         /\ flagged' \in Nat /\ flagged' <= latest /\ held' = 0
         /\ thread.pc = "PutBack" /\ thread'.pc = "Phase" /\ thread'.taken = {}
         /\ thread' \in ThreadLocals /\ LocalsAreRight(thread', held')
  <1>1. /\ UNCHANGED <<hintPhase, latest, health, wakeup, schedulerClock, caller, budget>>
        /\ flags' = flags \cup thread.taken /\ thread.pc = "PutBack"
        /\ flagged' = Larger(flagged, held) /\ held' = 0 /\ thread' = Fresh
    BY DEF PutBack, Restore, At, Goto, othersIdle
  <1>2. /\ {flagged, held, latest} \subseteq Nat /\ flagged <= latest /\ held <= latest
        /\ flags \in SUBSET Flag /\ thread.taken \in SUBSET Flag
    BY DEF SchedulerInv, SchedulerType, ThreadLocals, TicksAreRecorded
  <1>3. flags' \in SUBSET Flag
    BY <1>1, <1>2
  <1>4. flagged' \in Nat /\ flagged' <= latest
    BY <1>1, <1>2, OrderedPairs
  <1>5. thread' \in ThreadLocals /\ thread'.pc = "Phase" /\ thread'.taken = {}
    BY <1>1, FreshType, Zenon DEF SchedulerInv
  <1>6. LocalsAreRight(thread', held')
    BY <1>5 DEF LocalsAreRight
  <1> QED
    BY <1>1, <1>3, <1>4, <1>5, <1>6

\* The submit closure answers.
LEMMA SubmitEffect ==
  ASSUME SchedulerInv, SubmitAnswers
  PROVE  /\ UNCHANGED <<hintPhase, latest, health, wakeup, schedulerClock, caller, budget>>
         /\ UNCHANGED <<flags, flagged>> /\ held' = 0
         /\ thread.pc = "Submit" /\ thread'.pc = "Phase" /\ thread'.taken = {}
         /\ thread' \in ThreadLocals /\ LocalsAreRight(thread', held')
  <1>1. /\ UNCHANGED <<hintPhase, latest, health, wakeup, schedulerClock, caller, budget>>
        /\ UNCHANGED <<flags, flagged>> /\ held' = 0
        /\ thread.pc = "Submit" /\ thread' = [Fresh EXCEPT !.lastSubmit = thread.now]
    BY DEF SubmitAnswers, At, Goto, othersIdle
  <1>2. Fresh \in ThreadLocals /\ Fresh.pc = "Phase" /\ Fresh.taken = {}
    BY FreshType, Zenon DEF SchedulerInv
  <1>3. thread.now \in Nat
    BY DEF SchedulerInv, SchedulerType, ThreadLocals
  <1>4. thread' \in ThreadLocals /\ thread'.pc = "Phase" /\ thread'.taken = {}
    BY <1>1, <1>2, <1>3 DEF ThreadLocals
  <1>5. LocalsAreRight(thread', held')
    BY <1>4 DEF LocalsAreRight
  <1> QED
    BY <1>1, <1>4, <1>5

\* The submit closure fails, and the thread with it.
LEMMA FaultEffect ==
  ASSUME SchedulerInv, SubmitFaults
  PROVE  /\ UNCHANGED <<flags, latest, health, wakeup, schedulerClock, caller, budget, flagged>>
         /\ hintPhase' = "Faulted" /\ held' = 0
         /\ thread.pc = "Submit" /\ thread'.pc = "Done" /\ thread'.taken = {}
         /\ thread' \in ThreadLocals
  <1>1. /\ UNCHANGED <<flags, latest, health, wakeup, schedulerClock, caller, budget, flagged>>
        /\ hintPhase' = "Faulted" /\ held' = 0
        /\ thread.pc = "Submit" /\ thread' = Finished
    BY DEF SubmitFaults, At, Goto, othersIdle
  <1> QED
    BY <1>1, FreshType, Zenon DEF SchedulerInv

\* The periodic deadline: it overflows, has passed, or bounds the sleep.
LEMMA LoadHealthEffect ==
  ASSUME SchedulerInv, LoadHealth
  PROVE  /\ UNCHANGED <<flags, latest, health, wakeup, schedulerClock, caller, budget>>
         /\ UNCHANGED <<flagged, held>>
         /\ thread.pc = "Interval" /\ thread.taken = {}
         /\ thread' \in ThreadLocals /\ thread'.taken = {}
         /\ \/ hintPhase' = "Faulted" /\ thread'.pc = "Done"
            \/ hintPhase' = hintPhase /\ thread'.pc = "MaySubmit"
            \/ /\ hintPhase' = hintPhase /\ thread'.pc = "Sleep"
               /\ health = "Degraded" =>
                     thread'.until <= thread'.lastSubmit + DegradedPoll
  <1> DEFINE periodic == thread.lastSubmit + PollInterval
  <1>1. /\ UNCHANGED <<flags, latest, health, wakeup, schedulerClock, caller, budget>>
        /\ UNCHANGED <<flagged, held>>
        /\ thread.pc = "Interval"
    BY DEF LoadHealth, At, Goto, othersIdle, histories
  <1>2. thread.taken = {}
    BY <1>1 DEF SchedulerInv, LocalsAreRight
  <1>3. /\ periodic \in Nat
        /\ health = "Degraded" => periodic = thread.lastSubmit + DegradedPoll
        /\ thread.now \in Nat /\ thread.quiet \in Nat
    BY SchedulerAssumption DEF PollInterval, SchedulerInv, SchedulerType, ThreadLocals
  <1>4. /\ Fresh \in ThreadLocals /\ Fresh.taken = {} /\ Fresh.lastSubmit = thread.lastSubmit
        /\ Finished \in ThreadLocals /\ Finished.pc = "Done" /\ Finished.taken = {}
    BY FreshType, Zenon DEF SchedulerInv
  <1>5. \/ hintPhase' = "Faulted" /\ thread' = Finished
        \/ /\ hintPhase' = hintPhase
           /\ thread' = [Fresh EXCEPT !.pc = "MaySubmit", !.now = thread.now,
                                      !.urgency = "periodic"]
        \/ /\ hintPhase' = hintPhase
           /\ thread' = [Fresh EXCEPT !.pc = "Sleep", !.until = Smaller(thread.quiet, periodic)]
    BY DEF LoadHealth, Goto
  <1>6. Smaller(thread.quiet, periodic) \in Nat /\ Smaller(thread.quiet, periodic) <= periodic
    BY <1>3, OrderedPairs, ZenonT(60)
  <1> HIDE DEF periodic
  <1>7. CASE hintPhase' = "Faulted" /\ thread' = Finished
    BY <1>1, <1>2, <1>4, <1>7
  <1>8. CASE /\ hintPhase' = hintPhase
             /\ thread' = [Fresh EXCEPT !.pc = "MaySubmit", !.now = thread.now,
                                        !.urgency = "periodic"]
    <2>1. thread' \in ThreadLocals /\ thread'.taken = {} /\ thread'.pc = "MaySubmit"
      BY <1>3, <1>4, <1>8, ZenonT(60) DEF ThreadLocals, UrgencyFlag
    <2> QED
      BY <1>1, <1>2, <1>8, <2>1
  <1>9. CASE /\ hintPhase' = hintPhase
             /\ thread' = [Fresh EXCEPT !.pc = "Sleep",
                                        !.until = Smaller(thread.quiet, periodic)]
    <2>1. /\ thread' \in ThreadLocals /\ thread'.taken = {} /\ thread'.pc = "Sleep"
          /\ thread'.until = Smaller(thread.quiet, periodic)
          /\ thread'.lastSubmit = thread.lastSubmit
      BY <1>4, <1>6, <1>9, ZenonT(60) DEF ThreadLocals
    <2> QED
      BY <1>1, <1>2, <1>3, <1>6, <1>9, <2>1
  <1> QED
    BY <1>5, <1>7, <1>8, <1>9

\* The thread goes to sleep for no longer than the health it loaded allows.
LEMMA LoadHealthKeeps ==
  ASSUME SchedulerInv, LoadHealth
  PROVE  SchedulerInv'
  <1>1. /\ UNCHANGED <<flags, latest, health, wakeup, schedulerClock, caller, budget>>
        /\ UNCHANGED <<flagged, held>>
        /\ thread.pc = "Interval"
        /\ thread' \in ThreadLocals /\ thread'.taken = {}
    BY LoadHealthEffect, Zenon
  <1>2. /\ held' \in Nat /\ held' <= latest /\ flagged' \in Nat /\ flagged' <= latest
        /\ flags' \in SUBSET Flag
    BY <1>1 DEF SchedulerInv, SchedulerType, TicksAreRecorded
  <1>3. CASE hintPhase' = "Faulted" /\ thread'.pc = "Done"
    BY <1>1, <1>2, <1>3, ThreadEnds
  <1>4. CASE hintPhase' = hintPhase /\ thread'.pc = "MaySubmit"
    <2>1. LocalsAreRight(thread', held')
      BY <1>1, <1>4 DEF LocalsAreRight
    <2> QED
      BY <1>1, <1>2, <1>4, <2>1, ThreadMoves
  <1>5. CASE /\ hintPhase' = hintPhase /\ thread'.pc = "Sleep"
             /\ health = "Degraded" => thread'.until <= thread'.lastSubmit + DegradedPoll
    <2>1. SchedulerType'
      BY <1>1, <1>5 DEF SchedulerInv, SchedulerType
    <2>2. GoneIsDead'
      BY <1>1, <1>5 DEF SchedulerInv, GoneIsDead
    <2>3. LocalsAreRight(thread, held)'
      BY <1>1, <1>5 DEF LocalsAreRight
    <2>4. TicksAreRecorded'
      BY <1>1, Zenon DEF SchedulerInv, TicksAreRecorded
    <2>5. PhaseIsHeard'
      BY <1>1, <1>5 DEF SchedulerInv, PhaseIsHeard
    <2>6. HealthIsHeard'
      BY <1>1, <1>5, Zenon DEF HealthIsHeard
    <2> QED
      BY <2>1, <2>2, <2>3, <2>4, <2>5, <2>6, Zenon DEF SchedulerInv
  <1> QED
    BY <1>3, <1>4, <1>5, LoadHealthEffect, Zenon

\* Every step of run_scheduler keeps the invariant.
LEMMA ThreadStepKeeps ==
  ASSUME SchedulerInv, ThreadStep
  PROVE  SchedulerInv'
  <1>1. /\ held \in Nat /\ held <= latest /\ flagged \in Nat /\ flagged <= latest
        /\ flags \in SUBSET Flag /\ latest \in Nat
    BY DEF SchedulerInv, SchedulerType, TicksAreRecorded
  <1>2. CASE ReadPhase
    <2>1. CASE thread'.pc = "Done"
      BY <1>1, <1>2, <2>1, ReadPhaseEffect, ThreadEnds
    <2>2. CASE thread'.pc # "Done"
      <3>1. LocalsAreRight(thread', held')
        BY <1>2, ReadPhaseEffect DEF LocalsAreRight
      <3> QED
        BY <1>1, <1>2, <2>2, <3>1, ReadPhaseEffect, ThreadMoves
    <2> QED
      BY <2>1, <2>2
  <1>3. CASE PausedRecv \/ Awake
    BY <1>3, ThreadWakes
  <1>4. CASE OrForced \/ LoadFlags \/ LoadLatest \/ ReadNowAgain
    BY <1>1, <1>4, LookEffect, ThreadMoves
  <1>5. CASE LoadForced \/ TakeQuiet
    BY <1>1, <1>5, TakeEffect, ThreadMoves
  <1>6. CASE LoadLatestAfter \/ MaySubmit
    BY <1>1, <1>6, HoldEffect, ThreadMoves
  <1>7. CASE PutBack
    BY <1>1, <1>7, PutBackEffect, ThreadMoves
  <1>8. CASE SubmitAnswers
    BY <1>1, <1>8, SubmitEffect, ThreadMoves
  <1>9. CASE SubmitFaults
    BY <1>1, <1>9, FaultEffect, ThreadEnds
  <1>10. CASE LoadHealth
    BY <1>10, LoadHealthKeeps
  <1> QED
    BY <1>2, <1>3, <1>4, <1>5, <1>6, <1>7, <1>8, <1>9, <1>10 DEF ThreadStep

\* Every step of a caller keeps the invariant.
LEMMA CallerStepKeeps ==
  ASSUME SchedulerInv, NEW c \in Hinters, CallerStep(c)
  PROVE  SchedulerInv'
  BY StoreHealthKeeps, SignalCheckKeeps, SignalClockKeeps, SignalRecordKeeps,
     SignalOrKeeps, SignalWakeKeeps, Zenon DEF CallerStep

\* HintState::new, with the thread at the head of its loop.
LEMMA InitIsTimely == SchedulerInit => SchedulerInv
  <1> SUFFICES ASSUME SchedulerInit PROVE SchedulerInv
    OBVIOUS
  <1>1. budget \in Budget /\ budget.top \in Nat
    BY SchedulerAssumption DEF SchedulerInit, Budget
  <1>2. caller \in [Hinters -> CallerEntry] /\ \A c \in Hinters : caller[c].pc = "Idle"
    BY RestingType, ZenonT(60) DEF SchedulerInit, Hinters
  <1>3. thread \in ThreadLocals /\ thread.pc = "Phase" /\ thread.taken = {}
    BY <1>1 DEF SchedulerInit, ThreadLocals, NoQuiet, UrgencyFlag
  <1>4. SchedulerType
    BY <1>1, <1>2, <1>3,
       ZenonT(60)
          DEF SchedulerInit, SchedulerType, SchedulerPhase, Forced, Flag, UrgencyFlag
  <1>5. GoneIsDead
    BY <1>3 DEF SchedulerInit, GoneIsDead
  <1>6. LocalsAreRight(thread, held)
    BY <1>3 DEF LocalsAreRight
  <1>7. TicksAreRecorded
    BY <1>2 DEF SchedulerInit, TicksAreRecorded
  <1>8. PhaseIsHeard /\ HealthIsHeard
    BY <1>3 DEF PhaseIsHeard, HealthIsHeard
  <1> QED
    BY <1>4, <1>5, <1>6, <1>7, <1>8 DEF SchedulerInv

\* Every step keeps the invariant.
LEMMA NextIsTimely == SchedulerInv /\ [SchedulerNext]_schedulerVars => SchedulerInv'
  <1> SUFFICES ASSUME SchedulerInv, [SchedulerNext]_schedulerVars PROVE SchedulerInv'
    OBVIOUS
  <1>1. CASE \E c \in budget.raisers, signal \in budget.signals : Raise(c, signal)
    <2>1. PICK c \in budget.raisers, signal \in budget.signals : Raise(c, signal)
      BY <1>1
    <2>2. c \in Hinters /\ signal \in Signal
      BY DEF SchedulerInv, SchedulerType, Budget, Hinters
    <2> QED
      BY <2>1, <2>2, RaiseKeeps
  <1>2. CASE \E c \in Callers \cup {Owner} : CallerStep(c)
    BY <1>2, CallerStepKeeps, Zenon DEF Hinters
  <1>3. CASE Pause \/ Resume \/ Shutdown
    BY <1>3, OwnerKeeps
  <1>4. CASE ThreadStep
    BY <1>4, ThreadStepKeeps
  <1>5. CASE SchedulerTick \/ StepBack \/ Join \/ SchedulerTerminated \/ UNCHANGED schedulerVars
    BY <1>5, ClockKeeps
  <1> QED
    BY <1>1, <1>2, <1>3, <1>4, <1>5, Zenon DEF SchedulerNext

(***************************************************************************)
(* Unforced hints are submitted only after a quiet window, although hints  *)
(* arrive while run_scheduler decides, and a watcher that degrades         *)
(* shortens the sleep that is under way: for every number of callers and   *)
(* every interleaving of their atomic accesses with the thread's.          *)
(***************************************************************************)
THEOREM TimelyScheduler == SchedulerSpec => []SchedulerIsTimely
  <1>1. SchedulerSpec => []SchedulerInv
    BY InitIsTimely, NextIsTimely, PTL DEF SchedulerSpec
  <1> QED
    BY <1>1, InvIsTimely, PTL

----------------------------------------------------------------------------
(* The refinement. *)

\* A step that adds to the flags, or moves them to or from the thread's locals, and
\* neither begins nor ends a submission nor the thread, is Accept.
LEMMA AcceptStep ==
  ASSUME SchedulerInv', flags \cup thread.taken \subseteq flags' \cup thread'.taken,
         thread.pc = "Submit" <=> thread'.pc = "Submit",
         thread'.pc = "Submit" => thread'.urgency = thread.urgency,
         hintPhase' \in {"Stopped", "Faulted"} <=> hintPhase \in {"Stopped", "Faulted"}
  PROVE  Latch!Next
  <1>1. flags' \cup thread'.taken \subseteq Flag
    BY DEF SchedulerInv, SchedulerType, ThreadLocals
  <1>2. (hintPhase' \notin {"Stopped", "Faulted"}) = (hintPhase \notin {"Stopped", "Faulted"})
    BY Zenon
  <1>3. (IF At("Submit") THEN thread.urgency ELSE "none")'
            = (IF At("Submit") THEN thread.urgency ELSE "none")
    BY DEF At
  <1>4. Latch!Accept
    BY <1>1, <1>2, <1>3, Zenon DEF Latch!Accept
  <1> QED
    BY <1>4, Zenon DEF Latch!Next

\* A step that ends the thread may give up what it held.
LEMMA DieStep ==
  ASSUME thread'.pc = "Done", thread'.taken = {}, flags' = flags,
         hintPhase \notin {"Stopped", "Faulted"}, hintPhase' \in {"Stopped", "Faulted"}
  PROVE  Latch!Next
  <1>1. flags' \cup thread'.taken \subseteq flags \cup thread.taken
    OBVIOUS
  <1>2. (IF At("Submit") THEN thread.urgency ELSE "none")' = "none"
    BY DEF At
  <1>3. Latch!Die
    BY <1>1, <1>2, Zenon DEF Latch!Die
  <1> QED
    BY <1>3, Zenon DEF Latch!Next

\* The submit closure is called: an offer of the urgency of the flags taken.
LEMMA OfferStep ==
  ASSUME SchedulerInv, MaySubmit, thread'.pc = "Submit"
  PROVE  Latch!Next
  <1>1. /\ UNCHANGED <<hintPhase, flags>> /\ hintPhase = "Running"
        /\ thread'.taken = thread.taken /\ thread'.urgency = thread.urgency
        /\ thread.pc # "Submit" /\ thread.urgency \in UrgencyFlag
    BY HoldEffect DEF SchedulerInv, SchedulerType, ThreadLocals
  <1>2. /\ (IF At("Submit") THEN thread.urgency ELSE "none")' = thread.urgency
        /\ (IF At("Submit") THEN thread.urgency ELSE "none") = "none"
    BY <1>1 DEF At
  <1>3. Latch!Offer(thread.urgency)
    BY <1>1, <1>2 DEF Latch!Offer
  <1> QED
    BY <1>1, <1>3, Zenon DEF Latch!Next

\* The answer settles flags the offer ranks at least as high as.
LEMMA ServeStep ==
  ASSUME SchedulerInv, SubmitAnswers
  PROVE  Latch!Next
  <1>1. /\ UNCHANGED <<hintPhase, flags>> /\ thread.pc = "Submit"
        /\ thread'.pc = "Phase" /\ thread'.taken = {}
    BY SubmitEffect
  <1>2. /\ hintPhase \notin {"Stopped", "Faulted"}
        /\ thread.urgency \in UrgencyFlag
        /\ \A f \in thread.taken : UrgencyRank(f) <= UrgencyRank(thread.urgency)
    BY <1>1 DEF SchedulerInv, SchedulerType, ThreadLocals, GoneIsDead, LocalsAreRight
  <1>3. /\ (IF At("Submit") THEN thread.urgency ELSE "none")' = "none"
        /\ (IF At("Submit") THEN thread.urgency ELSE "none") = thread.urgency
    BY <1>1 DEF At
  <1>4. thread.urgency # "none"
    BY <1>2 DEF UrgencyFlag
  <1>5. /\ flags' \cup thread'.taken \subseteq flags \cup thread.taken
        /\ \A f \in (flags \cup thread.taken) \ (flags' \cup thread'.taken) : f \in thread.taken
    BY <1>1
  <1>6. Latch!Serve
    BY <1>1, <1>2, <1>3, <1>4, <1>5, Zenon DEF Latch!Serve
  <1> QED
    BY <1>6, Zenon DEF Latch!Next

\* Every step of run_scheduler is a step of HintLatch.
LEMMA ThreadStepIsLatched ==
  ASSUME SchedulerInv, SchedulerInv', ThreadStep
  PROVE  Latch!Next
  <1>1. CASE ReadPhase
    <2>1. CASE thread'.pc = "Done"
      BY <1>1, <2>1, ReadPhaseEffect, DieStep
    <2>2. CASE thread'.pc # "Done"
      BY <1>1, <2>2, ReadPhaseEffect, AcceptStep
    <2> QED
      BY <2>1, <2>2
  <1>2. CASE PausedRecv \/ Awake
    BY <1>2, ThreadWakes, AcceptStep
  <1>3. CASE OrForced \/ LoadFlags \/ LoadLatest \/ ReadNowAgain
    BY <1>3, LookEffect, AcceptStep
  <1>4. CASE LoadForced \/ TakeQuiet
    BY <1>4, TakeEffect, AcceptStep
  <1>5. CASE LoadLatestAfter \/ MaySubmit
    <2>1. CASE thread'.pc = "Submit"
      <3>1. MaySubmit
        BY <1>5, <2>1 DEF LoadLatestAfter, Goto, SchedulerInv, SchedulerType, ThreadLocals
      <3> QED
        BY <2>1, <3>1, OfferStep
    <2>2. CASE thread'.pc # "Submit"
      BY <1>5, <2>2, HoldEffect, AcceptStep
    <2> QED
      BY <2>1, <2>2
  <1>6. CASE PutBack
    BY <1>6, PutBackEffect, AcceptStep
  <1>7. CASE SubmitAnswers
    BY <1>7, ServeStep
  <1>8. CASE SubmitFaults
    <2>1. hintPhase \notin {"Stopped", "Faulted"}
      BY <1>8, FaultEffect DEF SchedulerInv, GoneIsDead
    <2> QED
      BY <1>8, <2>1, FaultEffect, DieStep
  <1>9. CASE LoadHealth
    <2>1. hintPhase \notin {"Stopped", "Faulted"}
      BY <1>9, LoadHealthEffect DEF SchedulerInv, GoneIsDead
    <2>2. CASE hintPhase' = "Faulted" /\ thread'.pc = "Done"
      BY <1>9, <2>1, <2>2, LoadHealthEffect, DieStep
    <2>3. CASE hintPhase' = hintPhase /\ thread'.pc \in {"MaySubmit", "Sleep"}
      BY <1>9, <2>3, LoadHealthEffect, AcceptStep
    <2> QED
      BY <1>9, <2>2, <2>3, LoadHealthEffect
  <1> QED
    BY <1>1, <1>2, <1>3, <1>4, <1>5, <1>6, <1>7, <1>8, <1>9 DEF ThreadStep

\* Callers only add to the flags; the owner and the clock leave them.
LEMMA OthersAccept ==
  ASSUME SchedulerInv, SchedulerInv',
         \/ \E c \in Callers, signal \in Signal : Raise(c, signal)
         \/ \E c \in Callers \cup {Owner} : CallerStep(c)
         \/ Pause \/ Resume \/ Shutdown \/ Join \/ SchedulerTick \/ StepBack
         \/ SchedulerTerminated
  PROVE  Latch!Next
  <1>1. CASE \E c \in Callers, signal \in Signal : Raise(c, signal)
    BY <1>1, AcceptStep, ZenonT(60) DEF Raise, hintState
  <1>2. CASE \E c \in Callers \cup {Owner} : CallerStep(c)
    <2>1. UNCHANGED <<hintPhase, thread>> /\ flags \subseteq flags'
      BY <1>2, ZenonT(60)
         DEF CallerStep, StoreHealth, SignalCheck, SignalClock, SignalRecord,
                  SignalOr, SignalWake, hintState
    <2> QED
      BY <2>1, AcceptStep
  <1>3. CASE Pause \/ Resume \/ Shutdown
    <2>1. /\ UNCHANGED <<flags, thread>>
          /\ hintPhase' \in {"Stopped", "Faulted"} <=> hintPhase \in {"Stopped", "Faulted"}
      BY <1>3 DEF Pause, Resume, Shutdown
    <2> QED
      BY <2>1, AcceptStep
  <1>4. CASE Join
    BY <1>4, JoinSettled, AcceptStep DEF hintState
  <1>5. CASE SchedulerTick \/ StepBack \/ SchedulerTerminated
    <2>1. UNCHANGED <<hintPhase, flags, thread>>
      BY <1>5 DEF SchedulerTick, StepBack, SchedulerTerminated, schedulerVars, hintState
    <2> QED
      BY <2>1, AcceptStep
  <1> QED
    BY <1>1, <1>2, <1>3, <1>4, <1>5

(***************************************************************************)
(* The scheduler implements HintLatch: no hint is lost between raise and   *)
(* the submission, and none is served below its urgency, whatever defers,  *)
(* restores or interrupts the submission (hints.rs: signal, scheduler.rs:  *)
(* run_scheduler, submit_one).                                             *)
(***************************************************************************)
THEOREM SchedulerIsHintLatch == SchedulerSpec => ImplementsHintLatch
  <1>1. SchedulerSpec => []SchedulerInv
    BY InitIsTimely, NextIsTimely, PTL DEF SchedulerSpec
  <1>2. SchedulerInit => Latch!Init
    <2> SUFFICES ASSUME SchedulerInit PROVE Latch!Init
      OBVIOUS
    <2>1. thread.pc = "Phase" /\ thread.taken = {} /\ hintPhase \in {"Running", "Paused"}
      BY DEF SchedulerInit
    <2>2. flags \cup thread.taken \subseteq Flag
      BY InitIsTimely DEF SchedulerInv, SchedulerType, ThreadLocals
    <2>3. (hintPhase \notin {"Stopped", "Faulted"}) = TRUE
      BY <2>1
    <2> QED
      BY <2>1, <2>2, <2>3 DEF Latch!Init, At
  <1>3. SchedulerInv /\ SchedulerInv' /\ [SchedulerNext]_schedulerVars
            => [Latch!Next]_(Latch!vars)
    <2> SUFFICES ASSUME SchedulerInv, SchedulerInv', [SchedulerNext]_schedulerVars
                 PROVE  [Latch!Next]_(Latch!vars)
      OBVIOUS
    <2>1. CASE UNCHANGED schedulerVars
      BY <2>1, Zenon DEF schedulerVars, hintState, Latch!vars, At
    <2>2. CASE ThreadStep
      BY <2>2, ThreadStepIsLatched, Zenon
    <2>3. CASE SchedulerNext /\ ~ThreadStep
      <3>1. \A c \in budget.raisers : c \in Callers
        BY DEF SchedulerInv, SchedulerType, Budget
      <3>2. \A signal \in budget.signals : signal \in Signal
        BY DEF SchedulerInv, SchedulerType, Budget
      <3> QED
        BY <2>3, <3>1, <3>2, OthersAccept, Zenon DEF SchedulerNext
    <2> QED
      BY <2>1, <2>2, <2>3, Zenon
  <1> QED
    BY <1>1, <1>2, <1>3, PTL DEF SchedulerSpec, ImplementsHintLatch, Latch!Spec

=============================================================================
