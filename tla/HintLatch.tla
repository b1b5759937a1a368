------------------------------ MODULE HintLatch ------------------------------
(***************************************************************************)
(* What the refresh scheduler promises to whoever raises hints: the flags  *)
(* of a hint are owed until a refresh of at least their urgency is         *)
(* submitted.                                                              *)
(***************************************************************************)
EXTENDS Integers

CONSTANTS Flag, Urgency, Rank(_)   \* Rank orders flags and urgencies

VARIABLES
    owed,    \* the flags of the hints that no submission has served yet
    offer,   \* the urgency of the submission under way, or "none"
    alive    \* FALSE once the scheduler has stopped or faulted

vars == <<owed, offer, alive>>

Init == owed \subseteq Flag /\ offer = "none" /\ alive = TRUE

Accept == owed \subseteq owed' /\ owed' \subseteq Flag /\ UNCHANGED <<offer, alive>>

Offer(u) == alive /\ offer = "none" /\ offer' = u /\ UNCHANGED <<owed, alive>>

\* A submission settles only flags it ranks at least as high as.
Serve ==
    /\ alive /\ offer # "none"
    /\ offer' = "none"
    /\ owed' \subseteq owed
    /\ \A f \in owed \ owed' : Rank(f) <= Rank(offer)
    /\ UNCHANGED alive

Die == alive /\ alive' = FALSE /\ offer' = "none" /\ owed' \subseteq owed

Next == Accept \/ (\E u \in Urgency : Offer(u)) \/ Serve \/ Die

Spec == Init /\ [][Next]_vars

=============================================================================
