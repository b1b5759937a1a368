---------------------------- MODULE SingleFlight ----------------------------
(***************************************************************************)
(* What the refresh worker promises the owner of the execute closure:      *)
(* executions do not overlap, no request is executed twice or after a      *)
(* request admitted later than it, and once admission has closed no        *)
(* execution begins.                                                       *)
(***************************************************************************)
EXTENDS Integers

VARIABLES
    running,    \* the id of the request being executed, 0 if there is none
    last,       \* the id of the request executed most recently
    open        \* executions may still begin

vars == <<running, last, open>>

Init == running = 0 /\ last = 0 /\ open = TRUE

Begin ==
    /\ open
    /\ running = 0
    /\ running' > last
    /\ last' = running'
    /\ open' = open

End ==
    /\ running # 0
    /\ running' = 0
    /\ UNCHANGED <<last, open>>

Close ==
    /\ open
    /\ open' = FALSE
    /\ UNCHANGED <<running, last>>

Next == Begin \/ End \/ Close

Spec == Init /\ [][Next]_vars

=============================================================================
