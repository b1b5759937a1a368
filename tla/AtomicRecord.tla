---------------------------- MODULE AtomicRecord ----------------------------
(***************************************************************************)
(* What RedundantRecordStore promises its users (settings, run state and   *)
(* the recovery journal): a save replaces the record in one step, and      *)
(* losing one file takes back at most the last save.                       *)
(***************************************************************************)
CONSTANTS Value, Missing, Invalid

VARIABLE pair

INSTANCE RecordPair

Init == pair = Empty

Save(value) == pair' = Saved(pair, value)

Lose ==
  \/ HasRecord(pair) /\ pair' = LostCurrent(pair)
  \/ HasRecord(pair) /\ pair.prev # Missing /\ pair' = LostPrevious(pair)

Next == (\E value \in Value : Save(value)) \/ Lose

Spec == Init /\ [][Next]_pair
=============================================================================
