----------------------------- MODULE RecordPair -----------------------------
(***************************************************************************)
(* What a RedundantRecordStore (crates/state/src/record.rs) keeps, seen    *)
(* without slot numbers and generations: the record a load returns, `cur', *)
(* and what the other slot holds, `prev'.  A slot that has no file is      *)
(* Missing, one that does not decode is Invalid.                           *)
(***************************************************************************)
CONSTANTS Missing, Invalid

NoRecord == {Missing, Invalid}

Empty == [cur |-> Missing, prev |-> Missing]

\* load: there is a record unless both slots fail to give one.
HasRecord(r) == r.cur \notin NoRecord

\* has_any_artifact
HasArtifact(r) == r.cur # Missing

\* RecordRedundancy::Fallback: the other slot holds something that does not decode.
IsFallback(r) == HasRecord(r) /\ r.prev = Invalid

(***************************************************************************)
(* save_explicit: the new record never overwrites the one a load returns.  *)
(* When no slot decodes, the other slot is left as it is.                  *)
(***************************************************************************)
Saved(r, value) == [cur |-> value, prev |-> r.cur]

\* The medium loses the record a load returns; the store falls back to the other.
LostCurrent(r) ==
  IF r.prev \in NoRecord THEN [cur |-> Invalid, prev |-> Invalid]
                         ELSE [cur |-> r.prev, prev |-> Invalid]

\* The medium loses the other slot.
LostPrevious(r) == [cur |-> r.cur, prev |-> Invalid]
=============================================================================
