-------------------------- MODULE RedundantRecord --------------------------
(***************************************************************************)
(* RedundantRecordStore<T> of crates/state/src/record.rs: two slots, each  *)
(* written as a whole through a staged file that replaces the slot in one  *)
(* step.  A record carries a generation; a load returns the decodable      *)
(* record of the higher one, a save goes to the other slot.  At the end    *)
(* stands the proof that this is an atomic record, for every set of values *)
(* and every generation limit.                                             *)
(***************************************************************************)
EXTENDS Integers, TLAPS

CONSTANTS
  Value,          \* what the records hold
  Missing,        \* a slot without a file
  Invalid,        \* a slot whose file does not decode
  MaxGeneration   \* u64::MAX

VARIABLE slots    \* slots[i], i \in {0, 1}

Record == [generation : Nat, value : Value]

IsValid(slot) == slot \notin {Missing, Invalid}

Init == slots = [i \in {0, 1} |-> Missing]

\* select_record: the slot a load returns the record of.
Selected(s) ==
  IF IsValid(s[0]) /\ (IsValid(s[1]) => s[0].generation >= s[1].generation)
    THEN 0 ELSE 1

\* explicit_save_plan and save_plan: the slot a save goes to.
TargetSlot(s) ==
  IF Selected(s) = 0 \/ (s[0] = Invalid /\ s[1] = Missing) THEN 1 ELSE 0

NextGeneration(s) ==
  IF IsValid(s[Selected(s)]) THEN s[Selected(s)].generation + 1 ELSE 1

\* save_with_policy with explicit recovery.  A crash before the publication
\* leaves both slots as they were.
Save(value) ==
  /\ NextGeneration(slots) =< MaxGeneration
  /\ slots' = [slots EXCEPT ![TargetSlot(slots)] =
                 [generation |-> NextGeneration(slots), value |-> value]]

\* The medium damages the file of one slot.
Damage(i) ==
  /\ slots[i] # Missing
  /\ slots' = [slots EXCEPT ![i] = Invalid]

Next ==
  \/ \E value \in Value : Save(value)
  \/ \E i \in {0, 1} : Damage(i)

Spec == Init /\ [][Next]_slots

-----------------------------------------------------------------------------
Content(slot) == IF IsValid(slot) THEN slot.value ELSE slot

\* The slots without their numbers and generations.
PairOf(s) ==
  IF IsValid(s[0]) \/ IsValid(s[1])
    THEN [cur |-> Content(s[Selected(s)]), prev |-> Content(s[1 - Selected(s)])]
    ELSE IF s[0] = Missing /\ s[1] = Missing
         THEN [cur |-> Missing, prev |-> Missing]
         ELSE [cur |-> Invalid, prev |-> Invalid]

Pair == PairOf(slots)

Atomic == INSTANCE AtomicRecord WITH pair <- Pair

(***************************************************************************)
(* A store with two slots and generations is an atomic record: whatever    *)
(* order of saves and lost files, what a load sees changes only the way    *)
(* AtomicRecord says (record.rs:261-518).                                  *)
(***************************************************************************)
ImplementsAtomicRecord == Atomic!Spec

-----------------------------------------------------------------------------
\* An absent and an undecodable file are told apart, and neither is a record.
MarkersDistinct ==
  /\ Missing # Invalid
  /\ {Missing, Invalid} \cap (Value \cup Record) = {}

TypeOK == slots \in [{0, 1} -> Record \cup {Missing, Invalid}]

\* Two decodable slots never carry the same generation, so a load is never torn
\* between two records (the integrity error of select_record).
GenerationsDiffer ==
  IsValid(slots[0]) /\ IsValid(slots[1]) => slots[0].generation # slots[1].generation

Inv == TypeOK /\ GenerationsDiffer

\* An empty pair of slots satisfies the invariant.
LEMMA InvInit == ASSUME MarkersDistinct PROVE Init => Inv
BY DEF MarkersDistinct, Init, Inv, TypeOK, GenerationsDiffer, IsValid

\* Saves and damage keep the invariant.
LEMMA InvNext == ASSUME MarkersDistinct PROVE Inv /\ [Next]_slots => Inv'
<1> SUFFICES ASSUME Inv, [Next]_slots PROVE Inv'
  OBVIOUS
<1> USE DEF Inv, TypeOK, GenerationsDiffer, IsValid
<1>1. CASE UNCHANGED slots
  BY <1>1
<1>2. ASSUME NEW value \in Value, Save(value) PROVE Inv'
  <2>1. NextGeneration(slots) \in Nat /\ TargetSlot(slots) \in {0, 1}
    BY DEF NextGeneration, TargetSlot, Selected, Record, MarkersDistinct
  <2>2. [generation |-> NextGeneration(slots), value |-> value] \in Record
    BY <2>1 DEF Record
  <2>3. TypeOK'
    BY <1>2, <2>1, <2>2 DEF Save
  <2>4. GenerationsDiffer'
    BY <1>2, <2>1 DEF Save, NextGeneration, TargetSlot, Selected, Record, MarkersDistinct
  <2> QED BY <2>3, <2>4
<1>3. ASSUME NEW i \in {0, 1}, Damage(i) PROVE Inv'
  BY <1>3 DEF Damage
<1> QED BY <1>1, <1>2, <1>3 DEF Next

\* What the pair is, case by case.
LEMMA PairCases ==
  ASSUME NEW s
  PROVE  /\ IsValid(s[0]) /\ Selected(s) = 0
              => PairOf(s) = [cur |-> s[0].value, prev |-> Content(s[1])]
         /\ IsValid(s[1]) /\ Selected(s) = 1
              => PairOf(s) = [cur |-> s[1].value, prev |-> Content(s[0])]
         /\ ~IsValid(s[0]) /\ ~IsValid(s[1]) /\ ~(s[0] = Missing /\ s[1] = Missing)
              => PairOf(s) = [cur |-> Invalid, prev |-> Invalid]
         /\ ~IsValid(s[0]) /\ ~IsValid(s[1]) /\ s[0] = Missing /\ s[1] = Missing
              => PairOf(s) = [cur |-> Missing, prev |-> Missing]
<1>1. IsValid(s[0]) /\ Selected(s) = 0
        => PairOf(s) = [cur |-> s[0].value, prev |-> Content(s[1])]
  BY DEF PairOf, Content
<1>2. IsValid(s[1]) /\ Selected(s) = 1
        => PairOf(s) = [cur |-> s[1].value, prev |-> Content(s[0])]
  BY DEF PairOf, Content
<1> QED BY <1>1, <1>2 DEF PairOf

\* A save goes to the slot a load does not use, whatever the slots hold.
LEMMA SaveStep ==
  ASSUME MarkersDistinct, Inv, NEW value \in Value, Save(value)
  PROVE  Atomic!Save(value)
<1> DEFINE record == [generation |-> NextGeneration(slots), value |-> value]
           target == TargetSlot(slots)
<1>1. /\ slots' = [slots EXCEPT ![target] = record]
      /\ target \in {0, 1} /\ IsValid(record) /\ record.value = value
      /\ slots'[target] = record /\ slots'[1 - target] = slots[1 - target]
  <2>1. target \in {0, 1}
    BY DEF TargetSlot
  <2>2. NextGeneration(slots) \in Nat
    BY DEF NextGeneration, Selected, IsValid, Inv, TypeOK, Record, MarkersDistinct
  <2>3. record \in Record
    BY <2>2 DEF Record
  <2> QED BY <2>1, <2>3 DEF Save, IsValid, Inv, TypeOK, MarkersDistinct
<1>2. IsValid(slots[1 - target])
        => NextGeneration(slots) > slots[1 - target].generation
  BY DEF NextGeneration, TargetSlot, Selected, IsValid, Inv, TypeOK, Record, MarkersDistinct
<1>3. /\ record.generation = NextGeneration(slots) /\ NextGeneration(slots) \in Nat
      /\ \A i \in {0, 1} : IsValid(slots[i]) => slots[i].generation \in Nat
  BY DEF NextGeneration, Selected, IsValid, Inv, TypeOK, Record, MarkersDistinct
<1> HIDE DEF record
<1>4. Selected(slots') = target
  <2>1. CASE target = 0
    <3>1. slots'[0] = record /\ slots'[1] = slots[1]
      BY <1>1, <2>1
    <3> QED BY <1>1, <1>2, <1>3, <2>1, <3>1 DEF Selected
  <2>2. CASE target = 1
    <3>1. slots'[1] = record /\ slots'[0] = slots[0]
      BY <1>1, <2>2
    <3> QED BY <1>1, <1>2, <1>3, <2>2, <3>1 DEF Selected
  <2> HIDE DEF target
  <2> QED BY <1>1, <2>1, <2>2
<1> HIDE DEF target
<1>5. Pair' = [cur |-> value, prev |-> Content(slots[1 - target])]
  <2>1. Pair' = PairOf(slots')
    BY DEF Pair
  <2>2. CASE target = 0
    <3>1. slots'[0] = record /\ slots'[1] = slots[1]
      BY <1>1, <2>2
    <3>2. PairOf(slots') = [cur |-> slots'[0].value, prev |-> Content(slots'[1])]
      BY <1>1, <1>4, <2>2, <3>1, PairCases, ZenonT(60)
    <3> QED BY <1>1, <2>1, <2>2, <3>1, <3>2
  <2>3. CASE target = 1
    <3>1. slots'[1] = record /\ slots'[0] = slots[0]
      BY <1>1, <2>3
    <3>2. PairOf(slots') = [cur |-> slots'[1].value, prev |-> Content(slots'[0])]
      BY <1>1, <1>4, <2>3, <3>1, PairCases, ZenonT(60)
    <3> QED BY <1>1, <2>1, <2>3, <3>1, <3>2
  <2> QED BY <1>1, <2>2, <2>3
<1> USE DEF target
<1>6. Content(slots[1 - target]) = Pair.cur
  <2>1. CASE IsValid(slots[0]) \/ IsValid(slots[1])
    <3>1. 1 - target = Selected(slots) /\ IsValid(slots[Selected(slots)])
      BY <2>1 DEF TargetSlot, Selected, IsValid
    <3> QED BY <3>1, <2>1 DEF Pair, PairOf
  <2>2. CASE ~IsValid(slots[0]) /\ ~IsValid(slots[1])
    BY <2>2 DEF Pair, PairOf, Content, TargetSlot, Selected, IsValid, MarkersDistinct
  <2> QED BY <2>1, <2>2
<1> QED BY <1>5, <1>6 DEF Atomic!Save, Atomic!Saved

\* A damaged file takes back the last save, or nothing.
LEMMA DamageStep ==
  ASSUME MarkersDistinct, Inv, NEW i \in {0, 1}, Damage(i)
  PROVE  Atomic!Lose \/ UNCHANGED Pair
<1>1. /\ slots'[i] = Invalid /\ slots'[1 - i] = slots[1 - i] /\ ~IsValid(slots'[i])
      /\ slots[i] # Missing
  BY DEF Damage, Inv, TypeOK, IsValid
<1>2. Pair' = PairOf(slots')
  BY DEF Pair
<1>3. IsValid(slots[0]) => slots[0].value \in Value
  BY DEF IsValid, Inv, TypeOK, Record
<1>4. IsValid(slots[1]) => slots[1].value \in Value
  BY DEF IsValid, Inv, TypeOK, Record
<1>5. CASE IsValid(slots[1 - i])
  <2>1. Pair' = [cur |-> slots[1 - i].value, prev |-> Invalid]
    <3>1. Selected(slots') = 1 - i
      BY <1>1, <1>5 DEF Selected, IsValid
    <3>2. Content(slots'[i]) = Invalid
      BY <1>1 DEF Content
    <3> QED BY <1>1, <1>2, <1>5, <3>1, <3>2, PairCases
  <2>2. CASE Selected(slots) = i
    <3>1. IsValid(slots[i])
      BY <2>2, <1>5 DEF Selected
    <3>2. Pair = [cur |-> slots[i].value, prev |-> slots[1 - i].value]
      BY <2>2, <3>1, <1>5, PairCases DEF Pair, Content
    <3> QED BY <2>1, <3>1, <3>2, <1>3, <1>4, <1>5
            DEF Atomic!Lose, Atomic!HasRecord, Atomic!LostCurrent, Atomic!NoRecord, MarkersDistinct
  <2>3. CASE Selected(slots) # i
    <3>1. Selected(slots) = 1 - i
      BY <2>3 DEF Selected
    <3>2. Pair = [cur |-> slots[1 - i].value, prev |-> Content(slots[i])]
      BY <3>1, <1>5, PairCases DEF Pair
    <3>3. Content(slots[i]) # Missing
      BY <1>1, <1>3, <1>4 DEF Content, MarkersDistinct
    <3> QED BY <2>1, <3>2, <3>3, <1>3, <1>4, <1>5
            DEF Atomic!Lose, Atomic!HasRecord, Atomic!LostPrevious, Atomic!NoRecord, MarkersDistinct
  <2> QED BY <2>2, <2>3
<1>6. CASE ~IsValid(slots[1 - i])
  <2>1. Pair' = [cur |-> Invalid, prev |-> Invalid]
    BY <1>1, <1>2, <1>6, PairCases DEF MarkersDistinct
  <2>2. CASE IsValid(slots[i])
    <3>1. Selected(slots) = i
      BY <1>6, <2>2 DEF Selected
    <3>2. Pair = [cur |-> slots[i].value, prev |-> slots[1 - i]]
      BY <1>6, <2>2, <3>1, PairCases DEF Pair, Content
    <3>3. slots[1 - i] \in {Missing, Invalid}
      BY <1>6 DEF IsValid
    <3> QED BY <2>1, <2>2, <3>2, <3>3, <1>3, <1>4
            DEF Atomic!Lose, Atomic!HasRecord, Atomic!LostCurrent, Atomic!NoRecord, MarkersDistinct
  <2>3. CASE ~IsValid(slots[i])
    BY <1>1, <1>6, <2>1, <2>3, PairCases DEF Pair
  <2> QED BY <2>2, <2>3
<1> QED BY <1>5, <1>6

(***************************************************************************)
(* RedundantRecordStore keeps the promise of AtomicRecord for every value  *)
(* set: saves are atomic and a single lost file costs at most the last     *)
(* save (record.rs:261-518).                                               *)
(***************************************************************************)
THEOREM RecordIsAtomic ==
  ASSUME MarkersDistinct
  PROVE  Spec => ImplementsAtomicRecord
<1>1. Init => Atomic!Init
  BY PairCases DEF Init, Atomic!Init, Atomic!Empty, Pair, IsValid
<1>2. Inv /\ [Next]_slots => [Atomic!Next]_Pair
  <2> SUFFICES ASSUME Inv, [Next]_slots PROVE [Atomic!Next]_Pair
    OBVIOUS
  <2>1. CASE UNCHANGED slots
    BY <2>1 DEF Pair, Selected, Content, IsValid
  <2>2. ASSUME NEW value \in Value, Save(value) PROVE Atomic!Next
    BY <2>2, SaveStep DEF Atomic!Next
  <2>3. ASSUME NEW i \in {0, 1}, Damage(i) PROVE [Atomic!Next]_Pair
    BY <2>3, DamageStep DEF Atomic!Next
  <2> QED BY <2>1, <2>2, <2>3 DEF Next
<1> QED BY <1>1, <1>2, InvInit, InvNext, PTL DEF Spec, ImplementsAtomicRecord, Atomic!Spec
=============================================================================
