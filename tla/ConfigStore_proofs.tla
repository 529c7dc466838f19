-------------------------- MODULE ConfigStore_proofs --------------------------
(***************************************************************************)
(* Proofs about ConfigStore: the gains the PIDs run with are those that    *)
(* are reported, and what T:220 has acknowledged can be loaded.            *)
(***************************************************************************)
EXTENDS ConfigStore, Integers, TLAPS

\* While no command stores gains, the PIDs run with what the flag does not
\* announce: the flag is stored last.
Applied ==
    ~Reorders =>
        /\ pc # "flagged"
        /\ pc # "store" /\ ~pid_gains_pending => active = pid

\* A command stores a set of gains, which are four.
Storing ==
    pc \in {"store", "flagged"} =>
        new \in [Gains -> Word] /\ done <= Len(GainOrder)

\* A save writes the record of the gains it took, from the first word on.
Saving ==
    /\ pc \in {"erase", "program"} => new = Record(saved) /\ answer = "none"
    /\ pc = "erase" => done = 0
    /\ pc = "program" =>
        \A i \in 1..done : flash[FieldOrder[i]] = new[FieldOrder[i]]

Kept == answer = "ok" => Loads(flash) /\ GainsOf(flash) = saved

IInv == TypeOK /\ Applied /\ Storing /\ Saving /\ Kept

-----------------------------------------------------------------------------
(* The record *)

\* The eight words of the record, spelled out.
LEMMA FieldsSpelled ==
    /\ Fields = {"magic", "version", "kp", "ki", "kd", "kf", "imu", "checksum"}
    /\ DOMAIN FieldOrder = 1..8 /\ Len(FieldOrder) = 8
    /\ Len(GainOrder) = 4
    /\ \A i \in 1..8 : FieldOrder[i] \in Fields
    /\ \A i \in 1..4 : GainOrder[i] \in Gains
BY DEF Fields, FieldOrder, GainOrder, Gains

\* Erased and the checksum of any record are words.
LEMMA Words ==
    /\ Erased \in Word /\ 0 \in Word
    /\ \A n \in Nat : n % WordMod \in Word
BY WordAssumption DEF Word, Erased

\* The sum does not read the checksum.
LEMMA SameSum ==
    ASSUME NEW g \in [Gains -> Word]
    PROVE  calc_checksum(Record(g)) = calc_checksum(Unsummed(g))
BY FieldsSpelled DEF calc_checksum, Record

\* A sum of words is a word.
LEMMA SumType ==
    ASSUME NEW cfg \in [Fields -> Word]
    PROVE  calc_checksum(cfg) \in Word
BY FieldsSpelled, Words DEF calc_checksum, Word

\* What is saved is a record of words, which loads and gives what was saved.
LEMMA RecordRight ==
    ASSUME NEW g \in [Gains -> Word]
    PROVE  /\ Record(g) \in [Fields -> Word]
           /\ Loads(Record(g))
           /\ GainsOf(Record(g)) = g
<1>1. Unsummed(g) \in [Fields -> Word]
  BY WordAssumption, Words DEF Unsummed
<1>2. Record(g) \in [Fields -> Word]
  BY <1>1, SumType DEF Record
<1>3. Loads(Record(g))
  BY SameSum, FieldsSpelled DEF Loads, Record, Unsummed
<1>4. GainsOf(Record(g)) = g
  BY FieldsSpelled DEF GainsOf, Record, Unsummed, Gains
<1>. QED
  BY <1>2, <1>3, <1>4

-----------------------------------------------------------------------------
(* The invariant *)

\* A board with an empty sector satisfies the invariant.
LEMMA InitInv == Init => IInv
<1>1. SUFFICES ASSUME Init PROVE IInv
  OBVIOUS
<1>2. Defaults \in [Gains -> Word]
  BY WordAssumption DEF GainSets
<1>3. flash \in [Fields -> Word]
  BY <1>1, Words DEF Init
<1>4. TypeOK
  <2>1. pid_gains_pending \in BOOLEAN
    BY <1>1 DEF Init
  <2>2. done \in 0..Len(FieldOrder)
    BY <1>1, FieldsSpelled DEF Init
  <2>. QED
    BY <1>1, <1>2, <1>3, <2>1, <2>2 DEF Init, TypeOK
<1>5. Applied /\ Storing /\ Saving /\ Kept
  BY <1>1 DEF Init, Applied, Storing, Saving, Kept
<1>. QED
  BY <1>4, <1>5 DEF IInv

\* Setting gains preserves the invariant: the flag is up before the command
\* ends, and a load stores what a set of gains is made of.
LEMMA StoringStep ==
    ASSUME IInv,
           SetGains \/ ResetGains \/ LoadGains \/ StoreGain \/ StorePending
    PROVE  IInv'
<1> USE DEF IInv, Applied, Storing, Saving, Kept
<1>1. ASSUME NEW gains \in [Gains -> Word], StartStoring(gains)
      PROVE  IInv'
  BY <1>1, FieldsSpelled DEF StartStoring, TypeOK
<1>2. CASE SetGains
  BY <1>1, <1>2, WordAssumption DEF SetGains, GainSets
<1>3. CASE ResetGains
  BY <1>1, <1>3, WordAssumption DEF ResetGains, GainSets
<1>4. CASE LoadGains
  <2>1. GainsOf(flash) \in [Gains -> Word]
    BY FieldsSpelled DEF GainsOf, Gains, TypeOK
  <2>. QED
    BY <1>1, <1>4, <2>1 DEF LoadGains
<1>5. CASE StoreGain
  <2>1. GainOrder[done + 1] \in Gains
    BY <1>5, FieldsSpelled DEF StoreGain, TypeOK
  <2>2. pid' \in [Gains -> Word]
    BY <1>5, <2>1 DEF StoreGain, TypeOK
  <2>. QED
    BY <1>5, <2>2, FieldsSpelled DEF StoreGain, TypeOK
<1>6. CASE StorePending
  BY <1>6 DEF StorePending, StoreFlag, TypeOK
<1>. QED
  BY <1>2, <1>3, <1>4, <1>5, <1>6

\* Taking the gains over preserves it: the flag goes with the gains.
LEMMA TakingStep ==
    ASSUME IInv, TakeGains
    PROVE  IInv'
BY DEF IInv, TypeOK, Applied, Storing, Saving, Kept, TakeGains, serial_vars

\* What an incomplete erase leaves are words.
LEMMA PartlyErasedType ==
    ASSUME flash \in [Fields -> Word]
    PROVE  PartlyErased \subseteq [Fields -> Word]
BY Words DEF PartlyErased

\* Saving preserves it: words go in one by one, and only a whole record is
\* acknowledged.
LEMMA SavingStep ==
    ASSUME IInv,
           StartSaving \/ EraseSector \/ EraseFails \/ ProgramWord
               \/ ProgramFails \/ Saved
    PROVE  IInv'
<1> USE DEF IInv, Applied, Storing, Saving, Kept
<1>1. CASE StartSaving
  <2>1. Record(pid) \in [Fields -> Word]
    BY RecordRight DEF TypeOK
  <2>. QED
    BY <1>1, <2>1, FieldsSpelled DEF StartSaving, TypeOK
<1>2. CASE EraseSector
  BY <1>2, Words DEF EraseSector, TypeOK
<1>3. CASE EraseFails
  <2>1. flash' \in [Fields -> Word]
    BY <1>3, PartlyErasedType DEF EraseFails, TypeOK
  <2>. QED
    BY <1>3, <2>1 DEF EraseFails, Answer, TypeOK
<1>4. CASE ProgramWord
  <2>1. new \in [Fields -> Word]
    BY <1>4, RecordRight DEF ProgramWord, TypeOK
  <2>2. FieldOrder[done + 1] \in Fields /\ done' \in 0..Len(FieldOrder)
    BY <1>4, FieldsSpelled DEF ProgramWord, TypeOK
  <2>3. flash' \in [Fields -> Word]
    BY <1>4, <2>1, <2>2 DEF ProgramWord, TypeOK
  <2>4. \A i \in 1..done' : flash'[FieldOrder[i]] = new'[FieldOrder[i]]
    BY <1>4, <2>2, FieldsSpelled DEF ProgramWord, TypeOK
  <2>. QED
    BY <1>4, <2>2, <2>3, <2>4 DEF ProgramWord, TypeOK
<1>5. CASE ProgramFails
  BY <1>5 DEF ProgramFails, Answer, TypeOK
<1>6. CASE Saved
  <2>1. new = Record(saved) /\ Record(saved) \in [Fields -> Word]
    BY <1>6, RecordRight DEF Saved, TypeOK
  <2>2. \A f \in Fields : flash[f] = new[f]
    BY <1>6, FieldsSpelled DEF Saved, FieldOrder
  <2>3. flash = Record(saved)
    BY <2>1, <2>2 DEF TypeOK
  <2>4. Loads(flash) /\ GainsOf(flash) = saved
    BY <2>3, RecordRight DEF TypeOK
  <2>. QED
    BY <1>6, <2>4 DEF Saved, Answer, TypeOK, Loads, GainsOf, calc_checksum
<1>. QED
  BY <1>1, <1>2, <1>3, <1>4, <1>5, <1>6

\* A reset preserves it: it leaves the sector alone but in an erase, before
\* which T:220 has withdrawn its answer.
LEMMA ResetStep ==
    ASSUME IInv, Reset
    PROVE  IInv'
<1>1. Defaults \in [Gains -> Word]
  BY WordAssumption DEF GainSets
<1>2. flash' \in [Fields -> Word]
  BY PartlyErasedType DEF IInv, TypeOK, Reset
<1>3. TypeOK'
  <2>1. pid_gains_pending' \in BOOLEAN
    BY DEF Reset
  <2>2. done' \in 0..Len(FieldOrder)
    BY FieldsSpelled DEF Reset
  <2>. QED
    BY <1>1, <1>2, <2>1, <2>2 DEF IInv, TypeOK, Reset
<1>4. Applied' /\ Storing' /\ Saving'
  BY DEF Applied, Storing, Saving, Reset
<1>5. Kept'
  BY DEF IInv, Saving, Kept, Reset
<1>. QED
  BY <1>3, <1>4, <1>5 DEF IInv

\* Every step preserves the invariant.
LEMMA NextInv == IInv /\ [Next]_vars => IInv'
<1>1. SUFFICES ASSUME IInv, [Next]_vars PROVE IInv'
  OBVIOUS
<1>2. CASE UNCHANGED vars
  BY <1>1, <1>2 DEF IInv, TypeOK, Applied, Storing, Saving, Kept, vars,
     serial_vars
<1>3. CASE Next
  BY <1>1, <1>3, StoringStep, TakingStep, SavingStep, ResetStep
  DEF Next, SerialTask
<1>. QED
  BY <1>1, <1>2, <1>3

\* The invariant holds throughout.
LEMMA Invariance == Spec => []IInv
BY InitInv, NextInv, PTL DEF Spec

\* Every variable keeps its type, whatever the gains and the word size.
THEOREM TypeCorrect == Spec => []TypeOK
<1>1. IInv => TypeOK
  BY DEF IInv
<1>. QED
  BY <1>1, Invariance, PTL

\* Between commands the PIDs run with the gains that T:240 reports, or will
\* from the next cycle on, if the flag is stored last (main.cpp:229-233,
\* json_cmd.cpp:485-489).
THEOREM TakeEffect == ASSUME ~Reorders PROVE Spec => []GainsTakeEffect
<1>1. IInv => GainsTakeEffect
  BY DEF IInv, Applied, GainsTakeEffect
<1>. QED
  BY <1>1, Invariance, PTL

\* What T:220 has acknowledged can be loaded, through every reset, until the
\* next T:220 (config_store.cpp:16-54).
THEOREM AnswersHold == Spec => []AnswerHolds
<1>1. IInv => AnswerHolds
  BY DEF IInv, Kept, AnswerHolds
<1>. QED
  BY <1>1, Invariance, PTL

-----------------------------------------------------------------------------
(* The sector, record by record *)

\* the words a save has yet to program
Missing == {FieldOrder[i] : i \in (done + 1)..Len(FieldOrder)}

\* Outside of a command that stores gains, pid is a set of gains; such a
\* command has stored part of one.
PidWhole ==
    /\ pc \notin {"store", "flagged"} => pid \in GainSets
    /\ pc \in {"store", "flagged"} =>
        /\ new \in GainSets
        /\ \A i \in 1..done : pid[GainOrder[i]] = new[GainOrder[i]]

\* Words in the sector are of one record.
SectorOfOne ==
    /\ saved \in GainSets
    /\ \E g \in GainSets, gone \in SUBSET Fields : flash = Remnant(g, gone)
    /\ pc = "program" => flash = Remnant(saved, Missing)

WInv == PidWhole /\ SectorOfOne

\* The records of the sets of gains, and what is left of them, are words.
LEMMA RemnantType ==
    ASSUME NEW g \in GainSets, NEW gone \in SUBSET Fields
    PROVE  /\ g \in [Gains -> Word] /\ Record(g) \in [Fields -> Word]
           /\ Remnant(g, gone) \in [Fields -> Word]
<1>1. g \in [Gains -> Word]
    BY WordAssumption
<1>2. Record(g) \in [Fields -> Word]
    BY <1>1, RecordRight
<1> QED
    BY <1>1, <1>2, Words DEF Remnant

\* If the checksum notices erased words, a sector that loads is the record of a
\* set of gains.
LEMMA LoadsWhole ==
    ASSUME ChecksumNotices, NEW g \in GainSets, NEW gone \in SUBSET Fields,
           Loads(Remnant(g, gone))
    PROVE  Remnant(g, gone) = Record(g) /\ GainsOf(Remnant(g, gone)) = g
<1>1. Remnant(g, gone) = Record(g)
    BY DEF ChecksumNotices
<1>2. g \in [Gains -> Word]
    BY RemnantType
<1> QED
    BY <1>1, <1>2, RecordRight

\* An erase takes words of a remnant away, and of nothing else.
LEMMA ErasedRemnant ==
    ASSUME NEW g \in GainSets, NEW gone \in SUBSET Fields,
           flash = Remnant(g, gone), NEW left \in PartlyErased
    PROVE  \E all \in SUBSET Fields :
               gone \subseteq all /\ left = Remnant(g, all)
<1>1. PICK more \in SUBSET Fields :
          left = [f \in Fields |-> IF f \in more THEN Erased ELSE flash[f]]
    BY DEF PartlyErased
<1>2. left = Remnant(g, gone \cup more)
    BY <1>1 DEF Remnant
<1>3. gone \cup more \in SUBSET Fields /\ gone \subseteq gone \cup more
    OBVIOUS
<1> QED
    BY <1>2, <1>3

\* If a remnant is the record, so is every remnant with fewer words gone.
LEMMA FewerGone ==
    ASSUME NEW g \in GainSets, NEW gone \in SUBSET Fields,
           NEW all \in SUBSET Fields, gone \subseteq all,
           Remnant(g, all) = Record(g)
    PROVE  Remnant(g, gone) = Record(g)
<1>1. Record(g) \in [Fields -> Word]
    BY RemnantType
<1>2. ASSUME NEW f \in Fields
      PROVE  Remnant(g, gone)[f] = Record(g)[f]
    <2>1. Remnant(g, all)[f] = Record(g)[f]
        OBVIOUS
    <2> QED
        BY <2>1 DEF Remnant
<1> QED
    BY <1>1, <1>2, Zenon DEF Remnant

\* Missing words are words of the record.
LEMMA MissingType ==
    ASSUME NEW d \in Nat
    PROVE  {FieldOrder[i] : i \in (d + 1)..Len(FieldOrder)} \subseteq Fields
<1>1. \A i \in (d + 1)..8 : i \in 1..8
    OBVIOUS
<1>2. \A i \in (d + 1)..8 : FieldOrder[i] \in Fields
    BY <1>1, FieldsSpelled
<1>3. Len(FieldOrder) = 8
    BY FieldsSpelled
<1> QED
    BY <1>2, <1>3

\* One more word is programmed.
LEMMA ProgramStep ==
    ASSUME TypeOK, Saving, SectorOfOne, ProgramWord
    PROVE  flash' = Remnant(saved, Missing') /\ Missing' \in SUBSET Fields
<1>1. /\ pc = "program" /\ done < 8 /\ done' = done + 1 /\ done \in 0..8
      /\ new = Record(saved) /\ flash = Remnant(saved, Missing)
      /\ flash' = [flash EXCEPT ![FieldOrder[done + 1]] =
                      new[FieldOrder[done + 1]]]
    BY FieldsSpelled DEF ProgramWord, SectorOfOne, Saving, TypeOK
<1> DEFINE f1 == FieldOrder[done + 1]
<1>2. ASSUME NEW i \in 1..8, NEW j \in 1..8, FieldOrder[i] = FieldOrder[j]
      PROVE  i = j
    BY <1>2 DEF FieldOrder
<1>3. /\ f1 \in Fields /\ f1 \notin Missing'
      /\ \A f \in Fields : f # f1 => (f \in Missing' <=> f \in Missing)
    BY <1>1, <1>2, FieldsSpelled DEF Missing
<1> HIDE DEF f1
<1>4. flash \in [Fields -> Word]
    BY DEF TypeOK
<1>5. flash' = [flash EXCEPT ![f1] = Record(saved)[f1]]
    BY <1>1 DEF f1
<1>6. ASSUME NEW f \in Fields
      PROVE  flash'[f] = Remnant(saved, Missing')[f]
    <2>1. CASE f = f1
        BY <1>3, <1>4, <1>5, <2>1 DEF Remnant
    <2>2. CASE f # f1
        BY <1>1, <1>3, <1>4, <1>5, <2>2 DEF Remnant
    <2> QED
        BY <2>1, <2>2
<1>7. flash' = [f \in Fields |-> flash'[f]]
    BY <1>4, <1>5
<1> DEFINE m == Missing'
<1>8. \A f \in Fields : flash'[f] = Remnant(saved, m)[f]
    BY <1>6
<1> HIDE DEF m
<1>9. Remnant(saved, m) = [f \in Fields |-> Remnant(saved, m)[f]]
    BY DEF Remnant
<1>10. flash' = Remnant(saved, m)
    BY <1>7, <1>8, <1>9, Zenon
<1>11. Missing' \in SUBSET Fields
    <2>1. done' \in Nat
        BY <1>1
    <2> QED
        BY <2>1, MissingType DEF Missing
<1> QED
    BY <1>10, <1>11 DEF m

\* A board with an empty sector: every word of some record is gone.
LEMMA InitWInv == Init => WInv
<1> SUFFICES ASSUME Init
             PROVE  WInv
    OBVIOUS
<1>1. Defaults \in GainSets /\ Fields \in SUBSET Fields
    BY DEF GainSets
<1>2. flash = Remnant(Defaults, Fields)
    BY DEF Init, Remnant
<1>3. SectorOfOne
    BY <1>1, <1>2 DEF SectorOfOne, Init
<1>4. PidWhole
    BY <1>1 DEF PidWhole, Init
<1> QED
    BY <1>3, <1>4 DEF WInv

\* Nothing of the sector has changed.
LEMMA SameSector ==
    ASSUME SectorOfOne, UNCHANGED <<flash, saved>>,
           pc' = "program" => pc = "program" /\ done' = done
    PROVE  SectorOfOne'
<1>1. saved' \in GainSets /\ \E g \in GainSets, gone \in SUBSET Fields :
          flash' = Remnant(g, gone)
    BY DEF SectorOfOne
<1>2. pc' = "program" => flash' = Remnant(saved', Missing')
    <2>1. done' = done => Missing' = Missing
        BY DEF Missing
    <2> QED
        BY <2>1 DEF SectorOfOne
<1>3. \E g \in GainSets, gone \in SUBSET Fields : (flash = Remnant(g, gone))'
    <2>1. PICK g \in GainSets, gone \in SUBSET Fields :
              flash' = Remnant(g, gone)
        BY <1>1
    <2> QED
        BY <2>1
<1> QED
    BY <1>1, <1>2, <1>3 DEF SectorOfOne

\* A command stores one set of gains, word by word, whatever is stored first.
LEMMA StoringWhole ==
    ASSUME ChecksumNotices, IInv, WInv,
           SetGains \/ ResetGains \/ LoadGains \/ StoreGain \/ StorePending
    PROVE  WInv'
<1>1. TypeOK /\ Storing /\ PidWhole /\ SectorOfOne
    BY DEF IInv, WInv
<1>2. ASSUME NEW gains \in GainSets, StartStoring(gains)
      PROVE  WInv'
    <2>1. PidWhole'
        BY <1>2 DEF PidWhole, StartStoring
    <2>2. SectorOfOne'
        BY <1>1, <1>2, SameSector DEF StartStoring
    <2> QED
        BY <2>1, <2>2 DEF WInv
<1>3. CASE SetGains
    BY <1>2, <1>3 DEF SetGains, GainSets
<1>4. CASE ResetGains
    BY <1>2, <1>4 DEF ResetGains, GainSets
<1>5. CASE LoadGains
    <2>1. PICK g \in GainSets, gone \in SUBSET Fields :
              flash = Remnant(g, gone)
        BY <1>1 DEF SectorOfOne
    <2>2. GainsOf(flash) = g
        BY <1>5, <2>1, LoadsWhole DEF LoadGains
    <2> QED
        BY <1>2, <1>5, <2>2 DEF LoadGains
<1>6. CASE StoreGain
    <2>1. /\ pc \in {"store", "flagged"} /\ done < 4 /\ done \in 0..8
          /\ pid' = [pid EXCEPT ![GainOrder[done + 1]] =
                        new[GainOrder[done + 1]]]
          /\ done' = done + 1 /\ new \in GainSets
          /\ UNCHANGED <<flash, saved>>
          /\ \/ pc = "flagged" /\ done' = 4 /\ pc' = "idle"
             \/ pc' = pc /\ new' = new
        BY <1>1, <1>6, FieldsSpelled DEF StoreGain, PidWhole, TypeOK
    <2>2. ASSUME NEW i \in 1..done'
          PROVE  pid'[GainOrder[i]] = new[GainOrder[i]]
        <3>1. i \in 1..4 /\ done + 1 \in 1..4
            BY <2>1
        <3>2. GainOrder[i] \in Gains /\ GainOrder[done + 1] \in Gains
            BY <3>1, FieldsSpelled
        <3>3. pid \in [Gains -> Word]
            BY <1>1 DEF TypeOK
        <3>4. CASE i = done + 1
            BY <2>1, <3>2, <3>3, <3>4
        <3>5. CASE i \in 1..done
            <4>1. pid[GainOrder[i]] = new[GainOrder[i]]
                BY <1>1, <2>1, <3>5 DEF PidWhole
            <4> QED
                BY <2>1, <3>2, <3>3, <4>1
        <3> QED
            BY <2>1, <3>4, <3>5
    <2>3. done' = 4 => pid' = new
        <3>1. pid' \in [Gains -> Word] /\ new \in [Gains -> Word]
            <4>1. new \in [Gains -> Word]
                BY <2>1, WordAssumption
            <4>2. GainOrder[done + 1] \in Gains
                BY <2>1, FieldsSpelled
            <4> QED
                BY <1>1, <2>1, <4>1, <4>2 DEF TypeOK
        <3>2. ASSUME done' = 4, NEW k \in Gains
              PROVE  pid'[k] = new[k]
            <4>1. PICK i \in 1..4 : k = GainOrder[i]
                BY DEF Gains, GainOrder
            <4> QED
                BY <2>2, <3>2, <4>1
        <3> QED
            BY <3>1, <3>2
    <2>4. PidWhole'
        BY <2>1, <2>2, <2>3 DEF PidWhole
    <2>5. SectorOfOne'
        BY <1>1, <2>1, SameSector
    <2> QED
        BY <2>4, <2>5 DEF WInv
<1>7. CASE StorePending
    <2>1. /\ pc = "store" /\ UNCHANGED <<pid, done, flash, saved>>
          /\ \/ done = 4 /\ pc' = "idle"
             \/ pc' = "flagged" /\ new' = new
        BY <1>7, FieldsSpelled DEF StorePending, StoreFlag
    <2>2. done = 4 => pid = new
        <3>1. pid \in [Gains -> Word] /\ new \in [Gains -> Word]
            BY <1>1, <2>1, WordAssumption DEF TypeOK, PidWhole
        <3>2. ASSUME done = 4, NEW k \in Gains
              PROVE  pid[k] = new[k]
            <4>1. PICK i \in 1..4 : k = GainOrder[i]
                BY DEF Gains, GainOrder
            <4> QED
                BY <1>1, <2>1, <3>2, <4>1 DEF PidWhole
        <3> QED
            BY <3>1, <3>2
    <2>3. PidWhole'
        BY <1>1, <2>1, <2>2 DEF PidWhole
    <2>4. SectorOfOne'
        BY <1>1, <2>1, SameSector
    <2> QED
        BY <2>3, <2>4 DEF WInv
<1> QED
    BY <1>3, <1>4, <1>5, <1>6, <1>7

\* An incomplete erase leaves less of the record that was there.
LEMMA ErasedSector ==
    ASSUME SectorOfOne, flash' \in PartlyErased, saved' = saved,
           pc' # "program"
    PROVE  SectorOfOne'
<1>1. PICK g \in GainSets, gone \in SUBSET Fields : flash = Remnant(g, gone)
    BY DEF SectorOfOne
<1>2. PICK all \in SUBSET Fields : flash' = Remnant(g, all)
    BY <1>1, ErasedRemnant
<1> QED
    BY <1>2 DEF SectorOfOne

\* A save writes the record of one set of gains into an erased sector.
LEMMA SavingWhole ==
    ASSUME IInv, WInv,
           StartSaving \/ EraseSector \/ EraseFails \/ ProgramWord
               \/ ProgramFails \/ Saved
    PROVE  WInv'
<1>1. TypeOK /\ Saving /\ PidWhole /\ SectorOfOne
    BY DEF IInv, WInv
<1>2. PidWhole'
    BY <1>1 DEF PidWhole, StartSaving, EraseSector, EraseFails, ProgramWord,
            ProgramFails, Saved, Answer
<1>3. CASE StartSaving
    <2>1. pid \in GainSets
        BY <1>1, <1>3 DEF PidWhole, StartSaving
    <2>2. pc' # "program" /\ saved' = pid /\ flash' = flash
        BY <1>3 DEF StartSaving
    <2>3. SectorOfOne'
        BY <1>1, <2>1, <2>2 DEF SectorOfOne
    <2> QED
        BY <1>2, <2>3 DEF WInv
<1>4. CASE EraseSector
    <2>1. /\ flash' = [f \in Fields |-> Erased] /\ saved' = saved
          /\ done' = 0
        BY <1>1, <1>4 DEF EraseSector, Saving
    <2>2. Missing' = Fields
        BY <2>1, FieldsSpelled DEF Missing, Fields
    <2>3. flash' = Remnant(saved, Missing')
        BY <2>1, <2>2 DEF Remnant
    <2>4. Missing' \in SUBSET Fields /\ saved \in GainSets
        BY <1>1, <2>2 DEF SectorOfOne
    <2>5. PICK gone \in SUBSET Fields : gone = Missing'
        BY <2>4
    <2>6. flash' = Remnant(saved, gone) /\ saved' \in GainSets
        BY <2>1, <2>3, <2>4, <2>5
    <2>7. SectorOfOne'
        BY <2>1, <2>3, <2>4, <2>6 DEF SectorOfOne
    <2> QED
        BY <1>2, <2>7 DEF WInv
<1>5. CASE EraseFails
    <2>1. flash' \in PartlyErased /\ saved' = saved /\ pc' # "program"
        BY <1>5 DEF EraseFails, Answer
    <2> QED
        BY <1>1, <1>2, <2>1, ErasedSector DEF WInv
<1>6. CASE ProgramWord
    <2>1. flash' = Remnant(saved, Missing') /\ saved' = saved
        BY <1>1, <1>6, ProgramStep DEF ProgramWord
    <2>2. Missing' \in SUBSET Fields /\ saved \in GainSets
        BY <1>1, <1>6, ProgramStep DEF SectorOfOne
    <2>3. PICK gone \in SUBSET Fields : gone = Missing'
        BY <2>2
    <2>4. flash' = Remnant(saved, gone) /\ saved' \in GainSets
        BY <2>1, <2>2, <2>3
    <2>5. SectorOfOne'
        BY <2>1, <2>2, <2>4 DEF SectorOfOne
    <2> QED
        BY <1>2, <2>5 DEF WInv
<1>7. CASE ProgramFails \/ Saved
    <2>1. UNCHANGED <<flash, saved>> /\ pc' = "idle"
        BY <1>7 DEF ProgramFails, Saved, Answer
    <2> QED
        BY <1>1, <1>2, <2>1, SameSector DEF WInv
<1> QED
    BY <1>3, <1>4, <1>5, <1>6, <1>7

\* A reset starts with the defaults, and leaves less of the record at most.
LEMMA ResetWhole ==
    ASSUME WInv, Reset
    PROVE  WInv'
<1>1. PidWhole' /\ pc' = "idle" /\ saved' = saved
    BY DEF PidWhole, Reset, GainSets
<1>2. CASE pc = "erase"
    <2>1. flash' \in PartlyErased
        BY <1>2 DEF Reset
    <2> QED
        BY <1>1, <2>1, ErasedSector DEF WInv
<1>3. CASE pc # "erase"
    <2>1. flash' = flash
        BY <1>3 DEF Reset
    <2> QED
        BY <1>1, <2>1, SameSector DEF WInv
<1> QED
    BY <1>2, <1>3

LEMMA NextWInv == ChecksumNotices /\ IInv /\ WInv /\ [Next]_vars => WInv'
<1> SUFFICES ASSUME ChecksumNotices, IInv, WInv, [Next]_vars
             PROVE  WInv'
    OBVIOUS
<1>1. CASE UNCHANGED vars \/ TakeGains
    <2>1. UNCHANGED <<pid, pc, new, done, flash, saved>>
        BY <1>1 DEF vars, serial_vars, TakeGains
    <2>2. PidWhole'
        BY <2>1 DEF WInv, PidWhole
    <2> QED
        BY <2>1, <2>2, SameSector DEF WInv
<1>2. CASE Next
    BY <1>1, <1>2, StoringWhole, SavingWhole, ResetWhole DEF Next, SerialTask
<1> QED
    BY <1>1, <1>2

\* If the checksum notices erased words, so do both invariants hold throughout.
LEMMA WholeInvariance ==
    ASSUME ChecksumNotices
    PROVE  Spec => [](IInv /\ WInv)
<1>1. Init => IInv /\ WInv
    BY InitInv, InitWInv
<1>2. (IInv /\ WInv) /\ [Next]_vars => (IInv /\ WInv)'
    BY NextInv, NextWInv
<1> QED
    BY <1>1, <1>2, PTL DEF Spec

\* A step that changes the sector makes it load only as what was to be saved.
LEMMA SectorStep ==
    ASSUME ChecksumNotices, IInv, WInv, [Next]_vars, Loads(flash')
    PROVE  flash' = flash \/ GainsOf(flash') = saved
<1>1. TypeOK /\ Saving /\ SectorOfOne
    BY DEF IInv, WInv
<1>2. ASSUME flash' \in PartlyErased
      PROVE  flash' = flash
    <2>1. PICK g \in GainSets, gone \in SUBSET Fields :
              flash = Remnant(g, gone)
        BY <1>1 DEF SectorOfOne
    <2>2. PICK all \in SUBSET Fields :
              gone \subseteq all /\ flash' = Remnant(g, all)
        BY <1>2, <2>1, ErasedRemnant
    <2>3. Remnant(g, all) = Record(g)
        BY <2>2, LoadsWhole
    <2>4. Remnant(g, gone) = Record(g)
        BY <2>2, <2>3, FewerGone
    <2> QED
        BY <2>1, <2>2, <2>3, <2>4
<1>3. CASE EraseFails \/ (Reset /\ pc = "erase")
    BY <1>2, <1>3 DEF EraseFails, Reset
<1>4. CASE EraseSector
    <2>1. flash'["magic"] = Erased
        BY <1>4, FieldsSpelled DEF EraseSector
    <2>2. flash'["magic"] # CONFIG_MAGIC
        BY <2>1, WordAssumption
    <2> QED
        BY <2>2 DEF Loads
<1>5. CASE ProgramWord
    <2>1. flash' = Remnant(saved, Missing') /\ saved \in GainSets
        BY <1>1, <1>5, ProgramStep DEF SectorOfOne
    <2>2. Missing' \in SUBSET Fields
        BY <1>1, <1>5, ProgramStep
    <2>3. PICK m \in SUBSET Fields : m = Missing'
        BY <2>2
    <2>4. Loads(Remnant(saved, m)) /\ flash' = Remnant(saved, m)
        BY <2>1, <2>3
    <2>5. GainsOf(Remnant(saved, m)) = saved
        BY <2>1, <2>4, LoadsWhole
    <2> QED
        BY <2>4, <2>5
<1>6. CASE \/ SetGains \/ ResetGains \/ LoadGains \/ StoreGain \/ StorePending
           \/ StartSaving \/ ProgramFails \/ Saved \/ TakeGains
           \/ (Reset /\ pc # "erase") \/ UNCHANGED vars
    BY <1>6 DEF SetGains, ResetGains, LoadGains, StartStoring, StoreGain,
            StorePending, StoreFlag, StartSaving, ProgramFails, Saved,
            TakeGains, Reset, vars
<1> QED
    BY <1>3, <1>4, <1>5, <1>6 DEF Next, SerialTask

\* Two words that make the same sum, modulo the size of a word, are equal.
LEMMA SameRemainder ==
    ASSUME NEW s \in Int, NEW a \in Word, NEW b \in Word,
           (s + a) % WordMod = (s + b) % WordMod
    PROVE  a = b
<1> DEFINE x == s + a
           y == s + b
           k == (x \div WordMod) - (y \div WordMod)
<1>1. /\ WordMod \in Nat \ {0} /\ a \in Int /\ b \in Int
      /\ a - b < WordMod /\ b - a < WordMod
    BY WordAssumption DEF Word
<1>2. x \in Int /\ y \in Int /\ x - y = a - b
    BY <1>1
<1> HIDE DEF x, y
<1>3. x % WordMod = x - WordMod * (x \div WordMod)
      /\ x \div WordMod \in Int
    BY <1>1, <1>2, Z3
<1>4. y % WordMod = y - WordMod * (y \div WordMod)
      /\ y \div WordMod \in Int
    BY <1>1, <1>2, Z3
<1>5. x % WordMod = y % WordMod
    BY DEF x, y
<1>6. k \in Int /\ x - y = WordMod * k
    BY <1>1, <1>2, <1>3, <1>4, <1>5
<1> HIDE DEF k
<1>7. CASE k = 0
    BY <1>1, <1>2, <1>6, <1>7
<1>8. CASE k >= 1
    <2>1. WordMod * k >= WordMod
        BY <1>1, <1>6, <1>8
    <2> QED
        BY <1>1, <1>2, <1>6, <2>1
<1>9. CASE k <= -1
    <2>1. WordMod * k <= -WordMod
        BY <1>1, <1>6, <1>9
    <2> QED
        BY <1>1, <1>2, <1>6, <2>1
<1> QED
    BY <1>6, <1>7, <1>8, <1>9

-----------------------------------------------------------------------------
(* The theorems about the sector *)

\* Whatever the gains, the version and the size of a word, the checksum
\* notices a single erased word (config_store.cpp:7-13).
THEOREM OneWordNoticed ==
    \A g \in GainSets, f \in Fields :
        Loads(Remnant(g, {f})) => Remnant(g, {f}) = Record(g)
<1> SUFFICES ASSUME NEW g \in GainSets, NEW f \in Fields,
                    Loads(Remnant(g, {f}))
             PROVE  Remnant(g, {f}) = Record(g)
    OBVIOUS
<1> DEFINE r == Record(g)
           e == Remnant(g, {f})
<1>1. r \in [Fields -> Word] /\ e \in [Fields -> Word] /\ {f} \in SUBSET Fields
    BY RemnantType
<1>2. e[f] = Erased /\ \A h \in Fields : h # f => e[h] = r[h]
    BY DEF Remnant
<1>3. g \in [Gains -> Word]
    BY RemnantType
<1>4. Loads(r)
    BY <1>3, RecordRight
<1>5. Loads(e)
    OBVIOUS
<1> HIDE DEF r, e
<1>6. \A h \in Fields : r[h] \in Int /\ e[h] \in Int
    BY <1>1, WordAssumption DEF Word
<1>7. r["checksum"] = calc_checksum(r) /\ e["checksum"] = calc_checksum(e)
      /\ r["magic"] = e["magic"] /\ r["version"] = e["version"]
    BY <1>4, <1>5, FieldsSpelled DEF Loads
<1>8. e[f] = r[f]
    <2>1. CASE f = "magic" \/ f = "version"
        BY <1>7, <2>1
    <2>2. CASE f = "checksum"
        <3>1. \A h \in Fields : h # "checksum" => e[h] = r[h]
            BY <1>2, <2>2
        <3>2. calc_checksum(r) = calc_checksum(e)
            BY <3>1, FieldsSpelled DEF calc_checksum
        <3> QED
            BY <1>7, <2>2, <3>2
    <2>3. ASSUME NEW s \in Int, f # "checksum",
                 calc_checksum(r) = (s + r[f]) % WordMod,
                 calc_checksum(e) = (s + e[f]) % WordMod
          PROVE  e[f] = r[f]
        <3>1. r["checksum"] = e["checksum"]
            BY <1>2, <2>3, FieldsSpelled
        <3>2. (s + r[f]) % WordMod = (s + e[f]) % WordMod
            BY <1>7, <2>3, <3>1
        <3>3. r[f] \in Word /\ e[f] \in Word
            BY <1>1
        <3> QED
            BY <3>2, <3>3, SameRemainder
    <2>4. CASE f = "kp"
        <3> DEFINE s == r["magic"] + r["version"] + r["ki"] + r["kd"] + r["kf"]
                            + r["imu"]
        <3>1. s \in Int
            BY <1>6, FieldsSpelled
        <3>2. /\ calc_checksum(r) = (s + r[f]) % WordMod
              /\ calc_checksum(e) = (s + e[f]) % WordMod
            BY <1>2, <1>6, <2>4, FieldsSpelled DEF calc_checksum
        <3> QED
            BY <2>3, <2>4, <3>1, <3>2
    <2>5. CASE f = "ki"
        <3> DEFINE s == r["magic"] + r["version"] + r["kp"] + r["kd"] + r["kf"]
                            + r["imu"]
        <3>1. s \in Int
            BY <1>6, FieldsSpelled
        <3>2. /\ calc_checksum(r) = (s + r[f]) % WordMod
              /\ calc_checksum(e) = (s + e[f]) % WordMod
            BY <1>2, <1>6, <2>5, FieldsSpelled DEF calc_checksum
        <3> QED
            BY <2>3, <2>5, <3>1, <3>2
    <2>6. CASE f = "kd"
        <3> DEFINE s == r["magic"] + r["version"] + r["kp"] + r["ki"] + r["kf"]
                            + r["imu"]
        <3>1. s \in Int
            BY <1>6, FieldsSpelled
        <3>2. /\ calc_checksum(r) = (s + r[f]) % WordMod
              /\ calc_checksum(e) = (s + e[f]) % WordMod
            BY <1>2, <1>6, <2>6, FieldsSpelled DEF calc_checksum
        <3> QED
            BY <2>3, <2>6, <3>1, <3>2
    <2>7. CASE f = "kf"
        <3> DEFINE s == r["magic"] + r["version"] + r["kp"] + r["ki"] + r["kd"]
                            + r["imu"]
        <3>1. s \in Int
            BY <1>6, FieldsSpelled
        <3>2. /\ calc_checksum(r) = (s + r[f]) % WordMod
              /\ calc_checksum(e) = (s + e[f]) % WordMod
            BY <1>2, <1>6, <2>7, FieldsSpelled DEF calc_checksum
        <3> QED
            BY <2>3, <2>7, <3>1, <3>2
    <2>8. CASE f = "imu"
        <3> DEFINE s == r["magic"] + r["version"] + r["kp"] + r["ki"] + r["kd"]
                            + r["kf"]
        <3>1. s \in Int
            BY <1>6, FieldsSpelled
        <3>2. /\ calc_checksum(r) = (s + r[f]) % WordMod
              /\ calc_checksum(e) = (s + e[f]) % WordMod
            BY <1>2, <1>6, <2>8, FieldsSpelled DEF calc_checksum
        <3> QED
            BY <2>3, <2>8, <3>1, <3>2
    <2> QED
        BY <2>1, <2>2, <2>4, <2>5, <2>6, <2>7, <2>8, FieldsSpelled
<1>9. \A h \in Fields : e[h] = r[h]
    BY <1>2, <1>8
<1>10. e = r
    BY <1>1, <1>9
<1> QED
    BY <1>10 DEF e, r

\* For gains of which the checksum notices any erased words: whatever step of
\* a save is cut short or fails, and however often, and in whatever order the
\* stores of a command come, pid is a set of gains that somebody gave
\* (config_store.cpp:34-64, json_cmd.cpp:485-489).
THEOREM WholeGains == ASSUME ChecksumNotices PROVE Spec => []GainsWhole
<1>1. IInv /\ WInv => GainsWhole
    BY DEF WInv, PidWhole, GainsWhole
<1> QED
    BY <1>1, WholeInvariance, PTL

\* For such gains the sector never comes to load as anything but the record
\* that was to be saved (config_store.cpp:57-64).
THEOREM SectorUnmixed == ASSUME ChecksumNotices PROVE Spec => SectorNeverMixed
<1>1. (IInv /\ WInv) /\ [Next]_vars =>
          [Loads(flash') => flash' = flash \/ GainsOf(flash') = saved]_vars
    BY SectorStep
<1> QED
    BY <1>1, WholeInvariance, PTL DEF Spec, SectorNeverMixed
=============================================================================
