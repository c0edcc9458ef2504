---------------------------- MODULE KeyIndexProofs ----------------------------
(***************************************************************************)
(* Proofs about the hash table, the filter in front of it, and the two     *)
(* together, for any hashes, sizes and threads.                            *)
(***************************************************************************)
EXTENDS KeyIndex, FiniteSets, FiniteSetTheorems, TLAPS

-----------------------------------------------------------------------------
(* HashTable.  The table keeps a free slot, every lookup answers right, and *)
(* none throws.  The inductive invariant adds to the run's invariants that  *)
(* every taken slot holds an inserted entry, that as many slots are taken   *)
(* as entries inserted, and that the slots an unfinished probe has passed   *)
(* are taken by other hashes.                                               *)

Taken == {p \in Positions : table[p].hash # 0}
TakenAreEntries == \A p \in Taken : \E i \in 1..next - 1 : table[p] = Entries[i]
Counted == Cardinality(Taken) = next - 1

\* every slot before p on the probe path of h is taken
Passed(h, p) == \A q \in Positions : Distance(h, q) < Distance(h, p) => table[q].hash # 0
InsertPath == Inserting => Passed(Entries[next].hash, pos)
LookupPath ==
    phase = "lookup" =>
        /\ probes = Distance(query, pos)
        /\ \A q \in Positions : Distance(query, q) < probes => table[q].hash \notin {0, query}
PhaseFits ==
    /\ phase # "insert" => next = N + 1
    /\ phase = "lookup" => query # 0

IInv ==
    /\ TypeOK /\ EveryEntryReachable /\ OneSlotPerHash /\ LookupRight /\ NeverThrows
    /\ TakenAreEntries /\ Counted /\ InsertPath /\ LookupPath /\ PhaseFits

\* The number of entries is a natural number and every entry is a slot.
LEMMA EntryFacts ==
    /\ N \in Nat
    /\ \A i \in 1..N : /\ Entries[i] \in Slots
                       /\ Entries[i].hash \in Nat /\ Entries[i].hash # 0
                       /\ Entries[i].offset \in Nat /\ Entries[i].offset # 0
                       /\ Entries[i] # EmptySlot
<1>1. N \in Nat
  BY EntriesAssumption DEF N
<1>2. ASSUME NEW i \in 1..N PROVE Entries[i] \in Slots
  BY EntriesAssumption DEF N
<1> QED
  BY <1>1, <1>2, EntriesAssumption DEF N, Slots, EmptySlot

\* The capacity rule leaves at least one slot free, for every N.
LEMMA CapacityExceeds == Capacity \in Nat /\ Capacity > N
<1>1. N \in Nat
  BY EntryFacts
<1>2. /\ (N * 10) \div 7 \in Nat
      /\ N >= 3 => (N * 10) \div 7 > N
  BY <1>1
<1> QED
  BY <1>1, <1>2, MinCapacityAssumption DEF Capacity

\* A probe starts inside the table.
LEMMA HomeInside == \A h \in Nat : Home(h) \in Positions
BY CapacityExceeds, EntryFacts DEF Home, Positions

\* One step of a probe: to the next slot, from the last one to the first.
LEMMA StepInside ==
    \A p \in Positions : /\ (p + 1) % Capacity = IF p + 1 = Capacity THEN 0 ELSE p + 1
                         /\ (p + 1) % Capacity \in Positions
BY CapacityExceeds, EntryFacts DEF Positions

\* Distances along a probe path: different slots are at different distances,
\* and one step adds one, except from the last slot of the path to its home.
LEMMA DistanceFacts ==
    ASSUME NEW h \in Nat
    PROVE  /\ \A p \in Positions : Distance(h, p) \in 0..Capacity - 1
           /\ \A p, q \in Positions : Distance(h, p) = Distance(h, q) => p = q
           /\ Distance(h, Home(h)) = 0
           /\ \A p \in Positions : LET s == IF p + 1 = Capacity THEN 0 ELSE p + 1
                                   IN  \/ Distance(h, s) = Distance(h, p) + 1
                                       \/ Distance(h, p) = Capacity - 1 /\ s = Home(h)
<1>1. Capacity \in Nat /\ Capacity > 0
  BY CapacityExceeds, EntryFacts
<1>2. Home(h) \in 0..Capacity - 1
  BY HomeInside DEF Positions
<1> HIDE DEF Home, Capacity
<1> QED
  BY <1>1, <1>2 DEF Distance, Positions

\* As many slots as entries are taken, so one is free: NeverFull.
LEMMA FreeSlot == TypeOK /\ Counted => NeverFull
<1> SUFFICES ASSUME TypeOK, Counted, ~NeverFull PROVE FALSE
  OBVIOUS
<1>1. Taken = 0..Capacity - 1
  BY DEF Taken, NeverFull, Positions
<1>2. Capacity \in Nat /\ Capacity > N /\ N \in Nat
  BY CapacityExceeds, EntryFacts
<1>3. Cardinality(0..Capacity - 1) = Capacity
  <2>1. 0 \in Int /\ Capacity - 1 \in Int
    BY <1>2
  <2>2. Cardinality(0..Capacity - 1) = IF 0 > Capacity - 1 THEN 0 ELSE (Capacity - 1) - 0 + 1
    BY <2>1, FS_Interval
  <2> QED
    BY <1>2, <2>2
<1>4. next - 1 = Capacity
  BY <1>1, <1>3 DEF Counted
<1> QED
  BY <1>2, <1>4 DEF TypeOK

-----------------------------------------------------------------------------
(* The initial state.                                                      *)

LEMMA InitIInv == Init => IInv
<1> SUFFICES ASSUME Init PROVE IInv
  OBVIOUS
<1>1. N \in Nat /\ Capacity \in Nat /\ Capacity > N
  BY EntryFacts, CapacityExceeds
<1>2. N # 0 => Entries[1].hash \in Nat /\ Home(Entries[1].hash) \in Positions
  BY <1>1, EntryFacts, HomeInside
<1>3. \A p \in Positions : table[p] = EmptySlot /\ table[p].hash = 0
  BY DEF Init, EmptySlot
<1>4. TypeOK
  BY <1>1, <1>2 DEF Init, TypeOK, Phases, Slots, EmptySlot, Positions
<1>5. Taken = {}
  BY <1>3 DEF Taken
<1>6. Counted
  BY <1>5, FS_EmptySet DEF Counted, Init
<1>7. InsertPath
  <2> SUFFICES ASSUME Inserting PROVE Passed(Entries[next].hash, pos)
    BY DEF InsertPath
  <2>1. N # 0 /\ next = 1 /\ pos = Home(Entries[1].hash)
    BY <1>1 DEF Init, Inserting
  <2>2. Entries[1].hash \in Nat
    BY <1>2, <2>1
  <2>3. Distance(Entries[1].hash, pos) = 0
    BY <2>1, <2>2, DistanceFacts
  <2>4. \A q \in Positions : Distance(Entries[1].hash, q) \in 0..Capacity - 1
    BY <2>2, DistanceFacts
  <2> QED
    BY <2>1, <2>3, <2>4 DEF Passed
<1>8. EveryEntryReachable /\ OneSlotPerHash /\ TakenAreEntries
  BY <1>3, <1>5 DEF Init, EveryEntryReachable, OneSlotPerHash, TakenAreEntries
<1>9. LookupRight /\ NeverThrows /\ LookupPath /\ PhaseFits
  BY DEF Init, LookupRight, NeverThrows, LookupPath, PhaseFits
<1> QED
  BY <1>4, <1>6, <1>7, <1>8, <1>9 DEF IInv

-----------------------------------------------------------------------------
(* The build.                                                              *)

\* A step past a taken slot adds that slot to the passed ones.
LEMMA InsertStepIInv == IInv /\ InsertStep => IInv'
<1> SUFFICES ASSUME IInv, InsertStep PROVE IInv'
  OBVIOUS
<1> DEFINE h == Entries[next].hash
<1>1. /\ pos \in Positions /\ next \in 1..N /\ h \in Nat
      /\ pos' = IF pos + 1 = Capacity THEN 0 ELSE pos + 1
      /\ pos' \in Positions
      /\ table' = table /\ next' = next
  BY StepInside, EntryFacts DEF IInv, TypeOK, InsertStep, Inserting
<1>2. TypeOK'
  BY <1>1 DEF IInv, TypeOK, InsertStep
<1>3. Passed(h, pos')
  <2> SUFFICES ASSUME NEW q \in Positions, Distance(h, q) < Distance(h, pos')
               PROVE  table[q].hash # 0
    BY DEF Passed
  <2>1. Distance(h, q) \in Nat /\ Distance(h, pos) \in Nat
    BY <1>1, DistanceFacts
  <2>2. Distance(h, pos') = Distance(h, pos) + 1 \/ pos' = Home(h)
    BY <1>1, DistanceFacts
  <2>3. Distance(h, pos') # 0
    BY <2>1
  <2>4. Distance(h, pos') = Distance(h, pos) + 1
    BY <2>2, <2>3, <1>1, DistanceFacts
  <2>5. Distance(h, q) < Distance(h, pos) \/ Distance(h, q) = Distance(h, pos)
    BY <2>1, <2>4
  <2>6. Distance(h, q) = Distance(h, pos) => q = pos
    BY <1>1, DistanceFacts
  <2> QED
    BY <2>5, <2>6, <1>1 DEF IInv, InsertPath, Passed, InsertStep
<1>4. InsertPath'
  BY <1>1, <1>3 DEF InsertPath, Passed, InsertStep, Inserting, Distance
<1>5. (EveryEntryReachable /\ OneSlotPerHash /\ TakenAreEntries /\ Counted)'
  BY <1>1 DEF IInv, EveryEntryReachable, OneSlotPerHash, TakenAreEntries, Counted, Taken, Distance
<1>6. (LookupRight /\ NeverThrows /\ LookupPath /\ PhaseFits)'
  BY DEF IInv, InsertStep, Inserting, LookupRight, NeverThrows, LookupPath, PhaseFits
<1> QED
  BY <1>2, <1>4, <1>5, <1>6 DEF IInv

\* A free slot at the end of the passed ones takes the entry.
LEMMA PlaceIInv == IInv /\ Place => IInv'
<1> SUFFICES ASSUME IInv, Place PROVE IInv'
  OBVIOUS
<1> DEFINE e == Entries[next]
<1>1. /\ pos \in Positions /\ next \in 1..N /\ N \in Nat /\ table[pos].hash = 0
      /\ e \in Slots /\ e.hash \in Nat /\ e.hash # 0
      /\ next' = next + 1 /\ phase = "insert" /\ phase' = "insert"
  BY EntryFacts DEF IInv, TypeOK, Place, Inserting
<1>2. /\ table' \in [Positions -> Slots]
      /\ table'[pos] = e
      /\ \A q \in Positions : q # pos => table'[q] = table[q]
  BY <1>1 DEF IInv, TypeOK, Place
<1>3. pos' \in Positions
  BY <1>1, EntryFacts, HomeInside, CapacityExceeds DEF Place, Positions
<1>4. TypeOK'
  BY <1>1, <1>2, <1>3 DEF IInv, TypeOK, Place
<1>5. EveryEntryReachable'
  <2> SUFFICES ASSUME NEW i \in 1..next
               PROVE  \E p \in Positions :
                        /\ table'[p] = Entries[i]
                        /\ \A q \in Positions :
                            Distance(Entries[i].hash, q) < Distance(Entries[i].hash, p) => table'[q].hash # 0
    BY <1>1 DEF EveryEntryReachable, Distance
  <2>1. CASE i = next
    <3>1. Distance(e.hash, pos) \in Int
      BY <1>1, DistanceFacts
    <3>2. ASSUME NEW q \in Positions, Distance(e.hash, q) < Distance(e.hash, pos) PROVE table'[q].hash # 0
      <4>1. table[q].hash # 0
        BY <3>2, <1>1 DEF IInv, InsertPath, Inserting, Passed
      <4> QED
        BY <4>1, <1>1, <1>2
    <3> QED
      BY <2>1, <3>2, <1>1, <1>2
  <2>2. CASE i # next
    <3>1. i \in 1..next - 1
      BY <2>2, <1>1
    <3>2. PICK p \in Positions :
            /\ table[p] = Entries[i]
            /\ \A q \in Positions :
                Distance(Entries[i].hash, q) < Distance(Entries[i].hash, p) => table[q].hash # 0
      BY <3>1 DEF IInv, EveryEntryReachable
    <3>3. Entries[i].hash # 0
      BY <3>1, <1>1, EntryFacts
    <3>4. \A q \in Positions : table[q].hash # 0 => table'[q] = table[q]
      BY <1>1, <1>2
    <3> QED
      BY <3>2, <3>3, <3>4
  <2> QED
    BY <2>1, <2>2
<1>6. \A q \in Taken : table[q].hash # e.hash
  <2> SUFFICES ASSUME NEW q \in Taken, table[q].hash = e.hash PROVE FALSE
    OBVIOUS
  <2>1. PICK i \in 1..next - 1 : table[q] = Entries[i]
    BY DEF IInv, TakenAreEntries
  <2>2. i \in 1..N /\ Entries[i].hash = Entries[next].hash
    BY <2>1, <1>1
  <2>3. i = next
    BY <2>2, <1>1, EntriesAssumption DEF N
  <2> QED
    BY <2>1, <2>3, <1>1
<1>7. Taken' = Taken \cup {pos} /\ pos \notin Taken
  BY <1>1, <1>2 DEF Taken
<1>8. OneSlotPerHash'
  <2> SUFFICES ASSUME NEW p \in Positions, NEW q \in Positions,
                      table'[p].hash = table'[q].hash, table'[p].hash # 0
               PROVE  p = q
    BY DEF OneSlotPerHash
  <2>1. CASE p # pos /\ q # pos
    BY <2>1, <1>2 DEF IInv, OneSlotPerHash
  <2>2. CASE p = pos /\ q # pos
    BY <2>2, <1>2, <1>6, <1>1 DEF Taken
  <2>3. CASE p # pos /\ q = pos
    BY <2>3, <1>2, <1>6, <1>1 DEF Taken
  <2> QED
    BY <2>1, <2>2, <2>3
<1>9. TakenAreEntries'
  <2> SUFFICES ASSUME NEW q \in Taken' PROVE \E i \in 1..next : table'[q] = Entries[i]
    BY <1>1 DEF TakenAreEntries
  <2>1. CASE q = pos
    BY <2>1, <1>1, <1>2
  <2>2. CASE q # pos
    <3>1. q \in Taken /\ q \in Positions
      BY <2>2, <1>7 DEF Taken
    <3>2. PICK i \in 1..next - 1 : table[q] = Entries[i]
      BY <3>1 DEF IInv, TakenAreEntries
    <3> QED
      BY <2>2, <3>1, <3>2, <1>1, <1>2
  <2> QED
    BY <2>1, <2>2
<1>10. Counted'
  <2>1. IsFiniteSet(Taken)
    <3>1. IsFiniteSet(0..Capacity - 1)
      BY CapacityExceeds, EntryFacts, FS_Interval
    <3> QED
      BY <3>1, FS_Subset DEF Taken, Positions
  <2>2. Cardinality(Taken \cup {pos}) = Cardinality(Taken) + 1
    BY <2>1, <1>7, FS_AddElement
  <2> QED
    BY <2>2, <1>1, <1>7 DEF IInv, Counted
<1>11. InsertPath'
  <2> SUFFICES ASSUME next + 1 <= N, NEW q \in Positions,
                      Distance(Entries[next + 1].hash, q) < Distance(Entries[next + 1].hash, pos')
               PROVE  table'[q].hash # 0
    BY <1>1 DEF InsertPath, Inserting, Passed, Distance
  <2>1. pos' = Home(Entries[next + 1].hash) /\ Entries[next + 1].hash \in Nat
    BY <1>1, EntryFacts DEF Place
  <2>2. Distance(Entries[next + 1].hash, pos') = 0
    BY <2>1, DistanceFacts
  <2>3. Distance(Entries[next + 1].hash, q) \in 0..Capacity - 1
    BY <2>1, DistanceFacts
  <2> QED
    BY <2>2, <2>3
<1>12. (LookupRight /\ NeverThrows /\ LookupPath /\ PhaseFits)'
  BY <1>1 DEF LookupRight, NeverThrows, LookupPath, PhaseFits
<1> QED
  BY <1>4, <1>5, <1>8, <1>9, <1>10, <1>11, <1>12 DEF IInv

\* The last entry is in.
LEMMA BuiltIInv == IInv /\ Built => IInv'
<1> SUFFICES ASSUME IInv, Built PROVE IInv'
  OBVIOUS
<1>1. N \in Nat /\ next \in 1..N + 1 /\ next = N + 1
  BY EntryFacts DEF IInv, TypeOK, Built
<1>2. TypeOK'
  BY DEF IInv, TypeOK, Built, Phases
<1>3. (EveryEntryReachable /\ OneSlotPerHash /\ TakenAreEntries /\ Counted)'
  BY DEF IInv, Built, EveryEntryReachable, OneSlotPerHash, TakenAreEntries, Counted, Taken, Distance
<1>4. (LookupRight /\ NeverThrows /\ InsertPath /\ LookupPath /\ PhaseFits)'
  BY <1>1 DEF Built, LookupRight, NeverThrows, InsertPath, Inserting, LookupPath, PhaseFits
<1> QED
  BY <1>2, <1>3, <1>4 DEF IInv

-----------------------------------------------------------------------------
(* Lookups.  None of them writes the table.                                *)

\* What holds of the built table goes on holding of it.
LEMMA TableKept ==
    ASSUME IInv, UNCHANGED <<table, next>>
    PROVE  (EveryEntryReachable /\ OneSlotPerHash /\ TakenAreEntries /\ Counted)'
BY DEF IInv, EveryEntryReachable, OneSlotPerHash, TakenAreEntries, Counted, Taken, Distance

LEMMA BeginIInv == \A h \in Questions : IInv /\ (BloomRejects(h) \/ Ask(h)) => IInv'
<1> SUFFICES ASSUME NEW h \in Questions, IInv, BloomRejects(h) \/ Ask(h) PROVE IInv'
  OBVIOUS
<1>1. h \in Nat /\ h # 0 /\ next = N + 1 /\ N \in Nat
  BY QuestionsAssumption, EntryFacts DEF IInv, PhaseFits, BloomRejects, Rejects, Ask
<1>2. UNCHANGED <<table, next>>
  BY DEF BloomRejects, Rejects, Ask
<1>3. (EveryEntryReachable /\ OneSlotPerHash /\ TakenAreEntries /\ Counted)'
  BY <1>2, TableKept
<1>4. CASE BloomRejects(h)
  <2>1. TypeOK'
    BY <1>1, <1>4 DEF IInv, TypeOK, BloomRejects, Rejects, Phases
  <2>2. LookupRight'
    BY <1>4 DEF BloomRejects, Rejects, LookupRight, RightAnswer, Known
  <2>3. (NeverThrows /\ InsertPath /\ LookupPath /\ PhaseFits)'
    BY <1>1, <1>4 DEF BloomRejects, Rejects, NeverThrows, InsertPath, Inserting, LookupPath, PhaseFits
  <2> QED
    BY <1>3, <2>1, <2>2, <2>3 DEF IInv
<1>5. CASE Ask(h)
  <2>1. TypeOK'
    BY <1>1, <1>5, HomeInside, CapacityExceeds DEF IInv, TypeOK, Ask, Phases
  <2>2. Distance(h, Home(h)) = 0 /\ \A q \in Positions : Distance(h, q) \in 0..Capacity - 1
    BY <1>1, DistanceFacts
  <2>3. LookupPath'
    BY <2>2, <1>5 DEF Ask, LookupPath, Distance
  <2>4. (LookupRight /\ NeverThrows /\ InsertPath /\ PhaseFits)'
    BY <1>1, <1>5 DEF Ask, LookupRight, NeverThrows, InsertPath, Inserting, PhaseFits
  <2> QED
    BY <1>3, <2>1, <2>3, <2>4 DEF IInv
<1> QED
  BY <1>4, <1>5

\* The first free slot on the path: the hash is in no entry.
LEMMA LookupEmptyIInv == IInv /\ LookupEmpty => IInv'
<1> SUFFICES ASSUME IInv, LookupEmpty PROVE IInv'
  OBVIOUS
<1>1. /\ next = N + 1 /\ N \in Nat /\ pos \in Positions /\ query \in Nat /\ query # 0
      /\ probes = Distance(query, pos) /\ table[pos].hash = 0
  BY EntryFacts DEF IInv, TypeOK, PhaseFits, LookupEmpty, Looking, LookupPath
<1>2. ~Known(query)
  <2> SUFFICES ASSUME NEW i \in 1..N, Entries[i].hash = query PROVE FALSE
    BY DEF Known
  <2>1. PICK p \in Positions :
          /\ table[p] = Entries[i]
          /\ \A q \in Positions : Distance(query, q) < Distance(query, p) => table[q].hash # 0
    BY <1>1 DEF IInv, EveryEntryReachable
  <2>2. Distance(query, p) \in Nat /\ Distance(query, pos) \in Nat
    BY <1>1, DistanceFacts
  <2>3. ~(Distance(query, pos) < Distance(query, p))
    BY <2>1, <1>1
  <2>4. ~(Distance(query, p) < probes)
    BY <2>1, <1>1 DEF IInv, LookupPath, LookupEmpty, Looking
  <2>5. p = pos
    BY <2>2, <2>3, <2>4, <1>1, DistanceFacts
  <2> QED
    BY <2>1, <2>5, <1>1
<1>3. (EveryEntryReachable /\ OneSlotPerHash /\ TakenAreEntries /\ Counted)'
  BY TableKept DEF LookupEmpty
<1>4. TypeOK'
  BY DEF IInv, TypeOK, LookupEmpty, Phases
<1>5. LookupRight'
  BY <1>2 DEF LookupEmpty, LookupRight, RightAnswer, Known
<1>6. (NeverThrows /\ InsertPath /\ LookupPath /\ PhaseFits)'
  BY <1>1 DEF LookupEmpty, NeverThrows, InsertPath, Inserting, LookupPath, PhaseFits
<1> QED
  BY <1>3, <1>4, <1>5, <1>6 DEF IInv

\* A slot with the hash holds the only entry with that hash.
LEMMA LookupHitIInv == IInv /\ LookupHit => IInv'
<1> SUFFICES ASSUME IInv, LookupHit PROVE IInv'
  OBVIOUS
<1>1. /\ next = N + 1 /\ N \in Nat /\ pos \in Taken /\ table[pos].hash = query
  BY EntryFacts DEF IInv, TypeOK, PhaseFits, LookupHit, Looking, Taken
<1>2. PICK i \in 1..N : table[pos] = Entries[i]
  BY <1>1 DEF IInv, TakenAreEntries
<1>3. \A j \in 1..N : Entries[j].hash = query => j = i
  BY <1>1, <1>2, EntriesAssumption DEF N
<1>4. (CHOOSE j \in 1..N : Entries[j].hash = query) = i
  BY <1>1, <1>2, <1>3
<1>5. RightAnswer(query) = table[pos].offset
  BY <1>1, <1>2, <1>4 DEF RightAnswer, Known
<1>6. (EveryEntryReachable /\ OneSlotPerHash /\ TakenAreEntries /\ Counted)'
  BY TableKept DEF LookupHit
<1>7. TypeOK'
  BY <1>1, <1>2, EntryFacts DEF IInv, TypeOK, LookupHit, Phases
<1>8. LookupRight'
  BY <1>5 DEF LookupHit, LookupRight, RightAnswer, Known
<1>9. (NeverThrows /\ InsertPath /\ LookupPath /\ PhaseFits)'
  BY <1>1 DEF LookupHit, NeverThrows, InsertPath, Inserting, LookupPath, PhaseFits
<1> QED
  BY <1>6, <1>7, <1>8, <1>9 DEF IInv

\* Another hash: a free slot lies further on, so the probe has not come round.
LEMMA LookupStepIInv == IInv /\ LookupStep => IInv'
<1> SUFFICES ASSUME IInv, LookupStep PROVE IInv'
  OBVIOUS
<1>1. /\ next = N + 1 /\ N \in Nat /\ pos \in Positions /\ query \in Nat /\ query # 0
      /\ probes = Distance(query, pos) /\ table[pos].hash # 0 /\ table[pos].hash # query
      /\ pos' = IF pos + 1 = Capacity THEN 0 ELSE pos + 1
      /\ pos' \in Positions
  BY EntryFacts, StepInside DEF IInv, TypeOK, PhaseFits, LookupStep, Looking, LookupPath
<1>2. \A q \in Positions : Distance(query, q) \in 0..Capacity - 1
  BY <1>1, DistanceFacts
<1>3. probes + 1 <= Capacity - 1
  <2>1. PICK f \in Positions : table[f].hash = 0
    BY FreeSlot DEF IInv, NeverFull
  <2>2. ~(Distance(query, f) < probes)
    BY <2>1 DEF IInv, LookupPath, LookupStep, Looking
  <2>3. Distance(query, f) # probes
    BY <2>1, <1>1, DistanceFacts
  <2>4. Distance(query, f) \in 0..Capacity - 1 /\ probes \in 0..Capacity - 1 /\ Capacity \in Nat
    BY <1>1, <1>2, CapacityExceeds
  <2> QED
    BY <2>2, <2>3, <2>4
<1>4. Capacity \in Nat /\ probes \in Nat /\ probes' = probes + 1 /\ phase' = "lookup"
  BY <1>3, CapacityExceeds DEF IInv, TypeOK, LookupStep
<1>5. Distance(query, pos') = probes + 1
  BY <1>1, <1>3, <1>4, DistanceFacts
<1>6. \A q \in Positions : Distance(query, q) < probes + 1 => table[q].hash \notin {0, query}
  <2> SUFFICES ASSUME NEW q \in Positions, Distance(query, q) < probes + 1 PROVE table[q].hash \notin {0, query}
    OBVIOUS
  <2>1. Distance(query, q) < probes \/ Distance(query, q) = probes
    BY <1>2, <1>4
  <2>2. Distance(query, q) = probes => q = pos
    BY <1>1, DistanceFacts
  <2> QED
    BY <2>1, <2>2, <1>1 DEF IInv, LookupPath, LookupStep, Looking
<1>7. UNCHANGED <<table, next, query, answer>>
  BY DEF LookupStep
<1>8. LookupPath'
  BY <1>4, <1>5, <1>6, <1>7 DEF LookupPath, Distance
<1>9. (EveryEntryReachable /\ OneSlotPerHash /\ TakenAreEntries /\ Counted)'
  BY <1>7, TableKept
<1>10. TypeOK'
  BY <1>1, <1>3, <1>4, <1>7 DEF IInv, TypeOK, Phases
<1>11. (LookupRight /\ NeverThrows /\ InsertPath /\ PhaseFits)'
  BY <1>1, <1>4, <1>7 DEF LookupRight, NeverThrows, InsertPath, Inserting, PhaseFits
<1> QED
  BY <1>8, <1>9, <1>10, <1>11 DEF IInv

LEMMA NextLookupIInv == IInv /\ NextLookup => IInv'
<1> SUFFICES ASSUME IInv, NextLookup PROVE IInv'
  OBVIOUS
<1>1. (EveryEntryReachable /\ OneSlotPerHash /\ TakenAreEntries /\ Counted)'
  BY TableKept DEF NextLookup
<1>2. (TypeOK /\ LookupRight /\ NeverThrows /\ InsertPath /\ LookupPath /\ PhaseFits)'
  BY DEF IInv, TypeOK, Phases, NextLookup, LookupRight, NeverThrows, InsertPath, Inserting, LookupPath, PhaseFits
<1> QED
  BY <1>1, <1>2 DEF IInv

LEMMA StutterIInv == IInv /\ UNCHANGED vars => IInv'
BY DEF IInv, vars, TypeOK, EveryEntryReachable, OneSlotPerHash, LookupRight, RightAnswer, Known, NeverThrows,
       TakenAreEntries, Counted, Taken, InsertPath, Inserting, Passed, LookupPath, PhaseFits, Distance

\* The invariant holds in every reachable state of the build and of lookups.
THEOREM Inductive == Spec => []IInv
<1>1. Init => IInv
  BY InitIInv
<1>2. IInv /\ [Next]_vars => IInv'
  BY InsertStepIInv, PlaceIInv, BuiltIInv, BeginIInv, LookupEmptyIInv, LookupHitIInv, LookupStepIInv,
     NextLookupIInv, StutterIInv DEF Next
<1> QED
  BY <1>1, <1>2, PTL DEF Spec

-----------------------------------------------------------------------------
(* The results.                                                            *)

\* Whatever the number of entries and the hashes, the table has a free slot at
\* every moment, during the build and after it.
THEOREM TableNeverFull == Spec => []NeverFull
<1>1. IInv => NeverFull
  BY FreeSlot DEF IInv
<1> QED
  BY <1>1, Inductive, PTL

\* Every lookup answers the offset of the entry with its hash, or 0.
THEOREM LookupsRight == Spec => []LookupRight
<1>1. IInv => LookupRight
  BY DEF IInv
<1> QED
  BY <1>1, Inductive, PTL

\* No table that build_to_file wrote makes operator() throw.
THEOREM LookupsNeverThrow == Spec => []NeverThrows
<1>1. IInv => NeverThrows
  BY DEF IInv
<1> QED
  BY <1>1, Inductive, PTL

\* Every entry stays where a probe from its home finds it.
THEOREM EntriesReachable == Spec => []TableSound
<1>1. IInv => TableSound
  BY FreeSlot DEF IInv, TableSound
<1> QED
  BY <1>1, Inductive, PTL

-----------------------------------------------------------------------------
(* BloomFilter.  The ranges of the build share no word and leave none out,  *)
(* so the filter never turns away a hash of the table.                      *)

\* a range's loaded word is its own, and as it is in memory
LoadedFits(r) ==
    loaded[r] # NoWord =>
        /\ loaded[r].word = WordOf(loaded[r].add)
        /\ Mine(r, loaded[r].add)
        /\ loaded[r].held = {x \in bits : WordOf(x) = loaded[r].word}
\* a range's own bit is still to be looked at, loaded, or set
NotLost(r, e) ==
    Mine(r, Bit(e[1], e[2])) =>
        \/ e \in todo[r]
        \/ loaded[r] # NoWord /\ loaded[r].add = Bit(e[1], e[2])
        \/ Bit(e[1], e[2]) \in bits
Elements == Hashes \X (0..NumHashes - 1)
IsBit(b) == b \in 0..NumBits - 1 /\ \E e \in Elements : b = Bit(e[1], e[2])
LoadedType == loaded \in [Ranges -> {NoWord} \cup [word : 0..Words - 1, held : SUBSET (0..NumBits - 1), add : 0..NumBits - 1]]

FilterIInv ==
    /\ bits \subseteq 0..NumBits - 1
    /\ todo \in [Ranges -> SUBSET Elements]
    /\ LoadedType
    /\ \A r \in Ranges : LoadedFits(r)
    /\ \A r \in Ranges : \A e \in Elements : NotLost(r, e)
    /\ \A b \in bits : IsBit(b)
    /\ \A r \in Ranges : loaded[r] # NoWord => IsBit(loaded[r].add)

-----------------------------------------------------------------------------
(* The split into ranges.                                                  *)

LEMMA ProductMonotonic == \A a, b, c \in Nat : a <= b => a * c <= b * c
<1> TAKE a, b, c \in Nat
<1> HAVE a <= b
<1>1. PICK d \in Nat : b = a + d
  <2> WITNESS b - a \in Nat
  <2> QED OBVIOUS
<1>2. b * c = a * c + d * c /\ d * c \in Nat /\ a * c \in Nat
  BY <1>1
<1> QED
  BY <1>2

\* What division leaves over.
LEMMA Division ==
    ASSUME NEW a \in Nat, NEW d \in Nat \ {0}
    PROVE  /\ a \div d \in Nat /\ a % d \in 0..d - 1
           /\ d * (a \div d) \in Nat /\ a = d * (a \div d) + (a % d)
           /\ d * (a \div d) <= a /\ a < d * (a \div d) + d
OBVIOUS

\* The words are counted exactly, and a bit of the filter is in one of them.
LEMMA WordFacts ==
    /\ Words \in Nat
    /\ \A b \in 0..NumBits - 1 : WordOf(b) \in 0..Words - 1
<1>1. NumBits \in Nat \ {0} /\ WordBits \in Nat \ {0} /\ NumBits % WordBits = 0
  BY SizesAssumption
<1>2. Words \in Nat /\ NumBits = WordBits * Words
  BY <1>1, Division DEF Words
<1>3. ASSUME NEW b \in 0..NumBits - 1 PROVE WordOf(b) \in 0..Words - 1
  <2> DEFINE w == WordOf(b)
  <2>1. b \in Nat /\ w \in Nat /\ WordBits * w \in Nat /\ WordBits * w <= b
    BY <1>1, Division DEF WordOf
  <2>2. SUFFICES ASSUME Words <= w PROVE FALSE
    BY <2>1, <1>2
  <2>3. Words * WordBits <= w * WordBits
    BY <2>1, <2>2, <1>1, <1>2, ProductMonotonic
  <2>4. w * WordBits = WordBits * w /\ Words * WordBits = WordBits * Words
    BY <2>1, <1>1, <1>2
  <2> HIDE DEF w
  <2> QED
    BY <2>1, <2>3, <2>4, <1>1, <1>2
<1> QED
  BY <1>2, <1>3

LEMMA RangeNumbers ==
    /\ NumRanges \in Nat \ {0} /\ PerRange \in Nat
    /\ NumRanges * PerRange >= Words
<1>1. Words \in Nat /\ MinRange \in Nat \ {0} /\ Threads \in Nat
  BY WordFacts, SizesAssumption
<1>2. NumRanges \in Nat \ {0}
  BY <1>1, Division DEF NumRanges, AtLeast, AtMost
<1>3. Words + NumRanges - 1 \in Nat
  BY <1>1, <1>2
<1>4. /\ PerRange \in Nat
      /\ Words + NumRanges - 1 = NumRanges * PerRange + ((Words + NumRanges - 1) % NumRanges)
      /\ (Words + NumRanges - 1) % NumRanges \in 0..NumRanges - 1
  BY <1>2, <1>3, Division DEF PerRange
<1>5. NumRanges * PerRange \in Nat
  BY <1>2, <1>4
<1> QED
  BY <1>1, <1>2, <1>4, <1>5

LEMMA RangeFacts ==
    /\ Ranges \subseteq Nat
    /\ \A r \in Nat : Begin(r) \in Nat /\ End(r) \in Nat
<1>1. Words \in Nat /\ PerRange \in Nat /\ NumRanges \in Nat
  BY WordFacts, RangeNumbers
<1>2. ASSUME NEW r \in Nat PROVE Begin(r) \in Nat /\ End(r) \in Nat
  <2>1. r * PerRange \in Nat
    BY <1>1
  <2> QED
    BY <2>1, <1>1 DEF Begin, End, AtMost
<1> QED
  BY <1>1, <1>2 DEF Ranges

\* Ranges share no word.
LEMMA RangesApart == \A r, s \in Ranges : r < s => End(r) <= Begin(s)
<1> SUFFICES ASSUME NEW r \in Ranges, NEW s \in Ranges, r < s PROVE End(r) <= Begin(s)
  OBVIOUS
<1>1. r \in Nat /\ s \in Nat /\ Words \in Nat /\ PerRange \in Nat
  BY RangeFacts, WordFacts, RangeNumbers
<1>2. (r + 1) * PerRange <= s * PerRange
  BY <1>1, ProductMonotonic
<1>3. (r + 1) * PerRange = r * PerRange + PerRange /\ r * PerRange \in Nat /\ s * PerRange \in Nat
  BY <1>1
<1> QED
  BY <1>1, <1>2, <1>3 DEF Begin, End, AtMost

\* Every word is in a range: the one that dividing by the ranges' size gives.
LEMMA RangesCover == \A w \in 0..Words - 1 : \E r \in Ranges : Begin(r) <= w /\ w < End(r)
<1> SUFFICES ASSUME NEW w \in 0..Words - 1 PROVE \E r \in Ranges : Begin(r) <= w /\ w < End(r)
  OBVIOUS
<1>1. w \in Nat /\ Words \in Nat /\ w < Words /\ PerRange \in Nat /\ NumRanges \in Nat \ {0}
      /\ NumRanges * PerRange >= Words
  BY WordFacts, RangeNumbers
<1>2. PerRange # 0
  BY <1>1
<1> DEFINE r == w \div PerRange
<1>3. r \in Nat /\ PerRange * r <= w /\ w < PerRange * r + PerRange
  BY <1>1, <1>2, Division
<1> HIDE DEF r
<1>4. r * PerRange \in Nat /\ r * PerRange = PerRange * r
  BY <1>1, <1>3
<1>5. r * PerRange <= w /\ w < r * PerRange + PerRange
  BY <1>1, <1>3, <1>4
<1>6. r < NumRanges
  <2> SUFFICES ASSUME NumRanges <= r PROVE FALSE
    BY <1>1, <1>3
  <2>1. NumRanges * PerRange <= r * PerRange
    BY <1>1, <1>3, ProductMonotonic
  <2> QED
    BY <2>1, <1>1, <1>4, <1>5
<1>7. Begin(r) = r * PerRange /\ Begin(r) <= w /\ w < End(r)
  BY <1>1, <1>4, <1>5 DEF Begin, End, AtMost
<1>8. ASSUME NEW s \in 1..r PROVE Begin(s) < End(s)
  <2>1. s \in Nat /\ s * PerRange <= r * PerRange /\ s * PerRange \in Nat
    BY <1>1, <1>3, ProductMonotonic
  <2> QED
    BY <2>1, <1>1, <1>2, <1>4, <1>5 DEF Begin, End, AtMost
<1>9. r \in Ranges
  BY <1>1, <1>3, <1>6, <1>8 DEF Ranges
<1> QED
  BY <1>7, <1>9

\* A bit is some range's, and at most one's.
LEMMA OneOwner ==
    \A b \in 0..NumBits - 1 :
        /\ \E r \in Ranges : Mine(r, b)
        /\ \A r, s \in Ranges : Mine(r, b) /\ Mine(s, b) => r = s
<1> SUFFICES ASSUME NEW b \in 0..NumBits - 1
             PROVE  /\ \E r \in Ranges : Mine(r, b)
                    /\ \A r, s \in Ranges : Mine(r, b) /\ Mine(s, b) => r = s
  OBVIOUS
<1>1. WordOf(b) \in 0..Words - 1 /\ WordOf(b) \in Nat
  BY WordFacts
<1>2. \E r \in Ranges : Mine(r, b)
  BY <1>1, RangesCover DEF Mine
<1>3. ASSUME NEW r \in Ranges, NEW s \in Ranges, Mine(r, b), Mine(s, b) PROVE r = s
  <2>1. r \in Nat /\ s \in Nat /\ Begin(r) \in Nat /\ Begin(s) \in Nat /\ End(r) \in Nat /\ End(s) \in Nat
    BY RangeFacts
  <2>2. ~(r < s) /\ ~(s < r)
    BY <2>1, <1>1, <1>3, RangesApart DEF Mine
  <2> QED
    BY <2>1, <2>2
<1> QED
  BY <1>2, <1>3

-----------------------------------------------------------------------------
(* The invariant.                                                          *)

LEMMA BitFacts == \A e \in Elements : Bit(e[1], e[2]) \in 0..NumBits - 1 /\ IsBit(Bit(e[1], e[2]))
<1> SUFFICES ASSUME NEW e \in Elements PROVE Bit(e[1], e[2]) \in 0..NumBits - 1
  BY DEF IsBit
<1>1. e[1].lo \in Nat /\ e[1].hi \in Nat /\ e[2] \in Nat /\ NumBits \in Nat \ {0}
  BY SizesAssumption DEF Elements
<1>2. e[1].lo + e[2] * e[1].hi \in Nat
  BY <1>1
<1> QED
  BY <1>1, <1>2, Division DEF Bit

LEMMA FilterInitIInv == FilterInit => FilterIInv
BY DEF FilterInit, FilterIInv, Elements, LoadedType, LoadedFits, NotLost

\* An element that is another range's is not lost by passing over it.
LEMMA SkipIInv == \A r \in Ranges : \A e \in Elements : FilterIInv /\ Skip(r, e) => FilterIInv'
<1> SUFFICES ASSUME NEW r \in Ranges, NEW e \in Elements, FilterIInv, Skip(r, e) PROVE FilterIInv'
  OBVIOUS
<1>1. todo' \in [Ranges -> SUBSET Elements] /\ bits' = bits /\ loaded' = loaded
  BY DEF FilterIInv, Skip
<1>2. \A s \in Ranges : \A f \in Elements : NotLost(s, f)'
  BY DEF FilterIInv, Skip, NotLost
<1>3. \A s \in Ranges : LoadedFits(s)'
  BY <1>1 DEF FilterIInv, LoadedFits
<1> QED
  BY <1>1, <1>2, <1>3 DEF FilterIInv, LoadedType, IsBit

LEMMA LoadIInv == \A r \in Ranges : \A e \in Elements : FilterIInv /\ Load(r, e) => FilterIInv'
<1> SUFFICES ASSUME NEW r \in Ranges, NEW e \in Elements, FilterIInv, Load(r, e) PROVE FilterIInv'
  OBVIOUS
<1> DEFINE b == Bit(e[1], e[2])
           w == [word |-> WordOf(b), add |-> b, held |-> {x \in bits : WordOf(x) = WordOf(b)}]
<1>1. b \in 0..NumBits - 1 /\ IsBit(b) /\ Mine(r, b) /\ WordOf(b) \in 0..Words - 1
  BY BitFacts, WordFacts DEF Load
<1>2. bits' = bits /\ loaded' = [loaded EXCEPT ![r] = w] /\ todo' = [todo EXCEPT ![r] = @ \ {e}]
  BY DEF Load
<1>3. w # NoWord /\ w.word = WordOf(b) /\ w.add = b /\ w.held = {x \in bits : WordOf(x) = w.word}
  BY <1>1, WordFacts DEF NoWord
<1>4. w \in [word : 0..Words - 1, held : SUBSET (0..NumBits - 1), add : 0..NumBits - 1]
  BY <1>1 DEF FilterIInv
<1> HIDE DEF w
<1>5. loaded' \in [Ranges -> {NoWord} \cup [word : 0..Words - 1, held : SUBSET (0..NumBits - 1), add : 0..NumBits - 1]]
  BY <1>2, <1>4 DEF FilterIInv, LoadedType
<1>6. loaded'[r] = w /\ \A s \in Ranges : s # r => loaded'[s] = loaded[s]
  BY <1>2 DEF FilterIInv, LoadedType
<1>7. \A s \in Ranges : LoadedFits(s)'
  BY <1>1, <1>2, <1>3, <1>6 DEF FilterIInv, LoadedFits
<1>8. todo' \in [Ranges -> SUBSET Elements]
  BY <1>2 DEF FilterIInv
<1>9. ASSUME NEW s \in Ranges, NEW f \in Elements PROVE NotLost(s, f)'
  <2>1. CASE s = r /\ f = e
    BY <2>1, <1>3, <1>6 DEF NotLost
  <2>2. CASE s = r /\ f # e
    <3>1. loaded[r] = NoWord
      BY DEF Load
    <3>2. f \in todo[r] => f \in todo'[r]
      BY <2>2, <1>2 DEF FilterIInv
    <3> QED
      BY <2>2, <3>1, <3>2, <1>2 DEF FilterIInv, NotLost
  <2>3. CASE s # r
    BY <2>3, <1>2, <1>6 DEF FilterIInv, NotLost
  <2> QED
    BY <2>1, <2>2, <2>3
<1>10. \A s \in Ranges : loaded'[s] # NoWord => IsBit(loaded'[s].add)
  BY <1>1, <1>3, <1>6 DEF FilterIInv
<1> QED
  BY <1>2, <1>5, <1>7, <1>8, <1>9, <1>10 DEF FilterIInv, LoadedType, IsBit

\* A store writes back what its word held, and no other range changed it.
LEMMA StoreIInv == \A r \in Ranges : FilterIInv /\ Store(r) => FilterIInv'
<1> SUFFICES ASSUME NEW r \in Ranges, FilterIInv, Store(r) PROVE FilterIInv'
  OBVIOUS
<1> DEFINE w == loaded[r]
<1>1. /\ w # NoWord /\ todo' = todo /\ loaded' = [loaded EXCEPT ![r] = NoWord]
      /\ bits' = {x \in bits : WordOf(x) # w.word} \cup w.held \cup {w.add}
  BY DEF Store
<1>2. /\ w.word = WordOf(w.add) /\ Mine(r, w.add) /\ w.held = {x \in bits : WordOf(x) = w.word}
      /\ w.add \in 0..NumBits - 1 /\ IsBit(w.add)
  BY <1>1 DEF FilterIInv, LoadedFits, IsBit
<1>3. bits' = bits \cup {w.add}
  BY <1>1, <1>2
<1>4. bits' \subseteq 0..NumBits - 1 /\ \A b \in bits' : IsBit(b)
  BY <1>2, <1>3 DEF FilterIInv
<1>5. loaded'[r] = NoWord /\ \A s \in Ranges : s # r => loaded'[s] = loaded[s]
  BY <1>1 DEF FilterIInv, LoadedType
<1>6. LoadedType'
  BY <1>1 DEF FilterIInv, LoadedType
<1>7. ASSUME NEW s \in Ranges, loaded'[s] # NoWord PROVE LoadedFits(s)'
  <2>1. s # r /\ loaded'[s] = loaded[s] /\ LoadedFits(s)
    BY <1>5, <1>7 DEF FilterIInv
  <2>2. WordOf(w.add) # loaded[s].word
    <3> SUFFICES ASSUME WordOf(w.add) = loaded[s].word PROVE FALSE
      OBVIOUS
    <3>1. Mine(s, w.add)
      BY <2>1, <1>7 DEF LoadedFits, Mine
    <3> QED
      BY <3>1, <2>1, <1>2, OneOwner
  <2>3. {x \in bits' : WordOf(x) = loaded[s].word} = {x \in bits : WordOf(x) = loaded[s].word}
    BY <2>2, <1>3
  <2> QED
    BY <2>1, <2>3, <1>7 DEF LoadedFits
<1>8. \A s \in Ranges : LoadedFits(s)'
  BY <1>7 DEF LoadedFits
<1>9. \A s \in Ranges : \A e \in Elements : NotLost(s, e)'
  BY <1>1, <1>3, <1>5 DEF FilterIInv, NotLost
<1>10. \A s \in Ranges : loaded'[s] # NoWord => IsBit(loaded[s].add)' 
  BY <1>5 DEF FilterIInv, IsBit
<1> QED
  BY <1>1, <1>4, <1>6, <1>8, <1>9, <1>10 DEF FilterIInv, IsBit

LEMMA FilterStutterIInv == FilterIInv /\ UNCHANGED filter_vars => FilterIInv'
BY DEF FilterIInv, filter_vars, LoadedType, LoadedFits, NotLost, IsBit

\* The invariant holds in every reachable state of the build.
THEOREM FilterInductive == FilterSpec => []FilterIInv
<1>1. FilterInit => FilterIInv
  BY FilterInitIInv
<1>2. ASSUME FilterIInv, NEW r \in Ranges, Step(r) PROVE FilterIInv'
  <2>1. CASE Store(r)
    BY <2>1, <1>2, StoreIInv
  <2>2. CASE todo[r] # {} /\ (Skip(r, First(r)) \/ Load(r, First(r)))
    <3>1. First(r) \in Elements
      BY <2>2, <1>2 DEF First, FilterIInv
    <3> QED
      BY <3>1, <2>2, <1>2, SkipIInv, LoadIInv
  <2> QED
    BY <2>1, <2>2, <1>2 DEF Step
<1>3. FilterIInv /\ [FilterNext]_filter_vars => FilterIInv'
  BY <1>2, FilterStutterIInv DEF FilterNext
<1> QED
  BY <1>1, <1>3, PTL DEF FilterSpec

-----------------------------------------------------------------------------
(* The results.                                                            *)

\* Threads that write the filter without atomics never hold the same word.
THEOREM NoSharedWords == FilterSpec => []WordsNotShared
<1>1. FilterIInv => WordsNotShared
  <2> SUFFICES ASSUME FilterIInv, NEW r \in Ranges, NEW s \in Ranges, r # s, loaded[r] # NoWord,
                      loaded[r].word = loaded[s].word
               PROVE  FALSE
    BY DEF WordsNotShared
  <2>1. loaded[r].add \in 0..NumBits - 1 /\ loaded[r].word \in 0..Words - 1
    BY DEF FilterIInv, LoadedType, IsBit
  <2>2. loaded[s] # NoWord
    BY <2>1, WordFacts DEF NoWord
  <2>3. Mine(r, loaded[r].add) /\ Mine(s, loaded[r].add)
    BY <2>2 DEF FilterIInv, LoadedFits, Mine
  <2> QED
    BY <2>1, <2>3, OneOwner
<1> QED
  BY <1>1, FilterInductive, PTL

\* The split into ranges changes no bit of the filter.
THEOREM SplitChangesNothing == FilterSpec => []SameBitsAsOneThread
<1>1. FilterIInv => SameBitsAsOneThread
  <2> SUFFICES ASSUME FilterIInv, Done PROVE bits = {Bit(h, k) : h \in Hashes, k \in 0..NumHashes - 1}
    BY DEF SameBitsAsOneThread, ReadBit, Bit
  <2>1. ASSUME NEW h \in Hashes, NEW k \in 0..NumHashes - 1 PROVE Bit(h, k) \in bits
    <3> DEFINE e == <<h, k>>
    <3>1. e \in Elements /\ e[1] = h /\ e[2] = k
      BY DEF Elements
    <3>2. PICK r \in Ranges : Mine(r, Bit(h, k))
      BY <3>1, BitFacts, OneOwner
    <3>3. NotLost(r, e)
      BY <3>1 DEF FilterIInv
    <3> HIDE DEF e
    <3> QED
      BY <3>1, <3>2, <3>3 DEF NotLost, Done
  <2>2. ASSUME NEW b \in bits PROVE \E h \in Hashes, k \in 0..NumHashes - 1 : b = Bit(h, k)
    BY DEF FilterIInv, IsBit, Elements
  <2> QED
    BY <2>1, <2>2
<1> QED
  BY <1>1, FilterInductive, PTL

\* Once the build is done, the filter lets every hash of the table through.
THEOREM NeverTurnsAway == FilterSpec => []NoFalseNegatives
<1>1. SameBitsAsOneThread => NoFalseNegatives
  BY DEF SameBitsAsOneThread, NoFalseNegatives, Contains
<1> QED
  BY <1>1, SplitChangesNothing, PTL

-----------------------------------------------------------------------------
(* KeyIndex.  The composition answers as the table alone does.  HashTable   *)
(* lets the filter turn unknown hashes away and assumes that it turns no    *)
(* known one away; that holds of a filter that is done, and KeyIndex asks   *)
(* only such a filter, so the composition implements both specifications    *)
(* and inherits what holds of them.                                         *)

\* No step of the table's build or of a lookup touches the filter.
THEOREM ImplementsFilter == IndexSpec => FilterSpec
<1>1. IndexInit => FilterInit
  BY DEF IndexInit
<1>2. [IndexNext]_index_vars => [FilterNext]_filter_vars
  BY DEF IndexNext, index_vars, BuildTable, FillFilter, Look, Probe
<1> QED
  BY <1>1, <1>2, PTL DEF IndexSpec, FilterSpec

\* The halves of a hash of the table are among what the filter was filled with.
LEMMA KnownHalves == \A h : Known(h) => Halves(h) \in Hashes
BY SameHashesAssumption DEF Known

\* Once it is filled, the filter turns no hash of the table away.
LEMMA KnownPasses == NoFalseNegatives /\ Done => \A h : Known(h) => Contains(Halves(h))
BY KnownHalves DEF NoFalseNegatives

\* Every step of the composition is a step of the table, or none of its: the
\* hash that the filter turns away is unknown to the table.
LEMMA TableStep == NoFalseNegatives /\ IndexNext => [Next]_vars
<1> SUFFICES ASSUME NoFalseNegatives, IndexNext PROVE [Next]_vars
  OBVIOUS
<1>1. CASE BuildTable
  BY <1>1 DEF BuildTable, Next
<1>2. CASE FillFilter
  BY <1>2 DEF FillFilter
<1>3. ASSUME NEW h \in Questions, Look(h) PROVE [Next]_vars
  <2>1. CASE Contains(Halves(h))
    BY <1>3, <2>1 DEF Look, Next
  <2>2. CASE ~Contains(Halves(h))
    <3>1. ~Known(h)
      BY <1>3, <2>2, KnownPasses DEF Look, Both
    <3>2. BloomRejects(h)
      BY <1>3, <2>2, <3>1 DEF Look, BloomRejects
    <3> QED
      BY <3>2 DEF Next
  <2> QED
    BY <2>1, <2>2
<1>4. CASE Probe
  BY <1>4 DEF Probe, Next
<1> QED
  BY <1>1, <1>2, <1>3, <1>4 DEF IndexNext

\* The table with the filter in front of it implements the table's
\* specification, for all hashes and all sizes of the two files.
THEOREM ImplementsTable == IndexSpec => Spec
<1>1. IndexInit => Init
  BY DEF IndexInit
<1>2. NoFalseNegatives /\ [IndexNext]_index_vars => [Next]_vars
  BY TableStep DEF index_vars
<1> QED
  BY <1>1, <1>2, ImplementsFilter, NeverTurnsAway, PTL DEF IndexSpec, Spec

\* operator() answers the offset of the key, or 0 when the dictionary does not
\* have it, whatever the filter says of other hashes and wherever collisions
\* pushed the entries.
THEOREM IndexAnswersRight == IndexSpec => []LookupRight
BY ImplementsTable, LookupsRight, PTL

\* The pool's threads leave the table that one thread would have left.
THEOREM IndexTableSound == IndexSpec => []TableSound
BY ImplementsTable, EntriesReachable, PTL
=============================================================================
