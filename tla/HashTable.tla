------------------------------ MODULE HashTable ------------------------------
(***************************************************************************)
(* hash::linear, the open-addressed table from the hash of a key to the    *)
(* offset of its group of records: build_to_file inserts every entry, one  *)
(* probe at a time, then operator() answers lookups.  A slot whose hash is *)
(* 0 is empty, and the answer 0 means that the key is unknown.             *)
(***************************************************************************)
EXTENDS Integers, Sequences

CONSTANTS
    Entries,      \* hash_entries: one <<hash, offset>> per distinct hash
    Questions,    \* the hashes that lookups ask for
    MinCapacity   \* the smallest table, 16 slots in the code

N == Len(Entries)
Slots == [hash : Nat, offset : Nat]
EmptySlot == [hash |-> 0, offset |-> 0]

\* build_offset_index makes one entry of each group of equal hashes, its
\* offset lies behind the records, and no key hashes to the empty mark.
ASSUME EntriesAssumption ==
    /\ Entries \in Seq(Slots)
    /\ \A i \in 1..Len(Entries) : Entries[i].hash # 0 /\ Entries[i].offset # 0
    /\ \A i, j \in 1..Len(Entries) : Entries[i].hash = Entries[j].hash => i = j
ASSUME QuestionsAssumption == Questions \subseteq Nat \ {0}
ASSUME MinCapacityAssumption == MinCapacity \in Nat /\ MinCapacity >= 3

\* std::max(hash_entries.size() * 10 / 7, 16)
Capacity == IF (N * 10) \div 7 >= MinCapacity THEN (N * 10) \div 7 ELSE MinCapacity
Positions == 0..Capacity - 1
Home(h) == h % Capacity

VARIABLES
    phase,    \* "insert", "ready", "lookup", "answered" or "thrown"
    table,    \* the slots
    next,     \* the entry being inserted
    pos,      \* the slot that the insertion or the lookup looks at
    query,    \* the hash a lookup asks for
    probes,   \* how many slots that lookup has passed
    answer    \* what it returned
vars == <<phase, table, next, pos, query, probes, answer>>

Phases == {"insert", "ready", "lookup", "answered", "thrown"}

Init ==
    /\ phase = "insert"
    /\ table = [p \in Positions |-> EmptySlot]
    /\ next = 1
    /\ pos = IF N = 0 THEN 0 ELSE Home(Entries[1].hash)
    /\ query = 0 /\ probes = 0 /\ answer = 0

-----------------------------------------------------------------------------
(* build_to_file                                                           *)

Inserting == phase = "insert" /\ next <= N

\* Faulty variant: the insertion looks at every other slot, the lookup at each.
InsertStepTwo ==
    /\ Inserting /\ table[pos].hash # 0
    /\ pos' = (pos + 2) % Capacity
    /\ UNCHANGED <<phase, table, next, query, probes, answer>>
\* a taken slot: pos = (pos + 1) % capacity
InsertStep ==
    /\ Inserting /\ table[pos].hash # 0
    /\ pos' = (pos + 1) % Capacity
    /\ UNCHANGED <<phase, table, next, query, probes, answer>>

\* a free slot takes the entry, and the next entry starts from its home
Place ==
    /\ Inserting /\ table[pos].hash = 0
    /\ table' = [table EXCEPT ![pos] = Entries[next]]
    /\ next' = next + 1
    /\ pos' = IF next < N THEN Home(Entries[next + 1].hash) ELSE 0
    /\ UNCHANGED <<phase, query, probes, answer>>

Built ==
    /\ phase = "insert" /\ next > N
    /\ phase' = "ready"
    /\ UNCHANGED <<table, next, pos, query, probes, answer>>

-----------------------------------------------------------------------------
(* operator()                                                              *)

Known(h) == \E i \in 1..N : Entries[i].hash = h

\* the Bloom filter may let an unknown hash through, and never stops a known
\* one (BloomFilter)
Rejects(h) ==
    /\ phase = "ready"
    /\ phase' = "answered" /\ query' = h /\ answer' = 0
    /\ UNCHANGED <<table, next, pos, probes>>
BloomRejects(h) == ~Known(h) /\ Rejects(h)
Ask(h) ==
    /\ phase = "ready"
    /\ phase' = "lookup" /\ query' = h /\ pos' = Home(h) /\ probes' = 0
    /\ UNCHANGED <<table, next, answer>>

Looking == phase = "lookup"

LookupEmpty ==
    /\ Looking /\ table[pos].hash = 0
    /\ phase' = "answered" /\ answer' = 0
    /\ UNCHANGED <<table, next, pos, query, probes>>

LookupHit ==
    /\ Looking /\ table[pos].hash # 0 /\ table[pos].hash = query
    /\ phase' = "answered" /\ answer' = table[pos].offset
    /\ UNCHANGED <<table, next, pos, query, probes>>

\* Faulty variant: the lookup ends where the slots end.
LookupStepEnds ==
    /\ Looking /\ table[pos].hash \notin {0, query}
    /\ IF pos + 1 = Capacity THEN phase' = "answered" /\ answer' = 0 ELSE UNCHANGED <<phase, answer>>
    /\ pos' = (pos + 1) % Capacity /\ probes' = probes + 1
    /\ UNCHANGED <<table, next, query>>
\* Faulty variant: another hash is compared again and again.
LookupStepStuck ==
    /\ Looking /\ table[pos].hash \notin {0, query}
    /\ UNCHANGED <<phase, table, next, pos, query, probes, answer>>
\* another hash: ++pos, back to 0 at the end of the table; after as many
\* probes as slots, "hash.table has no empty slot in its probe chain"
LookupStep ==
    /\ Looking /\ table[pos].hash \notin {0, query}
    /\ pos' = IF pos + 1 = Capacity THEN 0 ELSE pos + 1
    /\ probes' = probes + 1
    /\ phase' = IF probes' = Capacity THEN "thrown" ELSE "lookup"
    /\ UNCHANGED <<table, next, query, answer>>

\* the caller asks again
NextLookup ==
    /\ phase = "answered"
    /\ phase' = "ready"
    /\ UNCHANGED <<table, next, pos, query, probes, answer>>

Next ==
    \/ InsertStep \/ Place \/ Built
    \/ \E h \in Questions : BloomRejects(h) \/ Ask(h)
    \/ LookupEmpty \/ LookupHit \/ LookupStep \/ NextLookup

Spec == Init /\ [][Next]_vars


-----------------------------------------------------------------------------
(* What a lookup may rely on.                                              *)

\* Every variable has its type.
TypeOK ==
    /\ phase \in Phases
    /\ table \in [Positions -> Slots]
    /\ next \in 1..N + 1
    /\ pos \in Positions
    /\ query \in Nat /\ answer \in Nat
    /\ probes \in 0..Capacity

\* how far a probe that starts at a hash's home has come when it is at p
Distance(h, p) == IF p >= Home(h) THEN p - Home(h) ELSE p - Home(h) + Capacity

\* every inserted entry has a slot, and no slot between its home and that one is free
EveryEntryReachable ==
    \A i \in 1..next - 1 :
        \E p \in Positions :
            /\ table[p] = Entries[i]
            /\ \A q \in Positions : Distance(Entries[i].hash, q) < Distance(Entries[i].hash, p) => table[q].hash # 0

\* a hash occupies one slot at most
OneSlotPerHash ==
    \A p, q \in Positions : table[p].hash = table[q].hash /\ table[p].hash # 0 => p = q

\* However many entries, the table keeps a free slot, so both loops end: the
\* insertion has no bound of its own, and the lookup throws at its bound.
NeverFull == \E p \in Positions : table[p].hash = 0

\* Wherever collisions and the end of the table pushed them, entries are where
\* operator() looks: a probe from an entry's home meets it before it meets an
\* empty slot, at which operator() stops, and it meets no second copy; and
\* however many entries there are, it meets an empty slot in the end.
TableSound == TypeOK /\ EveryEntryReachable /\ OneSlotPerHash /\ NeverFull

\* A lookup answers the offset of the entry with its hash, or 0 when there is
\* none, wherever the entry was pushed by collisions and by the wrap-around.
RightAnswer(h) == IF Known(h) THEN Entries[CHOOSE i \in 1..N : Entries[i].hash = h].offset ELSE 0
LookupRight == phase = "answered" => answer = RightAnswer(query)

\* The throw of operator() is for damaged files: no table that build_to_file
\* wrote leads to it.
NeverThrows == phase # "thrown"

\* The build ends, and every lookup does.
ProbesEnd == <>(phase # "insert") /\ (phase = "lookup" ~> phase = "answered")
=============================================================================
