------------------------------- MODULE KeyIndex -------------------------------
(***************************************************************************)
(* The two files that find a key, as import builds them and hash::linear   *)
(* reads them: one pool thread inserts into the table while the importing  *)
(* thread and others fill the Bloom filter (importer.cpp:1174-1188).  Once *)
(* both are there, operator() asks the filter and then probes the table.   *)
(***************************************************************************)
EXTENDS HashTable, BloomFilter

CONSTANT HalfBits    \* the filter takes a hash apart into halves of 32 bits

Halves(h) == [lo |-> h % 2^HalfBits, hi |-> h \div 2^HalfBits]

\* both are built from the same hash_entries
ASSUME SameHashesAssumption ==
    HalfBits \in Nat /\ Hashes = {Halves(Entries[i].hash) : i \in 1..N}

IndexInit == Init /\ FilterInit

BuildTable == (InsertStep \/ Place \/ Built) /\ UNCHANGED filter_vars
FillFilter == FilterNext /\ UNCHANGED vars

Both == Done /\ phase # "insert"
\* operator(): a hash that the filter does not contain is unknown
Look(h) ==
    /\ Both
    /\ IF Contains(Halves(h)) THEN Ask(h) ELSE Rejects(h)
    /\ UNCHANGED filter_vars
Probe == (LookupEmpty \/ LookupHit \/ LookupStep \/ NextLookup) /\ UNCHANGED filter_vars

IndexNext ==
    \/ BuildTable \/ FillFilter
    \/ \E h \in Questions : Look(h)
    \/ Probe

index_vars == <<vars, filter_vars>>
IndexSpec == IndexInit /\ [][IndexNext]_index_vars

\* the pool runs both builds, and a lookup's loop runs on its caller's thread
IndexFairSpec ==
    IndexSpec /\ WF_index_vars(BuildTable) /\ WF_index_vars(FillFilter)
              /\ WF_index_vars((LookupEmpty \/ LookupHit \/ LookupStep) /\ UNCHANGED filter_vars)
=============================================================================
