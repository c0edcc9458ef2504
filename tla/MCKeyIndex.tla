------------------------------ MODULE MCKeyIndex ------------------------------
EXTENDS KeyIndex

\* 16 slots, hashes ascending as build_offset_index leaves them: the last two
\* start from 14, are pushed past the end and land in 2 and 3
MCEntries ==
    [i \in 1..6 |-> [hash |-> <<14, 15, 16, 17, 30, 78>>[i], offset |-> 10 + i]]
MCHashes == {Halves(MCEntries[i].hash) : i \in 1..6}
\* entries; unknown hashes that the filter lets through, of the same homes and
\* of one that meets no slot; and unknown hashes that it turns away
MCQuestions == {14, 15, 16, 17, 30, 78} \cup {94, 49, 8} \cup {46, 31}
=============================================================================
