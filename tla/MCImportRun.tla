------------------------------ MODULE MCImportRun ------------------------------
(* A pool of up to three threads; a list of four banks, so that every   *)
(* window fills, slides and drains, an empty one and one of one bank; two    *)
(* passes of the sort, every task there can be.                              *)
EXTENDS ImportRun, TLC
CONSTANTS p1, p2, p3

MCUptoList == (0 :> 0) @@ (1 :> 4) @@ (2 :> 4) @@ (3 :> 5)
MCTasks == {"bank", "media", "hash", "count", "scatter", "range"} \X (0..Passes) \X (0..8)
\* tasks that read the source or write a file; sort and filter work in memory
MCFailing == {bank(1), bank(3), media, hash}
MCPools == {{}, {p1}, {p1, p2}, {p1, p2, p3}}
=============================================================================
