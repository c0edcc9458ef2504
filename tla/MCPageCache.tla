------------------------------ MODULE MCPageCache ------------------------------
(* Two threads, a three-page blobs file with a short last page and a two-page  *)
(* hash table, a page of two bytes and a budget of one page and a half.      *)
EXTENDS PageCache, TLC
CONSTANTS blobs, table

MCFileSize == (blobs :> 5) @@ (table :> 4)
MCKindOf == (blobs :> "entries") @@ (table :> "index")
================================================================================
