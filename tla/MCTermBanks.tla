------------------------------ MODULE MCTermBanks ------------------------------
(* Seven banks of 2, 7, 1, 0, 2, 1 and 3 bytes against a window of 6 bytes:  *)
(* the second is larger than the window alone, the fourth is an empty file.  *)
(* Three workers may run six banks ahead, so the last waits for the writer.  *)
EXTENDS TermBanks, TLC

MCUpto == (0 :> 0) @@ (1 :> 2) @@ (2 :> 9) @@ (3 :> 10) @@ (4 :> 10) @@ (5 :> 12) @@ (6 :> 13) @@ (7 :> 16)
=============================================================================
