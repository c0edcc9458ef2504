----------------------------- MODULE OrderedWrite -----------------------------
(***************************************************************************)
(* What writing the banks of a dictionary promises the rest of the import, *)
(* however the work is spread over threads: the banks reach blobs.bin one  *)
(* by one in their order, and the call ends either after the last one or   *)
(* by an exception.                                                        *)
(***************************************************************************)
EXTENDS Naturals, Sequences

CONSTANT N   \* files.size(), the number of banks

VARIABLES out,      \* the banks that are in the file
          outcome   \* "running", "returned" or "thrown"

vars == <<out, outcome>>

Init == out = <<>> /\ outcome = "running"

Write == outcome = "running" /\ Len(out) < N /\ out' = Append(out, Len(out)) /\ UNCHANGED outcome
Return == outcome = "running" /\ Len(out) = N /\ outcome' = "returned" /\ UNCHANGED out
Throw == outcome = "running" /\ outcome' = "thrown" /\ UNCHANGED out

Next == Write \/ Return \/ Throw

Spec == Init /\ [][Next]_vars

\* The call ends.
Ends == <>(outcome # "running")
=============================================================================
