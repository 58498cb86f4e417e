---------------------------- MODULE MCCellTable ----------------------------
(* A small instance of CellTable: threads in two processes. *)
EXTENDS CellTable, TLC

CONSTANTS t1, t2, t3, p1, p2

\* One thread in each process; two in the first.
OneAndOne == t1 :> p1 @@ t2 :> p2
TwoAndOne == t1 :> p1 @@ t2 :> p1 @@ t3 :> p2
=============================================================================
