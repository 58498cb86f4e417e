--------------------------- MODULE MCStreamTable ---------------------------
(* A slot that is used twice, with both sides free to drop at any time: with *)
(* nobody dying, with a holder of side B that dies and is reported by both   *)
(* others, and with a creator that dies and whose node is taken over.        *)
EXTENDS StreamTable, TLC

CONSTANTS a1, a2, b, c, na, nb, nc

NodesOf == a1 :> na @@ a2 :> na @@ b :> nb @@ c :> nc
MCNodeOf(p) == NodesOf[p]

Twice == [first |-> {a1, b, c}, spare |-> {}, mortal |-> {b, c}, calls |-> {},
          generations |-> 2, resets |-> 0, deaths |-> 0, exchanges |-> 2,
          offers |-> 0, until |-> {}]
Reused ==
    {Twice, [Twice EXCEPT !.deaths = 1],
     [Twice EXCEPT !.first = {a1, b}, !.spare = {a2}, !.mortal = {a1}, !.deaths = 1]}

\* The report of a death changes the stream that the dead process had a side
\* of, and never the next one in the slot.
ReportStays == gaps \cap {"end", "mark"} = {}
=============================================================================
