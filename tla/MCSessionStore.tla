--------------------------- MODULE MCSessionStore ---------------------------
(* Two threads of two handles, a set of two slots, three stores of two     *)
(* keys.                                                                   *)
EXTENDS SessionStore

MCHandleOf(t) == CASE t = "a" -> "P" [] t = "a2" -> "P" [] t = "b" -> "Q"
MCSetOf(k) == 1

Stored ==
    {[exclusion |-> "set", who |-> {"a", "b"}, kinds |-> {"put"},
      keys |-> {"k1", "k2"}, sets |-> 1, lens |-> {1}, ttls |-> {2}, stores |-> 3,
      crashes |-> 0, ticks |-> 0, bad |-> {}]}
=============================================================================
