------------------------------ MODULE MCCache ------------------------------
(* Two processes, the second of which opens its store late.                *)
EXTENDS Cache

MCProcOf(t) == CASE t = "a" -> "A" [] t = "a2" -> "A" [] t = "b" -> "B"

Late ==
    {[who |-> {"a", "a2", "b"}, early |-> {"A"}, stores |-> {"s"}, keys |-> {"k"},
      kinds |-> {}, ttls |-> {0}, capacity |-> 1, fails |-> FALSE,
      observes |-> FALSE, muts |-> 2, polls |-> 2, recovers |-> 0, evicts |-> 0,
      ticks |-> 0]}
=============================================================================
