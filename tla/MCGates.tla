------------------------------ MODULE MCGates -------------------------------
(***************************************************************************)
(* Who may use what, and for how long: quotas, the table of stream slots   *)
(* and the pool of clients.  The three do not call one another, so a       *)
(* behaviour is of one of them (part) and the others rest: quotas and      *)
(* streams share the variables s1, s2, ... of this module, the pool has    *)
(* its own.                                                                *)
(***************************************************************************)
EXTENDS MCClientPool, Integers

CONSTANTS sa1, sa2, sb, sc,      \* processes that use streams
          na, nb, nc             \* their nodes

VARIABLES part,   \* the component a behaviour is of
          s1, s2, s3, s4, s5, s6, s7, s8, s9, s10, s11, s12, s13, s14, s15

shared == <<s1, s2, s3, s4, s5, s6, s7, s8, s9, s10, s11, s12, s13, s14, s15>>

-----------------------------------------------------------------------------
RowOf(t) == IF t = "b" THEN 2 ELSE 1

\* Quota: costs that round; two slots; a crash and a process opened again; a
\* guard; the stores in memory.
Quota == [guard |-> FALSE, memory |-> FALSE, slots |-> 1, units |-> 2, period |-> 3,
          burst |-> 2, recovery |-> 1, costs |-> {2}, calls |-> 3, crashes |-> 0,
          ticks |-> 1]
Quotas ==
    { [Quota EXCEPT !.costs = {1, 2}, !.ticks = 2], [Quota EXCEPT !.slots = 2],
      [Quota EXCEPT !.crashes = 1, !.ticks = 2], [Quota EXCEPT !.guard = TRUE],
      [Quota EXCEPT !.memory = TRUE, !.ticks = 2],
      [Quota EXCEPT !.memory = TRUE, !.guard = TRUE, !.slots = 2] }

\* Streams: two that open one; resets of the table; a holder of either side that
\* dies, is reported by several and outlived by the next stream in the slot,
\* with a third process and with a node that is taken over.  No property says
\* anything after a late give-back (finding 12), so nothing is followed beyond;
\* with a death and three processes, nothing beyond a late store that takes a
\* side or the slot from its holder, after which only OneHolder and CleanExchange
\* would be left.
NodeOf(p) == CASE p \in {sa1, sa2} -> na [] p = sb -> nb [] p = sc -> nc
All == {"fin", "reset", "gone"}
Stream == [first |-> {sa1, sb}, spare |-> {}, mortal |-> {sa1, sb, sc}, calls |-> {},
           generations |-> 2, resets |-> 0, deaths |-> 1, exchanges |-> 2, offers |-> 0,
           until |-> {"giveBack"}]
Streams ==
    { [Stream EXCEPT !.first = {sa1, sb, sc}, !.generations = 1, !.deaths = 0,
                     !.exchanges = 1, !.offers = 1, !.calls = All],
      [Stream EXCEPT !.deaths = 0, !.resets = 1, !.calls = All],
      [Stream EXCEPT !.calls = {"fin"}],
      [Stream EXCEPT !.first = {sa1, sb, sc}, !.mortal = {sb, sc},
                     !.until = {"giveBack", "stamp", "release", "empty", "end"}],
      [Stream EXCEPT !.spare = {sa2}] }

\* The two that open streams from other nodes are alike.
Alike ==
    {f \in Permutations({sb, sc, nb, nc}) :
        \/ f[sb] = sb /\ f[sc] = sc /\ f[nb] = nb
        \/ f[sb] = sc /\ f[sc] = sb /\ f[nb] = nc}

-----------------------------------------------------------------------------
Q == INSTANCE Quota WITH
    Callers <- {"a", "b"}, RowOf <- RowOf, Keys <- {"k1", "k2"},
    Setup <- Quotas,
    control <- s1, bank <- s2, pins <- s3, lock <- s4, watermark <- s5,
    clock <- s6, up <- s7, pc <- s8, job <- s9, admitted <- s10,
    epoch <- s11, answer <- s12, calls <- s13, crashes <- s14, setup <- s15

T == INSTANCE StreamTable WITH
    Procs <- {sa1, sa2, sb, sc}, Nodes <- {na, nb, nc}, NodeOf <- NodeOf,
    Lane <- na, Bounds <- Streams,
    slot <- s1, epoch <- s2, offers <- s3, handle <- s4, alive <- s5,
    pc <- s6, job <- s7, tickets <- s8, exchange <- s9, reported <- s10,
    gaps <- s11, count <- s12, bound <- s13

Off == "off"

\* The pool while a behaviour is of another component.
PoolRests == Init /\ opt = CHOOSE o \in Options : Valid(o)

\* The components that share s1, s2, ... while a behaviour is of none of them.
OthersRest ==
    /\ s1 = Off /\ s2 = Off /\ s3 = Off /\ s4 = Off /\ s5 = Off
    /\ s6 = Off /\ s7 = Off /\ s8 = Off /\ s9 = Off /\ s10 = Off
    /\ s11 = Off /\ s12 = Off /\ s13 = Off /\ s14 = Off /\ s15 = Off

GatesInit ==
    \/ part = "quota" /\ Q!Init /\ PoolRests
    \/ part = "streams" /\ T!Init /\ s14 = Off /\ s15 = Off /\ PoolRests
    \/ part = "clients" /\ Init /\ OthersRest

GatesNext ==
    \/ part = "quota" /\ Q!Next /\ UNCHANGED <<part, vars>>
    \/ part = "streams" /\ T!Next /\ UNCHANGED <<part, s14, s15, vars>>
    \/ part = "clients" /\ Next /\ UNCHANGED <<part, shared>>

GatesSpec == GatesInit /\ [][GatesNext]_<<part, shared, vars>>

-----------------------------------------------------------------------------
\* Quota: a key is never admitted more than its burst and what the rate has
\* brought since, whoever asks, races, dies half way or replaces whom.
WithinEnvelope == part = "quota" => Q!WithinEnvelope

\* Quota: the delay and the remainder that an answer gives are exact.
HonestAnswer == part = "quota" => Q!HonestAnswer

\* Streams: no two processes hold one side of a stream, and its slot and side
\* stay a holder's while others open, drop, arm again, die and are reported;
\* until a store of an operation on an earlier stream in the slot takes them.
HeldSafely == part = "streams" => T!OneHolder /\ T!SlotOutlivesHolders

\* Streams: an exchange begins with nothing left of the one before, unless a
\* flag is set by an operation or a report that the new stream has overtaken;
\* and a death that was reported in it is seen by the other side.
PeersTold == part = "streams" => T!CleanExchange /\ T!DeathReachesPeer

\* Streams: a slot that nobody holds can be used again.
SlotReturns == part = "streams" => T!SlotReturns
=============================================================================
