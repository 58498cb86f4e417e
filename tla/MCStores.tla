------------------------------ MODULE MCStores ------------------------------
(***************************************************************************)
(* What the fleet keeps in shared segments besides rings, locks, cells and *)
(* pools, and the segments themselves: the chunk exchange, the record      *)
(* arena, the cache, the table of TLS sessions, and who creates, opens and *)
(* removes a segment.  They do not call one another through what is        *)
(* modelled, so a behaviour is of one of them (part) and the others rest:  *)
(* four share the variables s1, s2, ... of this module, the segment has    *)
(* its own.                                                                *)
(***************************************************************************)
EXTENDS Region

VARIABLES part,   \* the component a behaviour is of
          s1, s2, s3, s4, s5, s6, s7, s8, s9, s10, s11, s12, s13

shared == <<s1, s2, s3, s4, s5, s6, s7, s8, s9, s10, s11, s12, s13>>
all == <<part, shared, vars>>

-----------------------------------------------------------------------------
\* Exchange: a whole body, a task that waits for one slot, senders that give
\* up, a producer that dies and is replaced, a receiver that dies.
Flow == [body |-> 5, slots |-> 2, meta |-> 0, task |-> FALSE, fickle |-> FALSE,
         abandons |-> 0, mortal |-> {}, replaced |-> FALSE]
Flows ==
    { Flow, [Flow EXCEPT !.task = TRUE, !.slots = 1, !.meta = 1, !.body = 3],
      [Flow EXCEPT !.fickle = TRUE, !.abandons = 2, !.body = 2, !.meta = 1],
      [Flow EXCEPT !.mortal = {"p1"}, !.replaced = TRUE, !.body = 1],
      [Flow EXCEPT !.mortal = {"R"}, !.slots = 1, !.body = 3] }

\* Threads a and a2 are of one process, b of another.
ProcessOf(t) == IF t = "b" THEN "B" ELSE "A"
SetOf(k) == 1

\* Sessions: deaths under claims; resets; two threads of one handle;
\* retentions that pass; a client table.
Table == [exclusion |-> "set", who |-> {"a", "b"}, kinds |-> {"put"}, keys |-> {"k1"},
          sets |-> 1, lens |-> {1}, ttls |-> {2}, stores |-> 2, crashes |-> 0,
          ticks |-> 0, bad |-> {}]
Tables ==
    { [Table EXCEPT !.crashes = 1, !.lens = {1, 2}],
      [Table EXCEPT !.stores = 1, !.crashes = 1, !.sets = 2, !.kinds = {"put", "reset"}],
      [Table EXCEPT !.who = {"a", "a2"}, !.ttls = {0, 1, 2, 4}],
      [Table EXCEPT !.stores = 3, !.ttls = {1}, !.ticks = 1, !.who = {"a"},
                    !.keys = {"k1", "k2", "k3"}],
      [Table EXCEPT !.ttls = {1}, !.ticks = 1],
      [Table EXCEPT !.exclusion = "table", !.kinds = {"put", "reset"}, !.bad = {1},
                    !.crashes = 1, !.ticks = 1, !.ttls = {1}],
      [Table EXCEPT !.exclusion = "table", !.kinds = {"push"}, !.bad = {1}, !.stores = 3,
                    !.ttls = {1}, !.ticks = 1, !.who = {"a"}] }

\* Cache: two writers; two keys in a table of one; frames lost and recovered
\* from; values that expire or are evicted, calls that fail; stores opened
\* late; an observer; two threads that poll one connection; a reset.
Fleet == [who |-> {"a", "b"}, early |-> {"A", "B"}, stores |-> {"s"}, keys |-> {"k"},
          kinds |-> {"delete", "reset"}, ttls |-> {0}, capacity |-> 1, fails |-> FALSE,
          observes |-> FALSE, muts |-> 3, polls |-> 2, recovers |-> 0, evicts |-> 0,
          ticks |-> 0]
Fleets ==
    { [Fleet EXCEPT !.keys = {"k", "l"}, !.muts = 2, !.kinds = {}],
      [Fleet EXCEPT !.recovers = 1, !.kinds = {"delete"}, !.polls = 1],
      [Fleet EXCEPT !.ttls = {0, 1}, !.ticks = 1, !.evicts = 1, !.fails = TRUE,
                    !.muts = 2, !.polls = 1],
      [Fleet EXCEPT !.early = {"A"}, !.who = {"a", "a2", "b"}, !.kinds = {}, !.muts = 2],
      [Fleet EXCEPT !.observes = TRUE, !.polls = 0, !.kinds = {}],
      [Fleet EXCEPT !.who = {"a", "a2", "b"}, !.kinds = {}, !.muts = 2],
      [Fleet EXCEPT !.stores = {"s", "r"}, !.muts = 2, !.polls = 1, !.kinds = {"reset"}] }

\* Segments, of two members and a diagnostic reader: sections and lanes across
\* a removal; a creator or a tool that dies; a policy that does not fit, and a
\* reader; a call that fails.
Segment == [who |-> {"p", "q"}, policies |-> {"owner"}, lanes |-> FALSE, crashes |-> 0,
            fails |-> 0, sections |-> 0, leaves |-> 2, runs |-> 1]
Segments ==
    { [Segment EXCEPT !.sections = 3, !.runs = 2],
      [Segment EXCEPT !.lanes = TRUE, !.sections = 2],
      [Segment EXCEPT !.sections = 2, !.crashes = 2],
      [Segment EXCEPT !.policies = {"owner", "group"}, !.who = {"p", "q", "r"}],
      [Segment EXCEPT !.fails = 1, !.who = {"p", "r"}, !.runs = 2] }

-----------------------------------------------------------------------------
X == INSTANCE Exchange WITH
    LaneSlots <- 2, SlotBytes <- 2, Frames <- 1, Instances <- Flows,
    lane <- s1, mem <- s2, nextGen <- s3, waiters <- s4, prod <- s5,
    cons <- s6, queue <- s7, rel <- s8, driver <- s9, report <- s10,
    dead <- s11, gaps <- s12, inst <- s13

A == INSTANCE Arena WITH
    Writers <- {"p1"}, Readers <- {"p2"}, NRows <- 2, NSlots <- 2,
    Bytes <- 3, RecordMax <- 2, Lens <- <<{2}, {0, 2}, {1}>>, Keys <- {1},
    MaxRecords <- 3, MaxDeaths <- 1,
    slot <- s1, ring <- s2, cursor <- s3, recordGeneration <- s4,
    active <- s5, pins <- s6, kind <- s7, row <- s8, rd <- s9, w <- s10,
    since <- s11, deaths <- s12

S == INSTANCE SessionStore WITH
    Threads <- {"a", "a2", "b"}, HandleOf <- ProcessOf, SetOf <- SetOf,
    NOwners <- 2, GenerationMax <- 2, NWays <- 2, ValueMax <- 2,
    Setup <- Tables,
    setup <- s1, now <- s2, stores <- s3, crashes <- s4, slot <- s5,
    claim <- s6, gens <- s7, held <- s8, table <- s9, handle <- s10,
    ttl <- s11, job <- s12, taken <- s13

C == INSTANCE Cache WITH
    Threads <- {"a", "a2", "b"}, ProcOf <- ProcessOf, Stores <- {"s", "r"},
    Keys <- {"k", "l"}, LaneFrames <- 1, Setup <- Fleets,
    setup <- s1, used <- s2, now <- s3, version <- s4, lane <- s5,
    arena <- s6, cursor <- s7, local <- s8, sound <- s9, job <- s10,
    seen <- s11

Off == "off"

\* The segment while a behaviour is of another component.
SegmentRests == Init /\ setup = CHOOSE s \in Setup : TRUE

\* The components that share s1, s2, ... while a behaviour is of none of them.
OthersRest ==
    /\ s1 = Off /\ s2 = Off /\ s3 = Off /\ s4 = Off /\ s5 = Off
    /\ s6 = Off /\ s7 = Off /\ s8 = Off /\ s9 = Off /\ s10 = Off
    /\ s11 = Off /\ s12 = Off /\ s13 = Off

StoresInit ==
    \/ part = "exchange" /\ X!Init /\ SegmentRests
    \/ part = "arena" /\ A!Init /\ s13 = Off /\ SegmentRests
    \/ part = "sessions" /\ S!Init /\ SegmentRests
    \/ part = "cache" /\ C!Init /\ s12 = Off /\ s13 = Off /\ SegmentRests
    \/ part = "segment" /\ Init /\ OthersRest

StoresNext ==
    \/ part = "exchange" /\ X!Next /\ UNCHANGED <<part, vars>>
    \/ part = "arena" /\ A!Next /\ UNCHANGED <<part, s13, vars>>
    \/ part = "sessions" /\ S!Next /\ UNCHANGED <<part, vars>>
    \/ part = "cache" /\ C!Next /\ UNCHANGED <<part, s12, s13, vars>>
    \/ part = "segment" /\ Next /\ UNCHANGED <<part, shared>>

StoresSpec == StoresInit /\ [][StoresNext]_all

-----------------------------------------------------------------------------
\* Exchange: a receiver that holds a chunk sees the bytes of the publication
\* its descriptor names until it drops it, no flow is malformed, and one that
\* ended with FIN brought its whole body.
DeliveredIntact == part = "exchange" => X!DeliveredIntact

\* Exchange: when nothing is under way every extent that is not queued or held
\* is free again, and no producer sleeps over room it could use.
CreditReturns == part = "exchange" => X!CreditReturns

\* Arena: a held entry keeps its bytes, and a lookup never hands out what a
\* put, forget or reset that had returned replaced.
EntryStays == part = "arena" => A!EntryStays

\* Arena: the pins of the dead never take room away for good.
RoomReturns == part = "arena" => A!RoomReturns

\* Sessions: a value that a take answers is whole and was answered to nobody
\* else.
SingleUse == part = "sessions" => S!SingleUse

\* Sessions: no byte of a session outlives its entry in a slot at rest.
NoTrace == part = "sessions" => S!NoTrace

\* Sessions: no set is lost for good by a death under its claim.
NoSetStuck == part = "sessions" => S!NoSetStuck

\* Cache: once a process has applied what is published, a hit is the value of
\* the newest revision of the fleet.
LastWriteWins == part = "cache" => C!LastWriteWins

\* Cache: what a table knows of a key is never replaced by something older.
NoResurrection == [][part = "cache" => C!KnowsNoLess]_all

\* Cache: a snapshot that reports no loss and no change is of all that was
\* published when it was taken.
SnapshotHonest == [][part = "cache" => C!SureOfAll]_all
=============================================================================
