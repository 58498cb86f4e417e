---------------------------- MODULE StreamTable ----------------------------
(***************************************************************************)
(* The life of one slot of a stream table (stream/src/lib.rs, table.rs,    *)
(* layout.rs): a creator installs a stream and holds side A, whoever has a *)
(* ticket opens side B, either side drops, the creator arms the stream for *)
(* another exchange, processes die and are reported, a node is taken over  *)
(* and the table is reset.                                                 *)
(*                                                                         *)
(* Every action is one atomic access of the slot.  The bytes, the wakes and *)
(* the doorbells of the directions are in StreamRing.                      *)
(***************************************************************************)
EXTENDS Integers, FiniteSets

CONSTANTS
    Procs,          \* incarnations of processes
    Nodes,          \* fleet nodes
    NodeOf(_),      \* the node of each process
    Lane,           \* the node whose lane holds the slot
    Bounds          \* instances: who runs, who may start, and the bounds

None == "none"

\* Bounds is a set of records: the processes that run from the beginning
\* (first), the ones that may start (spare) and die (mortal), what holders call
\* before they drop (calls: of finish, reset and stop_reading), bounds on the
\* generations of the slot, resets, deaths, streams installed or armed again and
\* offers, and the late stores up to which a behaviour is followed (until).

Sides == {"A", "B"}
Other(s) == IF s = "A" THEN "B" ELSE "A"
NoHandle == [side |-> None, gen |-> 0, exchange |-> 0, shut |-> FALSE,
             safe |-> FALSE]
NoTicket == [gen |-> 0, epoch |-> 0]

VARIABLES
    slot,       \* Slot: state, generation, claims, stamps; flags of the directions
    epoch,      \* Header.epoch
    offers,     \* nodes whose offer bitmap has the slot's bit
    handle,     \* the side each process holds
    alive,      \* processes that run
    pc, job,    \* where each process is, and what it works on
    tickets,    \* tickets that were handed out
    exchange,   \* history: the exchange the slot is in
    reported,   \* history: processes whose death was reported
    gaps,       \* history: stores of an operation that was too late for its
                \* exchange, and deaths that no report makes good
    count,      \* history: deaths and offers
    bound       \* the instance

vars == <<slot, epoch, offers, handle, alive, pc, job, tickets, exchange,
          reported, gaps, count, bound>>
histVars == <<tickets, exchange, reported, gaps, count, bound>>

\* at is the exchange that the operation has looked at (history).
NoJob == [ticket |-> NoTicket, gone |-> {}, side |-> "A", touched |-> FALSE,
          flag |-> None, after |-> "idle", safe |-> FALSE, at |-> 0]

\* The directions are named by the side that writes them.
Empty ==
    [state |-> "empty", gen |-> 0,
     claimed |-> [s \in Sides |-> "free"], node |-> [s \in Sides |-> None],
     inc |-> [s \in Sides |-> None], flags |-> [s \in Sides |-> {}]]

Init ==
    /\ slot = Empty /\ epoch = 1 /\ offers = {}
    /\ handle = [p \in Procs |-> NoHandle]
    /\ bound \in Bounds
    /\ alive = bound.first
    /\ pc = [p \in Procs |-> IF p \in bound.first THEN "idle" ELSE "down"]
    /\ job = [p \in Procs |-> NoJob]
    /\ tickets = {} /\ exchange = 0 /\ reported = {} /\ gaps = {}
    /\ count = [deaths |-> 0, offers |-> 0]

-----------------------------------------------------------------------------
(***************************************************************************)
(* Helpers                                                                 *)
(***************************************************************************)

Step(p, a, b, j) ==
    /\ pc[p] = a /\ p \in alive
    /\ pc' = [pc EXCEPT ![p] = b]
    /\ job' = [job EXCEPT ![p] = IF b = "idle" THEN NoJob ELSE j]
Steps(p, a, b) == Step(p, a, b, job[p])

\* Slot::is
IsGeneration(g) == slot.state = "live" /\ slot.gen = g

\* A step that changes nothing but the slot.
OnSlot == UNCHANGED <<epoch, offers, handle, alive, histVars>>
Reads == UNCHANGED slot /\ OnSlot

\* A store on the slot that is of the given kind, and late if the condition
\* holds: nothing in the code keeps it from the next stream in the slot.
Stores(late, kind) ==
    /\ gaps' = IF late THEN gaps \cup {kind} ELSE gaps
    /\ UNCHANGED <<epoch, offers, alive, tickets, exchange, reported, count,
                   bound>>

Holds(p) == handle[p] # NoHandle

\* set_flag, on the direction that side s writes.
Flagged(s, f) == [slot EXCEPT !.flags[s] = @ \cup {f}]

-----------------------------------------------------------------------------
(***************************************************************************)
(* create, offer, take_offer                                               *)
(***************************************************************************)

\* Table::allocate, under the lock of the lane of the process's node.
Allocates(p) == NodeOf(p) = Lane /\ slot.state = "empty"

Installed(p) ==
    [Empty EXCEPT !.state = "live", !.gen = slot.gen + 1,
                  !.claimed["A"] = "claimed", !.node["A"] = NodeOf(p),
                  !.inc["A"] = p]

Create(p) ==
    /\ Steps(p, "idle", "idle") /\ ~Holds(p)
    /\ Allocates(p)
    /\ \/ /\ slot.gen >= bound.generations
          /\ slot' = [slot EXCEPT !.state = "exhausted"]
          /\ UNCHANGED <<handle, tickets, exchange>>
       \/ /\ slot.gen < bound.generations /\ exchange < bound.exchanges
          /\ slot' = Installed(p)
          /\ exchange' = exchange + 1
          /\ tickets' = tickets \cup {[gen |-> slot.gen + 1, epoch |-> epoch]}
          /\ handle' = [handle EXCEPT ![p] =
                           [side |-> "A", gen |-> slot.gen + 1, safe |-> TRUE,
                            exchange |-> exchange + 1, shut |-> FALSE]]
    /\ UNCHANGED <<epoch, offers, alive, reported, gaps, count, bound>>

\* The offer bitmap of a node: a bit is set, or taken and cleared.
SetOffer(n) == offers' = offers \cup {n}
ClearOffer(n) == n \in offers /\ offers' = offers \ {n}

Offer(p, n) ==
    /\ Steps(p, "idle", "idle")
    /\ count.offers < bound.offers
    /\ \E t \in tickets : t.epoch = epoch /\ IsGeneration(t.gen)
    /\ SetOffer(n)
    /\ count' = [count EXCEPT !.offers = @ + 1]
    /\ UNCHANGED <<slot, epoch, handle, alive, tickets, exchange, reported,
                   gaps, bound>>

\* ticket_for names whatever the slot holds now.
TicketFor == [gen |-> slot.gen, epoch |-> epoch]

TakeOffer(p) ==
    /\ ClearOffer(NodeOf(p)) /\ ~Holds(p)
    /\ Step(p, "idle", IF slot.state = "live" THEN "openCheck" ELSE "idle",
            [NoJob EXCEPT !.ticket = TicketFor])
    /\ UNCHANGED <<slot, epoch, handle, alive, histVars>>

-----------------------------------------------------------------------------
(***************************************************************************)
(* open                                                                    *)
(***************************************************************************)

\* A ticket that came by another channel.
OpenStarts(p) ==
    \E t \in tickets :
       /\ ~Holds(p)
       /\ Step(p, "idle", "openCheck", [NoJob EXCEPT !.ticket = t])
       /\ Reads

OpenCheck(p) ==
    LET t == job[p].ticket IN
    /\ Steps(p, "openCheck", IF t.epoch = epoch /\ IsGeneration(t.gen)
                             THEN "openClaim" ELSE "idle")
    /\ Reads

\* Whether side A is held at this moment is what keeps the slot (history).
OpenClaim(p) ==
    /\ IF slot.claimed["B"] = "free"
       THEN /\ slot' = [slot EXCEPT !.claimed["B"] = "claimed"]
            /\ Step(p, "openClaim", "openAgain",
                    [job[p] EXCEPT !.safe = slot.claimed["A"] = "claimed",
                                   !.at = exchange])
            /\ Stores(~IsGeneration(job[p].ticket.gen), "claim")
       ELSE Steps(p, "openClaim", "idle") /\ UNCHANGED slot /\ Stores(FALSE, "")
    /\ UNCHANGED handle

OpenAgain(p) ==
    /\ Steps(p, "openAgain", IF IsGeneration(job[p].ticket.gen)
                             THEN "stampInc" ELSE "giveBack")
    /\ Reads

GiveBack(p) ==
    /\ Steps(p, "giveBack", "idle")
    /\ slot' = IF slot.claimed["B"] = "claimed"
               THEN [slot EXCEPT !.claimed["B"] = "free"] ELSE slot
    /\ Stores(slot' # slot /\ job[p].at # exchange, "giveBack")
    /\ UNCHANGED handle

StampIncarnation(p) ==
    /\ Steps(p, "stampInc", "stampNode")
    /\ slot' = [slot EXCEPT !.inc["B"] = p]
    /\ Stores(job[p].at # exchange, "stamp")
    /\ UNCHANGED handle

StampNode(p) ==
    /\ Steps(p, "stampNode", "idle")
    /\ slot' = [slot EXCEPT !.node["B"] = NodeOf(p)]
    /\ handle' = [handle EXCEPT ![p] =
                     [side |-> "B", gen |-> job[p].ticket.gen,
                      safe |-> job[p].safe, exchange |-> job[p].at,
                      shut |-> FALSE]]
    /\ Stores(job[p].at # exchange, "stamp")

-----------------------------------------------------------------------------
(***************************************************************************)
(* finish, reset, stop_reading, and the drops                              *)
(***************************************************************************)

\* A holder that is not of the present exchange.
Outlived(p) == handle[p].exchange # exchange

\* set_flag asks for the generation and then sets the flag, on the direction
\* that side s writes; next is where the caller goes on.
LooksToFlag(p, from, s, flag, next) ==
    Step(p, from, IF IsGeneration(handle[p].gen) THEN "flag" ELSE next,
         [NoJob EXCEPT !.side = s, !.flag = flag, !.after = next])

SetFlag(p) ==
    /\ Step(p, "flag", job[p].after, [NoJob EXCEPT !.after = job[p].after])
    /\ slot' = Flagged(job[p].side, job[p].flag)
    /\ Stores(Outlived(p), "flag")
    /\ UNCHANGED handle

\* finish and reset of the write half.
Shut(p, flag) ==
    /\ flag \in bound.calls /\ Holds(p) /\ ~handle[p].shut
    /\ LooksToFlag(p, "idle", handle[p].side, flag, "idle")
    /\ handle' = [handle EXCEPT ![p].shut = TRUE]
    /\ UNCHANGED <<slot, epoch, offers, alive, histVars>>

StopReading(p) ==
    /\ "gone" \in bound.calls /\ Holds(p)
    /\ LooksToFlag(p, "idle", Other(handle[p].side), "gone", "idle")
    /\ Reads

\* The halves of an endpoint drop before the side is given back.
DropRead(p) ==
    /\ Holds(p)
    /\ LooksToFlag(p, "idle", Other(handle[p].side), "gone", "dropWrite")
    /\ Reads

DropWrite(p) ==
    /\ IF handle[p].shut THEN Steps(p, "dropWrite", "dropRelease")
       ELSE LooksToFlag(p, "dropWrite", handle[p].side, "reset", "dropRelease")
    /\ Reads

DropRelease(p) ==
    LET same == IsGeneration(handle[p].gen) IN
    /\ Steps(p, "dropRelease", IF same THEN "dropClaim" ELSE "idle")
    /\ handle' = [handle EXCEPT ![p] = IF same THEN @ ELSE NoHandle]
    /\ UNCHANGED <<slot, epoch, offers, alive, histVars>>

\* Only a side that is still ours is ours to release.
DropClaim(p) ==
    LET s == handle[p].side IN
    /\ pc[p] = "dropClaim"
    /\ IF slot.claimed[s] = "claimed"
       THEN /\ slot' = [slot EXCEPT !.claimed[s] = "released"]
            /\ Steps(p, "dropClaim", "dropLook") /\ UNCHANGED handle
       ELSE /\ Steps(p, "dropClaim", "idle") /\ UNCHANGED slot
            /\ handle' = [handle EXCEPT ![p] = NoHandle]
    /\ Stores(slot' # slot /\ Outlived(p), "release")

DropLookUnlessFree(p) ==
    LET other == slot.claimed[Other(handle[p].side)] IN
    /\ Steps(p, "dropLook", IF other \in {"released", "dead"} THEN "dropEmpty"
                            ELSE "idle")
    /\ handle' = [handle EXCEPT ![p] =
                     IF other \in {"released", "dead"} THEN @ ELSE NoHandle]
    /\ UNCHANGED <<slot, epoch, offers, alive, histVars>>

\* Only a claimed side keeps the slot alive.
DropLook(p) ==
    LET other == slot.claimed[Other(handle[p].side)] IN
    /\ Steps(p, "dropLook", IF other # "claimed" THEN "dropEmpty" ELSE "idle")
    /\ handle' = [handle EXCEPT ![p] = IF other # "claimed" THEN @ ELSE NoHandle]
    /\ UNCHANGED <<slot, epoch, offers, alive, histVars>>

\* compare_exchange from LIVE, whatever the generation is by now.
EmptyIfLive ==
    slot' = IF slot.state = "live" THEN [slot EXCEPT !.state = "empty"] ELSE slot

DropEmpty(p) ==
    /\ Steps(p, "dropEmpty", "idle")
    /\ EmptyIfLive
    /\ Stores(slot' # slot /\ Outlived(p), "empty")
    /\ handle' = [handle EXCEPT ![p] = NoHandle]

-----------------------------------------------------------------------------
(***************************************************************************)
(* rearm                                                                   *)
(***************************************************************************)

RearmLook(p) ==
    /\ handle[p].side = "A" /\ exchange < bound.exchanges
    /\ Steps(p, "idle", IF /\ IsGeneration(handle[p].gen)
                           /\ slot.claimed["B"] = "released"
                        THEN "rearmClear" ELSE "idle")
    /\ Reads

RearmClear(p) ==
    /\ Steps(p, "rearmClear", "rearmOwner")
    /\ slot' = [slot EXCEPT !.flags = [s \in Sides |-> {}]]
    /\ OnSlot

RearmOwnerNot(p) ==
    /\ Steps(p, "rearmOwner", "rearmFree") /\ UNCHANGED slot /\ OnSlot

\* The far side's owner goes back to nobody before its claim opens.
RearmOwner(p) ==
    /\ Steps(p, "rearmOwner", "rearmFree")
    /\ slot' = [slot EXCEPT !.node["B"] = None, !.inc["B"] = None]
    /\ OnSlot

\* The write half of a rearmed endpoint is open again.
Rearmed(p) ==
    handle' = [handle EXCEPT ![p].exchange = exchange + 1, ![p].shut = FALSE]

RearmFree(p) ==
    /\ Steps(p, "rearmFree", "idle")
    /\ IF slot.claimed["B"] = "released"
       THEN /\ slot' = [slot EXCEPT !.claimed["B"] = "free"]
            /\ exchange' = exchange + 1
            /\ Rearmed(p)
       ELSE UNCHANGED <<slot, exchange, handle>>
    /\ UNCHANGED <<epoch, offers, alive, tickets, reported, gaps, count, bound>>

-----------------------------------------------------------------------------
(***************************************************************************)
(* node_dead, supersede: end_sides                                         *)
(***************************************************************************)

Die(p) ==
    /\ p \in alive \cap bound.mortal /\ count.deaths < bound.deaths
    /\ alive' = alive \ {p}
    /\ pc' = [pc EXCEPT ![p] = "dead"] /\ UNCHANGED job
    /\ gaps' = gaps \cup
          IF \/ pc[p] \in {"openAgain", "giveBack", "stampInc", "stampNode",
                           "dropLook", "dropEmpty"}
             \/ job[p].touched THEN {"orphan"} ELSE {}
    /\ count' = [count EXCEPT !.deaths = @ + 1]
    /\ UNCHANGED <<slot, epoch, offers, handle, tickets, exchange, reported, bound>>

\* A live process is told of a death.
NodeDead(p, q) ==
    /\ q \notin alive /\ pc[q] = "dead"
    /\ Step(p, "idle", "endLook", [NoJob EXCEPT !.gone = {q}])
    /\ Reads

\* A process takes over a node, before it creates or opens anything.
Supersede(p) ==
    /\ pc[p] = "down" /\ p \in bound.spare
    /\ \A q \in Procs : q # p /\ NodeOf(q) = NodeOf(p) => pc[q] = "dead"
    /\ pc' = [pc EXCEPT ![p] = "endLook"]
    /\ job' = [job EXCEPT ![p] = [NoJob EXCEPT
                  !.gone = {q \in Procs : q # p /\ NodeOf(q) = NodeOf(p)}]]
    /\ alive' = alive \cup {p}
    /\ UNCHANGED <<slot, epoch, offers, handle, histVars>>

\* What a pass over the sides does after side s.
NextSide(s, touched) ==
    IF s = "A" THEN "endLook" ELSE IF touched THEN "endCheck" ELSE "endOver"

\* The state is read before the sides, and of each side the claim first and
\* the owner after it.
EndLook(p) ==
    LET s == job[p].side
        theirs == /\ slot.claimed[s] = "claimed"
                  /\ \E q \in job[p].gone : slot.node[s] = NodeOf(q)
                                            /\ slot.inc[s] = q
    IN  /\ IF s = "A" /\ slot.state # "live" THEN Steps(p, "endLook", "endOver")
           ELSE IF theirs THEN Step(p, "endLook", "endClaim",
                                    [job[p] EXCEPT !.at = exchange])
           ELSE Step(p, "endLook", NextSide(s, job[p].touched),
                     [job[p] EXCEPT !.side = Other(s)])
        /\ Reads

\* compare_exchange from CLAIMED, whoever holds the side by now.
EndClaim(p) ==
    LET s == job[p].side IN
    /\ IF slot.claimed[s] = "claimed"
       THEN /\ slot' = [slot EXCEPT !.claimed[s] = "dead"]
            /\ Step(p, "endClaim", "endReset", [job[p] EXCEPT !.touched = TRUE])
       ELSE /\ UNCHANGED slot
            /\ Step(p, "endClaim", NextSide(s, job[p].touched),
                    [job[p] EXCEPT !.side = Other(s)])
    /\ Stores(slot' # slot /\ job[p].at # exchange, "end")
    /\ UNCHANGED handle

EndReset(p) ==
    /\ Steps(p, "endReset", "endGone")
    /\ slot' = Flagged(job[p].side, "reset")
    /\ Stores(job[p].at # exchange, "mark")
    /\ UNCHANGED handle

EndGoneNot(p) ==
    LET s == job[p].side IN
    /\ Step(p, "endGone", NextSide(s, TRUE), [job[p] EXCEPT !.side = Other(s)])
    /\ UNCHANGED slot /\ OnSlot

EndGone(p) ==
    LET s == job[p].side IN
    /\ Step(p, "endGone", NextSide(s, TRUE), [job[p] EXCEPT !.side = Other(s)])
    /\ slot' = Flagged(Other(s), "gone")
    /\ Stores(job[p].at # exchange, "mark")
    /\ UNCHANGED handle

\* A pass that ended a side looks at the claims, one after the other.
EndCheck(p) ==
    LET s == job[p].side IN
    /\ Step(p, "endCheck", IF slot.claimed[s] = "claimed" THEN "endOver"
                           ELSE IF s = "A" THEN "endCheck" ELSE "endEmpty",
            [job[p] EXCEPT !.side = Other(s),
                           !.at = IF s = "A" THEN exchange ELSE @])
    /\ Reads

EndEmpty(p) ==
    /\ Steps(p, "endEmpty", "endOver")
    /\ EmptyIfLive
    /\ Stores(slot' # slot /\ job[p].at # exchange, "empty")
    /\ UNCHANGED handle

\* The doorbell of the dead is cleared, and the death is dealt with.
EndOver(p) ==
    /\ Steps(p, "endOver", "idle")
    /\ reported' = reported \cup job[p].gone
    /\ UNCHANGED <<slot, epoch, offers, handle, alive, tickets, exchange, gaps,
                   bound, count>>

-----------------------------------------------------------------------------
\* reset_all, at a boot at which nothing is under way and nobody holds a side.
ResetAll(p) ==
    /\ Steps(p, "idle", "idle")
    /\ \A q \in alive : pc[q] = "idle" /\ ~Holds(q)
    /\ epoch <= bound.resets
    /\ epoch' = epoch + 1
    /\ slot' = [slot EXCEPT !.state = "empty", !.gen = 0]
    /\ offers' = {}
    /\ UNCHANGED <<handle, alive, histVars>>

-----------------------------------------------------------------------------
Next ==
    /\ gaps \cap bound.until = {}
    /\ \E p \in Procs :
          \/ Create(p) \/ (\E n \in Nodes : Offer(p, n)) \/ TakeOffer(p)
          \/ OpenStarts(p) \/ OpenCheck(p) \/ OpenClaim(p) \/ OpenAgain(p)
          \/ GiveBack(p) \/ StampIncarnation(p) \/ StampNode(p)
          \/ (\E f \in {"fin", "reset"} : Shut(p, f)) \/ StopReading(p)
          \/ SetFlag(p) \/ DropRead(p) \/ DropWrite(p) \/ DropRelease(p)
          \/ DropClaim(p) \/ DropLook(p) \/ DropEmpty(p)
          \/ RearmLook(p) \/ RearmClear(p) \/ RearmOwner(p) \/ RearmFree(p)
          \/ Die(p) \/ (\E q \in Procs : NodeDead(p, q)) \/ Supersede(p)
          \/ EndLook(p) \/ EndClaim(p) \/ EndReset(p) \/ EndGone(p) \/ EndCheck(p)
          \/ EndEmpty(p) \/ EndOver(p)
          \/ ResetAll(p)

Spec == Init /\ [][Next]_vars

-----------------------------------------------------------------------------
(***************************************************************************)
(* Properties                                                              *)
(***************************************************************************)

Dropping == {"dropWrite", "dropRelease", "dropClaim", "dropLook", "dropEmpty"}

\* A live process that holds its side, and is not giving it back.
Holding(p) ==
    /\ p \in alive /\ Holds(p)
    /\ pc[p] \notin Dropping /\ job[p].after \notin Dropping

\* Late stores, by what they do to the stream that is in the slot by now: they
\* take a side of it, or the slot, from who holds it; they set its flags.
Taking == {"giveBack", "stamp", "release", "empty", "end"}
Marking == {"flag", "mark"}

\* No two processes hold the same side of an exchange.
HeldOnce ==
    \A p, q \in Procs :
       p # q /\ Holding(p) /\ Holding(q)
             /\ handle[p].exchange = handle[q].exchange
          => handle[p].side # handle[q].side

\* "Each side can be held once per stream" (Streams::open), until an open that
\* was overtaken by the next stream gives back a claim that is another's.
OneHolder == "giveBack" \notin gaps => HeldOnce

\* "The slot empties once no side holds it any more" (Handle::drop): it is
\* neither emptied nor reused under a holder, unless the holder opened side B
\* when side A was gone already.
HeldSlotStays ==
    \A p \in Procs : Holding(p) /\ handle[p].safe => IsGeneration(handle[p].gen)

\* The side of a holder stays its own: the report of a death ends no side of a
\* process that lives.
HeldSideStays ==
    \A p \in Procs : Holding(p) /\ handle[p].safe =>
       slot.claimed[handle[p].side] = "claimed"

\* Slot and side stay a holder's, whatever others open, drop, arm again and
\* report at the same time, until a store of an operation on an earlier stream
\* in the slot takes them: late operations that store nothing do no harm.
SlotOutlivesHolders ==
    gaps \cap Taking = {} => HeldSlotStays /\ HeldSideStays

\* An exchange that waits for its far side has nothing in it that an earlier
\* one, or a report of a death in an earlier one, left behind.
NothingLeft ==
    slot.state = "live" /\ slot.claimed["B"] = "free" =>
       slot.flags["B"] \subseteq {"gone"} /\ "gone" \notin slot.flags["A"]

\* The same until a holder or a report that was overtaken by the next stream
\* sets its flag there, or a side with flags of its holder is given back.
CleanExchange == gaps \cap (Marking \cup {"giveBack"}) = {} => NothingLeft

\* Once a death was reported and no report is under way, the one that holds
\* the other side finds its reading direction ended and its writing direction
\* without a reader.
DeathReachesPeer ==
    \A p, q \in Procs :
       /\ p \in reported /\ Holds(p) /\ Holding(q)
       /\ gaps \cap (Taking \cup {"orphan"}) = {}
       /\ \A r \in alive : pc[r] \notin {"endReset", "endGone"}
       /\ handle[p].exchange = handle[q].exchange /\ handle[q].safe
       /\ pc[q] \notin {"rearmOwner", "rearmFree"}
       => /\ slot.flags[handle[p].side] \cap {"fin", "reset"} # {}
          /\ "gone" \in slot.flags[Other(handle[p].side)]

\* Nobody runs an operation, and every death was reported.
Quiet ==
    /\ \A p \in alive : pc[p] = "idle"
    /\ \A p \in Procs : pc[p] = "dead" => p \in reported

\* A slot nobody holds comes back: it is not lost to its lane.  The exceptions
\* nothing recovers are a process that died between its claim and its stamps or
\* between its release and the slot, and late stores.
SlotReturns ==
    Quiet /\ gaps = {} /\ slot.state = "live" =>
       \E p \in alive : Holds(p) /\ handle[p].gen = slot.gen
=============================================================================
