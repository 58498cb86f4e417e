--------------------------- MODULE LinkInboxProofs ---------------------------
(***************************************************************************)
(* What readers of a lane are handed is in turn, once and whole, and what  *)
(* was committed for the present claim of the lane is not lost             *)
(* (TurnsKept, AcceptedNotLost), for any writers, readers, capacity and    *)
(* bounds, and though any of them dies between any two stores.             *)
(*                                                                         *)
(* The invariant says what the shared memory is (SharedInv: claims,        *)
(* records, positions, messages, deliveries) and what each process knows   *)
(* of it at the place where it is (Knows).  A step is shown to keep it in  *)
(* one of two ways.                                                        *)
(*  - A step that changes nothing of what the invariant speaks of is calm: *)
(*    it only has to justify what its own process knows next (CalmStep).   *)
(*  - A step that changes a record, a slot, a position or a lock is sound: *)
(*    it keeps SharedInv, moves turns and intents only forward (Forward)   *)
(*    and leaves to every other process what that process holds the lock   *)
(*    of (Spares).  What any process knows survives such a step of another *)
(*    (Bystander), so here too only its own knowledge is left to show      *)
(*    (SoundStep).                                                         *)
(* Two facts carry the rest.  Positions of one slot are Capacity apart, so *)
(* a turn in the window of the lane has its slot to itself; and a claim    *)
(* names a record that its owner cannot reuse while it is named, so the    *)
(* intent behind a done claim is still that of its turn.                   *)
(***************************************************************************)
EXTENDS LinkInbox, TLAPS

Wakes == {"bump", "waiters", "futex", "swap", "ring"}
Helps == {"help", "helpIntent", "helpTurn", "helpAgain", "helpAdmit"}

\* Where a process is that is at h with job j, but for the wake or the help it
\* is giving, after which it goes on at the place this names.
Place(h, j) ==
    IF h \in Wakes THEN j.wake
    ELSE IF h \in Helps
    THEN IF j.help = "bump" THEN "recUnwrite" ELSE "progress"
    ELSE h

\* Where a writer has a message that is not committed, where it has the
\* position it read from the lane, and where it has one of its records.
Unsent == {"loadRead", "loadReserve", "loadClaim", "takeRecord", "intent", "claim",
           "turn", "rollback", "drop", "admit", "payload", "commit", "progress",
           "again"}
Aiming == {"loadClaim", "takeRecord", "intent"}
Aimed == Aiming \cup {"claim", "turn", "rollback", "admit", "payload", "commit"}
Recording == {"intent", "claim", "turn", "rollback", "drop", "admit", "payload",
              "commit", "unwrite"}
Claimed == {"turn", "rollback", "admit", "payload", "commit"}
InTurn == {"admit", "payload", "commit"}

\* Where a process recovers a registration, and where it looks at a record.
Recovery == {"records", "recTurn", "recClaim", "recCancel", "recRollback",
             "recUnwrite"}
Looking == {"recTurn", "recClaim", "recCancel", "recRollback"}

\* Where a process has the lane: before its epoch began, and since then.
Consuming == {"consumeTurn", "consumeFree", "consumeHead"}
Resetting == {"reset", "resetTurn", "resetLate", "resetClaim"}
Reading == {"identity", "serve", "look", "readHead", "readClaim", "readIntent",
            "copy", "disarm", "drain", "arm", "recheck", "asleep", "register",
            "enter", "parked", "unparked"}
Owning == Consuming \cup Resetting \cup Reading
            \cup {"release", "leave", "retired", "joinClaim", "resetEpoch", "left"}
AtHead == Consuming \cup {"resetTurn", "resetLate", "resetClaim", "readClaim",
                          "readIntent", "copy"}

\* The other places.
Outside == {"idle", "dead", "owners", "laneCheck", "join", "joinHold"}
Places == Unsent \cup Recording \cup Recovery \cup Owning \cup Outside

-----------------------------------------------------------------------------
(***************************************************************************)
(* The invariant                                                           *)
(***************************************************************************)

ClaimType ==
    [rec : Records \cup {NoRecord},
     state : {"free", "reserved", "committed", "cancelled"}]
IntentType == [pos : Nat, epoch : Nat, gen : Nat]
SlotType == [seq : Nat, claim : ClaimType, body : Nat]
RecordType ==
    [stable : BOOLEAN, intent : IntentType, writing : BOOLEAN, referenced : BOOLEAN]
LaneType ==
    [reserve : Nat, read : Nat, consumers : Nat, epoch : Nat, waiters : Int,
     reactor : BOOLEAN, initialized : BOOLEAN, directory : Nat]
JobType ==
    [msg : Nat, tries : Int, read : Nat, pos : Nat, rec : Records \cup {NoRecord},
     claim : ClaimType, intent : IntentType, turn : Nat,
     who : Writers \cup {Nobody}, owners : SUBSET Writers, recs : SUBSET Records,
     serving : BOOLEAN,
     help : {"idle", "progress", "bump"},
     wake : {"idle", "unwrite", "recUnwrite", "reset", "serve", "left"},
     then : {"idle", "help", "progress", "look", "readHead", "reset"},
     after : {"idle", "owners", "register", "retired", "identity", "left"}]

Types ==
    /\ bound \in Bounds
    /\ lane \in LaneType
    /\ slot \in [0 .. Capacity - 1 -> SlotType]
    /\ record \in [Records -> RecordType]
    /\ owner \in [Writers -> [gen : Nat, active : BOOLEAN]]
    /\ laneHold \in Procs \cup {Nobody}
    /\ regHold \in [Writers -> Procs \cup {Nobody}]
    /\ pc \in [Procs -> Places \cup Wakes \cup Helps]
    /\ job \in [Procs -> JobType]
    /\ sent \in Nat /\ sent <= bound.writes
    /\ fate \in [1 .. bound.writes -> [pos : Int, epoch : Nat]]
    /\ delivered \in Seq([pos : Nat, msg : Nat])

\* The position of the record behind a claim.
PosOf(c) == record[c.rec].intent.pos

\* No claim names record r.
Unnamed(r) == \A i \in 0 .. Capacity - 1 : slot[i].claim.rec # r

\* A claim names a record that is referenced and of a turn of its slot.  A
\* claim that is committed or cancelled is of the present turn, or of the turn
\* that is being consumed; what is committed is whole.
ClaimInv ==
    \A i \in 0 .. Capacity - 1 :
       LET s == slot[i]
           c == s.claim
           pos == PosOf(c)
       IN  c # Free =>
              /\ c.rec \in Records /\ c.state # "free"
              /\ record[c.rec].referenced /\ At(pos) = i
              /\ Done(c) => s.seq = pos \/ (s.seq = pos + Capacity /\ lane.read = pos)
              /\ c.state = "committed" =>
                    /\ pos < lane.reserve
                    /\ s.body \in 1 .. sent
                    /\ fate[s.body] = [pos |-> pos,
                                       epoch |-> record[c.rec].intent.epoch]

\* A referenced record is stable and of its registration; its turn is not past
\* what the lane has room for, and its slot is not behind it.
RecordInv ==
    \A r \in Records :
       LET n == record[r].intent IN
       /\ n.pos <= lane.reserve /\ n.epoch <= lane.epoch
       /\ record[r].referenced =>
             /\ record[r].stable /\ n.gen = owner[r[1]].gen
             /\ n.pos < lane.read + Capacity /\ n.pos <= slot[At(n.pos)].seq

\* The turns of the slots are those after the read position, and an admitted
\* turn is claimed.  Before the first owner has made the lane ready there is
\* nothing.
LaneInv ==
    /\ lane.read <= lane.reserve /\ lane.reserve <= lane.read + Capacity
    /\ lane.initialized =>
          \A i \in 0 .. Capacity - 1 :
             LET s == slot[i] IN
             /\ At(s.seq) = i
             /\ lane.read <= s.seq /\ s.seq <= lane.read + Capacity
             /\ s.seq < lane.reserve + Capacity
             /\ s.seq < lane.reserve => s.claim # Free /\ PosOf(s.claim) = s.seq
    /\ ~lane.initialized =>
          /\ lane.reserve = 0 /\ sent = 0 /\ delivered = <<>>
          /\ \A i \in 0 .. Capacity - 1 : slot[i].seq = 0 /\ slot[i].claim = Free
          /\ \A r \in Records : ~record[r].referenced /\ record[r].intent.pos = 0

\* A message that was committed was admitted; until its turn is over it is in
\* its slot.
InSlot(m) ==
    LET s == slot[At(fate[m].pos)] IN
    \/ /\ s.seq = fate[m].pos /\ s.claim.state = "committed" /\ s.body = m
       /\ record[s.claim.rec].intent.epoch = fate[m].epoch
    \/ lane.read = fate[m].pos /\ s.seq = fate[m].pos + Capacity

FateInv ==
    \A m \in 1 .. bound.writes :
       fate[m].pos # -1 =>
          /\ m <= sent /\ fate[m].pos \in 0 .. lane.reserve - 1
          /\ fate[m].epoch <= lane.epoch
          /\ lane.read <= fate[m].pos => InSlot(m)

\* What was delivered was committed, in turn, and not ahead of the lane.
DeliveredInv ==
    /\ DeliveredOnceInTurn /\ NeverMalformed
    /\ \A i \in DOMAIN delivered :
          delivered[i].msg \in 1 .. sent /\ delivered[i].pos <= lane.read

\* Nothing was delivered of the turn at the head.
Passed == \A i \in DOMAIN delivered : delivered[i].pos < lane.read

\* What was committed for the present epoch is queued or delivered.
Kept ==
    \A m \in 1 .. sent :
       fate[m].pos >= 0 /\ fate[m].epoch = lane.epoch
          => Queued(m) \/ \E i \in DOMAIN delivered : delivered[i].msg = m

\* Two processes have different messages.
MessageInv ==
    \A p, q \in Procs : p # q => job[p].msg = 0 \/ job[p].msg # job[q].msg

-----------------------------------------------------------------------------
(***************************************************************************)
(* What process p knows, at h with job j                                   *)
(***************************************************************************)

\* The continuations of a wake, a help, a recovery and a consumption.
ControlInv(p, h, j) ==
    LET at == Place(h, j) IN
    /\ at \in Unsent \cup Recording => p \in Writers
    /\ at \in Owning => p \in Readers
    /\ at \in Recovery =>
          \/ j.after = "owners" /\ p \in Readers
          \/ j.after = "register" /\ p \in Writers /\ j.who = p
    /\ h \in Helps => j.help \in {"progress", "bump"}
    /\ h \in Helps /\ j.help = "bump" => j.wake = "recUnwrite"
    /\ h \in {"rollback", "drop"} => j.then \in {"help", "progress"}
    /\ h \in {"intent", "claim"} \cup Claimed \/ (h = "drop" /\ j.then = "help")
          => j.help = "progress"
    /\ h \in Consuming => j.then \in {"look", "readHead", "reset"}
    /\ h = "copy" => j.then = "look"
    /\ at \in Resetting \cup {"resetEpoch"} \/ (h \in Consuming /\ j.then = "reset")
          => j.after \in {"retired", "identity"}
    /\ h \in {"resetTurn", "resetLate", "resetClaim"} => j.then = "reset"
    /\ at \in {"release", "leave"} => j.after \in {"retired", "left"}

\* A live writer has its registration; what it knows of the lane, of its
\* record and of the slot it claimed.
WriterInv(p, h, j) ==
    LET at == Place(h, j)
        s == slot[At(j.pos)]
        n == record[j.rec].intent
    IN  /\ p \in Writers /\ at # "dead" => regHold[p] = p
        /\ at \in Unsent => j.msg \in 1 .. sent /\ fate[j.msg].pos = -1
        /\ at \notin Unsent \cup {"unwrite"} => j.msg = 0
        /\ at = "unwrite" => j.msg \in 1 .. sent
        /\ at = "loadReserve" => j.read <= lane.read
        /\ at \in Aimed =>
              /\ j.pos <= lane.reserve /\ j.pos < lane.read + Capacity
              /\ j.pos <= s.seq
        /\ at \in Aiming =>
              \A r \in Records : r[1] = p => record[r].intent.pos <= j.pos
        /\ at \in Recording => j.rec \in Records /\ j.rec[1] = p
        /\ at = "intent" => ~record[j.rec].referenced
        /\ at \in {"intent", "claim", "drop"} => Unnamed(j.rec)
        /\ at \in Claimed \cup {"claim"} =>
              record[j.rec].referenced /\ n.pos = j.pos
        /\ at \in Claimed => s.claim = Reserved(j.rec)
        /\ at = "rollback" => s.seq # j.pos
        /\ at \in InTurn => s.seq = j.pos
        /\ at \in {"payload", "commit"} => j.pos < lane.reserve
        /\ at = "commit" => s.body = j.msg

\* What a helper has read: a record never goes back to an earlier turn, and a
\* turn is admitted when it is claimed, or was.
HelpInv(h, j) ==
    LET s == slot[At(j.pos)]
        r == j.claim.rec
    IN  /\ h \in Helps \ {"help"} => r \in Records
        /\ h \in {"helpTurn", "helpAgain"} => j.intent.pos <= record[r].intent.pos
        /\ h = "helpAgain" => j.intent.pos = j.pos /\ j.pos <= s.seq
        /\ h = "helpAdmit" =>
              \/ j.pos < lane.reserve
              \/ s.claim.rec = r /\ record[r].intent.pos = j.pos /\ s.seq = j.pos

\* Who recovers a registration holds it; what it knows of a record and its
\* slot.
RecoverInv(p, h, j) ==
    LET at == Place(h, j)
        s == slot[At(j.pos)]
    IN  /\ at \in Recovery =>
              /\ j.who \in Writers /\ regHold[j.who] = p
              /\ \A r \in j.recs : r[1] = j.who
        /\ at \in Recovery \ {"records"} => j.rec \in Records /\ j.rec[1] = j.who
        /\ at \in Looking =>
              record[j.rec].referenced /\ record[j.rec].intent.pos = j.pos
        /\ at = "recClaim" => j.turn <= s.seq /\ j.pos <= j.turn
        /\ at = "recCancel" \/ (at = "recClaim" /\ j.turn = j.pos) =>
              s.claim # Reserved(j.rec) \/ s.seq = j.pos
        /\ at = "recRollback" => s.claim = Reserved(j.rec) /\ s.seq # j.pos

\* Who has the lane holds its lock; what it knows of the head of the lane and
\* of what was delivered and kept.
ReaderInv(p, h, j) ==
    LET at == Place(h, j)
        s == slot[At(j.pos)]
        n == record[s.claim.rec].intent
        lap == j.pos + Capacity
    IN  /\ at \in Owning => laneHold = p
        /\ at \in AtHead => j.pos = lane.read /\ lane.read < lane.reserve
        /\ at \in AtHead \cup Reading \cup {"resetEpoch"} => lane.initialized
        /\ at = "resetLate" => s.seq = lap
        /\ at \in {"resetClaim", "readIntent", "copy"} => s.seq = j.pos
        /\ at = "readIntent" => j.claim = s.claim /\ Done(s.claim)
        /\ at = "copy" => s.claim.state = "committed" /\ n.epoch = lane.epoch
        /\ at \in {"consumeTurn", "consumeFree"} => Done(s.claim) /\ n.pos = j.pos
        /\ at \in {"consumeFree", "consumeHead"} => s.seq = lap
        /\ at = "consumeHead" => ~Done(s.claim)
        /\ at = "consumeTurn" /\ j.then = "look" =>
              \E i \in DOMAIN delivered : delivered[i].msg = s.body
        /\ at = "consumeTurn" /\ j.then = "readHead" =>
              s.claim.state = "cancelled" \/ n.epoch # lane.epoch
        /\ \/ at \in Resetting
           \/ at \in {"release", "leave"} /\ j.after = "retired"
           \/ at \in Consuming /\ j.then = "reset"
           => j.tries = Capacity \/ Passed
        /\ \/ at \in Reading \cup {"resetEpoch"}
           \/ at \in Consuming /\ j.then = "readHead"
           => Passed
        /\ at \in Reading \/ (at \in Consuming /\ j.then # "reset") => Kept
        /\ j.serving => at \in Reading \/ (at \in Consuming /\ j.then # "reset")

Knows(p, h, j) ==
    /\ ControlInv(p, h, j) /\ WriterInv(p, h, j) /\ HelpInv(h, j)
    /\ RecoverInv(p, h, j) /\ ReaderInv(p, h, j)

SharedInv == ClaimInv /\ RecordInv /\ LaneInv /\ FateInv /\ DeliveredInv

IInv ==
    /\ Types /\ SharedInv /\ MessageInv
    /\ \A p \in Procs : Knows(p, pc[p], job[p])

-----------------------------------------------------------------------------
(***************************************************************************)
(* Arithmetic of the slots                                                 *)
(***************************************************************************)

\* Of the multiples of C only 0 lies between 0 and C.
LEMMA NoMultiple ==
    ASSUME NEW C \in Nat \ {0}, NEW k \in Int, 0 < C * k
    PROVE  C <= C * k
<1>1. CASE k <= 0
  <2>1. PICK j \in Nat : k = -j
    <3>1. -k \in Nat /\ k = -(-k) BY <1>1
    <3> QED BY <3>1
  <2>2. C * j >= 0 BY <2>1
  <2>3. C * k = -(C * j) BY <2>1
  <2> QED BY <2>2, <2>3
<1>2. CASE k >= 1
  <2>1. PICK j \in Nat : k = j + 1
    <3>1. k - 1 \in Nat /\ k = (k - 1) + 1 BY <1>2
    <3> QED BY <3>1
  <2>2. C * k = C * j + C BY <2>1
  <2>3. C * j >= 0 BY <2>1
  <2> QED BY <2>2, <2>3
<1> QED BY <1>1, <1>2

\* What there is to know of the slot of a position: two positions of one slot
\* are a lap apart or more.
LEMMA Slots ==
    ASSUME NEW C \in Nat \ {0}
    PROVE  /\ \A p \in Nat : SlotIn(C, p) \in 0 .. C - 1
           /\ \A p \in 0 .. C - 1 : SlotIn(C, p) = p
           /\ \A p \in Nat : SlotIn(C, p + C) = SlotIn(C, p)
           /\ \A p, q \in Nat : SlotIn(C, p) = SlotIn(C, q) /\ p < q => p + C <= q
<1>1. \A p \in Nat : SlotIn(C, p) \in 0 .. C - 1 BY DEF SlotIn
<1>2. \A p \in 0 .. C - 1 : SlotIn(C, p) = p BY DEF SlotIn
<1>3. ASSUME NEW p \in Nat PROVE SlotIn(C, p + C) = SlotIn(C, p)
  <2> DEFINE r == SlotIn(C, p) s == SlotIn(C, p + C)
  <2>1. r \in 0 .. C - 1 /\ s \in 0 .. C - 1 BY <1>1, <1>3
  <2>2. PICK a \in Int, b \in Int : p = a * C + r /\ p + C = b * C + s
    <3>1. p \div C \in Int /\ (p + C) \div C \in Int BY Z3
    <3>2. p = (p \div C) * C + r BY Z3 DEF SlotIn
    <3>3. p + C = ((p + C) \div C) * C + s BY Z3 DEF SlotIn
    <3> QED BY Zenon, <3>1, <3>2, <3>3
  <2> HIDE DEF r, s
  <2>3. PICK k \in Int, l \in Int : r - s = C * k /\ s - r = C * l
    <3>1. b - a - 1 \in Int /\ a + 1 - b \in Int OBVIOUS
    <3>2. r - s = C * (b - a - 1) /\ s - r = C * (a + 1 - b) BY <2>1, <2>2
    <3> QED BY Zenon, <3>1, <3>2
  <2>4. ~(r < s)
    <3> SUFFICES ASSUME r < s PROVE FALSE OBVIOUS
    <3>1. 0 < C * l BY <2>1, <2>3
    <3>2. C <= C * l BY <3>1, NoMultiple
    <3> QED BY <3>2, <2>1, <2>3
  <2>5. ~(s < r)
    <3> SUFFICES ASSUME s < r PROVE FALSE OBVIOUS
    <3>1. 0 < C * k BY <2>1, <2>3
    <3>2. C <= C * k BY <3>1, NoMultiple
    <3> QED BY <3>2, <2>1, <2>3
  <2>6. r = s BY <2>1, <2>4, <2>5
  <2> QED BY <2>6 DEF r, s
<1>4. ASSUME NEW p \in Nat, NEW q \in Nat, SlotIn(C, p) = SlotIn(C, q), p < q
      PROVE  p + C <= q
  <2>1. PICK a \in Int, b \in Int, c \in Int : p = a * C + c /\ q = b * C + c
    <3>1. p \div C \in Int /\ q \div C \in Int /\ p % C \in Int BY Z3
    <3>2. p = (p \div C) * C + (p % C) BY Z3
    <3>3. q = (q \div C) * C + (q % C) BY Z3
    <3>4. q = (q \div C) * C + (p % C) BY <3>3, <1>4 DEF SlotIn
    <3> QED BY Zenon, <3>1, <3>2, <3>4
  <2>2. b - a \in Int OBVIOUS
  <2>3. q - p = C * (b - a) BY <2>1
  <2>4. 0 < C * (b - a) BY <2>3, <1>4
  <2> QED BY <2>2, <2>3, <2>4, NoMultiple
<1> QED BY <1>1, <1>2, <1>3, <1>4

-----------------------------------------------------------------------------
(***************************************************************************)
(* Types, records and steps                                                *)
(***************************************************************************)

AllPlaces == Places \cup Wakes \cup Helps

\* The slot arithmetic for the capacity of this lane.
LEMMA CapacityFacts ==
    ASSUME bound \in Bounds
    PROVE  /\ Capacity \in Nat \ {0} /\ bound.capacity = Capacity
           /\ \A p \in Nat : At(p) \in 0 .. Capacity - 1
           /\ \A p \in 0 .. Capacity - 1 : At(p) = p
           /\ \A p \in Nat : At(p + Capacity) = At(p)
           /\ \A p, q \in Nat : At(p) = At(q) /\ p < q => p + Capacity <= q
<1>1. Capacity \in Nat \ {0} BY NumbersAssumption DEF Capacity
<1> QED BY Zenon, <1>1, Slots DEF At, Capacity

\* A record belongs to one writer, and the absent record to nobody.
LEMMA RecordFacts ==
    ASSUME Capacity \in Nat \ {0}
    PROVE  /\ NoRecord \notin Records /\ NoRecord[1] = Nobody
           /\ \A r \in Records : r[1] \in Writers /\ r \in RecordsOf(r[1])
           /\ \A o \in Writers : \A r \in RecordsOf(o) : r \in Records /\ r[1] = o
<1>1. Nobody \notin Writers BY ProcsAssumption DEF Procs
<1>2. NoRecord[1] = Nobody BY DEF NoRecord
<1>3. \A r \in Records : r[1] \in Writers /\ r \in RecordsOf(r[1])
  BY DEF Records, RecordsOf
<1>4. \A o \in Writers : \A r \in RecordsOf(o) : r \in Records /\ r[1] = o
  BY DEF Records, RecordsOf
<1> QED BY <1>1, <1>2, <1>3, <1>4

\* What a free and a reserved claim are.
LEMMA FreeFacts ==
    /\ Free \in ClaimType /\ Free.rec = NoRecord /\ Free.state = "free"
    /\ \A r : Reserved(r).rec = r /\ Reserved(r).state = "reserved" /\ ~Done(Reserved(r))
    /\ \A r \in Records : Reserved(r) \in ClaimType
    /\ ~Done(Free)
<1>1. Free.rec = NoRecord /\ Free.state = "free" /\ ~Done(Free) BY DEF Free, Done
<1>2. Free \in ClaimType BY DEF Free, ClaimType
<1>3. \A r \in Records : Reserved(r) \in ClaimType BY DEF Reserved, ClaimType
<1>4. \A r : Reserved(r).rec = r /\ Reserved(r).state = "reserved" /\ ~Done(Reserved(r))
  BY DEF Reserved, Done
<1> QED BY <1>1, <1>2, <1>3, <1>4

\* A process without a job has no message and serves nobody.
LEMMA NoJobFacts ==
    /\ NoJob \in JobType /\ NoIntent \in IntentType
    /\ NoJob.msg = 0 /\ NoJob.serving = FALSE
<1>1. NoIntent \in IntentType BY DEF NoIntent, IntentType
<1>2. NoJob \in JobType BY <1>1, FreeFacts DEF NoJob, JobType
<1> QED BY <1>1, <1>2 DEF NoJob

\* The capacity and what depends on it never change.
LEMMA SameTypes ==
    ASSUME bound' = bound
    PROVE  /\ Capacity' = Capacity /\ Records' = Records /\ ClaimType' = ClaimType
           /\ SlotType' = SlotType /\ RecordType' = RecordType
           /\ LaneType' = LaneType /\ JobType' = JobType
           /\ (0 .. Capacity - 1)' = 0 .. Capacity - 1
<1>1. Capacity' = Capacity BY DEF Capacity
<1>2. Records' = Records BY <1>1 DEF Records
<1>3. ClaimType' = ClaimType BY <1>2 DEF ClaimType
<1> QED BY <1>1, <1>2, <1>3 DEF SlotType, RecordType, LaneType, JobType, IntentType

\* What a step of p does to the places and the jobs.
LEMMA StepFacts ==
    ASSUME Types, NEW p \in Procs, NEW a, NEW b, NEW j, Step(p, a, b, j)
    PROVE  /\ pc[p] = a /\ pc'[p] = b
           /\ job'[p] = IF b \in {"idle", "dead"} THEN NoJob ELSE j
           /\ \A q \in Procs \ {p} : pc'[q] = pc[q] /\ job'[q] = job[q]
           /\ b \in AllPlaces => pc' \in [Procs -> AllPlaces]
           /\ j \in JobType => job' \in [Procs -> JobType]
<1>1. pc \in [Procs -> AllPlaces] BY DEF Types, AllPlaces
<1>2. job \in [Procs -> JobType] BY DEF Types
<1> QED BY <1>1, <1>2, NoJobFacts DEF Step

-----------------------------------------------------------------------------
(***************************************************************************)
(* Steps that leave alone what the invariant is about                      *)
(***************************************************************************)

Calm ==
    /\ bound' = bound /\ slot' = slot /\ record' = record /\ owner' = owner
    /\ lane'.reserve = lane.reserve /\ lane'.read = lane.read
    /\ lane'.epoch = lane.epoch /\ lane'.initialized = lane.initialized
    /\ laneHold' = laneHold /\ regHold' = regHold
    /\ sent' = sent /\ fate' = fate
    /\ delivered' = delivered /\ (malformed' <=> malformed)

\* A calm step delivers nothing and keeps nothing from being delivered.
LEMMA CalmHistory ==
    ASSUME Calm
    PROVE  /\ Passed' <=> Passed
           /\ Kept' <=> Kept
           /\ Capacity' = Capacity /\ Records' = Records
<1>1. Passed' <=> Passed BY DEF Calm, Passed
<1>2. Kept' <=> Kept BY DEF Calm, Kept, Queued, At, Capacity
<1> QED BY <1>1, <1>2 DEF Calm, Capacity, Records

\* A calm step keeps what the invariant says of the shared memory.
LEMMA CalmShared ==
    ASSUME SharedInv, Calm
    PROVE  SharedInv'
<1>0. Capacity' = Capacity /\ Records' = Records BY SMTT(40), CalmHistory
<1>1. ClaimInv' BY SMTT(40), <1>0 DEF SharedInv, ClaimInv, Calm, PosOf, Done, At, Free
<1>2. RecordInv' BY <1>0 DEF SharedInv, RecordInv, Calm, At
<1>3. LaneInv' BY SMTT(40), <1>0 DEF SharedInv, LaneInv, Calm, At, PosOf
<1>4. FateInv' BY <1>0 DEF SharedInv, FateInv, InSlot, Calm, At
<1>5. DeliveredInv'
  BY <1>0 DEF SharedInv, DeliveredInv, DeliveredOnceInTurn, NeverMalformed, Calm
<1> QED BY <1>1, <1>2, <1>3, <1>4, <1>5 DEF SharedInv

\* After a calm step a process knows what it knew of the same place and job.
LEMMA CalmKnows ==
    ASSUME Calm, NEW q, Knows(q, pc'[q], job'[q])
    PROVE  Knows(q, pc[q], job[q])'
<1>0. Capacity' = Capacity /\ Records' = Records /\ (Passed' <=> Passed) /\ (Kept' <=> Kept)
  BY CalmHistory
<1>1. ControlInv(q, pc[q], job[q])' BY DEF Knows, ControlInv, Place
<1>2. WriterInv(q, pc[q], job[q])'
  BY <1>0 DEF Knows, WriterInv, Place, Calm, At, Unnamed, Reserved
<1>3. HelpInv(pc[q], job[q])' BY <1>0 DEF Knows, HelpInv, Calm, At
<1>4. RecoverInv(q, pc[q], job[q])'
  BY SMTT(40), <1>0 DEF Knows, RecoverInv, Place, Calm, At, Reserved
<1>5. ReaderInv(q, pc[q], job[q])'
  BY <1>0 DEF Knows, ReaderInv, Place, Calm, At, Done
<1> QED BY <1>1, <1>2, <1>3, <1>4, <1>5 DEF Knows

\* What is known at a place that is neither of the lane nor of a registration.
LEMMA NothingKnown ==
    ASSUME NEW p \in Procs, NEW b \in Outside, NEW j \in JobType, j.msg = 0, ~j.serving,
           p \in Writers /\ b # "dead" => regHold[p] = p
    PROVE  Knows(p, b, j)
<1>1. Place(b, j) = b /\ b \notin Wakes \cup Helps BY DEF Place, Outside, Wakes, Helps
<1>2. ControlInv(p, b, j)
  BY <1>1 DEF ControlInv, Outside, Unsent, Recording, Recovery, Owning, Consuming,
              Resetting, Reading, Claimed
<1>3. WriterInv(p, b, j)
  BY <1>1 DEF WriterInv, Outside, Unsent, Aimed, Aiming, Recording, Claimed, InTurn
<1>4. HelpInv(b, j) BY <1>1 DEF HelpInv, Outside, Helps
<1>5. RecoverInv(p, b, j) BY <1>1 DEF RecoverInv, Outside, Recovery, Looking
<1>6. ReaderInv(p, b, j)
  BY <1>1 DEF ReaderInv, Outside, Owning, AtHead, Reading, Resetting, Consuming
<1> QED BY <1>2, <1>3, <1>4, <1>5, <1>6 DEF Knows

\* A calm step keeps the invariant if its process knows what its next place
\* asks.
LEMMA CalmStep ==
    ASSUME IInv, Calm, lane' \in LaneType, NEW p \in Procs, NEW a, NEW b \in AllPlaces,
           NEW j \in JobType, Step(p, a, b, j), b # "dead",
           b # "idle" => j.msg \in {0, job[p].msg} /\ Knows(p, b, j),
           b = "idle" /\ p \in Writers => regHold[p] = p
    PROVE  IInv'
<1>1. Types /\ SharedInv /\ MessageInv /\ \A q \in Procs : Knows(q, pc[q], job[q])
  BY DEF IInv
<1>2. /\ pc'[p] = b /\ job'[p] = IF b = "idle" THEN NoJob ELSE j
      /\ \A q \in Procs \ {p} : pc'[q] = pc[q] /\ job'[q] = job[q]
      /\ pc' \in [Procs -> AllPlaces] /\ job' \in [Procs -> JobType]
  BY <1>1, StepFacts
<1>3. Types'
  <2>1. bound' = bound BY DEF Calm
  <2> QED BY <1>1, <1>2, <2>1, SameTypes DEF Types, Calm, AllPlaces
<1>4. SharedInv' BY <1>1, CalmShared
<1>5. MessageInv' BY <1>1, <1>2, NoJobFacts DEF MessageInv
<1>6. Knows(p, pc'[p], job'[p])
  <2>1. CASE b = "idle"
    <3>1. "idle" \in Outside BY DEF Outside
    <3> QED BY <2>1, <3>1, <1>2, NoJobFacts, NothingKnown
  <2> QED BY <2>1, <1>2
<1>7. \A q \in Procs : Knows(q, pc[q], job[q])'
  <2> SUFFICES ASSUME NEW q \in Procs PROVE Knows(q, pc[q], job[q])' OBVIOUS
  <2>1. Knows(q, pc'[q], job'[q])
    <3>1. CASE q = p BY <3>1, <1>6
    <3>2. CASE q # p BY <3>2, <1>1, <1>2
    <3> QED BY <3>1, <3>2
  <2> QED BY <2>1, CalmKnows
<1> QED BY <1>3, <1>4, <1>5, <1>7 DEF IInv

\* What is known of the process that takes a step.
LEMMA Actor ==
    ASSUME IInv, NEW p \in Procs
    PROVE  /\ Types /\ SharedInv /\ MessageInv /\ Knows(p, pc[p], job[p])
           /\ job[p] \in JobType /\ job[p].pos \in Nat
           /\ At(job[p].pos) \in 0 .. Capacity - 1
           /\ slot[At(job[p].pos)] \in SlotType
           /\ slot[At(job[p].pos)].claim \in ClaimType
           /\ p \in Writers /\ pc[p] # "dead" => regHold[p] = p
<1>1. Types /\ SharedInv /\ MessageInv /\ Knows(p, pc[p], job[p]) BY DEF IInv
<1>2. job[p] \in JobType BY <1>1 DEF Types
<1>3. job[p].pos \in Nat BY <1>2 DEF JobType
<1>4. At(job[p].pos) \in 0 .. Capacity - 1 BY Zenon, <1>1, <1>3, CapacityFacts DEF Types
<1>5. slot[At(job[p].pos)] \in SlotType BY <1>1, <1>4 DEF Types
<1>6. slot[At(job[p].pos)].claim \in ClaimType BY <1>5 DEF SlotType
<1>7. p \in Writers /\ pc[p] # "dead" => regHold[p] = p
  BY <1>1, <1>2 DEF Knows, WriterInv, Place, JobType
<1> QED BY <1>1, <1>2, <1>3, <1>4, <1>5, <1>6, <1>7

\* A step that only loads is calm.
LEMMA ReadsCalm ==
    ASSUME Types, Reads
    PROVE  Calm /\ lane' \in LaneType
BY DEF Reads, Calm, Types, laneVars, regVars, holdVars, wakeVars, histVars

\* The words of the lane are numbers, and stay so when counted up or down.
LEMMA LaneNumbers ==
    ASSUME Types
    PROVE  /\ lane.reserve \in Nat /\ lane.reserve + 1 \in Nat
           /\ lane.read \in Nat /\ lane.read + 1 \in Nat
           /\ lane.epoch \in Nat /\ lane.epoch + 1 \in Nat
           /\ lane.waiters \in Int /\ lane.waiters + 1 \in Int /\ lane.waiters - 1 \in Int
           /\ lane.directory \in Nat /\ lane.directory + 1 \in Nat
BY SMTT(40) DEF Types, LaneType

\* A step that touches only the waking words and the directory of the lane is
\* calm.
LEMMA LaneCalm ==
    ASSUME Types, lane' \in LaneType,
           lane'.reserve = lane.reserve, lane'.read = lane.read,
           lane'.epoch = lane.epoch, lane'.initialized = lane.initialized,
           UNCHANGED <<slot, regVars, holdVars, bound, sent, fate, delivered, malformed>>
    PROVE  Calm
BY DEF Calm, regVars, holdVars

\* From here on the places are their names.
USE DEF Unsent, Aiming, Aimed, Recording, Claimed, InTurn, Recovery, Looking, Consuming,
        Resetting, Reading, Owning, AtHead, Outside, Places, AllPlaces, Wakes, Helps

\* A process that has given its wake, or its help, goes on.
LEMMA WakeGiven ==
    ASSUME NEW p \in Procs, NEW h \in Wakes, NEW j \in JobType, Knows(p, h, j)
    PROVE  Knows(p, j.wake, j)
<1>1. /\ Place(h, j) = j.wake /\ Place(j.wake, j) = j.wake
      /\ j.wake \in {"idle", "unwrite", "recUnwrite", "reset", "serve", "left"}
  BY DEF Place, JobType
<1>2. ControlInv(p, j.wake, j) BY <1>1 DEF Knows, ControlInv
<1>3. WriterInv(p, j.wake, j) BY <1>1 DEF Knows, WriterInv
<1>4. HelpInv(j.wake, j) BY <1>1 DEF HelpInv
<1>5. RecoverInv(p, j.wake, j) BY <1>1 DEF Knows, RecoverInv
<1>6. ReaderInv(p, j.wake, j) BY <1>1 DEF Knows, ReaderInv
<1> QED BY <1>2, <1>3, <1>4, <1>5, <1>6 DEF Knows

\* A process keeps what it knows from one part of a wake to the next.
LEMMA WakeGoesOn ==
    ASSUME NEW p \in Procs, NEW g \in Wakes, NEW h \in Wakes, NEW j \in JobType, Knows(p, g, j)
    PROVE  Knows(p, h, j)
<1>1. Place(g, j) = Place(h, j) BY DEF Place
<1>2. ControlInv(p, h, j) BY SMTT(40), <1>1 DEF Knows, ControlInv
<1>3. WriterInv(p, h, j) BY SMTT(40), <1>1 DEF Knows, WriterInv
<1>4. HelpInv(h, j) BY DEF HelpInv
<1>5. RecoverInv(p, h, j) BY SMTT(40), <1>1 DEF Knows, RecoverInv
<1>6. ReaderInv(p, h, j) BY SMTT(40), <1>1 DEF Knows, ReaderInv
<1> QED BY <1>2, <1>3, <1>4, <1>5, <1>6 DEF Knows

\* A help that ends, or gives up, leaves its process at the place it helped
\* from.
LEMMA HelpGiven ==
    ASSUME NEW p \in Procs, NEW h \in Helps, NEW j \in JobType, Knows(p, h, j),
           NEW k \in JobType, k.pos = j.pos, k.msg = j.msg, k.rec = j.rec,
           k.who = j.who, k.recs = j.recs, k.serving = j.serving, k.after = j.after,
           k.help = j.help, k.wake = j.wake
    PROVE  Knows(p, j.help, k)
<1> DEFINE at == Place(h, j)
<1>2. j.help \in {"progress", "bump"} /\ (j.help = "bump" => j.wake = "recUnwrite")
  BY DEF Knows, ControlInv
<1>3. Place(j.help, k) = at /\ at \in {"progress", "recUnwrite"} BY <1>2 DEF Place
<1>4. ControlInv(p, j.help, k) BY <1>2, <1>3 DEF Knows, ControlInv
<1>5. WriterInv(p, j.help, k) BY <1>2, <1>3 DEF Knows, WriterInv
<1>6. HelpInv(j.help, k) BY <1>2 DEF HelpInv
<1>7. RecoverInv(p, j.help, k) BY <1>2, <1>3 DEF Knows, RecoverInv
<1>8. ReaderInv(p, j.help, k) BY <1>2, <1>3 DEF Knows, ReaderInv
<1> QED BY <1>4, <1>5, <1>6, <1>7, <1>8 DEF Knows

\* What stands at the head of the lane, for the process that has it.
LEMMA HeadTurn ==
    ASSUME IInv, lane.initialized
    PROVE  LET s == slot[At(lane.read)] IN
           s.seq \in Nat /\ (s.seq = lane.read \/ s.seq = lane.read + Capacity)
<1> DEFINE i == At(lane.read)
           s == slot[i]
<1>1. Types /\ LaneInv BY DEF IInv, SharedInv
<1>2. lane.read \in Nat BY <1>1, LaneNumbers
<1>3. i \in 0 .. Capacity - 1 /\ Capacity \in Nat \ {0}
  BY Zenon, <1>1, <1>2, CapacityFacts DEF Types
<1>4. s.seq \in Nat BY <1>1, <1>3 DEF Types, SlotType
<1>5. At(s.seq) = i /\ lane.read <= s.seq /\ s.seq <= lane.read + Capacity
  BY <1>1, <1>3 DEF LaneInv
<1>6. lane.read < s.seq => lane.read + Capacity <= s.seq
  BY Zenon, <1>1, <1>2, <1>4, <1>5, CapacityFacts DEF Types
<1> QED BY <1>2, <1>3, <1>4, <1>5, <1>6

\* A claim that is done at the head of the lane is of the turn at the head, or
\* of the turn before.
LEMMA DoneAtHead ==
    ASSUME IInv, lane.initialized, Done(slot[At(lane.read)].claim)
    PROVE  LET c == slot[At(lane.read)].claim IN
           /\ c.rec \in Records /\ record[c.rec].intent.pos = lane.read
           /\ record[c.rec].stable /\ record[c.rec].referenced
<1> DEFINE i == At(lane.read)
           s == slot[i]
           r == s.claim.rec
           n == record[r].intent
<1>1. Types /\ ClaimInv /\ RecordInv BY DEF IInv, SharedInv
<1>2. lane.read \in Nat BY <1>1, LaneNumbers
<1>3. i \in 0 .. Capacity - 1 /\ Capacity \in Nat \ {0}
  BY Zenon, <1>1, <1>2, CapacityFacts DEF Types
<1>4. s.claim # Free BY FreeFacts
<1>5. /\ r \in Records /\ record[r].referenced
      /\ s.seq = n.pos \/ (s.seq = n.pos + Capacity /\ lane.read = n.pos)
  BY Zenon, <1>1, <1>3, <1>4 DEF ClaimInv, PosOf
<1>6. record[r].stable /\ n.pos < lane.read + Capacity BY SMTT(40), <1>1, <1>5 DEF RecordInv
<1>7. n.pos \in Nat BY <1>1, <1>5 DEF Types, RecordType, IntentType
<1>8. s.seq = lane.read \/ s.seq = lane.read + Capacity BY HeadTurn
<1> QED BY <1>2, <1>3, <1>5, <1>6, <1>7, <1>8

\* An element of a sequence is of its set.
LEMMA SeqElement ==
    ASSUME NEW S, NEW s \in Seq(S), NEW i \in DOMAIN s
    PROVE  s[i] \in S
OBVIOUS

\* A delivery has a position and a message.
LEMMA DeliveredType ==
    ASSUME Types, NEW i \in DOMAIN delivered
    PROVE  delivered[i].pos \in Nat /\ delivered[i].msg \in Nat
<1> DEFINE S == [pos : Nat, msg : Nat]
<1>1. delivered \in Seq(S) BY DEF Types
<1> HIDE DEF S
<1>2. delivered[i] \in S BY <1>1, SeqElement
<1> QED BY <1>2 DEF S

\* What was delivered was admitted.
LEMMA NothingAhead ==
    ASSUME Types, SharedInv, lane.read >= lane.reserve
    PROVE  Passed
<1> SUFFICES ASSUME NEW i \in DOMAIN delivered PROVE delivered[i].pos < lane.read
  BY DEF Passed
<1> DEFINE m == delivered[i].msg
<1>1. delivered[i].pos \in Nat /\ m \in 1 .. sent /\ fate[m].pos = delivered[i].pos
  BY DeliveredType DEF SharedInv, DeliveredInv, DeliveredOnceInTurn
<1>2. m \in 1 .. bound.writes BY <1>1, NumbersAssumption DEF Types
<1>3. delivered[i].pos \in 0 .. lane.reserve - 1 BY <1>1, <1>2 DEF SharedInv, FateInv
<1> QED BY <1>3, LaneNumbers

\* A turn that was delivered is committed while its slot is of that turn.
LEMMA HeadNotDone ==
    ASSUME Types, SharedInv, slot[At(lane.read)].seq = lane.read,
           ~Done(slot[At(lane.read)].claim)
    PROVE  Passed
<1> SUFFICES ASSUME NEW i \in DOMAIN delivered PROVE delivered[i].pos < lane.read
  BY DEF Passed
<1> DEFINE m == delivered[i].msg
<1>1. /\ delivered[i].pos \in Nat /\ m \in 1 .. sent /\ fate[m].pos = delivered[i].pos
      /\ delivered[i].pos <= lane.read
  BY DeliveredType DEF SharedInv, DeliveredInv, DeliveredOnceInTurn
<1>2. m \in 1 .. bound.writes BY <1>1, NumbersAssumption DEF Types
<1>3. lane.read <= fate[m].pos => InSlot(m) BY <1>1, <1>2 DEF SharedInv, FateInv
<1>4. lane.read \in Nat /\ Capacity \in Nat \ {0} BY Zenon, LaneNumbers, CapacityFacts DEF Types
<1>5. CASE delivered[i].pos = lane.read
  <2>1. InSlot(m) BY <1>1, <1>3, <1>4, <1>5
  <2>2. slot[At(lane.read)].seq # lane.read + Capacity BY <1>4
  <2> QED BY <1>1, <1>5, <2>1, <2>2 DEF InSlot, Done
<1> QED BY <1>1, <1>4, <1>5

\* A turn that a helper finds claimed is admitted already, or claimed in turn.
LEMMA AdmittedOrClaimed ==
    ASSUME IInv, NEW p \in Procs, pc[p] = "helpAgain",
           slot[At(job[p].pos)].claim = job[p].claim
    PROVE  HelpInv("helpAdmit", job[p])
<1> DEFINE j == job[p]
           i == At(j.pos)
           s == slot[i]
           r == j.claim.rec
           n == record[r].intent
<1>1. /\ Types /\ ClaimInv /\ RecordInv /\ LaneInv /\ j \in JobType /\ j.pos \in Nat
      /\ i \in 0 .. Capacity - 1 /\ s.seq \in Nat /\ s \in SlotType
  BY Actor DEF SharedInv, SlotType
<1>2. /\ r \in Records /\ j.intent.pos = j.pos /\ j.intent.pos <= n.pos /\ j.pos <= s.seq
  BY Actor DEF Knows, HelpInv
<1>3. s.claim # Free BY Zenon, <1>1, <1>2, FreeFacts, RecordFacts, CapacityFacts DEF Types
<1>4. At(n.pos) = i BY Zenon, <1>1, <1>2, <1>3 DEF ClaimInv, PosOf
<1>5. n.pos <= lane.reserve BY <1>1, <1>2 DEF RecordInv
<1>6. /\ lane.initialized /\ At(s.seq) = i
      /\ s.seq < lane.reserve + Capacity
  BY <1>1, <1>3 DEF LaneInv
<1>7. n.pos \in Nat /\ lane.reserve \in Nat /\ Capacity \in Nat \ {0}
  BY Zenon, <1>1, <1>2, LaneNumbers, CapacityFacts DEF Types, RecordType, IntentType
<1>8. /\ j.pos < n.pos => j.pos + Capacity <= n.pos
      /\ j.pos < s.seq => j.pos + Capacity <= s.seq
  BY Zenon, <1>1, <1>4, <1>6, <1>7, CapacityFacts DEF Types
<1>9. j.pos < lane.reserve \/ (n.pos = j.pos /\ s.seq = j.pos)
  BY <1>1, <1>2, <1>5, <1>6, <1>7, <1>8
<1> QED BY <1>1, <1>2, <1>9 DEF HelpInv

\* A writer that found room aims at a turn no slot has passed.
LEMMA RoomAtReserve ==
    ASSUME IInv, NEW p \in Writers, pc[p] = "loadReserve",
           ~FullBetween(job[p].read, lane.reserve),
           NEW k \in JobType, k.pos = lane.reserve, k.msg = job[p].msg
    PROVE  WriterInv(p, "loadClaim", k)
<1> DEFINE j == job[p]
           i == At(lane.reserve)
           s == slot[i]
<1>1. /\ Types /\ RecordInv /\ LaneInv /\ j \in JobType /\ j.read \in Nat
      /\ WriterInv(p, "loadReserve", j)
  BY Actor DEF SharedInv, Procs, Knows, JobType
<1>2. /\ lane.reserve \in Nat /\ lane.read \in Nat /\ Capacity \in Nat \ {0}
      /\ i \in 0 .. Capacity - 1
  BY Zenon, <1>1, LaneNumbers, CapacityFacts DEF Types
<1>3. /\ j.read <= lane.read /\ j.msg \in 1 .. sent /\ fate[j.msg].pos = -1
      /\ regHold[p] = p
  BY <1>1 DEF WriterInv, Place
<1>4. lane.reserve < lane.read + Capacity BY <1>1, <1>2, <1>3 DEF FullBetween
<1>5. s.seq \in Nat BY <1>1, <1>2 DEF Types, SlotType
<1>6. lane.initialized BY <1>1, <1>3 DEF LaneInv, Types
<1>7. At(s.seq) = i /\ lane.read <= s.seq BY <1>1, <1>2, <1>6 DEF LaneInv
<1>8. s.seq < lane.reserve => s.seq + Capacity <= lane.reserve
  BY Zenon, <1>1, <1>2, <1>5, <1>7, CapacityFacts DEF Types
<1>9. lane.reserve <= s.seq BY <1>2, <1>4, <1>5, <1>7, <1>8
<1>10. \A r \in Records : record[r].intent.pos <= lane.reserve BY <1>1 DEF RecordInv
<1> QED BY <1>2, <1>3, <1>4, <1>9, <1>10 DEF WriterInv, Place

-----------------------------------------------------------------------------
(***************************************************************************)
(* The calm steps                                                          *)
(***************************************************************************)

\* Moving the wake word of the lane tells nothing of its messages.
LEMMA BumpKeeps ==
    ASSUME IInv, NEW p \in Procs, Bump(p)
    PROVE  IInv'
<1> DEFINE j == job[p]
           b == IF bound.form = "park" THEN "waiters" ELSE "swap"
<1>1. p \in Procs /\ Step(p, "bump", b, j) BY DEF Bump, Steps, Procs, J
<1>2. Knows(p, "bump", j) /\ pc[p] = "bump" /\ Types /\ j \in JobType
  BY <1>1, Actor, StepFacts
<1>3. Calm /\ lane' \in LaneType
  BY <1>2 DEF Bump, Calm, Types, laneVars, regVars, holdVars, wakeVars, histVars
<1>4. j \in JobType /\ b \in AllPlaces \ {"dead"}
  BY <1>2, NoJobFacts DEF JobType, J, NoJob
<1>5. b # "idle" => Knows(p, b, j)
  <2>1. Knows(p, "waiters", j) BY <1>2, WakeGoesOn
  <2>2. Knows(p, "swap", j) BY <1>2, WakeGoesOn
  <2>3. b \in {"waiters", "swap"} OBVIOUS
  <2> HIDE DEF b
  <2> QED BY <2>1, <2>2, <2>3
<1>6. p \in Writers => regHold[p] = p BY <1>1, <1>2, Actor
<1> HIDE DEF b, AllPlaces
<1> QED BY <1>1, <1>2, <1>3, <1>4, <1>5, <1>6, CalmStep

\* Looking for waiters changes nothing.
LEMMA LookForWaitersKeeps ==
    ASSUME IInv, NEW p \in Procs, LookForWaiters(p)
    PROVE  IInv'
<1> DEFINE j == job[p]
           b == IF lane.waiters > 0 THEN "futex" ELSE j.wake
<1>1. p \in Procs /\ Step(p, "waiters", b, j) BY DEF LookForWaiters, Steps, Procs, J
<1>2. Knows(p, "waiters", j) /\ pc[p] = "waiters" /\ Types /\ j \in JobType
  BY <1>1, Actor, StepFacts
<1>3. Calm /\ lane' \in LaneType BY <1>2, ReadsCalm DEF LookForWaiters
<1>4. j \in JobType /\ b \in AllPlaces \ {"dead"}
  BY <1>2, NoJobFacts DEF JobType, J, NoJob
<1>5. b # "idle" => Knows(p, b, j)
  <2>1. Knows(p, j.wake, j) BY SMTT(40), <1>2, WakeGiven
  <2>2. Knows(p, "futex", j) BY <1>2, WakeGoesOn
  <2>3. b \in {"futex", j.wake} OBVIOUS
  <2> HIDE DEF b
  <2> QED BY <2>1, <2>2, <2>3
<1>6. p \in Writers => regHold[p] = p BY <1>1, <1>2, Actor
<1> HIDE DEF b, AllPlaces
<1> QED BY <1>1, <1>2, <1>3, <1>4, <1>5, <1>6, CalmStep

\* Taking the reactor word changes no claim.
LEMMA SwapReactorKeeps ==
    ASSUME IInv, NEW p \in Procs, SwapReactor(p)
    PROVE  IInv'
<1> DEFINE j == job[p]
           b == IF lane.reactor THEN "ring" ELSE j.wake
<1>1. p \in Procs /\ Step(p, "swap", b, j) BY DEF SwapReactor, Steps, Procs, J
<1>2. Knows(p, "swap", j) /\ pc[p] = "swap" /\ Types /\ j \in JobType
  BY <1>1, Actor, StepFacts
<1>3. Calm /\ lane' \in LaneType
  <2>1. lane' = [lane EXCEPT !.reactor = FALSE] BY DEF SwapReactor, SetLane
  <2>2. /\ lane' \in LaneType /\ lane'.reserve = lane.reserve /\ lane'.read = lane.read
        /\ lane'.epoch = lane.epoch /\ lane'.initialized = lane.initialized
    BY Zenon, <1>2, <2>1, LaneNumbers DEF Types, LaneType
  <2> QED BY <1>2, <2>2, LaneCalm DEF SwapReactor, OnLane, histVars
<1>4. j \in JobType /\ b \in AllPlaces \ {"dead"}
  BY <1>2, NoJobFacts DEF JobType, J, NoJob
<1>5. b # "idle" => Knows(p, b, j)
  <2>1. Knows(p, j.wake, j) BY SMTT(40), <1>2, WakeGiven
  <2>2. Knows(p, "ring", j) BY <1>2, WakeGoesOn
  <2>3. b \in {"ring", j.wake} OBVIOUS
  <2> HIDE DEF b
  <2> QED BY <2>1, <2>2, <2>3
<1>6. p \in Writers => regHold[p] = p BY <1>1, <1>2, Actor
<1> HIDE DEF b, AllPlaces
<1> QED BY <1>1, <1>2, <1>3, <1>4, <1>5, <1>6, CalmStep

\* Ringing the reactor ends a wake.
LEMMA RingKeeps ==
    ASSUME IInv, NEW p \in Procs, Ring(p)
    PROVE  IInv'
<1> DEFINE j == job[p]
           b == j.wake
<1>1. p \in Procs /\ Step(p, "ring", b, j) BY DEF Ring, Steps, Procs, J
<1>2. Knows(p, "ring", j) /\ pc[p] = "ring" /\ Types /\ j \in JobType
  BY <1>1, Actor, StepFacts
<1>3. Calm /\ lane' \in LaneType
  <2>1. lane' = lane \/ lane' = [lane EXCEPT !.reactor = TRUE] BY DEF Ring, SetLane
  <2>2. /\ lane' \in LaneType /\ lane'.reserve = lane.reserve /\ lane'.read = lane.read
        /\ lane'.epoch = lane.epoch /\ lane'.initialized = lane.initialized
    BY ZenonT(60), <1>2, <2>1 DEF Types, LaneType
  <2> QED BY <1>2, <2>2, LaneCalm DEF Ring, histVars
<1>4. j \in JobType /\ b \in AllPlaces \ {"dead"}
  BY <1>2, NoJobFacts DEF JobType, J, NoJob
<1>5. b # "idle" => Knows(p, b, j)
  BY <1>2, WakeGiven
<1>6. p \in Writers => regHold[p] = p BY <1>1, <1>2, Actor
<1> HIDE DEF b, AllPlaces
<1> QED BY <1>1, <1>2, <1>3, <1>4, <1>5, <1>6, CalmStep

\* The directory of the link changes; the lane is as it was.
LEMMA DirectoryMovesKeeps ==
    ASSUME IInv, NEW p \in Writers, DirectoryMoves(p)
    PROVE  IInv'
<1> DEFINE j == job[p]
           k == [NoJob EXCEPT !.wake = "idle"]
<1>1. p \in Procs /\ Step(p, "idle", "bump", k) BY DEF DirectoryMoves, Procs, J
<1>2. Knows(p, "idle", j) /\ pc[p] = "idle" /\ Types /\ j \in JobType
  BY <1>1, Actor, StepFacts
<1>3. Calm /\ lane' \in LaneType
  <2>1. lane' = [lane EXCEPT !.directory = @ + 1] BY DEF DirectoryMoves, SetLane
  <2>2. /\ lane' \in LaneType /\ lane'.reserve = lane.reserve /\ lane'.read = lane.read
        /\ lane'.epoch = lane.epoch /\ lane'.initialized = lane.initialized
    BY Zenon, <1>2, <2>1, LaneNumbers DEF Types, LaneType
  <2> QED BY <1>2, <2>2, LaneCalm DEF DirectoryMoves, OnLane, histVars
<1>4. k \in JobType /\ "bump" \in AllPlaces \ {"dead"} /\ k.msg = 0
  BY ZenonT(60), <1>2, NoJobFacts DEF JobType, J, NoJob
<1>5. "bump" # "idle" => Knows(p, "bump", k)
  BY SMTT(40), <1>2, <1>4
  DEF Knows, ControlInv, WriterInv, HelpInv, RecoverInv, ReaderInv, Place, JobType, J, NoJob
<1>6. p \in Writers => regHold[p] = p BY <1>1, <1>2, Actor
<1> HIDE DEF k, AllPlaces
<1> QED BY <1>1, <1>2, <1>3, <1>4, <1>5, <1>6, CalmStep

\* A helper that finds a claim remembers it and looks behind it.
LEMMA HelpClaimKeeps ==
    ASSUME IInv, NEW p \in Procs, HelpClaim(p)
    PROVE  IInv'
<1> DEFINE j == job[p]
           k == [j EXCEPT !.claim = SlotOf(p).claim]
           b == IF SlotOf(p).claim = Free THEN j.help ELSE "helpIntent"
<1>1. p \in Procs /\ Step(p, "help", b, k) BY DEF HelpClaim, Procs, J
<1>2. Knows(p, "help", j) /\ pc[p] = "help" /\ Types /\ j \in JobType
  BY <1>1, Actor, StepFacts
<1>3. Calm /\ lane' \in LaneType BY <1>2, ReadsCalm DEF HelpClaim
<1>4. k \in JobType /\ b \in AllPlaces \ {"dead"} /\ k.msg = j.msg
  BY <1>2, NoJobFacts, Actor DEF JobType, J, NoJob, SlotOf
<1>5. b # "idle" => Knows(p, b, k)
  <2>1. CASE SlotOf(p).claim = Free
    <3>1. Knows(p, j.help, k)
      <4>1. /\ k.pos = j.pos /\ k.rec = j.rec /\ k.who = j.who /\ k.recs = j.recs
            /\ k.serving = j.serving /\ k.after = j.after /\ k.help = j.help
            /\ k.wake = j.wake
        BY <1>2, <2>1 DEF JobType
      <4> HIDE DEF k
      <4> QED BY <1>1, <1>2, <1>4, <4>1, HelpGiven
    <3> QED BY <2>1, <3>1
  <2>2. CASE SlotOf(p).claim # Free
    <3>1. SlotOf(p).claim.rec \in Records
      BY Zenon, <1>1, <2>2, Actor DEF SlotOf, J, SharedInv, ClaimInv
    <3> QED BY SMTT(40), <1>2, <2>2, <3>1
      DEF Knows, ControlInv, WriterInv, HelpInv, RecoverInv, ReaderInv, Place, JobType
  <2> QED BY <2>1, <2>2
<1>6. p \in Writers => regHold[p] = p BY <1>1, <1>2, Actor
<1> HIDE DEF k, b, AllPlaces
<1> QED BY <1>1, <1>2, <1>3, <1>4, <1>5, <1>6, CalmStep

\* A helper copies the intent of the record a claim names.
LEMMA HelpIntentKeeps ==
    ASSUME IInv, NEW p \in Procs, HelpIntent(p)
    PROVE  IInv'
<1> DEFINE j == job[p]
           k == IF record[j.claim.rec].stable THEN [j EXCEPT !.intent = record[j.claim.rec].intent]
                ELSE [j EXCEPT !.claim = Free]
           b == IF record[j.claim.rec].stable THEN "helpTurn" ELSE j.help
<1>1. p \in Procs /\ Step(p, "helpIntent", b, k) BY DEF HelpIntent, Procs, J
<1>2. Knows(p, "helpIntent", j) /\ pc[p] = "helpIntent" /\ Types /\ j \in JobType
  BY <1>1, Actor, StepFacts
<1>3. Calm /\ lane' \in LaneType BY <1>2, ReadsCalm DEF HelpIntent
<1>4. k \in JobType /\ b \in AllPlaces \ {"dead"} /\ k.msg = j.msg
  BY ZenonT(60), <1>2, NoJobFacts, FreeFacts DEF JobType, J, NoJob, Types, RecordType, Knows,
     HelpInv
<1>5. b # "idle" => Knows(p, b, k)
  <2>1. CASE record[j.claim.rec].stable
    <3>1. j.claim.rec \in Records /\ record[j.claim.rec].intent \in IntentType
      BY <1>2 DEF Knows, HelpInv, Types, RecordType
    <3>2. record[j.claim.rec].intent.pos \in Nat BY <3>1 DEF IntentType
    <3> QED BY SMTT(40), <1>2, <2>1, <3>1, <3>2
      DEF Knows, ControlInv, WriterInv, HelpInv, RecoverInv, ReaderInv, Place, JobType
  <2>2. CASE ~record[j.claim.rec].stable
    <3>1. Knows(p, j.help, k)
      <4>1. /\ k.pos = j.pos /\ k.rec = j.rec /\ k.who = j.who /\ k.recs = j.recs
            /\ k.serving = j.serving /\ k.after = j.after /\ k.help = j.help
            /\ k.wake = j.wake
        BY <1>2, <2>2 DEF JobType
      <4> HIDE DEF k
      <4> QED BY <1>1, <1>2, <1>4, <4>1, HelpGiven
    <3> QED BY <2>2, <3>1
  <2> QED BY <2>1, <2>2
<1>6. p \in Writers => regHold[p] = p BY <1>1, <1>2, Actor
<1> HIDE DEF k, b, AllPlaces
<1> QED BY <1>1, <1>2, <1>3, <1>4, <1>5, <1>6, CalmStep

\* A helper compares the turn of the slot with the intent it copied.
LEMMA HelpTurnKeeps ==
    ASSUME IInv, NEW p \in Procs, HelpTurn(p)
    PROVE  IInv'
<1> DEFINE j == job[p]
           k == IF MayHelp(p) THEN j ELSE [j EXCEPT !.claim = Free, !.intent = NoIntent]
           b == IF MayHelp(p) THEN "helpAgain" ELSE j.help
<1>1. p \in Procs /\ Step(p, "helpTurn", b, k) BY DEF HelpTurn, Procs, J, Helping
<1>2. Knows(p, "helpTurn", j) /\ pc[p] = "helpTurn" /\ Types /\ j \in JobType
  BY <1>1, Actor, StepFacts
<1>3. Calm /\ lane' \in LaneType BY <1>2, ReadsCalm DEF HelpTurn
<1>4. k \in JobType /\ b \in AllPlaces \ {"dead"} /\ k.msg = j.msg
  <2>1. [j EXCEPT !.claim = Free, !.intent = NoIntent] \in JobType
    BY Zenon, <1>2, FreeFacts, NoJobFacts DEF JobType
  <2>2. k \in JobType /\ k.msg = j.msg BY <1>2, <2>1 DEF JobType
  <2>3. b \in {"helpAgain", j.help} /\ j.help \in {"idle", "progress", "bump"}
    BY <1>2 DEF JobType
  <2> QED BY <2>2, <2>3
<1>5. b # "idle" => Knows(p, b, k)
  <2>1. CASE MayHelp(p)
    <3>1. j.intent.pos = j.pos /\ slot[At(j.pos)].seq = j.pos BY <2>1 DEF MayHelp, SlotOf, J
    <3>2. j.pos \in Nat BY SMTT(40), <1>2 DEF JobType
    <3>3. Knows(p, "helpAgain", j) BY SMTT(40), <1>2, <3>1, <3>2
      DEF Knows, ControlInv, WriterInv, HelpInv, RecoverInv, ReaderInv, Place
    <3> QED BY <2>1, <3>3
  <2>2. CASE ~MayHelp(p)
    <3>1. Knows(p, j.help, k)
      <4>1. /\ k.pos = j.pos /\ k.rec = j.rec /\ k.who = j.who /\ k.recs = j.recs
            /\ k.serving = j.serving /\ k.after = j.after /\ k.help = j.help
            /\ k.wake = j.wake
        BY <1>2, <2>2 DEF JobType
      <4> HIDE DEF k
      <4> QED BY <1>1, <1>2, <1>4, <4>1, HelpGiven
    <3> QED BY <2>2, <3>1
  <2> QED BY <2>1, <2>2
<1>6. p \in Writers => regHold[p] = p BY <1>1, <1>2, Actor
<1> HIDE DEF k, b, AllPlaces
<1> QED BY <1>1, <1>2, <1>3, <1>4, <1>5, <1>6, CalmStep

\* A writer loads the read position.
LEMMA LoadReadKeeps ==
    ASSUME IInv, NEW p \in Writers, LoadRead(p)
    PROVE  IInv'
<1> DEFINE j == job[p]
           k == [j EXCEPT !.read = lane.read]
<1>1. p \in Procs /\ Step(p, "loadRead", "loadReserve", k) BY DEF LoadRead, Procs, J
<1>2. Knows(p, "loadRead", j) /\ pc[p] = "loadRead" /\ Types /\ j \in JobType
  BY <1>1, Actor, StepFacts
<1>3. Calm /\ lane' \in LaneType BY <1>2, ReadsCalm DEF LoadRead
<1>4. k \in JobType /\ "loadReserve" \in AllPlaces \ {"dead"} /\ k.msg = j.msg
  BY Zenon, <1>2, NoJobFacts DEF JobType, J, NoJob, Types, LaneType
<1>5. "loadReserve" # "idle" => Knows(p, "loadReserve", k)
  BY SMTT(40), <1>2, <1>4
  DEF Knows, ControlInv, WriterInv, HelpInv, RecoverInv, ReaderInv, Place, JobType, J, Types,
       LaneType
<1>6. p \in Writers => regHold[p] = p BY <1>1, <1>2, Actor
<1> HIDE DEF k, AllPlaces
<1> QED BY <1>1, <1>2, <1>3, <1>4, <1>5, <1>6, CalmStep

\* A writer tries again, or gives up with its message uncommitted.
LEMMA TryAgainKeeps ==
    ASSUME IInv, NEW p \in Writers, TryAgain(p)
    PROVE  IInv'
<1> DEFINE j == job[p]
           b == IF lane.consumers = 0 \/ j.tries = 0 THEN "idle" ELSE "loadRead"
<1>1. p \in Procs /\ Step(p, "again", b, j) BY DEF TryAgain, Steps, Procs, J
<1>2. Knows(p, "again", j) /\ pc[p] = "again" /\ Types /\ j \in JobType
  BY <1>1, Actor, StepFacts
<1>3. Calm /\ lane' \in LaneType BY <1>2, ReadsCalm DEF TryAgain
<1>4. j \in JobType /\ b \in AllPlaces \ {"dead"}
  BY SMTT(40), <1>2, NoJobFacts DEF JobType, J, NoJob
<1>5. b # "idle" => Knows(p, b, j)
  BY SMTT(40), <1>2, <1>4
  DEF Knows, ControlInv, WriterInv, HelpInv, RecoverInv, ReaderInv, Place, JobType, J
<1>6. p \in Writers => regHold[p] = p BY <1>1, <1>2, Actor
<1> HIDE DEF b, AllPlaces
<1> QED BY <1>1, <1>2, <1>3, <1>4, <1>5, <1>6, CalmStep

\* A helper that still finds the claim admits its turn, or gives up.
LEMMA HelpAgainKeeps ==
    ASSUME IInv, NEW p \in Procs, HelpAgain(p)
    PROVE  IInv'
<1> DEFINE j == job[p]
           k == IF SlotOf(p).claim = j.claim THEN j
                ELSE [j EXCEPT !.claim = Free, !.intent = NoIntent]
           b == IF SlotOf(p).claim = j.claim THEN "helpAdmit" ELSE j.help
<1>1. p \in Procs /\ Step(p, "helpAgain", b, k) BY DEF HelpAgain, Procs, J, Helping
<1>2. Knows(p, "helpAgain", j) /\ pc[p] = "helpAgain" /\ Types /\ j \in JobType
  BY <1>1, Actor, StepFacts
<1>3. Calm /\ lane' \in LaneType BY <1>2, ReadsCalm DEF HelpAgain
<1>4. k \in JobType /\ b \in AllPlaces \ {"dead"} /\ k.msg = j.msg
  <2>1. [j EXCEPT !.claim = Free, !.intent = NoIntent] \in JobType
    BY Zenon, <1>2, FreeFacts, NoJobFacts DEF JobType
  <2>2. k \in JobType /\ k.msg = j.msg BY <1>2, <2>1 DEF JobType
  <2>3. b \in {"helpAdmit", j.help} /\ j.help \in {"idle", "progress", "bump"}
    BY <1>2 DEF JobType
  <2> QED BY <2>2, <2>3
<1>5. b # "idle" => Knows(p, b, k)
  <2>1. CASE SlotOf(p).claim = j.claim
    <3> DEFINE s == slot[At(j.pos)]
               r == j.claim.rec
               n == record[r].intent
    <3>1. s.claim = j.claim BY <2>1 DEF SlotOf, J
    <3>2. HelpInv("helpAdmit", j) BY SMTT(40), <1>1, <1>2, <3>1, AdmittedOrClaimed
    <3>3. Knows(p, "helpAdmit", j) BY SMTT(40), <1>2, <3>2
      DEF Knows, ControlInv, WriterInv, RecoverInv, ReaderInv, Place
    <3> QED BY <2>1, <3>3
  <2>2. CASE ~(SlotOf(p).claim = j.claim)
    <3>1. Knows(p, j.help, k)
      <4>1. /\ k.pos = j.pos /\ k.rec = j.rec /\ k.who = j.who /\ k.recs = j.recs
            /\ k.serving = j.serving /\ k.after = j.after /\ k.help = j.help
            /\ k.wake = j.wake
        BY <1>2, <2>2 DEF JobType
      <4> HIDE DEF k
      <4> QED BY <1>1, <1>2, <1>4, <4>1, HelpGiven
    <3> QED BY <2>2, <3>1
  <2> QED BY <2>1, <2>2
<1>6. p \in Writers => regHold[p] = p BY <1>1, <1>2, Actor
<1> HIDE DEF k, b, AllPlaces
<1> QED BY <1>1, <1>2, <1>3, <1>4, <1>5, <1>6, CalmStep

\* A writer finds room at the reserve position, or reports that there is
\* none.
LEMMA LoadReserveKeeps ==
    ASSUME IInv, NEW p \in Writers, LoadReserve(p)
    PROVE  IInv'
<1> DEFINE j == job[p]
           k == [j EXCEPT !.pos = lane.reserve, !.read = 0]
           b == IF FullBetween(j.read, lane.reserve) THEN "idle" ELSE "loadClaim"
<1>1. p \in Procs /\ Step(p, "loadReserve", b, k) BY DEF LoadReserve, Procs, J
<1>2. Knows(p, "loadReserve", j) /\ pc[p] = "loadReserve" /\ Types /\ j \in JobType
  BY <1>1, Actor, StepFacts
<1>3. Calm /\ lane' \in LaneType BY <1>2, ReadsCalm DEF LoadReserve
<1>4. k \in JobType /\ b \in AllPlaces \ {"dead"} /\ k.msg = j.msg
  BY Zenon, <1>2, NoJobFacts DEF JobType, J, NoJob, Types, LaneType
<1>5. b # "idle" => Knows(p, b, k)
  <2> SUFFICES ASSUME ~FullBetween(j.read, lane.reserve) PROVE Knows(p, "loadClaim", k)
    OBVIOUS
  <2>1. k.pos = lane.reserve /\ k.msg = j.msg /\ k.serving = j.serving
    BY <1>2 DEF JobType
  <2>2. WriterInv(p, "loadClaim", k) BY Zenon, <1>1, <1>2, <1>4, <2>1, RoomAtReserve
  <2> QED BY SMTT(40), <1>2, <2>1, <2>2
    DEF Knows, ControlInv, WriterInv, HelpInv, RecoverInv, ReaderInv, Place
<1>6. p \in Writers => regHold[p] = p BY <1>1, <1>2, Actor
<1> HIDE DEF k, b, AllPlaces
<1> QED BY <1>1, <1>2, <1>3, <1>4, <1>5, <1>6, CalmStep

\* A writer finds its slot free, or helps the claim that is there.
LEMMA LoadClaimKeeps ==
    ASSUME IInv, NEW p \in Writers, LoadClaim(p)
    PROVE  IInv'
<1> DEFINE j == job[p]
           k == [j EXCEPT !.help = "progress"]
           b == IF SlotOf(p).claim = Free THEN "takeRecord" ELSE "help"
<1>1. p \in Procs /\ Step(p, "loadClaim", b, k) BY DEF LoadClaim, Procs, J
<1>2. Knows(p, "loadClaim", j) /\ pc[p] = "loadClaim" /\ Types /\ j \in JobType
  BY <1>1, Actor, StepFacts
<1>3. Calm /\ lane' \in LaneType BY <1>2, ReadsCalm DEF LoadClaim
<1>4. k \in JobType /\ b \in AllPlaces \ {"dead"} /\ k.msg = j.msg
  BY <1>2, NoJobFacts DEF JobType, J, NoJob
<1>5. b # "idle" => Knows(p, b, k)
  BY SMTT(40), <1>2, <1>4
  DEF Knows, ControlInv, WriterInv, HelpInv, RecoverInv, ReaderInv, Place, JobType, J
<1>6. p \in Writers => regHold[p] = p BY <1>1, <1>2, Actor
<1> HIDE DEF k, b, AllPlaces
<1> QED BY <1>1, <1>2, <1>3, <1>4, <1>5, <1>6, CalmStep

\* A writer whose attempt failed goes on to the next.
LEMMA ProgressKeeps ==
    ASSUME IInv, NEW p \in Writers, Progress(p)
    PROVE  IInv'
<1> DEFINE j == job[p]
           k == [NoJob EXCEPT !.msg = j.msg, !.tries = j.tries - 1]
           b == IF lane.reserve > j.pos THEN "again" ELSE "idle"
<1>1. p \in Procs /\ Step(p, "progress", b, k) BY DEF Progress, Procs, J
<1>2. Knows(p, "progress", j) /\ pc[p] = "progress" /\ Types /\ j \in JobType
  BY <1>1, Actor, StepFacts
<1>3. Calm /\ lane' \in LaneType BY <1>2, ReadsCalm DEF Progress
<1>4. k \in JobType /\ b \in AllPlaces \ {"dead"} /\ k.msg = j.msg
  <2>1. j.tries - 1 \in Int BY <1>2 DEF JobType
  <2> QED BY ZenonT(60), <1>2, <2>1, NoJobFacts DEF JobType, NoJob
<1>5. b # "idle" => Knows(p, b, k)
  BY SMTT(40), <1>2, <1>4
  DEF Knows, ControlInv, WriterInv, HelpInv, RecoverInv, ReaderInv, Place, JobType, J, NoJob
<1>6. p \in Writers => regHold[p] = p BY <1>1, <1>2, Actor
<1> HIDE DEF k, b, AllPlaces
<1> QED BY <1>1, <1>2, <1>3, <1>4, <1>5, <1>6, CalmStep

\* A writer that has claimed a slot goes on only if the slot is in turn.
LEMMA CheckTurnKeeps ==
    ASSUME IInv, NEW p \in Writers, CheckTurn(p)
    PROVE  IInv'
<1> DEFINE j == job[p]
           k == [j EXCEPT !.then = "progress"]
           b == IF SlotOf(p).seq = j.pos THEN "admit" ELSE "rollback"
<1>1. p \in Procs /\ Step(p, "turn", b, k) BY DEF CheckTurn, Procs, J
<1>2. Knows(p, "turn", j) /\ pc[p] = "turn" /\ Types /\ j \in JobType
  BY <1>1, Actor, StepFacts
<1>3. Calm /\ lane' \in LaneType BY <1>2, ReadsCalm DEF CheckTurn
<1>4. k \in JobType /\ b \in AllPlaces \ {"dead"} /\ k.msg = j.msg
  BY <1>2, NoJobFacts DEF JobType, J, NoJob
<1>5. b # "idle" => Knows(p, b, k)
  BY SMTT(40), <1>2, <1>4
  DEF Knows, ControlInv, WriterInv, HelpInv, RecoverInv, ReaderInv, Place, JobType, J, SlotOf
<1>6. p \in Writers => regHold[p] = p BY <1>1, <1>2, Actor
<1> HIDE DEF k, b, AllPlaces
<1> QED BY <1>1, <1>2, <1>3, <1>4, <1>5, <1>6, CalmStep

\* Recovery compares the turn of the slot with the intent of the record.
LEMMA RecTurnKeeps ==
    ASSUME IInv, NEW p \in Procs, RecTurn(p)
    PROVE  IInv'
<1> DEFINE j == job[p]
           k == [j EXCEPT !.turn = SlotOf(p).seq]
<1>1. p \in Procs /\ Step(p, "recTurn", "recClaim", k) BY DEF RecTurn, Procs, J
<1>2. Knows(p, "recTurn", j) /\ pc[p] = "recTurn" /\ Types /\ j \in JobType
  BY <1>1, Actor, StepFacts
<1>3. Calm /\ lane' \in LaneType BY <1>2, ReadsCalm DEF RecTurn
<1>4. k \in JobType /\ "recClaim" \in AllPlaces \ {"dead"} /\ k.msg = j.msg
  BY SMTT(40), <1>2, NoJobFacts, Actor DEF JobType, J, NoJob, SlotOf, SlotType
<1>5. "recClaim" # "idle" => Knows(p, "recClaim", k)
  <2>1. /\ j.pos <= slot[At(j.pos)].seq /\ slot[At(j.pos)].seq \in Nat
        /\ slot[At(j.pos)].claim # Reserved(j.rec) \/ slot[At(j.pos)].seq \in Nat
    BY <1>1, <1>2, Actor DEF Knows, RecoverInv, Place, SharedInv, RecordInv, SlotType
  <2> QED BY SMTT(40), <1>2, <1>4, <2>1
    DEF Knows, ControlInv, WriterInv, HelpInv, RecoverInv, ReaderInv, Place, JobType, SlotOf, J
<1>6. p \in Writers => regHold[p] = p BY <1>1, <1>2, Actor
<1> HIDE DEF k, AllPlaces
<1> QED BY <1>1, <1>2, <1>3, <1>4, <1>5, <1>6, CalmStep

\* A reader sets out to join.
LEMMA JoinStartsKeeps ==
    ASSUME IInv, NEW p \in Readers, JoinStarts(p)
    PROVE  IInv'
<1> DEFINE j == job[p]
           k == [NoJob EXCEPT !.owners = Writers]
<1>1. p \in Procs /\ Step(p, "idle", "owners", k) BY DEF JoinStarts, Procs, J
<1>2. Knows(p, "idle", j) /\ pc[p] = "idle" /\ Types /\ j \in JobType
  BY <1>1, Actor, StepFacts
<1>3. Calm /\ lane' \in LaneType
  BY <1>2 DEF JoinStarts, Calm, Types, laneVars, regVars, holdVars, wakeVars, histVars
<1>4. k \in JobType /\ "owners" \in AllPlaces \ {"dead"} /\ k.msg = 0
  BY ZenonT(60), <1>2, NoJobFacts DEF JobType, J, NoJob
<1>5. "owners" # "idle" => Knows(p, "owners", k)
  BY <1>1, <1>2, <1>4, Actor, NothingKnown DEF NoJob
<1>6. p \in Writers => regHold[p] = p BY <1>1, <1>2, Actor
<1> HIDE DEF k, AllPlaces
<1> QED BY <1>1, <1>2, <1>3, <1>4, <1>5, <1>6, CalmStep

\* The consumer of the lane is taken off it.
LEMMA ReleaseLaneKeeps ==
    ASSUME IInv, NEW p \in Readers, ReleaseLane(p)
    PROVE  IInv'
<1> DEFINE j == job[p]
<1>1. p \in Procs /\ Step(p, "release", "leave", j) BY DEF ReleaseLane, Steps, Procs, J
<1>2. Knows(p, "release", j) /\ pc[p] = "release" /\ Types /\ j \in JobType
  BY <1>1, Actor, StepFacts
<1>3. Calm /\ lane' \in LaneType
  <2>1. lane' = [lane EXCEPT !.consumers = 0] BY DEF ReleaseLane, SetLane
  <2>2. /\ lane' \in LaneType /\ lane'.reserve = lane.reserve /\ lane'.read = lane.read
        /\ lane'.epoch = lane.epoch /\ lane'.initialized = lane.initialized
    BY Zenon, <1>2, <2>1, LaneNumbers DEF Types, LaneType
  <2> QED BY <1>2, <2>2, LaneCalm DEF ReleaseLane, OnLane, histVars
<1>4. j \in JobType /\ "leave" \in AllPlaces \ {"dead"}
  BY SMTT(40), <1>2, NoJobFacts DEF JobType, J, NoJob
<1>5. "leave" # "idle" => Knows(p, "leave", j)
  BY SMTT(40), <1>2, <1>4
  DEF Knows, ControlInv, WriterInv, HelpInv, RecoverInv, ReaderInv, Place, JobType, J
<1>6. p \in Writers => regHold[p] = p BY <1>1, <1>2, Actor
<1> HIDE DEF AllPlaces
<1> QED BY <1>1, <1>2, <1>3, <1>4, <1>5, <1>6, CalmStep

\* A reader announces that it leaves.
LEMMA AnnounceLeaveKeeps ==
    ASSUME IInv, NEW p \in Readers, AnnounceLeave(p)
    PROVE  IInv'
<1> DEFINE j == job[p]
           k == [j EXCEPT !.wake = IF j.after = "retired" THEN "reset" ELSE j.after]
<1>1. p \in Procs /\ Step(p, "leave", "bump", k) BY DEF AnnounceLeave, Procs, J
<1>2. Knows(p, "leave", j) /\ pc[p] = "leave" /\ Types /\ j \in JobType
  BY <1>1, Actor, StepFacts
<1>3. Calm /\ lane' \in LaneType
  <2>1. lane' = [lane EXCEPT !.directory = @ + 1] BY DEF AnnounceLeave, SetLane
  <2>2. /\ lane' \in LaneType /\ lane'.reserve = lane.reserve /\ lane'.read = lane.read
        /\ lane'.epoch = lane.epoch /\ lane'.initialized = lane.initialized
    BY Zenon, <1>2, <2>1, LaneNumbers DEF Types, LaneType
  <2> QED BY <1>2, <2>2, LaneCalm DEF AnnounceLeave, OnLane, histVars
<1>4. k \in JobType /\ "bump" \in AllPlaces \ {"dead"} /\ k.msg = j.msg
  <2>1. j.after \in {"retired", "left"} BY SMTT(40), <1>2 DEF Knows, ControlInv, Place
  <2> QED BY <1>2, <2>1 DEF JobType
<1>5. "bump" # "idle" => Knows(p, "bump", k)
  BY SMTT(40), <1>2, <1>4
  DEF Knows, ControlInv, WriterInv, HelpInv, RecoverInv, ReaderInv, Place, JobType, J
<1>6. p \in Writers => regHold[p] = p BY <1>1, <1>2, Actor
<1> HIDE DEF k, AllPlaces
<1> QED BY <1>1, <1>2, <1>3, <1>4, <1>5, <1>6, CalmStep

\* A reader looks whether the lane has a consumer.
LEMMA JoinLookKeeps ==
    ASSUME IInv, NEW p \in Readers, JoinLook(p)
    PROVE  IInv'
<1> DEFINE j == job[p]
           b == IF lane.consumers # 0 THEN "idle" ELSE "joinHold"
<1>1. p \in Procs /\ Step(p, "join", b, j) BY DEF JoinLook, Steps, Procs, J
<1>2. Knows(p, "join", j) /\ pc[p] = "join" /\ Types /\ j \in JobType
  BY <1>1, Actor, StepFacts
<1>3. Calm /\ lane' \in LaneType BY <1>2, ReadsCalm DEF JoinLook
<1>4. j \in JobType /\ b \in AllPlaces \ {"dead"}
  BY <1>2, NoJobFacts DEF JobType, J, NoJob
<1>5. b # "idle" => Knows(p, b, j)
  <2>1. j.msg = 0 /\ ~j.serving BY SMTT(40), <1>2 DEF Knows, WriterInv, ReaderInv, Place
  <2> QED BY <1>1, <1>2, <2>1, Actor, NothingKnown
<1>6. p \in Writers => regHold[p] = p BY <1>1, <1>2, Actor
<1> HIDE DEF b, AllPlaces
<1> QED BY <1>1, <1>2, <1>3, <1>4, <1>5, <1>6, CalmStep

\* A reader that holds the lock claims the lane, and is to reset it first.
LEMMA JoinClaimsKeeps ==
    ASSUME IInv, NEW p \in Readers, JoinClaims(p)
    PROVE  IInv'
<1> DEFINE j == job[p]
           k == [NoJob EXCEPT !.tries = Capacity, !.after = "identity"]
<1>1. p \in Procs /\ Step(p, "joinClaim", "reset", k) BY DEF JoinClaims, Procs, J
<1>2. Knows(p, "joinClaim", j) /\ pc[p] = "joinClaim" /\ Types /\ j \in JobType
  BY <1>1, Actor, StepFacts
<1>3. Calm /\ lane' \in LaneType
  <2>1. lane' = [lane EXCEPT !.consumers = 1] BY DEF JoinClaims, SetLane
  <2>2. /\ lane' \in LaneType /\ lane'.reserve = lane.reserve /\ lane'.read = lane.read
        /\ lane'.epoch = lane.epoch /\ lane'.initialized = lane.initialized
    BY Zenon, <1>2, <2>1, LaneNumbers DEF Types, LaneType
  <2> QED BY <1>2, <2>2, LaneCalm DEF JoinClaims, OnLane, histVars
<1>4. k \in JobType /\ "reset" \in AllPlaces \ {"dead"} /\ k.msg = 0
  <2>1. Capacity \in Int BY <1>2, CapacityFacts DEF Types
  <2> QED BY Zenon, <2>1, NoJobFacts DEF JobType, NoJob
<1>5. "reset" # "idle" => Knows(p, "reset", k)
  BY SMTT(40), <1>2, <1>4
  DEF Knows, ControlInv, WriterInv, HelpInv, RecoverInv, ReaderInv, Place, JobType, J, NoJob
<1>6. p \in Writers => regHold[p] = p BY <1>1, <1>2, Actor
<1> HIDE DEF k, AllPlaces
<1> QED BY <1>1, <1>2, <1>3, <1>4, <1>5, <1>6, CalmStep

\* A reader publishes who serves the lane.
LEMMA PublishIdentityKeeps ==
    ASSUME IInv, NEW p \in Readers, PublishIdentity(p)
    PROVE  IInv'
<1> DEFINE j == job[p]
           k == [NoJob EXCEPT !.wake = "serve"]
<1>1. p \in Procs /\ Step(p, "identity", "bump", k) BY DEF PublishIdentity, Procs, J
<1>2. Knows(p, "identity", j) /\ pc[p] = "identity" /\ Types /\ j \in JobType
  BY <1>1, Actor, StepFacts
<1>3. Calm /\ lane' \in LaneType
  <2>1. lane' = [lane EXCEPT !.directory = @ + 1] BY DEF PublishIdentity, SetLane
  <2>2. /\ lane' \in LaneType /\ lane'.reserve = lane.reserve /\ lane'.read = lane.read
        /\ lane'.epoch = lane.epoch /\ lane'.initialized = lane.initialized
    BY Zenon, <1>2, <2>1, LaneNumbers DEF Types, LaneType
  <2> QED BY <1>2, <2>2, LaneCalm DEF PublishIdentity, OnLane, histVars
<1>4. k \in JobType /\ "bump" \in AllPlaces \ {"dead"} /\ k.msg = 0
  BY ZenonT(60), <1>2, NoJobFacts DEF JobType, J, NoJob
<1>5. "bump" # "idle" => Knows(p, "bump", k)
  BY SMTT(40), <1>2, <1>4
  DEF Knows, ControlInv, WriterInv, HelpInv, RecoverInv, ReaderInv, Place, JobType, J, NoJob
<1>6. p \in Writers => regHold[p] = p BY <1>1, <1>2, Actor
<1> HIDE DEF k, AllPlaces
<1> QED BY <1>1, <1>2, <1>3, <1>4, <1>5, <1>6, CalmStep

\* A reader begins to serve the lane.
LEMMA ServeKeeps ==
    ASSUME IInv, NEW p \in Readers, Serve(p)
    PROVE  IInv'
<1> DEFINE j == job[p]
           k == [NoJob EXCEPT !.serving = TRUE]
<1>1. p \in Procs /\ Step(p, "serve", "look", k) BY DEF Serve, Procs, J
<1>2. Knows(p, "serve", j) /\ pc[p] = "serve" /\ Types /\ j \in JobType
  BY <1>1, Actor, StepFacts
<1>3. Calm /\ lane' \in LaneType
  BY <1>2 DEF Serve, Calm, Types, laneVars, regVars, holdVars, wakeVars, histVars
<1>4. k \in JobType /\ "look" \in AllPlaces \ {"dead"} /\ k.msg = 0
  BY ZenonT(60), <1>2, NoJobFacts DEF JobType, J, NoJob
<1>5. "look" # "idle" => Knows(p, "look", k)
  BY SMTT(40), <1>2, <1>4
  DEF Knows, ControlInv, WriterInv, HelpInv, RecoverInv, ReaderInv, Place, JobType, J, NoJob
<1>6. p \in Writers => regHold[p] = p BY <1>1, <1>2, Actor
<1> HIDE DEF k, AllPlaces
<1> QED BY <1>1, <1>2, <1>3, <1>4, <1>5, <1>6, CalmStep

\* The reset looks whether anything is left of the last claim of the lane.
LEMMA ResetLookKeeps ==
    ASSUME IInv, NEW p \in Readers, ResetLook(p)
    PROVE  IInv'
<1> DEFINE j == job[p]
           k == [j EXCEPT !.pos = lane.read, !.then = "reset"]
           b == IF j.tries = 0 \/ lane.read >= lane.reserve THEN "resetEpoch" ELSE "resetTurn"
<1>1. p \in Procs /\ Step(p, "reset", b, k) BY DEF ResetLook, Procs, J
<1>2. Knows(p, "reset", j) /\ pc[p] = "reset" /\ Types /\ j \in JobType
  BY <1>1, Actor, StepFacts
<1>3. Calm /\ lane' \in LaneType BY <1>2, ReadsCalm DEF ResetLook
<1>4. k \in JobType /\ b \in AllPlaces \ {"dead"} /\ k.msg = j.msg
  BY ZenonT(60), <1>2, NoJobFacts DEF JobType, J, NoJob, Types, LaneType
<1>5. b # "idle" => Knows(p, b, k)
  <2>1. lane.initialized BY DEF ResetLook
  <2>2. lane.read \in Nat /\ lane.reserve \in Nat BY <1>2, LaneNumbers
  <2>3. b = "resetEpoch" => Passed
    <3>1. CASE j.tries = 0
      BY <1>2, <3>1, CapacityFacts DEF Knows, ReaderInv, Place, Types
    <3>2. CASE lane.read >= lane.reserve BY <1>1, <3>2, Actor, NothingAhead
    <3> QED BY <3>1, <3>2
  <2> QED BY SMTT(40), <1>2, <1>4, <2>1, <2>2, <2>3
    DEF Knows, ControlInv, WriterInv, HelpInv, RecoverInv, ReaderInv, Place, JobType
<1>6. p \in Writers => regHold[p] = p BY <1>1, <1>2, Actor
<1> HIDE DEF k, b, AllPlaces
<1> QED BY <1>1, <1>2, <1>3, <1>4, <1>5, <1>6, CalmStep

\* The reset looks whether the head is in turn.
LEMMA ResetTurnKeeps ==
    ASSUME IInv, NEW p \in Readers, ResetTurn(p)
    PROVE  IInv'
<1> DEFINE j == job[p]
           b == IF SlotOf(p).seq > j.pos THEN "resetLate" ELSE "resetClaim"
<1>1. p \in Procs /\ Step(p, "resetTurn", b, j) BY DEF ResetTurn, Steps, Procs, J
<1>2. Knows(p, "resetTurn", j) /\ pc[p] = "resetTurn" /\ Types /\ j \in JobType
  BY <1>1, Actor, StepFacts
<1>3. Calm /\ lane' \in LaneType BY <1>2, ReadsCalm DEF ResetTurn
<1>4. j \in JobType /\ b \in AllPlaces \ {"dead"}
  BY SMTT(40), <1>2, NoJobFacts DEF JobType, J, NoJob
<1>5. b # "idle" => Knows(p, b, j)
  <2>1. slot[At(j.pos)].seq = j.pos \/ slot[At(j.pos)].seq = j.pos + Capacity
    BY <1>1, <1>2, HeadTurn DEF Knows, ReaderInv, Place
  <2>2. j.pos \in Nat /\ Capacity \in Nat \ {0} BY Zenon, <1>2, CapacityFacts DEF JobType, Types
  <2> QED BY SMTT(40), <1>2, <2>1, <2>2
    DEF Knows, ControlInv, WriterInv, HelpInv, RecoverInv, ReaderInv, Place, SlotOf, J
<1>6. p \in Writers => regHold[p] = p BY <1>1, <1>2, Actor
<1> HIDE DEF b, AllPlaces
<1> QED BY <1>1, <1>2, <1>3, <1>4, <1>5, <1>6, CalmStep

\* The reset consumes a head that is done, and waits for one that is not.
LEMMA ResetClaimKeeps ==
    ASSUME IInv, NEW p \in Readers, ResetClaim(p)
    PROVE  IInv'
<1> DEFINE j == job[p]
           b == IF Done(SlotOf(p).claim) THEN "consumeTurn" ELSE "resetEpoch"
<1>1. p \in Procs /\ Step(p, "resetClaim", b, j) BY DEF ResetClaim, Steps, Procs, J
<1>2. Knows(p, "resetClaim", j) /\ pc[p] = "resetClaim" /\ Types /\ j \in JobType
  BY <1>1, Actor, StepFacts
<1>3. Calm /\ lane' \in LaneType BY <1>2, ReadsCalm DEF ResetClaim
<1>4. j \in JobType /\ b \in AllPlaces \ {"dead"}
  BY <1>2, NoJobFacts DEF JobType, J, NoJob
<1>5. b # "idle" => Knows(p, b, j)
  <2> DEFINE s == slot[At(j.pos)]
  <2>1. j.pos = lane.read /\ lane.read < lane.reserve /\ lane.initialized /\ s.seq = j.pos
    BY <1>2 DEF Knows, ReaderInv, Place
  <2>2. CASE Done(s.claim)
    <3>1. record[s.claim.rec].intent.pos = j.pos BY SMTT(40), <1>1, <2>1, <2>2, DoneAtHead
    <3>2. Knows(p, "consumeTurn", j) BY SMTT(40), <1>2, <2>1, <2>2, <3>1
      DEF Knows, ControlInv, WriterInv, HelpInv, RecoverInv, ReaderInv, Place
    <3> QED BY <2>2, <3>2 DEF SlotOf, J
  <2>3. CASE ~Done(s.claim)
    <3>1. Passed BY <1>1, <2>1, <2>3, Actor, HeadNotDone
    <3>2. Knows(p, "resetEpoch", j) BY SMTT(40), <1>2, <2>1, <2>3, <3>1
      DEF Knows, ControlInv, WriterInv, HelpInv, RecoverInv, ReaderInv, Place
    <3> QED BY <2>3, <3>2 DEF SlotOf, J
  <2> QED BY <2>2, <2>3
<1>6. p \in Writers => regHold[p] = p BY <1>1, <1>2, Actor
<1> HIDE DEF b, AllPlaces
<1> QED BY <1>1, <1>2, <1>3, <1>4, <1>5, <1>6, CalmStep

\* A reader takes the generation of the wake word before it looks.
LEMMA TakeGenerationKeeps ==
    ASSUME IInv, NEW p \in Readers, TakeGeneration(p)
    PROVE  IInv'
<1> DEFINE j == job[p]
           k == [j EXCEPT !.tries = Capacity]
<1>1. p \in Procs /\ Step(p, "look", "readHead", k) BY DEF TakeGeneration, Procs, J
<1>2. Knows(p, "look", j) /\ pc[p] = "look" /\ Types /\ j \in JobType
  BY <1>1, Actor, StepFacts
<1>3. Calm /\ lane' \in LaneType
  BY <1>2 DEF TakeGeneration, Calm, Types, laneVars, regVars, holdVars, wakeVars, histVars
<1>4. k \in JobType /\ "readHead" \in AllPlaces \ {"dead"} /\ k.msg = j.msg
  <2>1. Capacity \in Int BY <1>2, CapacityFacts DEF Types
  <2> QED BY <1>2, <2>1 DEF JobType
<1>5. "readHead" # "idle" => Knows(p, "readHead", k)
  BY SMTT(40), <1>2, <1>4
  DEF Knows, ControlInv, WriterInv, HelpInv, RecoverInv, ReaderInv, Place, JobType, J
<1>6. p \in Writers => regHold[p] = p BY <1>1, <1>2, Actor
<1> HIDE DEF k, AllPlaces
<1> QED BY <1>1, <1>2, <1>3, <1>4, <1>5, <1>6, CalmStep

\* A reader finds the head of the lane in turn, or nothing to read.
LEMMA ReadHeadKeeps ==
    ASSUME IInv, NEW p \in Readers, ReadHead(p)
    PROVE  IInv'
<1> DEFINE j == job[p]
           k == [j EXCEPT !.pos = lane.read]
           b == IF j.tries = 0 \/ lane.read >= lane.reserve THEN Waiting ELSE "readClaim"
<1>1. p \in Procs /\ Step(p, "readHead", b, k) BY DEF ReadHead, Procs, J
<1>2. Knows(p, "readHead", j) /\ pc[p] = "readHead" /\ Types /\ j \in JobType
  BY <1>1, Actor, StepFacts
<1>3. Calm /\ lane' \in LaneType BY <1>2, ReadsCalm DEF ReadHead
<1>4. k \in JobType /\ b \in AllPlaces \ {"dead"} /\ k.msg = j.msg
  BY Zenon, <1>2, NoJobFacts DEF JobType, J, NoJob, Types, LaneType, Waiting
<1>5. b # "idle" => Knows(p, b, k)
  BY SMTT(40), <1>2, <1>4, LaneNumbers
  DEF Knows, ControlInv, WriterInv, HelpInv, RecoverInv, ReaderInv, Place, JobType, J, Waiting
<1>6. p \in Writers => regHold[p] = p BY <1>1, <1>2, Actor
<1> HIDE DEF k, b, AllPlaces
<1> QED BY <1>1, <1>2, <1>3, <1>4, <1>5, <1>6, CalmStep

\* A reader finds the head committed, cancelled or not yet done.
LEMMA ReadClaimKeeps ==
    ASSUME IInv, NEW p \in Readers, ReadClaim(p)
    PROVE  IInv'
<1> DEFINE j == job[p]
           k == [j EXCEPT !.claim = SlotOf(p).claim]
           b == IF SlotOf(p).seq = j.pos /\ Done(SlotOf(p).claim) THEN "readIntent"
                ELSE Waiting
<1>1. p \in Procs /\ Step(p, "readClaim", b, k) BY DEF ReadClaim, Procs, J
<1>2. Knows(p, "readClaim", j) /\ pc[p] = "readClaim" /\ Types /\ j \in JobType
  BY <1>1, Actor, StepFacts
<1>3. Calm /\ lane' \in LaneType BY <1>2, ReadsCalm DEF ReadClaim
<1>4. k \in JobType /\ b \in AllPlaces \ {"dead"} /\ k.msg = j.msg
  <2>1. SlotOf(p).claim \in ClaimType BY <1>1, Actor DEF SlotOf, J
  <2>2. k \in JobType /\ k.msg = j.msg BY SMTT(40), <1>2, <2>1 DEF JobType
  <2>3. b \in AllPlaces \ {"dead"} BY DEF Waiting
  <2> QED BY <2>2, <2>3
<1>5. b # "idle" => Knows(p, b, k)
  BY SMTT(40), <1>2, <1>4
  DEF Knows, ControlInv, WriterInv, HelpInv, RecoverInv, ReaderInv, Place, JobType, J, Waiting,
       SlotOf
<1>6. p \in Writers => regHold[p] = p BY <1>1, <1>2, Actor
<1> HIDE DEF k, b, AllPlaces
<1> QED BY <1>1, <1>2, <1>3, <1>4, <1>5, <1>6, CalmStep

\* A reader takes a message of its epoch, and drops one of an earlier claim.
LEMMA ReadIntentKeeps ==
    ASSUME IInv, NEW p \in Readers, ReadIntent(p)
    PROVE  IInv'
<1> DEFINE j == job[p]
           k == [j EXCEPT !.then =
                     IF j.claim.state = "committed" /\ record[j.claim.rec].intent.epoch = lane.epoch
                     THEN "look" ELSE "readHead"]
           b == IF j.claim.state = "committed" /\ record[j.claim.rec].intent.epoch = lane.epoch
                THEN "copy" ELSE "consumeTurn"
<1>1. p \in Procs /\ Step(p, "readIntent", b, k) BY DEF ReadIntent, Procs, J
<1>2. Knows(p, "readIntent", j) /\ pc[p] = "readIntent" /\ Types /\ j \in JobType
  BY SMTT(40), <1>1, Actor, StepFacts
<1>3. Calm /\ lane' \in LaneType
  <2>1. /\ slot[At(j.pos)].claim = j.claim /\ Done(j.claim)
        /\ record[j.claim.rec].intent.pos = j.pos /\ record[j.claim.rec].stable
    BY <1>1, <1>2, DoneAtHead DEF Knows, ReaderInv, Place
  <2>2. ~malformed BY <1>1, Actor DEF SharedInv, DeliveredInv, NeverMalformed
  <2>3. ~malformed' BY Zenon, <2>1, <2>2 DEF ReadIntent, J
  <2> QED BY SMTT(40), <1>2, <2>2, <2>3 DEF ReadIntent, Calm, Types, laneVars, regVars, holdVars
<1>4. k \in JobType /\ b \in AllPlaces \ {"dead"} /\ k.msg = j.msg
  BY <1>2, NoJobFacts DEF JobType, J, NoJob
<1>5. b # "idle" => Knows(p, b, k)
  <2>1. /\ slot[At(j.pos)].claim = j.claim /\ Done(j.claim)
        /\ record[j.claim.rec].intent.pos = j.pos
    BY SMTT(40), <1>1, <1>2, DoneAtHead DEF Knows, ReaderInv, Place
  <2>2. k.pos = j.pos /\ k.msg = j.msg /\ k.serving = j.serving BY SMTT(40), <1>2 DEF JobType
  <2>3. CASE b = "copy"
    <3>1. k.then = "look" /\ j.claim.state = "committed"
          /\ record[j.claim.rec].intent.epoch = lane.epoch
      BY SMTT(40), <1>2, <2>3 DEF JobType
    <3> HIDE DEF k, b
    <3> QED BY SMTT(40), <1>2, <2>1, <2>2, <2>3, <3>1
      DEF Knows, ControlInv, WriterInv, HelpInv, RecoverInv, ReaderInv, Place
  <2>4. CASE b = "consumeTurn"
    <3>1. k.then = "readHead" /\ (j.claim.state # "committed"
          \/ record[j.claim.rec].intent.epoch # lane.epoch)
      BY <1>2, <2>4 DEF JobType
    <3>2. j.claim.state = "cancelled" \/ record[j.claim.rec].intent.epoch # lane.epoch
      BY <2>1, <3>1 DEF Done
    <3> HIDE DEF k, b
    <3> QED BY SMTT(40), <1>2, <2>1, <2>2, <2>4, <3>1, <3>2
      DEF Knows, ControlInv, WriterInv, HelpInv, RecoverInv, ReaderInv, Place
  <2> QED BY SMTT(40), <2>3, <2>4
<1>6. p \in Writers => regHold[p] = p BY <1>1, <1>2, Actor
<1> HIDE DEF k, b, AllPlaces
<1> QED BY SMTT(40), <1>1, <1>2, <1>3, <1>4, <1>5, <1>6, CalmStep

\* A reader clears the reactor word.
LEMMA DisarmKeeps ==
    ASSUME IInv, NEW p \in Readers, Disarm(p)
    PROVE  IInv'
<1> DEFINE j == job[p]
<1>1. p \in Procs /\ Step(p, "disarm", "drain", j) BY DEF Disarm, Steps, Procs, J
<1>2. Knows(p, "disarm", j) /\ pc[p] = "disarm" /\ Types /\ j \in JobType
  BY <1>1, Actor, StepFacts
<1>3. Calm /\ lane' \in LaneType
  <2>1. lane' = [lane EXCEPT !.reactor = FALSE] BY DEF Disarm, SetLane
  <2>2. /\ lane' \in LaneType /\ lane'.reserve = lane.reserve /\ lane'.read = lane.read
        /\ lane'.epoch = lane.epoch /\ lane'.initialized = lane.initialized
    BY Zenon, <1>2, <2>1, LaneNumbers DEF Types, LaneType
  <2> QED BY <1>2, <2>2, LaneCalm DEF Disarm, OnLane, histVars
<1>4. j \in JobType /\ "drain" \in AllPlaces \ {"dead"}
  BY SMTT(40), <1>2, NoJobFacts DEF JobType, J, NoJob
<1>5. "drain" # "idle" => Knows(p, "drain", j)
  BY SMTT(40), <1>2, <1>4
  DEF Knows, ControlInv, WriterInv, HelpInv, RecoverInv, ReaderInv, Place, JobType, J
<1>6. p \in Writers => regHold[p] = p BY <1>1, <1>2, Actor
<1> HIDE DEF AllPlaces
<1> QED BY <1>1, <1>2, <1>3, <1>4, <1>5, <1>6, CalmStep

\* A reader drains its bell.
LEMMA DrainKeeps ==
    ASSUME IInv, NEW p \in Readers, Drain(p)
    PROVE  IInv'
<1> DEFINE j == job[p]
<1>1. p \in Procs /\ Step(p, "drain", "arm", j) BY DEF Drain, Steps, Procs, J
<1>2. Knows(p, "drain", j) /\ pc[p] = "drain" /\ Types /\ j \in JobType
  BY <1>1, Actor, StepFacts
<1>3. Calm /\ lane' \in LaneType
  BY <1>2 DEF Drain, Calm, Types, laneVars, regVars, holdVars, wakeVars, histVars
<1>4. j \in JobType /\ "arm" \in AllPlaces \ {"dead"}
  BY SMTT(40), <1>2, NoJobFacts DEF JobType, J, NoJob
<1>5. "arm" # "idle" => Knows(p, "arm", j)
  BY SMTT(40), <1>2, <1>4
  DEF Knows, ControlInv, WriterInv, HelpInv, RecoverInv, ReaderInv, Place, JobType, J
<1>6. p \in Writers => regHold[p] = p BY <1>1, <1>2, Actor
<1> HIDE DEF AllPlaces
<1> QED BY <1>1, <1>2, <1>3, <1>4, <1>5, <1>6, CalmStep

\* A reader arms the reactor before it looks again.
LEMMA ArmKeeps ==
    ASSUME IInv, NEW p \in Readers, Arm(p)
    PROVE  IInv'
<1> DEFINE j == job[p]
<1>1. p \in Procs /\ Step(p, "arm", "recheck", j) BY DEF Arm, Steps, Procs, J
<1>2. Knows(p, "arm", j) /\ pc[p] = "arm" /\ Types /\ j \in JobType
  BY <1>1, Actor, StepFacts
<1>3. Calm /\ lane' \in LaneType
  <2>1. lane' = [lane EXCEPT !.reactor = TRUE] BY DEF Arm, SetLane
  <2>2. /\ lane' \in LaneType /\ lane'.reserve = lane.reserve /\ lane'.read = lane.read
        /\ lane'.epoch = lane.epoch /\ lane'.initialized = lane.initialized
    BY Zenon, <1>2, <2>1, LaneNumbers DEF Types, LaneType
  <2> QED BY <1>2, <2>2, LaneCalm DEF Arm, OnLane, histVars
<1>4. j \in JobType /\ "recheck" \in AllPlaces \ {"dead"}
  BY SMTT(40), <1>2, NoJobFacts DEF JobType, J, NoJob
<1>5. "recheck" # "idle" => Knows(p, "recheck", j)
  BY SMTT(40), <1>2, <1>4
  DEF Knows, ControlInv, WriterInv, HelpInv, RecoverInv, ReaderInv, Place, JobType, J
<1>6. p \in Writers => regHold[p] = p BY <1>1, <1>2, Actor
<1> HIDE DEF AllPlaces
<1> QED BY <1>1, <1>2, <1>3, <1>4, <1>5, <1>6, CalmStep

\* A reader looks at the head once more before it sleeps.
LEMMA RecheckKeeps ==
    ASSUME IInv, NEW p \in Readers, Recheck(p)
    PROVE  IInv'
<1> DEFINE j == job[p]
           k == [NoJob EXCEPT !.serving = TRUE]
           b == IF moved \/ lane.directory # reported THEN "look" ELSE "asleep"
<1>1. p \in Procs /\ Step(p, "recheck", b, k) BY DEF Recheck, Procs, J
<1>2. Knows(p, "recheck", j) /\ pc[p] = "recheck" /\ Types /\ j \in JobType
  BY <1>1, Actor, StepFacts
<1>3. Calm /\ lane' \in LaneType
  <2>1. lane' = lane \/ lane' = [lane EXCEPT !.reactor = FALSE] BY DEF Recheck, SetLane
  <2>2. /\ lane' \in LaneType /\ lane'.reserve = lane.reserve /\ lane'.read = lane.read
        /\ lane'.epoch = lane.epoch /\ lane'.initialized = lane.initialized
    BY ZenonT(60), <1>2, <2>1 DEF Types, LaneType
  <2> QED BY <1>2, <2>2, LaneCalm DEF Recheck, OnLane, histVars
<1>4. k \in JobType /\ b \in AllPlaces \ {"dead"} /\ k.msg = 0
  BY Zenon, <1>2, NoJobFacts DEF JobType, J, NoJob
<1>5. b # "idle" => Knows(p, b, k)
  BY SMTT(40), <1>2, <1>4
  DEF Knows, ControlInv, WriterInv, HelpInv, RecoverInv, ReaderInv, Place, JobType, J, NoJob
<1>6. p \in Writers => regHold[p] = p BY <1>1, <1>2, Actor
<1> HIDE DEF k, b, AllPlaces
<1> QED BY <1>1, <1>2, <1>3, <1>4, <1>5, <1>6, CalmStep

\* A reader woken by its bell looks again.
LEMMA AwakeKeeps ==
    ASSUME IInv, NEW p \in Readers, Awake(p)
    PROVE  IInv'
<1> DEFINE j == job[p]
<1>1. p \in Procs /\ Step(p, "asleep", "look", j) BY DEF Awake, Steps, Procs, J
<1>2. Knows(p, "asleep", j) /\ pc[p] = "asleep" /\ Types /\ j \in JobType
  BY <1>1, Actor, StepFacts
<1>3. Calm /\ lane' \in LaneType
  BY <1>2 DEF Awake, Calm, Types, laneVars, regVars, holdVars, wakeVars, histVars
<1>4. j \in JobType /\ "look" \in AllPlaces \ {"dead"}
  BY SMTT(40), <1>2, NoJobFacts DEF JobType, J, NoJob
<1>5. "look" # "idle" => Knows(p, "look", j)
  BY SMTT(40), <1>2, <1>4
  DEF Knows, ControlInv, WriterInv, HelpInv, RecoverInv, ReaderInv, Place, JobType, J
<1>6. p \in Writers => regHold[p] = p BY <1>1, <1>2, Actor
<1> HIDE DEF AllPlaces
<1> QED BY <1>1, <1>2, <1>3, <1>4, <1>5, <1>6, CalmStep

\* A reader counts itself among the waiters.
LEMMA RegisterKeeps ==
    ASSUME IInv, NEW p \in Readers, Register(p)
    PROVE  IInv'
<1> DEFINE j == job[p]
           k == [NoJob EXCEPT !.serving = TRUE]
<1>1. p \in Procs /\ Step(p, "register", "enter", k) BY DEF Register, Procs, J
<1>2. Knows(p, "register", j) /\ pc[p] = "register" /\ Types /\ j \in JobType
  BY <1>1, Actor, StepFacts
<1>3. Calm /\ lane' \in LaneType
  <2>1. lane' = [lane EXCEPT !.waiters = @ + 1] BY DEF Register, SetLane
  <2>2. /\ lane' \in LaneType /\ lane'.reserve = lane.reserve /\ lane'.read = lane.read
        /\ lane'.epoch = lane.epoch /\ lane'.initialized = lane.initialized
    BY Zenon, <1>2, <2>1, LaneNumbers DEF Types, LaneType
  <2> QED BY <1>2, <2>2, LaneCalm DEF Register, OnLane, histVars
<1>4. k \in JobType /\ "enter" \in AllPlaces \ {"dead"} /\ k.msg = 0
  BY ZenonT(60), <1>2, NoJobFacts DEF JobType, J, NoJob
<1>5. "enter" # "idle" => Knows(p, "enter", k)
  BY SMTT(40), <1>2, <1>4
  DEF Knows, ControlInv, WriterInv, HelpInv, RecoverInv, ReaderInv, Place, JobType, J, NoJob
<1>6. p \in Writers => regHold[p] = p BY <1>1, <1>2, Actor
<1> HIDE DEF k, AllPlaces
<1> QED BY <1>1, <1>2, <1>3, <1>4, <1>5, <1>6, CalmStep

\* A reader parks only if the wake word has not moved.
LEMMA EnterWaitKeeps ==
    ASSUME IInv, NEW p \in Readers, EnterWait(p)
    PROVE  IInv'
<1> DEFINE j == job[p]
           b == IF moved THEN "unparked" ELSE "parked"
<1>1. p \in Procs /\ Step(p, "enter", b, j) BY DEF EnterWait, Steps, Procs, J
<1>2. Knows(p, "enter", j) /\ pc[p] = "enter" /\ Types /\ j \in JobType
  BY <1>1, Actor, StepFacts
<1>3. Calm /\ lane' \in LaneType BY <1>2, ReadsCalm DEF EnterWait
<1>4. j \in JobType /\ b \in AllPlaces \ {"dead"}
  BY <1>2, NoJobFacts DEF JobType, J, NoJob
<1>5. b # "idle" => Knows(p, b, j)
  BY SMTT(40), <1>2, <1>4
  DEF Knows, ControlInv, WriterInv, HelpInv, RecoverInv, ReaderInv, Place, JobType, J
<1>6. p \in Writers => regHold[p] = p BY <1>1, <1>2, Actor
<1> HIDE DEF b, AllPlaces
<1> QED BY <1>1, <1>2, <1>3, <1>4, <1>5, <1>6, CalmStep

\* A reader takes itself off the waiters.
LEMMA UnparkKeeps ==
    ASSUME IInv, NEW p \in Readers, Unpark(p)
    PROVE  IInv'
<1> DEFINE j == job[p]
<1>1. p \in Procs /\ Step(p, "unparked", "look", j) BY DEF Unpark, Steps, Procs, J
<1>2. Knows(p, "unparked", j) /\ pc[p] = "unparked" /\ Types /\ j \in JobType
  BY <1>1, Actor, StepFacts
<1>3. Calm /\ lane' \in LaneType
  <2>1. lane' = [lane EXCEPT !.waiters = @ - 1] BY DEF Unpark, SetLane
  <2>2. /\ lane' \in LaneType /\ lane'.reserve = lane.reserve /\ lane'.read = lane.read
        /\ lane'.epoch = lane.epoch /\ lane'.initialized = lane.initialized
    BY Zenon, <1>2, <2>1, LaneNumbers DEF Types, LaneType
  <2> QED BY <1>2, <2>2, LaneCalm DEF Unpark, OnLane, histVars
<1>4. j \in JobType /\ "look" \in AllPlaces \ {"dead"}
  BY SMTT(40), <1>2, NoJobFacts DEF JobType, J, NoJob
<1>5. "look" # "idle" => Knows(p, "look", j)
  BY SMTT(40), <1>2, <1>4
  DEF Knows, ControlInv, WriterInv, HelpInv, RecoverInv, ReaderInv, Place, JobType, J
<1>6. p \in Writers => regHold[p] = p BY <1>1, <1>2, Actor
<1> HIDE DEF AllPlaces
<1> QED BY <1>1, <1>2, <1>3, <1>4, <1>5, <1>6, CalmStep

\* A reader sets out to leave.
LEMMA LeaveStartsKeeps ==
    ASSUME IInv, NEW p \in Readers, LeaveStarts(p)
    PROVE  IInv'
<1> DEFINE j == job[p]
           k == [NoJob EXCEPT !.after = "left"]
<1>1. p \in Procs /\ Step(p, "look", "release", k) BY DEF LeaveStarts, Procs, J
<1>2. Knows(p, "look", j) /\ pc[p] = "look" /\ Types /\ j \in JobType
  BY <1>1, Actor, StepFacts
<1>3. Calm /\ lane' \in LaneType BY <1>2, ReadsCalm DEF LeaveStarts
<1>4. k \in JobType /\ "release" \in AllPlaces \ {"dead"} /\ k.msg = 0
  BY ZenonT(60), <1>2, NoJobFacts DEF JobType, J, NoJob
<1>5. "release" # "idle" => Knows(p, "release", k)
  BY SMTT(40), <1>2, <1>4
  DEF Knows, ControlInv, WriterInv, HelpInv, RecoverInv, ReaderInv, Place, JobType, J, NoJob
<1>6. p \in Writers => regHold[p] = p BY <1>1, <1>2, Actor
<1> HIDE DEF k, AllPlaces
<1> QED BY <1>1, <1>2, <1>3, <1>4, <1>5, <1>6, CalmStep

-----------------------------------------------------------------------------
(***************************************************************************)
(* What a step leaves to the other processes                               *)
(***************************************************************************)

\* Positions, turns and intents only move forward, a record that is named
\* keeps its intent, and a turn that is claimed stays so until it is admitted.
Forward ==
    /\ bound' = bound
    /\ lane.reserve <= lane'.reserve /\ lane.read <= lane'.read
    /\ lane.initialized => lane'.initialized
    /\ sent <= sent'
    /\ \A i \in 0 .. Capacity - 1 : slot[i].seq <= slot'[i].seq
    /\ \A r \in Records : record[r].intent.pos <= record'[r].intent.pos
    /\ \A i \in 0 .. Capacity - 1 :
          LET c == slot[i].claim IN
          c.rec \in Records =>
             /\ record'[c.rec].intent = record[c.rec].intent
             /\ record[c.rec].intent.pos = slot[i].seq =>
                   \/ slot[i].seq < lane'.reserve
                   \/ slot'[i].claim.rec = c.rec /\ slot'[i].seq = slot[i].seq

\* Who holds a registration has its records, and the slots they reserve, to
\* itself.
SparesRecords(q) ==
    /\ \A o \in Writers : regHold[o] = q => regHold'[o] = q
    /\ \A r \in Records : regHold[r[1]] = q =>
          /\ record'[r] = record[r]
          /\ \A i \in 0 .. Capacity - 1 :
                /\ slot[i].claim = Reserved(r) => slot'[i] = slot[i]
                /\ slot'[i].claim = Reserved(r) => slot[i].claim = Reserved(r)
                /\ slot'[i].claim.rec = r => slot[i].claim.rec = r

\* Who holds the lane has the read position, the turns, and the slots of done
\* claims to itself.
SparesLane(q) ==
    laneHold = q =>
       /\ laneHold' = q /\ lane'.read = lane.read /\ lane'.epoch = lane.epoch
       /\ delivered' = delivered
       /\ \A i \in 0 .. Capacity - 1 :
             /\ slot'[i].seq = slot[i].seq
             /\ Done(slot[i].claim) => slot'[i] = slot[i]
             /\ slot[i].seq = lane.read + Capacity /\ ~Done(slot[i].claim)
                   => ~Done(slot'[i].claim)
       /\ Kept => Kept'

Spares(q) ==
    /\ SparesRecords(q) /\ SparesLane(q)
    /\ \A m \in 1 .. sent : m = job[q].msg => fate'[m] = fate[m]

\* What q knows survives a step of another that goes forward and spares q.
LEMMA Bystander ==
    ASSUME IInv, Types', Forward, NEW q \in Procs, Spares(q),
           pc'[q] = pc[q], job'[q] = job[q]
    PROVE  Knows(q, pc[q], job[q])'
<1> DEFINE h == pc[q]
           j == job[q]
           at == Place(h, j)
           i == At(j.pos)
           s == slot[i]
<1>1. /\ Types /\ Knows(q, h, j) /\ j \in JobType /\ j.pos \in Nat /\ i \in 0 .. Capacity - 1
      /\ s \in SlotType /\ s.seq \in Nat /\ s.claim \in ClaimType
  BY Actor DEF SlotType
<1>2. /\ bound' = bound /\ Capacity' = Capacity /\ Records' = Records
      /\ Capacity \in Nat \ {0} /\ At(j.pos)' = i /\ Place(pc[q], job[q])' = at
  BY <1>1, SameTypes, CapacityFacts DEF Forward, Types, At, Place
<1>3. /\ lane.reserve \in Nat /\ lane.read \in Nat /\ lane'.reserve \in Nat /\ lane'.read \in Nat
      /\ slot'[i].seq \in Nat /\ sent \in Nat /\ sent' \in Nat
      /\ lane.reserve <= lane'.reserve /\ lane.read <= lane'.read /\ sent <= sent'
      /\ s.seq <= slot'[i].seq
  BY Zenon, <1>1, <1>2, LaneNumbers DEF Forward, Types, LaneType, SlotType
<1>4. ControlInv(q, pc[q], job[q])' BY <1>1 DEF Knows, ControlInv, Place
<1>5. WriterInv(q, pc[q], job[q])'
  <2>1. WriterInv(q, h, j) BY <1>1 DEF Knows
  <2>2. q \in Writers /\ at # "dead" => regHold'[q] = q
    BY <2>1 DEF WriterInv, Spares, SparesRecords
  <2>3. at \in Unsent => j.msg \in 1 .. sent' /\ fate'[j.msg].pos = -1
    BY <1>3, <2>1 DEF WriterInv, Spares
  <2>4. at = "unwrite" => j.msg \in 1 .. sent' BY <1>3, <2>1 DEF WriterInv
  <2>5. at = "loadReserve" => j.read <= lane'.read
    <3>1. j.read \in Nat BY <1>1 DEF JobType
    <3> QED BY <1>3, <2>1, <3>1 DEF WriterInv
  <2>6. at \in Aimed =>
           j.pos <= lane'.reserve /\ j.pos < lane'.read + Capacity /\ j.pos <= slot'[i].seq
    <3>1. at \in Aimed =>
             j.pos <= lane.reserve /\ j.pos < lane.read + Capacity /\ j.pos <= s.seq
      BY <2>1 DEF WriterInv
    <3> HIDE DEF at
    <3> QED BY <1>1, <1>2, <1>3, <3>1
  <2>7. at \in Aiming \cup Recording => q \in Writers /\ regHold[q] = q
    BY <1>1, <2>1 DEF Knows, ControlInv, WriterInv
  <2>8. at \in Aiming =>
           \A r \in Records : r[1] = q => record'[r].intent.pos <= j.pos
    <3>1. at \in Aiming => \A r \in Records : r[1] = q => record[r].intent.pos <= j.pos
      BY <2>1 DEF WriterInv
    <3> HIDE DEF at
    <3> QED BY <2>7, <3>1 DEF Spares, SparesRecords
  <2>9. at \in Recording =>
           /\ j.rec \in Records /\ j.rec[1] = q /\ record'[j.rec] = record[j.rec]
           /\ \A x \in 0 .. Capacity - 1 :
                 /\ slot[x].claim = Reserved(j.rec) => slot'[x] = slot[x]
                 /\ slot'[x].claim.rec = j.rec => slot[x].claim.rec = j.rec
    BY <2>1, <2>7 DEF WriterInv, Spares, SparesRecords
  <2>10. at \in {"intent", "claim", "drop"} =>
            \A x \in 0 .. Capacity - 1 : slot'[x].claim.rec # j.rec
    BY <2>1, <2>9 DEF WriterInv, Unnamed
  <2>11. at \in Claimed => slot'[i] = s BY <1>1, <2>1, <2>9 DEF WriterInv
  <2> HIDE DEF at, i, s
  <2>12. at = "intent" => ~record'[j.rec].referenced BY <2>1, <2>9 DEF WriterInv, at
  <2>13. at \in Claimed \cup {"claim"} =>
            record'[j.rec].referenced /\ record'[j.rec].intent.pos = j.pos
    BY <2>1, <2>9 DEF WriterInv, at
  <2>14. /\ at \in Claimed => slot'[i].claim = Reserved(j.rec)
         /\ at = "rollback" => slot'[i].seq # j.pos
         /\ at \in InTurn => slot'[i].seq = j.pos
         /\ at = "commit" => slot'[i].body = j.msg
    BY <2>1, <2>11 DEF WriterInv, at, i, s
  <2>15. at \in {"payload", "commit"} => j.pos < lane'.reserve
    BY <1>1, <1>3, <2>1 DEF WriterInv, at
  <2>16. at \notin Unsent \cup {"unwrite"} => j.msg = 0 BY <2>1 DEF WriterInv, at
  <2> QED BY <1>2, <2>2, <2>3, <2>4, <2>5, <2>6, <2>8, <2>9, <2>10, <2>12, <2>13, <2>14,
             <2>15, <2>16
    DEF WriterInv, Unnamed, Reserved
<1>6. HelpInv(pc[q], job[q])'
  <2> DEFINE r == j.claim.rec
  <2>1. HelpInv(h, j) BY <1>1 DEF Knows
  <2>2. h \in Helps \ {"help"} => r \in Records BY <2>1 DEF HelpInv
  <2>3. h \in {"helpTurn", "helpAgain"} => j.intent.pos <= record'[r].intent.pos
    <3>1. h \in {"helpTurn", "helpAgain"} =>
             /\ j.intent.pos \in Nat /\ r \in Records /\ record[r].intent.pos \in Nat
             /\ j.intent.pos <= record[r].intent.pos
             /\ record'[r].intent.pos \in Nat
             /\ record[r].intent.pos <= record'[r].intent.pos
      BY ZenonT(60), <1>1, <1>2, <2>1, SameTypes
      DEF HelpInv, Forward, JobType, IntentType, Types, RecordType
    <3> QED BY <3>1
  <2>4. h = "helpAgain" => j.intent.pos = j.pos /\ j.pos <= slot'[i].seq
    BY <1>1, <1>3, <2>1 DEF HelpInv
  <2>5. h = "helpAdmit" =>
           \/ j.pos < lane'.reserve
           \/ slot'[i].claim.rec = r /\ record'[r].intent.pos = j.pos /\ slot'[i].seq = j.pos
    <3> SUFFICES ASSUME h = "helpAdmit", ~(j.pos < lane'.reserve)
                 PROVE  slot'[i].claim.rec = r /\ record'[r].intent.pos = j.pos
                        /\ slot'[i].seq = j.pos
      OBVIOUS
    <3>1. s.claim.rec = r /\ record[r].intent.pos = j.pos /\ s.seq = j.pos /\ r \in Records
      BY <1>1, <1>3, <2>1 DEF HelpInv
    <3> QED BY SMTT(40), <1>1, <3>1 DEF Forward
  <2> QED BY <1>2, <2>2, <2>3, <2>4, <2>5 DEF HelpInv
<1>7. RecoverInv(q, pc[q], job[q])'
  <2>1. RecoverInv(q, h, j) BY <1>1 DEF Knows
  <2>2. at \in Recovery =>
           j.who \in Writers /\ regHold'[j.who] = q /\ \A r \in j.recs : r[1] = j.who
    BY <2>1 DEF RecoverInv, Spares, SparesRecords
  <2>3. at \in Recovery \ {"records"} =>
           /\ j.rec \in Records /\ j.rec[1] = j.who /\ record'[j.rec] = record[j.rec]
           /\ s.claim = Reserved(j.rec) => slot'[i] = s
           /\ slot'[i].claim = Reserved(j.rec) => s.claim = Reserved(j.rec)
    BY <1>1, <2>1 DEF RecoverInv, Spares, SparesRecords
  <2>4. j.turn \in Nat BY <1>1 DEF JobType
  <2> HIDE DEF at, i, s
  <2>5. at \in Looking => record'[j.rec].referenced /\ record'[j.rec].intent.pos = j.pos
    BY <2>1, <2>3 DEF RecoverInv, at
  <2>6. at = "recClaim" => j.turn <= slot'[i].seq /\ j.pos <= j.turn
    BY <1>1, <1>3, <2>1, <2>4 DEF RecoverInv, at, i, s
  <2>7. at = "recCancel" \/ (at = "recClaim" /\ j.turn = j.pos) =>
           slot'[i].claim # Reserved(j.rec) \/ slot'[i].seq = j.pos
    BY <2>1, <2>3 DEF RecoverInv, at, i, s
  <2>8. at = "recRollback" => slot'[i].claim = Reserved(j.rec) /\ slot'[i].seq # j.pos
    BY <2>1, <2>3 DEF RecoverInv, at, i, s
  <2> QED BY <1>2, <2>2, <2>3, <2>5, <2>6, <2>7, <2>8 DEF RecoverInv, Reserved
<1>8. ReaderInv(q, pc[q], job[q])'
  <2>1. ReaderInv(q, h, j) BY SMTT(40), <1>1 DEF Knows
  <2>2. CASE laneHold # q
    <3>1. at \notin Owning /\ ~j.serving BY SMTT(40), <2>1, <2>2 DEF ReaderInv
    <3> QED BY SMTT(40), <1>2, <3>1 DEF ReaderInv
  <2>3. CASE laneHold = q
    <3>1. /\ laneHold' = q /\ lane'.read = lane.read /\ lane'.epoch = lane.epoch
          /\ delivered' = delivered /\ (Kept => Kept')
          /\ slot'[i].seq = s.seq /\ (Done(s.claim) => slot'[i] = s)
          /\ s.seq = lane.read + Capacity /\ ~Done(s.claim) => ~Done(slot'[i].claim)
      BY <1>1, <2>3 DEF Spares, SparesLane
    <3>2. Done(s.claim) => record'[s.claim.rec].intent = record[s.claim.rec].intent
      <4>1. SharedInv /\ ClaimInv BY DEF IInv, SharedInv
      <4>2. Done(s.claim) => s.claim.rec \in Records
        BY Zenon, <1>1, <4>1, FreeFacts DEF ClaimInv
      <4> QED BY <1>1, <4>2 DEF Forward
    <3>3. Passed' <=> Passed BY <3>1 DEF Passed
    <3>4. lane.initialized => lane'.initialized BY DEF Forward
    <3>5. s.claim.state = "committed" => Done(s.claim) BY DEF Done
    <3>6. j.pos = lane.read => j.pos + Capacity = lane.read + Capacity BY SMTT(40)
    <3> HIDE DEF at, i, s
    <3>7. at \in AtHead => j.pos = lane'.read /\ lane'.read < lane'.reserve
      BY SMTT(40), <1>3, <2>1, <3>1 DEF ReaderInv, at
    <3>8. at \in AtHead \cup Reading \cup {"resetEpoch"} => lane'.initialized
      BY SMTT(40), <2>1, <3>4 DEF ReaderInv, at
    <3>9. /\ at = "resetLate" => slot'[i].seq = j.pos + Capacity
          /\ at \in {"resetClaim", "readIntent", "copy"} => slot'[i].seq = j.pos
          /\ at \in {"consumeFree", "consumeHead"} => slot'[i].seq = j.pos + Capacity
      BY SMTT(40), <2>1, <3>1 DEF ReaderInv, at, i, s
    <3>10. /\ at = "readIntent" => j.claim = slot'[i].claim /\ Done(slot'[i].claim)
           /\ at = "copy" => /\ slot'[i].claim.state = "committed"
                             /\ record'[slot'[i].claim.rec].intent.epoch = lane'.epoch
           /\ at \in {"consumeTurn", "consumeFree"} =>
                 Done(slot'[i].claim) /\ record'[slot'[i].claim.rec].intent.pos = j.pos
      BY SMTT(40), <2>1, <3>1, <3>2, <3>5 DEF ReaderInv, at, i, s
    <3>11. at = "consumeHead" => ~Done(slot'[i].claim)
      BY <2>1, <3>1, <3>6 DEF ReaderInv, at, i, s
    <3>12. /\ at = "consumeTurn" /\ j.then = "look" =>
                 \E x \in DOMAIN delivered' : delivered'[x].msg = slot'[i].body
           /\ at = "consumeTurn" /\ j.then = "readHead" =>
                 \/ slot'[i].claim.state = "cancelled"
                 \/ record'[slot'[i].claim.rec].intent.epoch # lane'.epoch
      BY <2>1, <3>1, <3>2 DEF ReaderInv, at, i, s
    <3> QED BY <1>2, <2>1, <3>1, <3>3, <3>7, <3>8, <3>9, <3>10, <3>11, <3>12
      DEF ReaderInv, at, Done
  <2> QED BY <2>2, <2>3
<1> QED BY <1>4, <1>5, <1>6, <1>7, <1>8 DEF Knows

SharedTypes ==
    /\ bound \in Bounds
    /\ lane \in LaneType
    /\ slot \in [0 .. Capacity - 1 -> SlotType]
    /\ record \in [Records -> RecordType]
    /\ owner \in [Writers -> [gen : Nat, active : BOOLEAN]]
    /\ laneHold \in Procs \cup {Nobody}
    /\ regHold \in [Writers -> Procs \cup {Nobody}]
    /\ sent \in Nat /\ sent <= bound.writes
    /\ fate \in [1 .. bound.writes -> [pos : Int, epoch : Nat]]
    /\ delivered \in Seq([pos : Nat, msg : Nat])

\* The numbers of the shared memory.
LEMMA SharedNumbers ==
    ASSUME Types
    PROVE  /\ lane.reserve \in Nat /\ lane.read \in Nat /\ lane.epoch \in Nat /\ sent \in Nat
           /\ Capacity \in Nat \ {0}
           /\ \A i \in 0 .. Capacity - 1 :
                 slot[i] \in SlotType /\ slot[i].seq \in Nat /\ slot[i].claim \in ClaimType
           /\ \A r \in Records : record[r].intent.pos \in Nat /\ record[r].intent.epoch \in Nat
<1>1. \A r \in Records : record[r].intent \in IntentType BY DEF Types, RecordType
<1> QED BY Zenon, <1>1, LaneNumbers, CapacityFacts DEF Types, SlotType, IntentType

\* A step of process p leaves the lane sound and the others what is theirs.
Sound(p) ==
    /\ SharedTypes' /\ SharedInv' /\ Forward
    /\ \A q \in Procs \ {p} : Spares(q)

\* A sound step keeps the invariant if its process knows what its next place
\* asks.
LEMMA SoundStep ==
    ASSUME IInv, NEW p \in Procs, NEW a, NEW b \in AllPlaces, NEW k \in JobType,
           Step(p, a, b, k), Sound(p),
           b \notin {"idle", "dead"} => k.msg \in {0, job[p].msg},
           Knows(p, pc[p], job[p])'
    PROVE  IInv'
<1>1. Types /\ MessageInv BY DEF IInv
<1>2. /\ pc'[p] = b /\ job'[p] = (IF b \in {"idle", "dead"} THEN NoJob ELSE k)
      /\ \A q \in Procs \ {p} : pc'[q] = pc[q] /\ job'[q] = job[q]
      /\ pc' \in [Procs -> AllPlaces] /\ job' \in [Procs -> JobType]
  BY <1>1, StepFacts
<1>3. bound' = bound BY DEF Sound, Forward
<1>4. Types' BY <1>2, <1>3, SameTypes DEF Sound, SharedTypes, Types, AllPlaces
<1>5. MessageInv' BY <1>1, <1>2, NoJobFacts DEF MessageInv
<1>6. \A q \in Procs : Knows(q, pc[q], job[q])'
  <2> SUFFICES ASSUME NEW q \in Procs, q # p PROVE Knows(q, pc[q], job[q])' OBVIOUS
  <2> QED BY <1>2, <1>4, Bystander DEF Sound
<1> QED BY <1>4, <1>5, <1>6 DEF IInv, Sound

\* What a process knows after such a step at a place of no consequence.
LEMMA NothingKnownNext ==
    ASSUME NEW p \in Procs, pc'[p] \in Outside, job'[p] \in JobType,
           job'[p].msg = 0, ~job'[p].serving,
           p \in Writers /\ pc'[p] # "dead" => regHold'[p] = p
    PROVE  Knows(p, pc[p], job[p])'
<1> DEFINE b == pc'[p]
<1>1. Place(pc[p], job[p])' = b /\ b \notin Wakes \cup Helps BY DEF Place
<1>2. ControlInv(p, pc[p], job[p])' BY <1>1 DEF ControlInv
<1>3. WriterInv(p, pc[p], job[p])' BY <1>1 DEF WriterInv
<1>4. HelpInv(pc[p], job[p])' BY <1>1 DEF HelpInv
<1>5. RecoverInv(p, pc[p], job[p])' BY SMTT(40), <1>1 DEF RecoverInv
<1>6. ReaderInv(p, pc[p], job[p])' BY SMTT(40), <1>1 DEF ReaderInv
<1> QED BY <1>2, <1>3, <1>4, <1>5, <1>6 DEF Knows

\* What ClaimInv says of one slot, before and after a step.
LEMMA ClaimFacts ==
    ASSUME Types, ClaimInv, NEW y \in 0 .. Capacity - 1, slot[y].claim # Free
    PROVE  LET s == slot[y]
               c == s.claim
               n == record[c.rec].intent
           IN  /\ c.rec \in Records /\ c.state # "free"
               /\ record[c.rec].referenced /\ At(n.pos) = y
               /\ Done(c) => s.seq = n.pos \/ (s.seq = n.pos + Capacity /\ lane.read = n.pos)
               /\ c.state = "committed" =>
                     /\ n.pos < lane.reserve
                     /\ s.body \in 1 .. sent
                     /\ fate[s.body] = [pos |-> n.pos, epoch |-> n.epoch]
                     /\ fate[s.body].pos = n.pos /\ fate[s.body].epoch = n.epoch
BY SMTT(40) DEF ClaimInv, PosOf

\* ClaimInv of the next state, for a step that keeps the bounds.
LEMMA ClaimNext ==
    ASSUME bound' = bound,
           \A y \in 0 .. Capacity - 1 :
              LET s == slot'[y]
                  c == s.claim
                  n == record'[c.rec].intent
              IN  c # Free =>
                  /\ c.rec \in Records /\ c.state # "free"
                  /\ record'[c.rec].referenced /\ At(n.pos) = y
                  /\ Done(c) => s.seq = n.pos \/ (s.seq = n.pos + Capacity
                                                  /\ lane'.read = n.pos)
                  /\ c.state = "committed" =>
                        /\ n.pos < lane'.reserve
                        /\ s.body \in 1 .. sent'
                        /\ fate'[s.body] = [pos |-> n.pos, epoch |-> n.epoch]
    PROVE  ClaimInv'
BY SameTypes DEF ClaimInv, PosOf, Done, At, Free

-----------------------------------------------------------------------------
(***************************************************************************)
(* The steps that change the lane                                          *)
(***************************************************************************)

\* The locks and the registrations change.
LEMMA HoldsSound ==
    ASSUME IInv, NEW p \in Procs,
           UNCHANGED <<laneVars, record, bound, sent, fate, delivered, malformed>>,
           owner' \in [Writers -> [gen : Nat, active : BOOLEAN]],
           laneHold' \in Procs \cup {Nobody},
           regHold' \in [Writers -> Procs \cup {Nobody}],
           \A r \in Records : record[r].referenced => owner'[r[1]].gen = owner[r[1]].gen,
           \A q \in Procs \ {p} : laneHold = q => laneHold' = q,
           \A q \in Procs \ {p} : \A o \in Writers : regHold[o] = q => regHold'[o] = q
    PROVE  Sound(p)
<1>1. Types /\ SharedInv BY DEF IInv
<1>2. /\ bound' = bound /\ lane' = lane /\ slot' = slot /\ record' = record /\ sent' = sent
      /\ fate' = fate /\ delivered' = delivered /\ malformed' = malformed
  BY DEF laneVars
<1>3. /\ Capacity' = Capacity /\ Records' = Records /\ SlotType' = SlotType
      /\ RecordType' = RecordType /\ LaneType' = LaneType
  BY <1>2, SameTypes
<1>4. SharedTypes' BY <1>1, <1>2, <1>3 DEF SharedTypes, Types
<1>5. SharedInv'
  <2>1. ClaimInv' BY <1>1, <1>2, <1>3 DEF SharedInv, ClaimInv, PosOf, Done, At, Free
  <2>2. RecordInv' BY <1>1, <1>2, <1>3 DEF SharedInv, RecordInv, At
  <2>3. LaneInv' BY SMTT(40), <1>1, <1>2, <1>3 DEF SharedInv, LaneInv, At, PosOf
  <2>4. FateInv' BY <1>1, <1>2, <1>3 DEF SharedInv, FateInv, InSlot, At
  <2>5. DeliveredInv'
    BY <1>1, <1>2 DEF SharedInv, DeliveredInv, DeliveredOnceInTurn, NeverMalformed
  <2> QED BY SMTT(40), <2>1, <2>2, <2>3, <2>4, <2>5 DEF SharedInv
<1>6. Forward
  BY <1>1, <1>2, SharedNumbers DEF Forward
<1>7. Kept' <=> Kept BY <1>2, <1>3 DEF Kept, Queued, At
<1>8. \A q \in Procs \ {p} : Spares(q)
  BY <1>2, <1>7 DEF Spares, SparesRecords, SparesLane
<1> QED BY <1>4, <1>5, <1>6, <1>8 DEF Sound

\* A record of a registration that p holds changes.  Only a record that no
\* claim names gets another intent or is given up.
LEMMA RecordSound ==
    ASSUME IInv, NEW p \in Procs, NEW r \in Records, NEW v \in RecordType,
           SetRecord(r, v), OnRecord, regHold[r[1]] = p,
           Unnamed(r) \/ (v.referenced = record[r].referenced /\ v.stable = record[r].stable
                          /\ v.intent = record[r].intent),
           record[r].intent.pos <= v.intent.pos,
           v.intent = record[r].intent \/ lane.initialized,
           v.intent.pos <= lane.reserve, v.intent.epoch <= lane.epoch,
           v.referenced => /\ v.stable /\ v.intent.gen = owner[r[1]].gen
                           /\ v.intent.pos < lane.read + Capacity
                           /\ v.intent.pos <= slot[At(v.intent.pos)].seq
                           /\ lane.initialized
    PROVE  Sound(p)
<1>1. Types /\ SharedInv BY DEF IInv
<1>2. /\ bound' = bound /\ lane' = lane /\ slot' = slot /\ sent' = sent /\ owner' = owner
      /\ fate' = fate /\ delivered' = delivered /\ malformed' = malformed
      /\ laneHold' = laneHold /\ regHold' = regHold
      /\ record' = [record EXCEPT ![r] = v]
  BY DEF OnRecord, laneVars, holdVars, histVars, SetRecord
<1>3. /\ Capacity' = Capacity /\ Records' = Records /\ SlotType' = SlotType
      /\ RecordType' = RecordType /\ LaneType' = LaneType
  BY <1>2, SameTypes
<1>4. SharedTypes' BY <1>1, <1>2, <1>3 DEF SharedTypes, Types
<1>5. record'[r] = v /\ \A x \in Records \ {r} : record'[x] = record[x]
  BY <1>1, <1>2 DEF Types
<1>6. \A i \in 0 .. Capacity - 1 :
         LET c == slot[i].claim IN
         c.rec \in Records =>
            /\ record'[c.rec].referenced = record[c.rec].referenced
            /\ record'[c.rec].intent = record[c.rec].intent
  BY <1>5 DEF Unnamed
<1>7. \A i \in 0 .. Capacity - 1 : slot[i].claim # Free => slot[i].claim.rec \in Records
  BY Zenon, <1>1 DEF SharedInv, ClaimInv
<1>8. \A i \in 0 .. Capacity - 1 :
         slot[i].claim.state = "committed" => slot[i].claim # Free
  BY FreeFacts
<1>9. SharedInv'
  <2>1. ClaimInv'
    <3>1. ASSUME NEW y \in 0 .. Capacity - 1, slot[y].claim # Free
          PROVE  LET s == slot[y]
                     c == s.claim
                     n == record'[c.rec].intent
                 IN  /\ c.rec \in Records /\ c.state # "free"
                     /\ record'[c.rec].referenced /\ At(n.pos) = y
                     /\ Done(c) => s.seq = n.pos \/ (s.seq = n.pos + Capacity
                                                     /\ lane.read = n.pos)
                     /\ c.state = "committed" =>
                           /\ n.pos < lane.reserve
                           /\ s.body \in 1 .. sent
                           /\ fate[s.body] = [pos |-> n.pos, epoch |-> n.epoch]
      <4>1. SharedInv /\ ClaimInv BY <1>1 DEF SharedInv
      <4>2. LET c == slot[y].claim IN
            /\ c.rec \in Records /\ record'[c.rec].referenced = record[c.rec].referenced
            /\ record'[c.rec].intent = record[c.rec].intent
        BY <1>6, <1>7, <3>1
      <4> QED BY Zenon, <1>1, <3>1, <4>1, <4>2, ClaimFacts
    <3> QED BY ZenonT(60), <1>2, <3>1, ClaimNext
  <2>2. RecordInv' BY <1>1, <1>2, <1>3, <1>5 DEF SharedInv, RecordInv, At
  <2>3. LaneInv' BY SMTT(40), <1>1, <1>2, <1>3, <1>5, <1>6, <1>7 DEF SharedInv, LaneInv, At, PosOf
  <2>4. FateInv'
    <3> SUFFICES ASSUME NEW m \in 1 .. bound.writes, fate[m].pos # -1, lane.read <= fate[m].pos
                 PROVE  InSlot(m)'
      BY <1>1, <1>2 DEF SharedInv, FateInv
    <3>1. InSlot(m) /\ fate[m].pos \in 0 .. lane.reserve - 1
      BY <1>1 DEF SharedInv, FateInv
    <3>2. At(fate[m].pos) \in 0 .. Capacity - 1
      <4>1. fate[m].pos \in Nat BY <1>1, <3>1, LaneNumbers
      <4> QED BY Zenon, <1>1, <4>1, CapacityFacts DEF Types
    <3> QED BY <1>2, <1>3, <1>6, <1>7, <1>8, <3>1, <3>2 DEF InSlot, At
  <2>5. DeliveredInv'
    BY <1>1, <1>2 DEF SharedInv, DeliveredInv, DeliveredOnceInTurn, NeverMalformed
  <2> QED BY <2>1, <2>2, <2>3, <2>4, <2>5 DEF SharedInv
<1>10. Forward
  BY <1>1, <1>2, <1>5, <1>6, SharedNumbers DEF Forward
<1>11. Kept' <=> Kept BY <1>2, <1>3 DEF Kept, Queued, At
<1>12. \A q \in Procs \ {p} : Spares(q)
  BY <1>2, <1>5, <1>11 DEF Spares, SparesRecords, SparesLane
<1> QED BY <1>4, <1>9, <1>10, <1>12 DEF Sound

\* A turn is admitted that is claimed for the present turn of its slot.
LEMMA AdmitSound ==
    ASSUME IInv, NEW p \in Procs, NEW x \in Nat, SetLane(AdmittedAt(x)), OnLane,
           \/ x < lane.reserve
           \/ /\ slot[At(x)].claim.rec \in Records /\ slot[At(x)].seq = x
              /\ record[slot[At(x)].claim.rec].intent.pos = x
    PROVE  Sound(p)
<1>1. Types /\ SharedInv BY DEF IInv
<1>2. /\ bound' = bound /\ slot' = slot /\ record' = record /\ owner' = owner
      /\ laneHold' = laneHold /\ regHold' = regHold /\ sent' = sent
      /\ fate' = fate /\ delivered' = delivered /\ malformed' = malformed
      /\ lane' = AdmittedAt(x)
  BY DEF OnLane, regVars, holdVars, histVars, SetLane
<1>3. CASE lane.reserve # x
  <2>1. lane' = lane BY <1>2, <1>3 DEF AdmittedAt
  <2> QED BY Zenon, <1>1, <1>2, <2>1, HoldsSound DEF laneVars, Types
<1>4. CASE lane.reserve = x
  <2> DEFINE i == At(x)
             c == slot[i].claim
  <2>1. lane' = [lane EXCEPT !.reserve = x + 1] BY <1>2, <1>4 DEF AdmittedAt
  <2>2. /\ lane' \in LaneType /\ lane'.reserve = x + 1 /\ lane'.read = lane.read
        /\ lane'.epoch = lane.epoch /\ lane'.initialized = lane.initialized
    BY Zenon, <1>1, <1>4, <2>1, LaneNumbers DEF Types, LaneType
  <2>3. c.rec \in Records /\ slot[i].seq = x /\ record[c.rec].intent.pos = x BY <1>4
  <2>4. i \in 0 .. Capacity - 1 BY <1>1, CapacityFacts DEF Types
  <2>5. c # Free BY SMTT(40), <1>1, <2>3, FreeFacts, RecordFacts, SharedNumbers
  <2>6. record[c.rec].referenced BY Zenon, <1>1, <2>4, <2>5 DEF SharedInv, ClaimInv
  <2>7. x < lane.read + Capacity /\ lane.initialized
    BY <1>1, <2>3, <2>4, <2>5, <2>6 DEF SharedInv, RecordInv, LaneInv
  <2>8. /\ Capacity' = Capacity /\ Records' = Records /\ SlotType' = SlotType
        /\ RecordType' = RecordType /\ LaneType' = LaneType
    BY <1>2, SameTypes
  <2>9. SharedTypes' BY <1>1, <1>2, <2>2, <2>8 DEF SharedTypes, Types
  <2>10. SharedInv'
    <3>1. ClaimInv'
      <4> SUFFICES ASSUME NEW y \in 0 .. Capacity - 1, slot[y].claim # Free,
                          slot[y].claim.state = "committed"
                   PROVE  PosOf(slot[y].claim) < lane'.reserve
        BY Zenon, <1>1, <1>2, <2>2, <2>8 DEF SharedInv, ClaimInv, PosOf, Done, At, Free
      <4>1. /\ PosOf(slot[y].claim) < lane.reserve /\ slot[y].claim.rec \in Records
        BY Zenon, <1>1 DEF SharedInv, ClaimInv
      <4> QED BY SMTT(40), <1>1, <1>4, <2>2, <4>1, SharedNumbers DEF PosOf
    <3>2. RecordInv' BY <1>1, <1>2, <1>4, <2>2, <2>8, SharedNumbers DEF SharedInv, RecordInv, At
    <3>3. LaneInv'
      <4>1. lane'.read <= lane'.reserve /\ lane'.reserve <= lane'.read + Capacity
        BY <1>1, <1>4, <2>2, <2>7, SharedNumbers DEF SharedInv, LaneInv
      <4>2. ASSUME NEW y \in 0 .. Capacity - 1
            PROVE  LET s == slot[y] IN
                   /\ At(s.seq) = y /\ lane.read <= s.seq /\ s.seq <= lane.read + Capacity
                   /\ s.seq < lane'.reserve + Capacity
                   /\ s.seq < lane'.reserve => s.claim # Free /\ PosOf(s.claim) = s.seq
        <5> DEFINE s == slot[y]
        <5>1. /\ At(s.seq) = y /\ lane.read <= s.seq /\ s.seq <= lane.read + Capacity
              /\ s.seq < lane.reserve + Capacity
              /\ s.seq < lane.reserve => s.claim # Free /\ PosOf(s.claim) = s.seq
          BY <1>1, <2>7 DEF SharedInv, LaneInv
        <5>2. s.seq \in Nat BY <1>1, SharedNumbers
        <5>3. s.seq = x => y = i BY SMTT(40), <5>1
        <5> QED BY <1>1, <1>4, <2>2, <2>3, <2>5, <5>1, <5>2, <5>3, SharedNumbers DEF PosOf
      <4> QED BY <1>2, <2>2, <2>7, <2>8, <4>1, <4>2 DEF LaneInv, At, PosOf
    <3>4. FateInv'
      <4>1. ASSUME NEW m \in 1 .. bound.writes, fate[m].pos # -1
            PROVE  fate[m].pos \in 0 .. lane'.reserve - 1
        <5>1. fate[m].pos \in 0 .. lane.reserve - 1 BY <1>1, <4>1 DEF SharedInv, FateInv
        <5> QED BY <1>4, <2>2, <5>1
      <4> QED BY <1>1, <1>2, <2>2, <2>8, <4>1 DEF SharedInv, FateInv, InSlot, At
    <3>5. DeliveredInv'
      BY <1>1, <1>2, <2>2 DEF SharedInv, DeliveredInv, DeliveredOnceInTurn, NeverMalformed
    <3> QED BY <3>1, <3>2, <3>3, <3>4, <3>5 DEF SharedInv
  <2>11. Forward BY <1>1, <1>2, <1>4, <2>2, SharedNumbers DEF Forward
  <2>12. Kept => Kept'
    BY <1>1, <1>2, <1>4, <2>2, <2>8, SharedNumbers DEF Kept, Queued, At
  <2>13. \A q \in Procs \ {p} : Spares(q)
    BY <1>2, <2>2, <2>12 DEF Spares, SparesRecords, SparesLane
  <2> QED BY <2>9, <2>10, <2>11, <2>13 DEF Sound
<1> QED BY <1>3, <1>4

\* Message m, which only p has, is committed in slot v for record r.
Commits(p, r, v, m) ==
    /\ m \in 1 .. sent /\ fate[m].pos = -1
    /\ v.claim.state = "committed" /\ v.body = m
    /\ record[r].intent.pos < lane.reserve
    /\ fate' = [fate EXCEPT ![m] = [pos |-> record[r].intent.pos,
                                    epoch |-> record[r].intent.epoch]]
    /\ \A q \in Procs \ {p} : job[q].msg # m

\* One slot changes, which is free or reserved for a record that p holds: it is
\* reserved for that record, given up, written, cancelled or committed.
LEMMA SlotSound ==
    ASSUME IInv, NEW p \in Procs, NEW i \in 0 .. Capacity - 1, NEW r \in Records,
           NEW v \in SlotType, NEW m, slot' = [slot EXCEPT ![i] = v],
           UNCHANGED <<bound, lane, owner, laneHold, regHold, sent, delivered, malformed>>,
           record' \in [Records -> RecordType],
           \A x \in Records \ {r} : record'[x] = record[x],
           record'[r].intent = record[r].intent,
           record'[r].referenced => record'[r] = record[r],
           regHold[r[1]] = p, record[r].referenced, At(record[r].intent.pos) = i,
           slot[i].claim \in {Free, Reserved(r)}, v.seq = slot[i].seq,
           \/ v.claim = Free
           \/ v.claim.rec = r /\ v.claim.state # "free" /\ record'[r] = record[r],
           v.claim = Free => slot[i].claim = Reserved(r)
                             /\ slot[i].seq # record[r].intent.pos,
           Done(v.claim) => slot[i].seq = record[r].intent.pos,
           (fate' = fate /\ v.claim.state # "committed") \/ Commits(p, r, v, m)
    PROVE  Sound(p)
<1> DEFINE n == record[r].intent
<1> USE DEF Commits
<1>1. Types /\ SharedInv BY DEF IInv
<1>2. /\ bound' = bound /\ lane' = lane /\ owner' = owner
      /\ laneHold' = laneHold /\ regHold' = regHold /\ sent' = sent
      /\ delivered' = delivered /\ malformed' = malformed
  OBVIOUS
<1>3. /\ Capacity' = Capacity /\ Records' = Records /\ SlotType' = SlotType
      /\ RecordType' = RecordType /\ LaneType' = LaneType
  BY <1>2, SameTypes
<1>4. /\ slot' \in [0 .. Capacity - 1 -> SlotType] /\ slot'[i] = v
      /\ \A y \in (0 .. Capacity - 1) \ {i} : slot'[y] = slot[y]
      /\ \A y \in 0 .. Capacity - 1 : slot'[y].seq = slot[y].seq
  <2>1. slot \in [0 .. Capacity - 1 -> SlotType] BY <1>1 DEF Types
  <2> QED BY <2>1
<1>5. n.pos \in Nat /\ n.epoch \in Nat BY <1>1, SharedNumbers
<1>6. /\ \A x \in 1 .. bound.writes : fate'[x] = fate[x] \/ (x = m /\ fate[m].pos = -1)
      /\ fate' \in [1 .. bound.writes -> [pos : Int, epoch : Nat]]
  <2>1. fate \in [1 .. bound.writes -> [pos : Int, epoch : Nat]] BY <1>1 DEF Types
  <2>2. [pos |-> n.pos, epoch |-> n.epoch] \in [pos : Int, epoch : Nat] BY <1>5
  <2> QED BY Zenon, <2>1, <2>2
<1>7. SharedTypes' BY <1>1, <1>2, <1>3, <1>4, <1>6 DEF SharedTypes, Types
<1>8. /\ ~Done(slot[i].claim) /\ slot[i].claim.state # "committed"
      /\ slot[i].claim.rec \in Records => slot[i].claim = Reserved(r)
      /\ v.claim.rec \in Records => v.claim.rec = r
      /\ Reserved(r).rec = r /\ Free.rec \notin Records /\ Free.state # "committed"
      /\ ~Done(Free) /\ \A x : Reserved(x).rec = x
      /\ r \in Records /\ v.claim # Free => v.claim.rec = r
  BY <1>1, FreeFacts, RecordFacts, SharedNumbers
<1>9. /\ \A x \in Records : record'[x].intent = record[x].intent
      /\ \A x \in Records : record'[x].referenced => record'[x] = record[x]
  BY SMTT(40)
<1>10. \A y \in (0 .. Capacity - 1) \ {i} :
          slot[y].claim # Free => slot[y].claim.rec \in Records \ {r}
  BY ZenonT(60), <1>1 DEF SharedInv, ClaimInv, PosOf
<1>11. SharedInv'
  <2>1. ClaimInv'
    <3> DEFINE Fine(y) ==
                  LET s == slot'[y]
                      c == s.claim
                      o == record'[c.rec].intent
                  IN  /\ c.rec \in Records /\ c.state # "free"
                      /\ record'[c.rec].referenced /\ At(o.pos) = y
                      /\ Done(c) => s.seq = o.pos \/ (s.seq = o.pos + Capacity
                                                      /\ lane'.read = o.pos)
                      /\ c.state = "committed" =>
                            /\ o.pos < lane'.reserve
                            /\ s.body \in 1 .. sent'
                            /\ fate'[s.body] = [pos |-> o.pos, epoch |-> o.epoch]
    <3> SUFFICES ASSUME NEW y \in 0 .. Capacity - 1, slot'[y].claim # Free
                 PROVE  Fine(y)
      BY Zenon, <1>2, ClaimNext
    <3>1. CASE y = i
      <4>1. fate \in [1 .. bound.writes -> [pos : Int, epoch : Nat]] /\ sent <= bound.writes
            /\ sent \in Nat /\ bound.writes \in Nat
        BY <1>1, NumbersAssumption DEF Types
      <4>2. v.claim.state = "committed" =>
               v.body \in 1 .. sent /\ fate'[v.body] = [pos |-> n.pos, epoch |-> n.epoch]
        BY SMTT(40), <4>1
      <4> QED BY <1>2, <1>4, <1>8, <3>1, <4>2
    <3>2. CASE y # i
      <4>1. slot'[y] = slot[y] BY <1>4, <3>2
      <4>2. slot[y].claim.rec \in Records \ {r} BY <1>10, <3>2, <4>1
      <4>3. record'[slot[y].claim.rec] = record[slot[y].claim.rec] BY <4>2
      <4>4. slot[y].claim.state = "committed" =>
               fate'[slot[y].body] = fate[slot[y].body]
        <5>1. slot[y].claim.state = "committed" =>
                 /\ slot[y].body \in 1 .. sent
                 /\ fate[slot[y].body].pos = record[slot[y].claim.rec].intent.pos
          BY ZenonT(60), <1>1, <4>1, ClaimFacts DEF SharedInv
        <5>2. record[slot[y].claim.rec].intent.pos \in Nat /\ sent \in Nat
              /\ bound.writes \in Nat /\ sent <= bound.writes
          BY Zenon, <1>1, <4>2, SharedNumbers, NumbersAssumption DEF Types
        <5>3. slot[y].claim.state = "committed" =>
                 slot[y].body \in 1 .. bound.writes /\ fate[slot[y].body].pos # -1
          BY <5>1, <5>2
        <5> QED BY SMTT(40), <1>6, <5>3
      <4>5. slot[y].claim # Free BY <4>1
      <4> HIDE DEF n
      <4>6. SharedInv /\ ClaimInv /\ Types BY <1>1 DEF SharedInv
      <4> DEFINE s == slot[y]
                 c == s.claim
                 o == record[c.rec].intent
      <4>7. /\ c.rec \in Records /\ c.state # "free"
            /\ record[c.rec].referenced /\ At(o.pos) = y
            /\ Done(c) => s.seq = o.pos \/ (s.seq = o.pos + Capacity /\ lane.read = o.pos)
            /\ c.state = "committed" =>
                  /\ o.pos < lane.reserve /\ s.body \in 1 .. sent
                  /\ fate[s.body] = [pos |-> o.pos, epoch |-> o.epoch]
        BY Zenon, <4>5, <4>6, ClaimFacts
      <4>8. slot'[y] = s /\ record'[c.rec] = record[c.rec] BY <4>1, <4>3
      <4>9. c.state = "committed" => fate'[s.body] = fate[s.body] BY <4>4
      <4> HIDE DEF s
      <4> QED BY <1>2, <4>7, <4>8, <4>9
    <3> QED BY <3>1, <3>2
  <2>2. RecordInv'
    <3>2. \A x \in Records : At(record[x].intent.pos) \in 0 .. Capacity - 1
      BY Zenon, <1>1, SharedNumbers, CapacityFacts DEF Types
    <3> QED BY <1>1, <1>2, <1>3, <1>4, <1>9, <3>2 DEF SharedInv, RecordInv, At
  <2>3. LaneInv'
    <3>1. lane.initialized BY <1>1 DEF SharedInv, LaneInv
    <3>2. ASSUME NEW y \in 0 .. Capacity - 1
          PROVE  LET s == slot'[y] IN
                 /\ At(s.seq) = y /\ lane.read <= s.seq /\ s.seq <= lane.read + Capacity
                 /\ s.seq < lane.reserve + Capacity
                 /\ s.seq < lane.reserve =>
                       s.claim # Free /\ record'[s.claim.rec].intent.pos = s.seq
      <4>1. LET s == slot[y] IN
            /\ At(s.seq) = y /\ lane.read <= s.seq /\ s.seq <= lane.read + Capacity
            /\ s.seq < lane.reserve + Capacity
            /\ s.seq < lane.reserve =>
                  s.claim # Free /\ record[s.claim.rec].intent.pos = s.seq
        BY <1>1, <3>1 DEF SharedInv, LaneInv, PosOf
      <4>2. CASE y = i BY <1>4, <1>8, <1>9, <4>1, <4>2
      <4>3. CASE y # i BY <1>4, <1>9, <1>10, <4>1, <4>3
      <4> QED BY <4>2, <4>3
    <3>3. Free' = Free BY DEF Free, NoRecord
    <3> QED BY <1>1, <1>2, <1>3, <3>1, <3>2, <3>3 DEF SharedInv, LaneInv, At, PosOf
  <2>4. FateInv'
    <3> SUFFICES ASSUME NEW x \in 1 .. bound.writes, fate'[x].pos # -1
                 PROVE  /\ x <= sent /\ fate'[x].pos \in 0 .. lane.reserve - 1
                        /\ fate'[x].epoch <= lane.epoch
                        /\ lane.read <= fate'[x].pos => InSlot(x)'
      BY <1>2 DEF FateInv
    <3>1. CASE fate'[x] = fate[x]
      <4>1. /\ x <= sent /\ fate[x].pos \in 0 .. lane.reserve - 1
            /\ fate[x].epoch <= lane.epoch
            /\ lane.read <= fate[x].pos => InSlot(x)
        BY <1>1, <3>1 DEF SharedInv, FateInv
      <4>2. At(fate[x].pos) \in 0 .. Capacity - 1
        <5>1. fate[x].pos \in Nat BY <1>1, <4>1, LaneNumbers
        <5> QED BY Zenon, <1>1, <5>1, CapacityFacts DEF Types
      <4>3. ASSUME InSlot(x) PROVE InSlot(x)'
        <5> DEFINE s == slot[At(fate[x].pos)]
        <5>1. CASE /\ s.seq = fate[x].pos /\ s.claim.state = "committed" /\ s.body = x
                   /\ record[s.claim.rec].intent.epoch = fate[x].epoch
          <6>1. At(fate[x].pos) # i /\ s.claim # Free BY <1>8, <5>1
          <6>2. slot'[At(fate[x].pos)] = s /\ s.claim.rec \in Records
            BY SMTT(40), <1>4, <1>10, <4>2, <6>1
          <6> QED BY SMTT(40), <1>2, <1>3, <1>9, <3>1, <5>1, <6>2 DEF InSlot, At
        <5>2. CASE lane.read = fate[x].pos /\ s.seq = fate[x].pos + Capacity
          BY <1>2, <1>3, <1>4, <3>1, <4>2, <5>2 DEF InSlot, At
        <5> QED BY SMTT(40), <4>3, <5>1, <5>2 DEF InSlot
      <4> QED BY <3>1, <4>1, <4>3
    <3>2. CASE fate'[x] # fate[x]
      <4>1. x = m /\ fate'[m] = [pos |-> n.pos, epoch |-> n.epoch] /\ m \in 1 .. sent
            /\ v.claim.state = "committed" /\ v.body = m /\ n.pos < lane.reserve
        BY <1>1, <1>6, <3>2 DEF Types
      <4>2. v.seq = n.pos /\ v.claim.rec = r /\ record'[r].intent = n
        BY <4>1, <1>8 DEF Done
      <4>3. n.epoch <= lane.epoch BY SMTT(40), <1>1 DEF SharedInv, RecordInv
      <4>4. InSlot(x)' BY <1>2, <1>3, <1>4, <4>1, <4>2 DEF InSlot, At
      <4>5. fate'[x].pos = n.pos /\ fate'[x].epoch = n.epoch BY <4>1
      <4>6. n.pos \in 0 .. lane.reserve - 1 /\ m <= sent BY <1>1, <1>5, <4>1, SharedNumbers
      <4> QED BY <4>1, <4>3, <4>4, <4>5, <4>6
    <3> QED BY <3>1, <3>2
  <2>5. DeliveredInv'
    <3>1. ASSUME NEW d \in DOMAIN delivered PROVE fate'[delivered[d].msg] = fate[delivered[d].msg]
      <4>1. /\ delivered[d].pos \in Nat /\ delivered[d].msg \in 1 .. sent
            /\ fate[delivered[d].msg].pos = delivered[d].pos
        BY <1>1, DeliveredType DEF SharedInv, DeliveredInv, DeliveredOnceInTurn
      <4>2. sent \in Nat /\ bound.writes \in Nat /\ sent <= bound.writes
        BY <1>1, NumbersAssumption DEF Types
      <4> QED BY SMTT(40), <1>6, <4>1, <4>2
    <3> QED BY <1>1, <1>2, <3>1
      DEF SharedInv, DeliveredInv, DeliveredOnceInTurn, NeverMalformed
  <2> QED BY <2>1, <2>2, <2>3, <2>4, <2>5 DEF SharedInv
<1>12. Forward
  <2>1. ASSUME NEW y \in 0 .. Capacity - 1, slot[y].claim.rec \in Records,
               record[slot[y].claim.rec].intent.pos = slot[y].seq
        PROVE  slot'[y].claim.rec = slot[y].claim.rec
    BY <1>4, <1>8, <2>1
  <2> QED BY SMTT(40), <1>1, <1>2, <1>4, <1>9, <2>1, SharedNumbers DEF Forward
<1>13. Kept => Kept'
  <2> SUFFICES ASSUME NEW x \in 1 .. sent, Kept, fate'[x].pos >= 0, fate'[x].epoch = lane.epoch
               PROVE  Queued(x)' \/ \E d \in DOMAIN delivered : delivered[d].msg = x
    BY <1>2 DEF Kept
  <2>0. x \in 1 .. bound.writes BY <1>1, NumbersAssumption DEF Types
  <2>1. CASE fate'[x] = fate[x]
    <3> SUFFICES ASSUME Queued(x) PROVE Queued(x)' BY <2>1 DEF Kept
    <3>1. At(fate[x].pos) \in 0 .. Capacity - 1
      <4>1. fate[x].pos \in Nat BY <1>1, LaneNumbers DEF Queued
      <4> QED BY Zenon, <1>1, <4>1, CapacityFacts DEF Types
    <3>2. slot'[At(fate[x].pos)] = slot[At(fate[x].pos)] BY <1>4, <1>8, <3>1 DEF Queued
    <3> QED BY <1>2, <1>3, <2>1, <3>2 DEF Queued, At
  <2>2. CASE fate'[x] # fate[x]
    <3>1. x = m /\ fate'[m] = [pos |-> n.pos, epoch |-> n.epoch]
          /\ v.claim.state = "committed" /\ v.body = m /\ n.pos < lane.reserve
      BY <1>1, <1>6, <2>0, <2>2 DEF Types
    <3>2. v.seq = n.pos /\ slot[i].seq = n.pos BY <3>1 DEF Done
    <3>3. lane.read <= n.pos BY <1>1, <3>2 DEF SharedInv, LaneInv
    <3>4. n.pos \in lane.read .. lane.reserve - 1 BY <1>1, <1>5, <3>1, <3>3, SharedNumbers
    <3>5. fate'[x].pos = n.pos BY <3>1
    <3> QED BY <1>2, <1>3, <1>4, <3>1, <3>2, <3>4, <3>5 DEF Queued, At
  <2> QED BY <2>1, <2>2
<1>14. \A q \in Procs \ {p} : Spares(q)
  <2> SUFFICES ASSUME NEW q \in Procs \ {p} PROVE Spares(q) OBVIOUS
  <2>1. SparesRecords(q)
    <3>1. ASSUME NEW x \in Records, regHold[x[1]] = q, NEW y \in 0 .. Capacity - 1
          PROVE  /\ slot[y].claim = Reserved(x) => slot'[y] = slot[y]
                 /\ slot'[y].claim = Reserved(x) => slot[y].claim = Reserved(x)
                 /\ slot'[y].claim.rec = x => slot[y].claim.rec = x
      <4>1. x # r BY <3>1
      <4>2. slot[i].claim # Reserved(x) /\ v.claim.rec # x /\ v.claim # Reserved(x)
        BY <1>8, <4>1
      <4> QED BY <1>4, <4>2
    <3>2. \A x \in Records : regHold[x[1]] = q => record'[x] = record[x] OBVIOUS
    <3> QED BY <1>2, <3>1, <3>2 DEF SparesRecords
  <2>2. SparesLane(q)
    <3>1. Done(v.claim) => slot[i].seq # lane.read + Capacity
      <4>1. n.pos < lane.read + Capacity BY <1>1 DEF SharedInv, RecordInv
      <4> QED BY <1>1, <1>5, <4>1, SharedNumbers
    <3>2. ASSUME NEW y \in 0 .. Capacity - 1
          PROVE  /\ slot'[y].seq = slot[y].seq
                 /\ Done(slot[y].claim) => slot'[y] = slot[y]
                 /\ slot[y].seq = lane.read + Capacity /\ ~Done(slot[y].claim)
                       => ~Done(slot'[y].claim)
      BY <1>4, <1>8, <3>1
    <3> QED BY <1>2, <1>13, <3>2 DEF SparesLane
  <2>3. \A x \in 1 .. sent : x = job[q].msg => fate'[x] = fate[x]
    <3> SUFFICES ASSUME NEW x \in 1 .. sent, x = job[q].msg PROVE fate'[x] = fate[x]
      OBVIOUS
    <3>1. x \in 1 .. bound.writes /\ fate \in [1 .. bound.writes -> [pos : Int, epoch : Nat]]
      BY <1>1, NumbersAssumption DEF Types
    <3>2. fate' = fate \/ x # m OBVIOUS
    <3>3. fate' = fate \/ fate' = [fate EXCEPT ![m] = [pos |-> n.pos, epoch |-> n.epoch]]
      OBVIOUS
    <3> QED BY Zenon, <3>1, <3>2, <3>3
  <2> QED BY <2>1, <2>2, <2>3 DEF Spares
<1> QED BY <1>7, <1>11, <1>12, <1>14 DEF Sound

\* What FateInv says of one message.
LEMMA FateFacts ==
    ASSUME Types, FateInv, NEW m \in 1 .. bound.writes, fate[m].pos # -1
    PROVE  /\ m <= sent /\ fate[m].pos \in Nat /\ fate[m].pos < lane.reserve
           /\ fate[m].epoch <= lane.epoch /\ At(fate[m].pos) \in 0 .. Capacity - 1
           /\ lane.read <= fate[m].pos => InSlot(m)
<1>1. /\ m <= sent /\ fate[m].pos \in 0 .. lane.reserve - 1 /\ fate[m].epoch <= lane.epoch
      /\ lane.read <= fate[m].pos => InSlot(m)
  BY DEF FateInv
<1>2. fate[m].pos \in Nat /\ fate[m].pos < lane.reserve BY <1>1, LaneNumbers
<1> QED BY Zenon, <1>1, <1>2, CapacityFacts DEF Types

\* What LaneInv says of one slot of a lane that is ready.
LEMMA TurnFacts ==
    ASSUME Types, LaneInv, lane.initialized, NEW y \in 0 .. Capacity - 1
    PROVE  LET s == slot[y] IN
           /\ At(s.seq) = y /\ lane.read <= s.seq /\ s.seq <= lane.read + Capacity
           /\ s.seq < lane.reserve + Capacity
           /\ s.seq < lane.reserve => s.claim # Free /\ record[s.claim.rec].intent.pos = s.seq
           /\ lane.read <= lane.reserve /\ lane.reserve <= lane.read + Capacity
BY DEF LaneInv, PosOf

\* LaneInv of the next state, for a lane that is made ready.
LEMMA TurnNext ==
    ASSUME bound' = bound, lane'.initialized,
           lane'.read <= lane'.reserve, lane'.reserve <= lane'.read + Capacity,
           \A y \in 0 .. Capacity - 1 :
              LET s == slot'[y] IN
              /\ At(s.seq) = y /\ lane'.read <= s.seq /\ s.seq <= lane'.read + Capacity
              /\ s.seq < lane'.reserve + Capacity
              /\ s.seq < lane'.reserve =>
                    s.claim # Free /\ record'[s.claim.rec].intent.pos = s.seq
    PROVE  LaneInv'
BY SameTypes DEF LaneInv, PosOf, At, Free

\* Two positions of the lane in one slot.
LEMMA SameSlot ==
    ASSUME Types, NEW x \in Nat, NEW y \in Nat, At(x) = At(y), x <= y, y < x + Capacity
    PROVE  x = y
<1>1. Capacity \in Nat BY CapacityFacts DEF Types
<1>2. x < y => x + Capacity <= y BY CapacityFacts DEF Types
<1> QED BY <1>1, <1>2

\* A write begins.
LEMMA WriteSound ==
    ASSUME IInv, NEW p \in Procs, sent' = sent + 1, sent < bound.writes, lane.initialized,
           UNCHANGED <<bound, laneVars, record, owner, laneHold, regHold, fate, delivered,
                       malformed>>
    PROVE  Sound(p)
<1>1. Types /\ SharedInv BY DEF IInv
<1>2. /\ bound' = bound /\ lane' = lane /\ slot' = slot /\ record' = record /\ owner' = owner
      /\ laneHold' = laneHold /\ regHold' = regHold
      /\ fate' = fate /\ delivered' = delivered /\ malformed' = malformed
  BY DEF laneVars
<1>3. /\ Capacity' = Capacity /\ Records' = Records /\ SlotType' = SlotType
      /\ RecordType' = RecordType /\ LaneType' = LaneType
  BY <1>2, SameTypes
<1>4. sent \in Nat /\ bound.writes \in Nat /\ sent' \in Nat /\ sent' <= bound.writes
  BY <1>1, NumbersAssumption DEF Types
<1>5. SharedTypes' BY SMTT(40), <1>1, <1>2, <1>3, <1>4 DEF SharedTypes, Types
<1>6. SharedInv'
  <2>1. ClaimInv' BY <1>1, <1>2, <1>3, <1>4 DEF SharedInv, ClaimInv, PosOf, Done, At, Free
  <2>2. RecordInv' BY <1>1, <1>2, <1>3 DEF SharedInv, RecordInv, At
  <2>3. LaneInv' BY SMTT(40), <1>1, <1>2, <1>3 DEF SharedInv, LaneInv, At, PosOf
  <2>4. FateInv' BY <1>1, <1>2, <1>3, <1>4 DEF SharedInv, FateInv, InSlot, At
  <2>5. DeliveredInv'
    BY <1>1, <1>2, <1>4 DEF SharedInv, DeliveredInv, DeliveredOnceInTurn, NeverMalformed
  <2> QED BY <2>1, <2>2, <2>3, <2>4, <2>5 DEF SharedInv
<1>7. Forward BY <1>1, <1>2, <1>4, SharedNumbers DEF Forward
<1>8. Kept => Kept'
  <2> SUFFICES ASSUME Kept, NEW m \in 1 .. sent', fate[m].pos >= 0, fate[m].epoch = lane.epoch
               PROVE  Queued(m)' \/ \E i \in DOMAIN delivered : delivered[i].msg = m
    BY <1>2 DEF Kept
  <2>1. m \in 1 .. bound.writes /\ fate[m].pos # -1 BY <1>4
  <2>2. m \in 1 .. sent BY <1>1, <1>4, <2>1, FateFacts DEF SharedInv
  <2>3. Queued(m) \/ \E i \in DOMAIN delivered : delivered[i].msg = m BY <2>2 DEF Kept
  <2> QED BY <1>2, <1>3, <2>3 DEF Queued, At
<1>9. \A q \in Procs \ {p} : Spares(q)
  BY <1>2, <1>8 DEF Spares, SparesRecords, SparesLane
<1> QED BY <1>5, <1>6, <1>7, <1>9 DEF Sound

\* The first owner makes the lane ready.
LEMMA FreshSound ==
    ASSUME IInv, NEW p \in Procs, laneHold = p, ~lane.initialized,
           slot' = [i \in DOMAIN slot |-> [slot[i] EXCEPT !.seq = i]],
           SetLane([lane EXCEPT !.initialized = TRUE]),
           UNCHANGED <<bound, record, owner, laneHold, regHold, sent, fate, delivered,
                       malformed>>
    PROVE  Sound(p)
<1>1. Types /\ SharedInv BY DEF IInv
<1>2. /\ bound' = bound /\ record' = record /\ owner' = owner /\ sent' = sent
      /\ laneHold' = laneHold /\ regHold' = regHold
      /\ fate' = fate /\ delivered' = delivered /\ malformed' = malformed
  OBVIOUS
<1>3. /\ Capacity' = Capacity /\ Records' = Records /\ SlotType' = SlotType
      /\ RecordType' = RecordType /\ LaneType' = LaneType
  BY <1>2, SameTypes
<1>4. /\ lane' \in LaneType /\ lane'.reserve = lane.reserve /\ lane'.read = lane.read
      /\ lane'.epoch = lane.epoch /\ lane'.initialized
  BY Zenon, <1>1 DEF Types, LaneType, SetLane
<1>5. /\ slot' \in [0 .. Capacity - 1 -> SlotType]
      /\ \A i \in 0 .. Capacity - 1 : slot'[i].seq = i /\ slot'[i].claim = slot[i].claim
  <2>1. slot \in [0 .. Capacity - 1 -> SlotType] BY <1>1 DEF Types
  <2>2. \A i \in 0 .. Capacity - 1 : i \in Nat BY <1>1, SharedNumbers
  <2> QED BY <2>1, <2>2 DEF SlotType
<1>6. /\ lane.reserve = 0 /\ lane.read = 0 /\ sent = 0 /\ delivered = <<>>
      /\ \A i \in 0 .. Capacity - 1 : slot[i].seq = 0 /\ slot[i].claim = Free
      /\ \A r \in Records : ~record[r].referenced /\ record[r].intent.pos = 0
  BY <1>1, SharedNumbers DEF SharedInv, LaneInv
<1>7. SharedTypes' BY <1>1, <1>2, <1>3, <1>4, <1>5 DEF SharedTypes, Types
<1>8. SharedInv'
  <2>1. ClaimInv' BY <1>2, <1>5, <1>6, ClaimNext
  <2>2. RecordInv' BY <1>1, <1>2, <1>3, <1>4, <1>6 DEF SharedInv, RecordInv, At
  <2>3. LaneInv'
    <3>1. ASSUME NEW y \in 0 .. Capacity - 1
          PROVE  LET s == slot'[y] IN
                 /\ At(s.seq) = y /\ lane'.read <= s.seq /\ s.seq <= lane'.read + Capacity
                 /\ s.seq < lane'.reserve + Capacity /\ ~(s.seq < lane'.reserve)
      <4>1. At(y) = y BY <1>1, CapacityFacts DEF Types
      <4> QED BY <1>1, <1>4, <1>5, <1>6, <4>1, SharedNumbers
    <3> QED BY <1>1, <1>2, <1>4, <1>6, <3>1, SharedNumbers, TurnNext
  <2>4. FateInv'
    <3> SUFFICES ASSUME NEW m \in 1 .. bound.writes, fate[m].pos # -1 PROVE FALSE
      BY <1>2 DEF FateInv
    <3>1. fate[m].pos \in Nat /\ fate[m].pos < lane.reserve BY <1>1, FateFacts DEF SharedInv
    <3> QED BY <1>6, <3>1
  <2>5. DeliveredInv'
    BY <1>1, <1>2, <1>4 DEF SharedInv, DeliveredInv, DeliveredOnceInTurn, NeverMalformed
  <2> QED BY SMTT(40), <2>1, <2>2, <2>3, <2>4, <2>5 DEF SharedInv
<1>9. Forward
  <2>1. \A i \in 0 .. Capacity - 1 : slot[i].claim.rec \notin Records
    BY <1>1, <1>6, FreeFacts, RecordFacts, SharedNumbers
  <2> QED BY <1>1, <1>2, <1>4, <1>5, <1>6, <2>1, SharedNumbers DEF Forward
<1>10. \A q \in Procs \ {p} : Spares(q)
  <2>1. \A r, i : r \in Records /\ i \in 0 .. Capacity - 1 =>
           slot[i].claim # Reserved(r) /\ slot'[i].claim = slot[i].claim
    BY <1>1, <1>5, <1>6, FreeFacts
  <2> QED BY SMTT(40), <1>2, <2>1 DEF Spares, SparesRecords, SparesLane
<1> QED BY <1>7, <1>8, <1>9, <1>10 DEF Sound

\* A new claim of the lane begins.
LEMMA EpochSound ==
    ASSUME IInv, NEW p \in Procs, laneHold = p, lane' \in LaneType,
           lane'.reserve = lane.reserve, lane'.read = lane.read,
           lane'.epoch = lane.epoch + 1, lane'.initialized = lane.initialized, OnLane
    PROVE  Sound(p) /\ Kept'
<1>1. Types /\ SharedInv BY DEF IInv
<1>2. /\ bound' = bound /\ slot' = slot /\ record' = record /\ owner' = owner /\ sent' = sent
      /\ laneHold' = laneHold /\ regHold' = regHold
      /\ fate' = fate /\ delivered' = delivered /\ malformed' = malformed
  BY DEF OnLane, regVars, holdVars, histVars
<1>3. /\ Capacity' = Capacity /\ Records' = Records /\ SlotType' = SlotType
      /\ RecordType' = RecordType /\ LaneType' = LaneType
  BY <1>2, SameTypes
<1>4. SharedTypes' BY <1>1, <1>2, <1>3 DEF SharedTypes, Types
<1>5. \A m \in 1 .. bound.writes : fate[m].epoch \in Nat BY Zenon, <1>1 DEF Types
<1>6. SharedInv'
  <2>1. ClaimInv' BY <1>1, <1>2, <1>3 DEF SharedInv, ClaimInv, PosOf, Done, At, Free
  <2>2. RecordInv' BY <1>1, <1>2, <1>3, SharedNumbers DEF SharedInv, RecordInv, At
  <2>3. LaneInv' BY SMTT(40), <1>1, <1>2, <1>3 DEF SharedInv, LaneInv, At, PosOf
  <2>4. FateInv' BY <1>1, <1>2, <1>3, <1>5, SharedNumbers DEF SharedInv, FateInv, InSlot, At
  <2>5. DeliveredInv'
    BY <1>1, <1>2 DEF SharedInv, DeliveredInv, DeliveredOnceInTurn, NeverMalformed
  <2> QED BY SMTT(40), <2>1, <2>2, <2>3, <2>4, <2>5 DEF SharedInv
<1>7. Forward BY <1>1, <1>2, SharedNumbers DEF Forward
<1>8. \A q \in Procs \ {p} : Spares(q) BY <1>2 DEF Spares, SparesRecords, SparesLane
<1>9. Kept'
  <2> SUFFICES ASSUME NEW m \in 1 .. sent, fate[m].pos >= 0, fate[m].epoch = lane'.epoch
               PROVE  FALSE
    BY <1>2 DEF Kept
  <2>1. m \in 1 .. bound.writes /\ fate[m].pos # -1 BY <1>1, NumbersAssumption DEF Types
  <2>2. fate[m].epoch <= lane.epoch BY <1>1, <2>1, FateFacts DEF SharedInv
  <2> QED BY <1>1, <1>5, <2>1, <2>2, SharedNumbers
<1> QED BY <1>4, <1>6, <1>7, <1>8, <1>9 DEF Sound

\* The reader moves the head past a turn whose slot is given back.
LEMMA HeadSound ==
    ASSUME IInv, NEW p \in Procs, laneHold = p, lane.initialized, lane.read < lane.reserve,
           slot[At(lane.read)].seq = lane.read + Capacity,
           ~Done(slot[At(lane.read)].claim),
           SetLane([lane EXCEPT !.read = lane.read + 1]), OnLane
    PROVE  /\ Sound(p) /\ Passed' /\ lane'.epoch = lane.epoch
           /\ lane'.initialized /\ (Kept => Kept')
<1> DEFINE i == At(lane.read)
<1>1. Types /\ SharedInv /\ LaneInv /\ ClaimInv /\ FateInv BY DEF IInv, SharedInv
<1>2. /\ bound' = bound /\ slot' = slot /\ record' = record /\ owner' = owner /\ sent' = sent
      /\ laneHold' = laneHold /\ regHold' = regHold
      /\ fate' = fate /\ delivered' = delivered /\ malformed' = malformed
  BY DEF OnLane, regVars, holdVars, histVars
<1>3. /\ Capacity' = Capacity /\ Records' = Records /\ SlotType' = SlotType
      /\ RecordType' = RecordType /\ LaneType' = LaneType
  BY <1>2, SameTypes
<1>4. /\ lane' \in LaneType /\ lane'.reserve = lane.reserve /\ lane'.read = lane.read + 1
      /\ lane'.epoch = lane.epoch /\ lane'.initialized
  BY Zenon, <1>1, LaneNumbers DEF Types, LaneType, SetLane
<1>5. SharedTypes' BY <1>1, <1>2, <1>3, <1>4 DEF SharedTypes, Types
<1>6. /\ lane.read \in Nat /\ lane.reserve \in Nat /\ Capacity \in Nat \ {0}
      /\ i \in 0 .. Capacity - 1
  BY SMTT(40), <1>1, SharedNumbers, CapacityFacts DEF Types
<1>7. SharedInv'
  <2>1. ClaimInv'
    <3>1. ASSUME NEW y \in 0 .. Capacity - 1, slot[y].claim # Free
          PROVE  LET s == slot[y]
                     c == s.claim
                     n == record[c.rec].intent
                 IN  /\ c.rec \in Records /\ c.state # "free"
                     /\ record[c.rec].referenced /\ At(n.pos) = y
                     /\ Done(c) => s.seq = n.pos
                     /\ c.state = "committed" =>
                           /\ n.pos < lane.reserve
                           /\ s.body \in 1 .. sent
                           /\ fate[s.body] = [pos |-> n.pos, epoch |-> n.epoch]
      BY <1>1, <3>1, ClaimFacts
    <3> QED BY SMTT(40), <1>2, <1>4, <3>1, ClaimNext
  <2>2. RecordInv'
    BY <1>1, <1>2, <1>3, <1>4, <1>6, SharedNumbers DEF SharedInv, RecordInv, At
  <2>3. LaneInv'
    <3>1. ASSUME NEW y \in 0 .. Capacity - 1
          PROVE  LET s == slot[y] IN
                 /\ At(s.seq) = y /\ lane'.read <= s.seq /\ s.seq <= lane'.read + Capacity
                 /\ s.seq < lane'.reserve + Capacity
                 /\ s.seq < lane'.reserve =>
                       s.claim # Free /\ record[s.claim.rec].intent.pos = s.seq
      <4>1. LET s == slot[y] IN
            /\ At(s.seq) = y /\ lane.read <= s.seq /\ s.seq <= lane.read + Capacity
            /\ s.seq < lane.reserve + Capacity
            /\ s.seq < lane.reserve => s.claim # Free /\ record[s.claim.rec].intent.pos = s.seq
        BY <1>1, TurnFacts
      <4>2. slot[y].seq \in Nat BY <1>1, SharedNumbers
      <4>3. slot[y].seq # lane.read BY <1>6, <4>1
      <4> QED BY <1>4, <1>6, <4>1, <4>2, <4>3
    <3>2. lane'.read <= lane'.reserve /\ lane'.reserve <= lane'.read + Capacity
      BY <1>1, <1>4, <1>6 DEF LaneInv
    <3> QED BY <1>2, <1>4, <3>1, <3>2, TurnNext
  <2>4. FateInv'
    <3> SUFFICES ASSUME NEW m \in 1 .. bound.writes, fate[m].pos # -1
                 PROVE  /\ m <= sent /\ fate[m].pos \in 0 .. lane'.reserve - 1
                        /\ fate[m].epoch <= lane'.epoch
                        /\ lane'.read <= fate[m].pos => InSlot(m)'
      BY <1>2 DEF FateInv
    <3>1. /\ m <= sent /\ fate[m].pos \in Nat /\ fate[m].pos < lane.reserve
          /\ fate[m].epoch <= lane.epoch
          /\ lane.read <= fate[m].pos => InSlot(m)
      BY SMTT(40), <1>1, FateFacts
    <3>2. ASSUME lane'.read <= fate[m].pos PROVE InSlot(m)'
      <4>1. InSlot(m) /\ lane.read # fate[m].pos BY <1>4, <1>6, <3>1, <3>2
      <4> QED BY <1>2, <1>3, <4>1 DEF InSlot, At
    <3> QED BY <1>4, <1>6, <3>1, <3>2
  <2>5. DeliveredInv'
    <3>1. \A d \in DOMAIN delivered : delivered[d].pos <= lane'.read
      BY <1>1, <1>4, <1>6, DeliveredType DEF SharedInv, DeliveredInv
    <3> QED BY <1>1, <1>2, <3>1
      DEF SharedInv, DeliveredInv, DeliveredOnceInTurn, NeverMalformed
  <2> QED BY <2>1, <2>2, <2>3, <2>4, <2>5 DEF SharedInv
<1>8. Forward BY <1>1, <1>2, <1>4, SharedNumbers DEF Forward
<1>9. \A q \in Procs \ {p} : Spares(q) BY <1>2 DEF Spares, SparesRecords, SparesLane
<1>10. Passed'
  <2>1. \A d \in DOMAIN delivered : delivered[d].pos < lane'.read
    BY <1>1, <1>4, <1>6, DeliveredType DEF SharedInv, DeliveredInv
  <2> QED BY <1>2, <2>1 DEF Passed
<1>11. Kept => Kept'
  <2> SUFFICES ASSUME NEW m \in 1 .. sent, Queued(m) PROVE Queued(m)'
    BY <1>2, <1>4 DEF Kept
  <2>1. fate[m].pos \in lane.read .. lane.reserve - 1 /\ slot[At(fate[m].pos)].seq = fate[m].pos
    BY DEF Queued
  <2>2. fate[m].pos # lane.read BY <1>6, <2>1
  <2>3. fate[m].pos \in lane'.read .. lane'.reserve - 1 BY <1>4, <1>6, <2>1, <2>2
  <2> QED BY <1>2, <1>3, <2>3 DEF Queued, At
<1> QED BY <1>4, <1>5, <1>7, <1>8, <1>9, <1>10, <1>11 DEF Sound

\* What is at the head of the lane is given back in two stores: the turn of the
\* slot, then its claim.
LEMMA GiveBackSound ==
    ASSUME IInv, NEW p \in Procs, laneHold = p, lane.initialized, lane.read < lane.reserve,
           Done(slot[At(lane.read)].claim),
           record[slot[At(lane.read)].claim.rec].intent.pos = lane.read,
           NEW v \in SlotType, slot' = [slot EXCEPT ![At(lane.read)] = v],
           v.seq = lane.read + Capacity, v.body = slot[At(lane.read)].body,
           \/ v.claim = slot[At(lane.read)].claim
           \/ v.claim = Free /\ slot[At(lane.read)].seq = lane.read + Capacity,
           OnSlot
    PROVE  Sound(p)
<1> DEFINE i == At(lane.read)
<1>1. Types /\ SharedInv /\ LaneInv /\ ClaimInv /\ FateInv BY DEF IInv, SharedInv
<1>2. /\ bound' = bound /\ lane' = lane /\ record' = record /\ owner' = owner /\ sent' = sent
      /\ laneHold' = laneHold /\ regHold' = regHold
      /\ fate' = fate /\ delivered' = delivered /\ malformed' = malformed
  BY DEF OnSlot, regVars, holdVars, histVars
<1>3. /\ Capacity' = Capacity /\ Records' = Records /\ SlotType' = SlotType
      /\ RecordType' = RecordType /\ LaneType' = LaneType
  BY <1>2, SameTypes
<1>4. /\ lane.read \in Nat /\ lane.reserve \in Nat /\ Capacity \in Nat \ {0}
      /\ i \in 0 .. Capacity - 1 /\ lane.reserve <= lane.read + Capacity
      /\ slot[i].seq = lane.read \/ slot[i].seq = lane.read + Capacity
  BY Zenon, <1>1, SharedNumbers, CapacityFacts, HeadTurn DEF Types, LaneInv
<1>5. /\ slot' \in [0 .. Capacity - 1 -> SlotType] /\ slot'[i] = v
      /\ \A y \in (0 .. Capacity - 1) \ {i} : slot'[y] = slot[y]
  <2>1. slot \in [0 .. Capacity - 1 -> SlotType] BY <1>1 DEF Types
  <2> QED BY <1>4, <2>1
<1>6. SharedTypes' BY SMTT(40), <1>1, <1>2, <1>3, <1>5 DEF SharedTypes, Types
<1>7. slot[i].claim # Free /\ slot[i].claim.rec \in Records
  BY Zenon, <1>1, <1>4, FreeFacts, ClaimFacts
<1>8. SharedInv'
  <2>1. ClaimInv'
    <3>1. ASSUME NEW y \in 0 .. Capacity - 1, slot'[y].claim # Free
          PROVE  LET s == slot'[y]
                     c == s.claim
                     n == record[c.rec].intent
                 IN  /\ c.rec \in Records /\ c.state # "free"
                     /\ record[c.rec].referenced /\ At(n.pos) = y
                     /\ Done(c) => s.seq = n.pos \/ (s.seq = n.pos + Capacity
                                                     /\ lane.read = n.pos)
                     /\ c.state = "committed" =>
                           /\ n.pos < lane.reserve
                           /\ s.body \in 1 .. sent
                           /\ fate[s.body] = [pos |-> n.pos, epoch |-> n.epoch]
      <4>1. CASE y = i
        <5>1. v.claim = slot[i].claim BY SMTT(40), <1>5, <3>1, <4>1
        <5> DEFINE c == slot[i].claim
                   n == record[c.rec].intent
        <5>2. /\ c.rec \in Records /\ c.state # "free"
              /\ record[c.rec].referenced /\ At(n.pos) = i
              /\ c.state = "committed" =>
                    /\ n.pos < lane.reserve
                    /\ slot[i].body \in 1 .. sent
                    /\ fate[slot[i].body] = [pos |-> n.pos, epoch |-> n.epoch]
          BY Zenon, <1>1, <1>4, <1>7, ClaimFacts
        <5>3. n.pos = lane.read OBVIOUS
        <5>4. slot'[y].claim = c /\ slot'[y].body = slot[i].body
              /\ slot'[y].seq = lane.read + Capacity
          BY SMTT(40), <1>5, <4>1, <5>1
        <5> HIDE DEF c, n
        <5> QED BY <4>1, <5>2, <5>3, <5>4 DEF n
      <4>2. CASE y # i
        <5>1. slot'[y] = slot[y] BY <1>5, <4>2
        <5> QED BY ZenonT(60), <1>1, <3>1, <5>1, ClaimFacts
      <4> QED BY SMTT(40), <4>1, <4>2
    <3> QED BY ZenonT(60), <1>2, <3>1, ClaimNext
  <2>2. RecordInv'
    <3>1. \A y \in 0 .. Capacity - 1 :
             slot[y].seq \in Nat /\ slot[y].seq <= slot'[y].seq /\ slot'[y].seq \in Nat
      BY SMTT(40), <1>1, <1>4, <1>5, SharedNumbers DEF SlotType
    <3>2. \A x \in Records : At(record[x].intent.pos) \in 0 .. Capacity - 1
                             /\ record[x].intent.pos \in Nat
      BY Zenon, <1>1, SharedNumbers, CapacityFacts DEF Types
    <3> QED BY <1>1, <1>2, <1>3, <3>1, <3>2 DEF SharedInv, RecordInv, At
  <2>3. LaneInv'
    <3>1. ASSUME NEW y \in 0 .. Capacity - 1
          PROVE  LET s == slot'[y] IN
                 /\ At(s.seq) = y /\ lane.read <= s.seq /\ s.seq <= lane.read + Capacity
                 /\ s.seq < lane.reserve + Capacity
                 /\ s.seq < lane.reserve =>
                       s.claim # Free /\ record[s.claim.rec].intent.pos = s.seq
      <4>1. CASE y = i
        <5>1. At(lane.read + Capacity) = i BY Zenon, <1>1, <1>4, CapacityFacts DEF Types
        <5> QED BY <1>4, <1>5, <4>1, <5>1
      <4>2. CASE y # i
        <5>1. slot'[y] = slot[y] BY <1>5, <4>2
        <5> QED BY <1>1, <5>1, TurnFacts
      <4> QED BY <4>1, <4>2
    <3> QED BY <1>1, <1>2, <1>4, <3>1, TurnNext
  <2>4. FateInv'
    <3> SUFFICES ASSUME NEW m \in 1 .. bound.writes, fate[m].pos # -1, lane.read <= fate[m].pos
                 PROVE  InSlot(m)'
      BY <1>1, <1>2 DEF FateInv
    <3>1. /\ fate[m].pos \in Nat /\ fate[m].pos < lane.reserve /\ InSlot(m)
          /\ At(fate[m].pos) \in 0 .. Capacity - 1
      BY <1>1, FateFacts
    <3>2. CASE At(fate[m].pos) = i
      <4>1. fate[m].pos = lane.read BY SMTT(40), <1>1, <1>4, <3>1, <3>2, SameSlot
      <4> QED BY <1>2, <1>3, <1>5, <3>2, <4>1 DEF InSlot, At
    <3>3. CASE At(fate[m].pos) # i
      <4>1. slot'[At(fate[m].pos)] = slot[At(fate[m].pos)] BY <1>5, <3>1, <3>3
      <4> QED BY <1>2, <1>3, <3>1, <4>1 DEF InSlot, At
    <3> QED BY <3>2, <3>3
  <2>5. DeliveredInv'
    BY SMTT(40), <1>1, <1>2 DEF SharedInv, DeliveredInv, DeliveredOnceInTurn, NeverMalformed
  <2> QED BY SMTT(40), <2>1, <2>2, <2>3, <2>4, <2>5 DEF SharedInv
<1>9. Forward
  <2>1. \A y \in 0 .. Capacity - 1 : slot[y].seq <= slot'[y].seq
    BY <1>1, <1>4, <1>5, SharedNumbers
  <2>2. ASSUME NEW y \in 0 .. Capacity - 1, slot[y].claim.rec \in Records,
               record[slot[y].claim.rec].intent.pos = slot[y].seq
        PROVE  \/ slot[y].seq < lane'.reserve
               \/ slot'[y].claim.rec = slot[y].claim.rec /\ slot'[y].seq = slot[y].seq
    BY <1>2, <1>4, <1>5, <2>2
  <2> QED BY <1>1, <1>2, <2>1, <2>2, SharedNumbers DEF Forward
<1>10. \A q \in Procs \ {p} : Spares(q)
  <2> SUFFICES ASSUME NEW q \in Procs \ {p} PROVE Spares(q) OBVIOUS
  <2>1. ASSUME NEW x \in Records, NEW y \in 0 .. Capacity - 1
        PROVE  /\ slot[y].claim = Reserved(x) => slot'[y] = slot[y]
               /\ slot'[y].claim = Reserved(x) => slot[y].claim = Reserved(x)
               /\ slot'[y].claim.rec = x => slot[y].claim.rec = x
    <3>1. slot[i].claim # Reserved(x) /\ Free # Reserved(x) /\ Free.rec # x
      BY <1>1, FreeFacts, RecordFacts, SharedNumbers
    <3> QED BY <1>5, <3>1
  <2>2. SparesRecords(q) BY <1>2, <2>1 DEF SparesRecords
  <2>3. SparesLane(q) BY DEF SparesLane
  <2> QED BY <1>2, <2>2, <2>3 DEF Spares
<1> QED BY <1>6, <1>8, <1>9, <1>10 DEF Sound

\* A committed turn at the head is handed to the reader.
LEMMA CopySound ==
    ASSUME IInv, NEW p \in Procs, laneHold = p, lane.initialized,
           slot[At(lane.read)].seq = lane.read,
           slot[At(lane.read)].claim.state = "committed", Passed,
           delivered' = Append(delivered, [pos |-> lane.read, msg |-> slot[At(lane.read)].body]),
           UNCHANGED <<bound, laneVars, record, owner, laneHold, regHold, sent, fate, malformed>>
    PROVE  /\ Sound(p) /\ (Kept => Kept')
           /\ \E d \in DOMAIN delivered' : delivered'[d].msg = slot[At(lane.read)].body
<1> DEFINE i == At(lane.read)
           m == slot[i].body
           e == [pos |-> lane.read, msg |-> m]
           S == [pos : Nat, msg : Nat]
           N == Len(delivered)
<1>1. Types /\ SharedInv /\ LaneInv /\ ClaimInv /\ FateInv BY DEF IInv, SharedInv
<1>2. /\ bound' = bound /\ lane' = lane /\ slot' = slot /\ record' = record /\ owner' = owner
      /\ sent' = sent /\ laneHold' = laneHold /\ regHold' = regHold
      /\ fate' = fate /\ malformed' = malformed
  BY DEF laneVars
<1>3. /\ Capacity' = Capacity /\ Records' = Records /\ SlotType' = SlotType
      /\ RecordType' = RecordType /\ LaneType' = LaneType
  BY <1>2, SameTypes
<1>4. lane.read \in Nat /\ i \in 0 .. Capacity - 1
  BY Zenon, <1>1, SharedNumbers, CapacityFacts DEF Types
<1>5. slot[i].claim # Free /\ Done(slot[i].claim) BY FreeFacts DEF Done
<1>6. m \in 1 .. sent /\ fate[m].pos = lane.read
  <2>1. record[slot[i].claim.rec].intent.pos = lane.read BY <1>1, <1>5, DoneAtHead
  <2> QED BY Zenon, <1>1, <1>4, <1>5, <2>1, ClaimFacts
<1>7. delivered \in Seq(S) /\ e \in S /\ m # 0
  <2>1. m \in Nat /\ m # 0 BY <1>1, <1>6, SharedNumbers
  <2> QED BY <1>1, <1>4, <2>1 DEF Types
<1>8. /\ delivered' \in Seq(S) /\ DOMAIN delivered' = 1 .. N + 1 /\ N \in Nat
      /\ DOMAIN delivered = 1 .. N /\ delivered'[N + 1] = e
      /\ \A d \in 1 .. N : delivered'[d] = delivered[d]
  <2> HIDE DEF S, e
  <2>1. delivered' = Append(delivered, e) BY DEF e
  <2> QED BY <1>7, <2>1
<1>9. e.pos = lane.read /\ e.msg = m OBVIOUS
<1> HIDE DEF e, m, i
<1>10. SharedTypes' BY SMTT(40), <1>1, <1>2, <1>3, <1>8 DEF SharedTypes, Types
<1>11. SharedInv'
  <2>1. ClaimInv' BY ZenonT(60), <1>1, <1>2, <1>3 DEF SharedInv, ClaimInv, PosOf, Done, At, Free
  <2>2. RecordInv' BY <1>1, <1>2, <1>3 DEF SharedInv, RecordInv, At
  <2>3. LaneInv' BY <1>1, <1>2, <1>3 DEF SharedInv, LaneInv, At, PosOf
  <2>4. FateInv' BY SMTT(40), <1>1, <1>2, <1>3 DEF SharedInv, FateInv, InSlot, At
  <2>5. DeliveredInv'
    <3>1. ASSUME NEW d \in 1 .. N
          PROVE  /\ delivered[d].msg # 0 /\ fate[delivered[d].msg].pos = delivered[d].pos
                 /\ delivered[d].msg \in 1 .. sent /\ delivered[d].pos < lane.read
                 /\ delivered[d].pos \in Nat
      <4>1. d \in DOMAIN delivered BY <1>8
      <4> QED BY <1>1, <4>1, DeliveredType
        DEF SharedInv, DeliveredInv, DeliveredOnceInTurn, Passed
    <3>2. \A d \in 1 .. N + 1 :
             /\ delivered'[d].msg # 0 /\ fate[delivered'[d].msg].pos = delivered'[d].pos
             /\ delivered'[d].msg \in 1 .. sent /\ delivered'[d].pos <= lane.read
      <4> SUFFICES ASSUME NEW d \in 1 .. N + 1
                   PROVE  /\ delivered'[d].msg # 0
                          /\ fate[delivered'[d].msg].pos = delivered'[d].pos
                          /\ delivered'[d].msg \in 1 .. sent /\ delivered'[d].pos <= lane.read
        OBVIOUS
      <4>1. CASE d = N + 1 BY <1>4, <1>6, <1>7, <1>8, <1>9, <4>1
      <4>2. CASE d \in 1 .. N BY SMTT(40), <1>4, <1>8, <3>1, <4>2
      <4> QED BY <1>8, <4>1, <4>2
    <3>3. \A c, d \in 1 .. N + 1 : c < d => delivered'[c].pos < delivered'[d].pos
      <4> SUFFICES ASSUME NEW c \in 1 .. N + 1, NEW d \in 1 .. N + 1, c < d
                   PROVE  delivered'[c].pos < delivered'[d].pos
        OBVIOUS
      <4>0. c \in 1 .. N /\ delivered'[c] = delivered[c] BY <1>8
      <4>1. CASE d = N + 1 BY <1>8, <1>9, <3>1, <4>0, <4>1
      <4>2. CASE d \in 1 .. N
        <5>1. delivered'[d] = delivered[d] /\ c \in DOMAIN delivered /\ d \in DOMAIN delivered
          BY <1>8, <4>0, <4>2
        <5> QED BY <1>1, <4>0, <5>1 DEF SharedInv, DeliveredInv, DeliveredOnceInTurn
      <4> QED BY <1>8, <4>1, <4>2
    <3>4. ~malformed' BY <1>1, <1>2 DEF SharedInv, DeliveredInv, NeverMalformed
    <3> QED BY SMTT(40), <1>2, <1>8, <3>2, <3>3, <3>4
      DEF DeliveredInv, DeliveredOnceInTurn, NeverMalformed
  <2> QED BY <2>1, <2>2, <2>3, <2>4, <2>5 DEF SharedInv
<1>12. Forward BY SMTT(40), <1>1, <1>2, SharedNumbers DEF Forward
<1>13. \A q \in Procs \ {p} : Spares(q) BY <1>2 DEF Spares, SparesRecords, SparesLane
<1>14. Kept => Kept'
  <2>1. ASSUME NEW x, \E d \in DOMAIN delivered : delivered[d].msg = x
        PROVE  \E d \in DOMAIN delivered' : delivered'[d].msg = x
    BY <1>8, <2>1
  <2>2. \A x : Queued(x)' <=> Queued(x) BY <1>2, <1>3 DEF Queued, At
  <2> QED BY <1>2, <2>1, <2>2 DEF Kept
<1>15. \E d \in DOMAIN delivered' : delivered'[d].msg = m
  <2>1. N + 1 \in DOMAIN delivered' BY <1>8
  <2>2. delivered'[N + 1].msg = m BY <1>8, <1>9
  <2> HIDE DEF N
  <2> QED BY <2>1, <2>2
<1> QED BY <1>10, <1>11, <1>12, <1>13, <1>14, <1>15 DEF Sound, m, i

-----------------------------------------------------------------------------
(***************************************************************************)
(* The steps that change a record                                          *)
(***************************************************************************)

\* A store to a record leaves all else as it was.
LEMMA OnRecordFacts ==
    ASSUME Types, NEW r \in Records, NEW v, SetRecord(r, v), OnRecord
    PROVE  /\ bound' = bound /\ lane' = lane /\ slot' = slot /\ sent' = sent /\ owner' = owner
           /\ fate' = fate /\ delivered' = delivered
           /\ laneHold' = laneHold /\ regHold' = regHold
           /\ Capacity' = Capacity /\ Records' = Records
           /\ record'[r] = v /\ \A x \in Records \ {r} : record'[x] = record[x]
<1>1. bound' = bound BY DEF OnRecord, histVars
<1> QED BY Zenon, <1>1, SameTypes DEF OnRecord, SetRecord, laneVars, holdVars, histVars, Types

\* What RecordInv says of one record, with its type.
LEMMA OneRecord ==
    ASSUME IInv, NEW r \in Records
    PROVE  /\ record[r] \in RecordType /\ record[r].intent \in IntentType
           /\ record[r].intent.pos \in Nat
           /\ record[r].intent.pos <= lane.reserve /\ record[r].intent.epoch <= lane.epoch
           /\ r[1] \in Writers
           /\ record[r].referenced =>
                 /\ record[r].stable /\ record[r].intent.gen = owner[r[1]].gen
                 /\ record[r].intent.pos < lane.read + Capacity
                 /\ record[r].intent.pos <= slot[At(record[r].intent.pos)].seq
                 /\ lane.initialized
<1>1. Types /\ RecordInv /\ LaneInv BY DEF IInv, SharedInv
<1>2. record[r] \in RecordType BY <1>1 DEF Types
<1>3. record[r].intent \in IntentType /\ record[r].intent.pos \in Nat
  BY <1>2 DEF RecordType, IntentType
<1>4. r[1] \in Writers BY <1>1, RecordFacts, SharedNumbers
<1> QED BY <1>1, <1>2, <1>3, <1>4 DEF RecordInv, LaneInv

\* A claim names a record only at the slot its intent is for.
LEMMA NamedAtItsSlot ==
    ASSUME IInv, NEW r \in Records,
           record[r].referenced => slot[At(record[r].intent.pos)].claim.rec # r
    PROVE  Unnamed(r)
<1> SUFFICES ASSUME NEW y \in 0 .. Capacity - 1, slot[y].claim.rec = r PROVE FALSE
  BY DEF Unnamed
<1>1. Types /\ ClaimInv BY DEF IInv, SharedInv
<1>2. slot[y].claim # Free BY <1>1, FreeFacts, RecordFacts, SharedNumbers
<1>3. record[r].referenced /\ At(record[r].intent.pos) = y BY Zenon, <1>1, <1>2, ClaimFacts
<1> QED BY <1>3

\* A writer takes a record of its own that no claim names, and marks it
\* written.
LEMMA TakeRecordKeeps ==
    ASSUME IInv, NEW p \in Writers, TakeRecord(p)
    PROVE  IInv'
<1> DEFINE j == job[p]
<1>1. p \in Procs BY DEF Procs
<1>2. /\ Types /\ SharedInv /\ j \in JobType /\ Knows(p, pc[p], j)
      /\ At(j.pos) \in 0 .. Capacity - 1
      /\ pc[p] # "dead" => regHold[p] = p
  BY <1>1, Actor
<1>3. CASE Steps(p, "takeRecord", "idle") /\ UNCHANGED record /\ OnRecord
  <2>1. Calm /\ lane' \in LaneType
    BY <1>2, <1>3 DEF OnRecord, Calm, Types, laneVars, holdVars, wakeVars, histVars
  <2>2. Step(p, "takeRecord", "idle", j) /\ pc[p] = "takeRecord" BY <1>3 DEF Steps, Step
  <2> QED BY Zenon, <1>1, <1>2, <2>1, <2>2, CalmStep
<1>4. ASSUME NEW r \in RecordsOf(p), ~record[r].writing, record[r].referenced => Released(r),
             Step(p, "takeRecord", "intent",
                  [NoJob EXCEPT !.msg = J(p).msg, !.tries = J(p).tries,
                                !.pos = J(p).pos, !.rec = r, !.help = "progress"]),
             SetRecord(r, [record[r] EXCEPT !.writing = TRUE, !.referenced = FALSE,
                                            !.stable = FALSE]),
             OnRecord
      PROVE  IInv'
  <2> DEFINE v == [record[r] EXCEPT !.writing = TRUE, !.referenced = FALSE, !.stable = FALSE]
             k == [NoJob EXCEPT !.msg = j.msg, !.tries = j.tries, !.pos = j.pos, !.rec = r,
                                !.help = "progress"]
  <2>1. Step(p, "takeRecord", "intent", k) /\ pc[p] = "takeRecord" BY <1>4 DEF Step, J
  <2>2. r \in Records /\ r[1] = p /\ regHold[p] = p
    BY <1>2, <2>1, RecordFacts, SharedNumbers
  <2>3. Unnamed(r) BY <1>4, <2>2, NamedAtItsSlot DEF Released
  <2>4. v \in RecordType /\ v.intent = record[r].intent /\ ~v.referenced
    BY Zenon, <2>2, OneRecord DEF RecordType
  <2>5. /\ k \in JobType /\ k.msg = j.msg /\ k.pos = j.pos /\ k.rec = r /\ k.help = "progress"
        /\ ~k.serving
    <3>1. j.msg \in Nat /\ j.tries \in Int /\ j.pos \in Nat BY <1>2 DEF JobType
    <3>2. NoJob \in JobType /\ NoJob.serving = FALSE BY NoJobFacts
    <3> HIDE DEF j
    <3> QED BY Zenon, <2>2, <3>1, <3>2 DEF JobType
  <2>6. Sound(p)
    <3> HIDE DEF v
    <3>1. SetRecord(r, v) BY <1>4 DEF v
    <3>2. v.intent.pos <= lane.reserve /\ v.intent.epoch <= lane.epoch
          /\ record[r].intent.pos <= v.intent.pos
      BY <2>2, <2>4, OneRecord
    <3> QED BY <1>1, <1>4, <2>2, <2>3, <2>4, <3>1, <3>2, RecordSound
  <2> HIDE DEF k
  <2>7. pc'[p] = "intent" /\ job'[p] = k BY <1>1, <1>2, <2>1, StepFacts
  <2>8. /\ bound' = bound /\ lane' = lane /\ slot' = slot /\ sent' = sent
        /\ fate' = fate /\ regHold' = regHold
        /\ Capacity' = Capacity /\ Records' = Records
        /\ record'[r] = v /\ \A x \in Records \ {r} : record'[x] = record[x]
    BY <1>2, <1>4, <2>2, OnRecordFacts
  <2>9. \A x \in Records : record'[x].intent = record[x].intent BY Zenon, <2>4, <2>8
  <2> HIDE DEF v
  <2>10. WriterInv(p, "takeRecord", j) BY <1>2, <2>1 DEF Knows
  <2>11. ControlInv(p, pc[p], job[p])' BY <2>5, <2>7 DEF ControlInv, Place
  <2>12. WriterInv(p, pc[p], job[p])'
    BY <2>2, <2>3, <2>4, <2>5, <2>7, <2>8, <2>9, <2>10 DEF WriterInv, Place, At, Unnamed
  <2>13. HelpInv(pc[p], job[p])' BY <2>7 DEF HelpInv
  <2>14. RecoverInv(p, pc[p], job[p])' BY <2>7 DEF RecoverInv, Place
  <2>15. ReaderInv(p, pc[p], job[p])' BY <2>5, <2>7 DEF ReaderInv, Place
  <2>16. Knows(p, pc[p], job[p])' BY <2>11, <2>12, <2>13, <2>14, <2>15 DEF Knows
  <2> QED BY Zenon, <1>1, <2>1, <2>5, <2>6, <2>16, SoundStep
<1> QED BY Zenon, <1>3, <1>4 DEF TakeRecord

\* A record is not written any more.
LEMMA WrittenSound ==
    ASSUME IInv, NEW p \in Procs, NEW r \in Records, regHold[r[1]] = p,
           SetRecord(r, [record[r] EXCEPT !.writing = FALSE]), OnRecord
    PROVE  Sound(p)
<1> DEFINE v == [record[r] EXCEPT !.writing = FALSE]
<1>1. /\ v \in RecordType /\ v.intent = record[r].intent
      /\ v.referenced = record[r].referenced /\ v.stable = record[r].stable
  BY Zenon, OneRecord DEF RecordType
<1> HIDE DEF v
<1>2. /\ record[r].intent.pos <= v.intent.pos /\ v.intent.pos <= lane.reserve
      /\ v.intent.epoch <= lane.epoch
      /\ v.referenced => /\ v.stable /\ v.intent.gen = owner[r[1]].gen
                         /\ v.intent.pos < lane.read + Capacity
                         /\ v.intent.pos <= slot[At(v.intent.pos)].seq
                         /\ lane.initialized
  BY <1>1, OneRecord
<1>3. SetRecord(r, v) BY DEF v
<1> QED BY <1>1, <1>2, <1>3, RecordSound

\* A record that no claim names is given up.
LEMMA UnusedSound ==
    ASSUME IInv, NEW p \in Procs, NEW r \in Records, regHold[r[1]] = p, Unnamed(r),
           SetRecord(r, Unused(r)), OnRecord
    PROVE  Sound(p)
<1> DEFINE v == Unused(r)
<1>1. v \in RecordType /\ v.intent = record[r].intent /\ ~v.referenced
  BY Zenon, OneRecord DEF RecordType, Unused
<1> HIDE DEF v
<1>2. /\ record[r].intent.pos <= v.intent.pos /\ v.intent.pos <= lane.reserve
      /\ v.intent.epoch <= lane.epoch
  BY <1>1, OneRecord
<1>3. SetRecord(r, v) BY DEF v
<1> QED BY <1>1, <1>2, <1>3, RecordSound

\* A writer stores its intent, and its record counts as referenced.
LEMMA IntentStoreKeeps ==
    ASSUME IInv, NEW p \in Writers, IntentStore(p)
    PROVE  IInv'
<1> DEFINE j == job[p]
           r == j.rec
           n == [pos |-> j.pos, epoch |-> lane.epoch, gen |-> owner[p].gen]
           v == [record[r] EXCEPT !.stable = TRUE, !.referenced = TRUE, !.intent = n]
<1>1. p \in Procs /\ Step(p, "intent", "claim", j) /\ pc[p] = "intent"
  BY DEF Procs, IntentStore, Steps, Step, J
<1>2. /\ Types /\ SharedInv /\ j \in JobType /\ At(j.pos) \in 0 .. Capacity - 1
      /\ WriterInv(p, "intent", j) /\ regHold[p] = p /\ j.pos \in Nat
  BY <1>1, Actor DEF Knows
<1>3. /\ r \in Records /\ r[1] = p /\ Unnamed(r) /\ j.pos <= lane.reserve
      /\ j.pos < lane.read + Capacity /\ j.pos <= slot[At(j.pos)].seq
      /\ record[r].intent.pos <= j.pos /\ j.msg \in 1 .. sent /\ fate[j.msg].pos = -1
  BY <1>2 DEF WriterInv, Place
<1>4. n \in IntentType
  <2>1. owner[p].gen \in Nat /\ lane.epoch \in Nat BY <1>2, SharedNumbers DEF Types
  <2> QED BY <1>2, <2>1 DEF IntentType
<1>5. v \in RecordType /\ v.intent = n /\ v.referenced /\ v.stable
  BY Zenon, <1>3, <1>4, OneRecord DEF RecordType
<1>6. lane.initialized BY <1>2, <1>3 DEF SharedInv, LaneInv, Types
<1>7. n.pos = j.pos /\ n.epoch = lane.epoch /\ n.gen = owner[p].gen OBVIOUS
<1>8. SetRecord(r, v) /\ OnRecord BY DEF IntentStore, J
<1> HIDE DEF v, n
<1>9. Sound(p)
  <2>1. lane.epoch <= lane.epoch BY <1>2, SharedNumbers
  <2> QED BY <1>1, <1>2, <1>3, <1>5, <1>6, <1>7, <1>8, <2>1, RecordSound
<1>10. pc'[p] = "claim" /\ job'[p] = j BY <1>1, <1>2, StepFacts
<1>11. /\ bound' = bound /\ lane' = lane /\ slot' = slot /\ sent' = sent
       /\ fate' = fate /\ regHold' = regHold
       /\ Capacity' = Capacity /\ Records' = Records /\ record'[r] = v
  BY <1>2, <1>3, <1>8, OnRecordFacts
<1>12. ControlInv(p, "intent", j) /\ ReaderInv(p, "intent", j) BY <1>1, Actor DEF Knows
<1>13. ControlInv(p, pc[p], job[p])' BY <1>10, <1>12 DEF ControlInv, Place
<1>14. WriterInv(p, pc[p], job[p])'
  BY <1>2, <1>3, <1>5, <1>7, <1>10, <1>11 DEF WriterInv, Place, At, Unnamed
<1>15. HelpInv(pc[p], job[p])' BY <1>10 DEF HelpInv
<1>16. RecoverInv(p, pc[p], job[p])' BY <1>10 DEF RecoverInv, Place
<1>17. ReaderInv(p, pc[p], job[p])' BY <1>10, <1>12 DEF ReaderInv, Place
<1>18. Knows(p, pc[p], job[p])' BY <1>13, <1>14, <1>15, <1>16, <1>17 DEF Knows
<1> QED BY Zenon, <1>1, <1>2, <1>9, <1>18, SoundStep

\* A writer drops the intent of a record that no claim names.
LEMMA DropIntentKeeps ==
    ASSUME IInv, NEW p \in Writers, DropIntent(p)
    PROVE  IInv'
<1> DEFINE j == job[p]
           r == j.rec
           v == [record[r] EXCEPT !.writing = FALSE, !.referenced = FALSE]
<1>1. p \in Procs /\ Step(p, "drop", j.then, j) /\ pc[p] = "drop"
  BY DEF Procs, DropIntent, Steps, Step, J
<1>2. /\ Types /\ SharedInv /\ j \in JobType /\ ControlInv(p, "drop", j)
      /\ WriterInv(p, "drop", j) /\ ReaderInv(p, "drop", j) /\ regHold[p] = p
  BY <1>1, Actor DEF Knows
<1>3. /\ r \in Records /\ r[1] = p /\ Unnamed(r) /\ j.msg \in 1 .. sent /\ fate[j.msg].pos = -1
  BY <1>2 DEF WriterInv, Place
<1>4. j.then \in {"help", "progress"} /\ (j.then = "help" => j.help = "progress")
  BY <1>2 DEF ControlInv
<1>5. v \in RecordType /\ v.intent = record[r].intent /\ ~v.referenced
  BY Zenon, <1>3, OneRecord DEF RecordType
<1>6. SetRecord(r, v) /\ OnRecord BY DEF DropIntent, J
<1> HIDE DEF v
<1>7. Sound(p)
  <2>1. /\ record[r].intent.pos <= v.intent.pos /\ v.intent.pos <= lane.reserve
        /\ v.intent.epoch <= lane.epoch
    BY <1>3, <1>5, OneRecord
  <2> QED BY <1>1, <1>2, <1>3, <1>5, <1>6, <2>1, RecordSound
<1>8. pc'[p] = j.then /\ job'[p] = j BY <1>1, <1>2, <1>4, StepFacts
<1>9. bound' = bound /\ sent' = sent /\ fate' = fate /\ regHold' = regHold
  BY <1>2, <1>3, <1>6, OnRecordFacts
<1>10. Place(pc[p], job[p])' = "progress" BY <1>4, <1>8 DEF Place
<1>11. ControlInv(p, pc[p], job[p])' BY <1>2, <1>4, <1>8, <1>10 DEF ControlInv, Place
<1>12. WriterInv(p, pc[p], job[p])'
  BY <1>2, <1>3, <1>9, <1>8, <1>10 DEF WriterInv, Place
<1>13. HelpInv(pc[p], job[p])' BY <1>4, <1>8 DEF HelpInv
<1>14. RecoverInv(p, pc[p], job[p])' BY SMTT(40), <1>8, <1>10 DEF RecoverInv, Place
<1>15. ReaderInv(p, pc[p], job[p])' BY <1>2, <1>8, <1>10 DEF ReaderInv, Place
<1>16. Knows(p, pc[p], job[p])' BY <1>11, <1>12, <1>13, <1>14, <1>15 DEF Knows
<1> QED BY Zenon, <1>1, <1>2, <1>4, <1>7, <1>16, SoundStep

\* A writer is done with its record.
LEMMA UnwriteKeeps ==
    ASSUME IInv, NEW p \in Writers, Unwrite(p)
    PROVE  IInv'
<1> DEFINE j == job[p]
           r == j.rec
           v == [record[r] EXCEPT !.writing = FALSE]
<1>1. p \in Procs /\ Step(p, "unwrite", "idle", j) /\ pc[p] = "unwrite"
  BY DEF Procs, Unwrite, Steps, Step, J
<1>2. /\ Types /\ SharedInv /\ j \in JobType /\ WriterInv(p, "unwrite", j) /\ regHold[p] = p
  BY <1>1, Actor DEF Knows
<1>3. r \in Records /\ r[1] = p BY <1>2 DEF WriterInv, Place
<1>4. SetRecord(r, v) /\ OnRecord BY DEF Unwrite, J
<1>5. Sound(p) BY <1>1, <1>2, <1>3, <1>4, WrittenSound
<1>6. pc'[p] = "idle" /\ job'[p] = NoJob BY <1>1, <1>2, StepFacts
<1>7. bound' = bound /\ regHold' = regHold BY <1>2, <1>3, <1>4, OnRecordFacts
<1>8. Knows(p, pc[p], job[p])' BY <1>1, <1>2, <1>6, <1>7, NoJobFacts, NothingKnownNext
<1> QED BY Zenon, <1>1, <1>2, <1>5, <1>8, SoundStep

\* Recovery is done with a record.
LEMMA RecUnwriteKeeps ==
    ASSUME IInv, NEW p \in Procs, RecUnwrite(p)
    PROVE  IInv'
<1> DEFINE j == job[p]
           r == j.rec
           v == [record[r] EXCEPT !.writing = FALSE]
<1>1. Step(p, "recUnwrite", "records", j) /\ pc[p] = "recUnwrite"
  BY DEF RecUnwrite, Steps, Step, J
<1>2. /\ Types /\ SharedInv /\ j \in JobType /\ Knows(p, "recUnwrite", j)
      /\ p \in Writers => regHold[p] = p
  BY <1>1, Actor
<1>3. r \in Records /\ regHold[r[1]] = p BY <1>2 DEF Knows, RecoverInv, Place
<1>4. SetRecord(r, v) /\ OnRecord BY DEF RecUnwrite, J
<1>5. Sound(p) BY <1>1, <1>2, <1>3, <1>4, WrittenSound
<1>6. pc'[p] = "records" /\ job'[p] = j BY <1>1, <1>2, StepFacts
<1>7. bound' = bound /\ regHold' = regHold BY <1>2, <1>3, <1>4, OnRecordFacts
<1>8. Place("recUnwrite", j) = "recUnwrite" BY DEF Place
<1>9. ControlInv(p, pc[p], job[p])' BY <1>2, <1>6, <1>8 DEF ControlInv, Place, Knows
<1>10. WriterInv(p, pc[p], job[p])'
  BY <1>2, <1>6, <1>7, <1>8 DEF WriterInv, Place, Knows
<1>11. HelpInv(pc[p], job[p])' BY <1>6 DEF HelpInv
<1>12. RecoverInv(p, pc[p], job[p])'
  BY <1>2, <1>6, <1>7, <1>8 DEF RecoverInv, Place, Knows
<1>13. ReaderInv(p, pc[p], job[p])' BY <1>2, <1>6, <1>8 DEF ReaderInv, Place, Knows
<1>14. Knows(p, pc[p], job[p])' BY <1>9, <1>10, <1>11, <1>12, <1>13 DEF Knows
<1> QED BY Zenon, <1>1, <1>2, <1>5, <1>14, SoundStep

\* Recovery takes up a record: it drops what was never claimed, and looks at
\* the rest.
LEMMA NextRecordKeeps ==
    ASSUME IInv, NEW p \in Procs, NextRecord(p)
    PROVE  IInv'
<1> DEFINE j == job[p]
<1>1. pc[p] = "records" BY Zenon DEF NextRecord, Step
<1>2. /\ Types /\ SharedInv /\ j \in JobType /\ Knows(p, "records", j)
      /\ p \in Writers => regHold[p] = p
  BY <1>1, Actor
<1>3. PICK r \in j.recs :
         IF ~record[r].referenced
         THEN /\ Step(p, "records", "records", [j EXCEPT !.recs = @ \ {r}])
              /\ SetRecord(r, Unused(r)) /\ OnRecord
         ELSE /\ Step(p, "records", "recTurn",
                      [j EXCEPT !.recs = @ \ {r}, !.rec = r, !.pos = record[r].intent.pos])
              /\ malformed' = (\/ malformed \/ ~record[r].stable
                               \/ record[r].intent.gen # owner[j.who].gen)
              /\ UNCHANGED <<laneVars, regVars, holdVars, wakeVars, bound, sent,
                             fate, delivered, count>>
  BY Zenon DEF NextRecord, J
<1>4. /\ r \in Records /\ r[1] = j.who /\ regHold[j.who] = p /\ j.who \in Writers
      /\ \A x \in j.recs : x[1] = j.who
  BY <1>2 DEF Knows, RecoverInv, Place, JobType
<1>5. CASE ~record[r].referenced
  <2> DEFINE k == [j EXCEPT !.recs = @ \ {r}]
  <2>1. Step(p, "records", "records", k) /\ SetRecord(r, Unused(r)) /\ OnRecord BY <1>3, <1>5
  <2>2. k \in JobType /\ k.msg = j.msg /\ k.who = j.who /\ k.after = j.after
        /\ k.recs \subseteq j.recs /\ k.serving = j.serving
    BY <1>2 DEF JobType
  <2>3. Unnamed(r) BY <1>4, <1>5, NamedAtItsSlot
  <2>4. Sound(p) BY <1>4, <2>1, <2>3, UnusedSound
  <2> HIDE DEF k
  <2>5. pc'[p] = "records" /\ job'[p] = k BY <1>2, <2>1, StepFacts
  <2>6. bound' = bound /\ regHold' = regHold BY <1>2, <1>4, <2>1, OnRecordFacts
  <2>7. Place("records", j) = "records" BY DEF Place
  <2>8. ControlInv(p, pc[p], job[p])'
    BY <1>2, <2>2, <2>5, <2>7 DEF ControlInv, Place, Knows
  <2>9. WriterInv(p, pc[p], job[p])'
    BY <1>2, <2>2, <2>5, <2>6, <2>7 DEF WriterInv, Place, Knows
  <2>10. HelpInv(pc[p], job[p])' BY <2>5 DEF HelpInv
  <2>11. RecoverInv(p, pc[p], job[p])' BY <1>4, <2>2, <2>5, <2>6 DEF RecoverInv, Place
  <2>12. ReaderInv(p, pc[p], job[p])'
    BY <1>2, <2>2, <2>5, <2>7 DEF ReaderInv, Place, Knows
  <2>13. Knows(p, pc[p], job[p])' BY <2>8, <2>9, <2>10, <2>11, <2>12 DEF Knows
  <2> QED BY Zenon, <2>1, <2>2, <2>4, <2>13, SoundStep
<1>6. CASE record[r].referenced
  <2> DEFINE k == [j EXCEPT !.recs = @ \ {r}, !.rec = r, !.pos = record[r].intent.pos]
  <2>1. Step(p, "records", "recTurn", k) BY <1>3, <1>6
  <2>2. /\ record[r].stable /\ record[r].intent.gen = owner[j.who].gen
        /\ record[r].intent.pos \in Nat
    BY <1>4, <1>6, OneRecord
  <2>3. Calm /\ lane' \in LaneType
    BY <1>2, <1>3, <1>6, <2>2 DEF Calm, laneVars, regVars, holdVars, Types
  <2>4. k \in JobType /\ k.msg = j.msg /\ k.who = j.who /\ k.after = j.after
        /\ k.recs \subseteq j.recs /\ k.rec = r /\ k.pos = record[r].intent.pos
        /\ k.serving = j.serving
    BY Zenon, <1>2, <1>4, <2>2 DEF JobType
  <2> HIDE DEF k
  <2>5. Knows(p, "recTurn", k)
    BY SMTT(40), <1>2, <1>4, <1>6, <2>4
    DEF Knows, ControlInv, WriterInv, HelpInv, RecoverInv, ReaderInv, Place
  <2> QED BY Zenon, <2>1, <2>3, <2>4, <2>5, CalmStep
<1> QED BY <1>5, <1>6

\* Recovery finds the claim of a record reserved, or finds none.
LEMMA RecClaimKeeps ==
    ASSUME IInv, NEW p \in Procs, RecClaim(p)
    PROVE  IInv'
<1> DEFINE j == job[p]
           r == j.rec
           s == slot[At(j.pos)]
           b == CASE s.claim.rec # r -> "records"
                  [] s.claim.rec = r /\ j.turn = j.pos -> "recCancel"
                  [] s.claim = Reserved(r) /\ j.turn # j.pos -> "recRollback"
                  [] OTHER -> "recUnwrite"
<1>1. pc[p] = "recClaim" /\ Step(p, "recClaim", b, j)
  BY SMTT(40) DEF RecClaim, Steps, Step, J, SlotOf
<1>2. /\ Types /\ SharedInv /\ j \in JobType /\ Knows(p, "recClaim", j)
      /\ p \in Writers => regHold[p] = p
      /\ j.pos \in Nat /\ s.seq \in Nat
  BY <1>1, Actor DEF SlotType
<1>3. /\ r \in Records /\ r[1] = j.who /\ regHold[j.who] = p /\ j.who \in Writers
      /\ \A x \in j.recs : x[1] = j.who
      /\ record[r].referenced /\ record[r].intent.pos = j.pos
      /\ j.turn <= s.seq /\ j.pos <= j.turn
      /\ j.turn = j.pos => s.claim # Reserved(r) \/ s.seq = j.pos
  BY <1>2 DEF Knows, RecoverInv, Place
<1>4. Place("recClaim", j) = "recClaim" BY DEF Place
<1>5. CASE s.claim.rec # r
  <2>0. b = "records" BY <1>5, FreeFacts
  <2>1. Step(p, "recClaim", "records", j) BY <1>1, <2>0
  <2>2. SetRecord(r, Unused(r)) /\ OnRecord BY SMTT(40), <1>5 DEF RecClaim, SlotOf, J
  <2>3. Unnamed(r) BY <1>3, <1>5, NamedAtItsSlot
  <2>4. Sound(p) BY <1>3, <2>2, <2>3, UnusedSound
  <2>5. pc'[p] = "records" /\ job'[p] = j BY <1>2, <2>1, StepFacts
  <2>6. bound' = bound /\ regHold' = regHold BY <1>2, <1>3, <2>2, OnRecordFacts
  <2>8. ControlInv(p, pc[p], job[p])' BY <1>2, <1>4, <2>5 DEF ControlInv, Place, Knows
  <2>9. WriterInv(p, pc[p], job[p])'
    BY <1>2, <1>4, <2>5, <2>6 DEF WriterInv, Place, Knows
  <2>10. HelpInv(pc[p], job[p])' BY <2>5 DEF HelpInv
  <2>11. RecoverInv(p, pc[p], job[p])' BY SMTT(40), <1>3, <2>5, <2>6 DEF RecoverInv, Place
  <2>12. ReaderInv(p, pc[p], job[p])' BY <1>2, <1>4, <2>5 DEF ReaderInv, Place, Knows
  <2>13. Knows(p, pc[p], job[p])' BY <2>8, <2>9, <2>10, <2>11, <2>12 DEF Knows
  <2> QED BY Zenon, <1>2, <2>1, <2>4, <2>13, SoundStep
<1>6. CASE s.claim.rec = r
  <2>1. /\ j.turn = j.pos => b = "recCancel"
        /\ s.claim = Reserved(r) /\ j.turn # j.pos => b = "recRollback"
        /\ s.claim # Reserved(r) /\ j.turn # j.pos => b = "recUnwrite"
    BY <1>6
  <2>2. Calm /\ lane' \in LaneType
    BY <1>2, <1>6
    DEF RecClaim, SlotOf, J, OnRecord, Calm, Types, laneVars, holdVars, histVars
  <2>3. j.turn # j.pos => s.seq # j.pos
    <3>1. j.turn \in Nat BY <1>2 DEF JobType
    <3> QED BY <1>2, <1>3, <3>1
  <2>4. b \in {"recCancel", "recRollback", "recUnwrite"} BY SMTT(40), <2>1
  <2> HIDE DEF b
  <2>5. ControlInv(p, b, j) /\ WriterInv(p, b, j) /\ HelpInv(b, j) /\ ReaderInv(p, b, j)
    BY SMTT(40), <1>2, <1>4, <2>4 DEF Knows, ControlInv, WriterInv, HelpInv, ReaderInv, Place
  <2>6. RecoverInv(p, b, j)
    <3>1. CASE b = "recCancel" BY <1>3, <2>1, <2>3, <3>1 DEF RecoverInv, Place
    <3>2. CASE b = "recRollback" BY <1>3, <2>1, <2>3, <3>2 DEF RecoverInv, Place
    <3>3. CASE b = "recUnwrite" BY <1>3, <3>3 DEF RecoverInv, Place
    <3> QED BY <2>4, <3>1, <3>2, <3>3
  <2> QED BY SMTT(40), <1>1, <1>2, <2>2, <2>4, <2>5, <2>6, CalmStep DEF Knows
<1> QED BY <1>5, <1>6

-----------------------------------------------------------------------------
(***************************************************************************)
(* The steps that change a slot                                            *)
(***************************************************************************)

\* A store to a slot leaves the others as they were.
LEMMA OneSlot ==
    ASSUME Types, NEW i \in 0 .. Capacity - 1, NEW v, slot' = [slot EXCEPT ![i] = v]
    PROVE  slot'[i] = v /\ \A y \in (0 .. Capacity - 1) \ {i} : slot'[y] = slot[y]
BY DEF Types

\* A store to a slot leaves all else as it was.
LEMMA OnSlotFacts ==
    ASSUME Types, OnSlot
    PROVE  /\ bound' = bound /\ lane' = lane /\ record' = record /\ sent' = sent
           /\ owner' = owner /\ fate' = fate /\ delivered' = delivered
           /\ laneHold' = laneHold /\ regHold' = regHold /\ malformed' = malformed
           /\ Capacity' = Capacity /\ Records' = Records /\ lane' \in LaneType
<1>1. bound' = bound BY DEF OnSlot, histVars
<1> QED BY <1>1, SameTypes DEF OnSlot, regVars, holdVars, histVars, Types

\* A writer claims the slot if it is still free, with a record that is of
\* this turn.
LEMMA ClaimSlotKeeps ==
    ASSUME IInv, NEW p \in Writers, ClaimSlot(p)
    PROVE  IInv'
<1> DEFINE j == job[p]
           r == j.rec
           i == At(j.pos)
           s == slot[i]
<1>1. p \in Procs /\ pc[p] = "claim" BY DEF Procs, ClaimSlot, Steps, Step
<1>2. /\ Types /\ SharedInv /\ j \in JobType /\ i \in 0 .. Capacity - 1 /\ s \in SlotType
      /\ Knows(p, "claim", j) /\ regHold[p] = p
  BY <1>1, Actor
<1>3. /\ r \in Records /\ r[1] = p /\ Unnamed(r) /\ j.pos <= lane.reserve
      /\ j.pos < lane.read + Capacity /\ j.pos <= s.seq /\ record[r].referenced
      /\ record[r].intent.pos = j.pos /\ j.msg \in 1 .. sent /\ fate[j.msg].pos = -1
  BY <1>2 DEF Knows, WriterInv, Place
<1>4. /\ bound' = bound /\ lane' = lane /\ record' = record /\ sent' = sent
      /\ owner' = owner /\ fate' = fate /\ delivered' = delivered
      /\ laneHold' = laneHold /\ regHold' = regHold /\ malformed' = malformed
      /\ Capacity' = Capacity /\ Records' = Records /\ lane' \in LaneType
  BY <1>2, OnSlotFacts DEF ClaimSlot
<1>5. Place("claim", j) = "claim" BY DEF Place
<1>6. CASE s.claim = Free
  <2> DEFINE v == [s EXCEPT !.claim = Reserved(r)]
  <2>1. slot' = [slot EXCEPT ![i] = v] /\ Step(p, "claim", "turn", j)
    BY <1>6 DEF ClaimSlot, SlotOf, J, SetSlot, Steps
  <2>2. /\ v \in SlotType /\ v.seq = s.seq /\ v.claim = Reserved(r)
    BY <1>2, <1>3, FreeFacts DEF SlotType
  <2>3. /\ v.claim.rec = r /\ v.claim.state = "reserved" /\ ~Done(v.claim) /\ v.claim # Free
    BY <2>2, FreeFacts
  <2> HIDE DEF v
  <2>4. Sound(p)
    <3>1. record' \in [Records -> RecordType] BY <1>2, <1>4 DEF Types
    <3> QED BY Zenon, <1>1, <1>2, <1>3, <1>4, <1>6, <2>1, <2>2, <2>3, <3>1, SlotSound
  <2>5. pc'[p] = "turn" /\ job'[p] = j BY <1>1, <1>2, <2>1, StepFacts
  <2>6. slot'[i] = v BY Zenon, <1>2, <2>1, OneSlot
  <2>7. ControlInv(p, pc[p], job[p])' BY <1>2, <1>5, <2>5 DEF ControlInv, Place, Knows
  <2>8. WriterInv(p, pc[p], job[p])'
    BY <1>2, <1>3, <1>4, <2>2, <2>5, <2>6 DEF WriterInv, Place, At, Reserved
  <2>9. HelpInv(pc[p], job[p])' BY <2>5 DEF HelpInv
  <2>10. RecoverInv(p, pc[p], job[p])' BY <2>5 DEF RecoverInv, Place
  <2>11. ReaderInv(p, pc[p], job[p])' BY <1>2, <1>5, <2>5 DEF ReaderInv, Place, Knows
  <2>12. Knows(p, pc[p], job[p])' BY <2>7, <2>8, <2>9, <2>10, <2>11 DEF Knows
  <2> QED BY Zenon, <1>1, <1>2, <2>1, <2>4, <2>12, SoundStep
<1>7. CASE s.claim # Free
  <2> DEFINE k == [j EXCEPT !.then = "help"]
  <2>1. slot' = slot /\ Step(p, "claim", "drop", k)
    BY <1>7 DEF ClaimSlot, SlotOf, J
  <2>2. Calm BY <1>4, <2>1 DEF Calm
  <2>3. k \in JobType /\ k.msg = j.msg BY SMTT(40), <1>2 DEF JobType
  <2>4. Knows(p, "drop", k)
    BY SMTT(40), <1>2, <1>5, <2>3
    DEF Knows, ControlInv, WriterInv, HelpInv, RecoverInv, ReaderInv, Place, JobType
  <2> HIDE DEF k
  <2> QED BY Zenon, <1>1, <1>4, <2>1, <2>2, <2>3, <2>4, CalmStep
<1> QED BY <1>6, <1>7

\* What a writer knows that has claimed its slot.
LEMMA ClaimedFacts ==
    ASSUME IInv, NEW p \in Writers, pc[p] \in Claimed
    PROVE  LET j == job[p]
               r == j.rec
               i == At(j.pos)
               s == slot[i]
           IN  /\ p \in Procs /\ Types /\ SharedInv /\ j \in JobType /\ j.pos \in Nat
               /\ i \in 0 .. Capacity - 1 /\ s \in SlotType
               /\ Knows(p, pc[p], j) /\ Place(pc[p], j) = pc[p] /\ regHold[p] = p
               /\ r \in Records /\ r[1] = p
               /\ s.claim = Reserved(r) /\ record[r].referenced /\ record[r].intent.pos = j.pos
               /\ j.pos <= lane.reserve /\ j.pos < lane.read + Capacity /\ j.pos <= s.seq
               /\ j.msg \in 1 .. sent /\ fate[j.msg].pos = -1
               /\ Reserved(r).rec = r /\ Reserved(r).state = "reserved"
               /\ ~Done(Reserved(r)) /\ Reserved(r) # Free
<1>1. p \in Procs BY DEF Procs
<1>2. Place(pc[p], job[p]) = pc[p] BY DEF Place
<1>3. WriterInv(p, pc[p], job[p]) BY SMTT(40), <1>1, Actor DEF Knows
<1> QED BY <1>1, <1>2, <1>3, Actor, FreeFacts DEF WriterInv

\* A writer that came out of turn takes its claim back.
LEMMA RollBackKeeps ==
    ASSUME IInv, NEW p \in Writers, RollBack(p)
    PROVE  IInv'
<1> DEFINE j == job[p]
           r == j.rec
           i == At(j.pos)
           s == slot[i]
           v == [s EXCEPT !.claim = Free]
<1>1. Step(p, "rollback", "drop", j) /\ pc[p] = "rollback"
  BY DEF RollBack, Steps, Step, J
<1>2. /\ p \in Procs /\ Types /\ SharedInv /\ j \in JobType /\ Knows(p, "rollback", j)
      /\ i \in 0 .. Capacity - 1 /\ s \in SlotType /\ regHold[p] = p
      /\ r \in Records /\ r[1] = p /\ s.claim = Reserved(r)
      /\ record[r].referenced /\ record[r].intent.pos = j.pos
      /\ j.msg \in 1 .. sent /\ fate[j.msg].pos = -1 /\ Place("rollback", j) = "rollback"
  BY <1>1, ClaimedFacts
<1>3. s.seq # j.pos BY <1>2 DEF Knows, WriterInv
<1>4. slot' = [slot EXCEPT ![i] = v] /\ OnSlot
  BY <1>2 DEF RollBack, SlotOf, J, SetSlot
<1>5. v \in SlotType /\ v.seq = s.seq /\ v.claim = Free BY <1>2, FreeFacts DEF SlotType
<1> HIDE DEF v
<1>6. /\ bound' = bound /\ lane' = lane /\ record' = record /\ sent' = sent
      /\ owner' = owner /\ fate' = fate /\ delivered' = delivered
      /\ laneHold' = laneHold /\ regHold' = regHold /\ malformed' = malformed
      /\ Capacity' = Capacity /\ Records' = Records
  BY <1>2, <1>4, OnSlotFacts
<1>7. Sound(p)
  <2>1. record' \in [Records -> RecordType] BY <1>2, <1>6 DEF Types
  <2>2. ~Done(Free) /\ Free.state = "free" BY FreeFacts
  <2> QED BY Zenon, <1>2, <1>3, <1>4, <1>5, <1>6, <2>1, <2>2, SlotSound
<1>8. pc'[p] = "drop" /\ job'[p] = j BY <1>1, <1>2, StepFacts
<1>9. Unnamed(r)'
  <2> SUFFICES ASSUME NEW y \in 0 .. Capacity - 1 PROVE slot'[y].claim.rec # r
    BY <1>6, <1>8 DEF Unnamed
  <2>0. Free.rec # r BY <1>2, FreeFacts, RecordFacts, SharedNumbers
  <2>1. slot'[i].claim.rec # r
    <3>1. slot'[i] = v BY Zenon, <1>2, <1>4, OneSlot
    <3> QED BY <1>5, <2>0, <3>1
  <2>2. y # i => slot'[y] = slot[y] BY <1>2, <1>4, OneSlot
  <2>3. y # i => slot[y].claim.rec # r
    <3> SUFFICES ASSUME slot[y].claim.rec = r PROVE y = i OBVIOUS
    <3>1. slot[y].claim # Free /\ ClaimInv BY SMTT(40), <1>2, <2>0 DEF SharedInv
    <3>2. At(record[r].intent.pos) = y BY Zenon, <1>2, <3>1, ClaimFacts
    <3> QED BY <1>2, <3>2
  <2> QED BY <2>1, <2>2, <2>3
<1>10. ControlInv(p, pc[p], job[p])' BY <1>2, <1>8 DEF ControlInv, Place, Knows
<1>11. WriterInv(p, pc[p], job[p])'
  BY <1>2, <1>6, <1>8, <1>9 DEF WriterInv, Place, Unnamed
<1>12. HelpInv(pc[p], job[p])' BY <1>8 DEF HelpInv
<1>13. RecoverInv(p, pc[p], job[p])' BY <1>8 DEF RecoverInv, Place
<1>14. ReaderInv(p, pc[p], job[p])' BY SMTT(40), <1>2, <1>8 DEF ReaderInv, Place, Knows
<1>15. Knows(p, pc[p], job[p])' BY <1>10, <1>11, <1>12, <1>13, <1>14 DEF Knows
<1> QED BY Zenon, <1>1, <1>2, <1>7, <1>15, SoundStep

\* A writer stores its message while nothing but its own claim is on the
\* slot.
LEMMA StorePayloadKeeps ==
    ASSUME IInv, NEW p \in Writers, StorePayload(p)
    PROVE  IInv'
<1> DEFINE j == job[p]
           r == j.rec
           i == At(j.pos)
           s == slot[i]
           v == [s EXCEPT !.body = j.msg]
<1>1. Step(p, "payload", "commit", j) /\ pc[p] = "payload"
  BY DEF StorePayload, Steps, Step, J
<1>2. /\ p \in Procs /\ Types /\ SharedInv /\ j \in JobType /\ Knows(p, "payload", j)
      /\ i \in 0 .. Capacity - 1 /\ s \in SlotType /\ regHold[p] = p
      /\ r \in Records /\ r[1] = p /\ s.claim = Reserved(r)
      /\ record[r].referenced /\ record[r].intent.pos = j.pos
      /\ j.msg \in 1 .. sent /\ fate[j.msg].pos = -1 /\ Place("payload", j) = "payload"
      /\ j.pos <= lane.reserve /\ j.pos < lane.read + Capacity /\ j.pos <= s.seq
      /\ Reserved(r).rec = r /\ Reserved(r).state = "reserved" /\ ~Done(Reserved(r))
      /\ Reserved(r) # Free
  BY <1>1, ClaimedFacts
<1>3. s.seq = j.pos /\ j.pos < lane.reserve BY <1>2 DEF Knows, WriterInv
<1>4. slot' = [slot EXCEPT ![i] = v] /\ OnSlot
  BY <1>2 DEF StorePayload, SlotOf, J, SetSlot
<1>5. v \in SlotType /\ v.seq = s.seq /\ v.claim = s.claim /\ v.body = j.msg
  <2>1. j.msg \in Nat BY <1>2 DEF JobType
  <2> QED BY <1>2, <2>1 DEF SlotType
<1> HIDE DEF v
<1>6. /\ bound' = bound /\ lane' = lane /\ record' = record /\ sent' = sent
      /\ owner' = owner /\ fate' = fate /\ delivered' = delivered
      /\ laneHold' = laneHold /\ regHold' = regHold /\ malformed' = malformed
      /\ Capacity' = Capacity /\ Records' = Records
  BY <1>2, <1>4, OnSlotFacts
<1>7. Sound(p)
  <2>1. record' \in [Records -> RecordType] BY <1>2, <1>6 DEF Types
  <2> QED BY ZenonT(60), <1>2, <1>3, <1>4, <1>5, <1>6, <2>1, SlotSound
<1>8. pc'[p] = "commit" /\ job'[p] = j BY <1>1, <1>2, StepFacts
<1>9. slot'[i] = v BY Zenon, <1>2, <1>4, OneSlot
<1>10. ControlInv(p, pc[p], job[p])' BY <1>2, <1>8 DEF ControlInv, Place, Knows
<1>11. WriterInv(p, pc[p], job[p])'
  BY <1>2, <1>3, <1>5, <1>6, <1>8, <1>9 DEF WriterInv, Place, At, Reserved
<1>12. HelpInv(pc[p], job[p])' BY <1>8 DEF HelpInv
<1>13. RecoverInv(p, pc[p], job[p])' BY <1>8 DEF RecoverInv, Place
<1>14. ReaderInv(p, pc[p], job[p])' BY SMTT(40), <1>2, <1>8 DEF ReaderInv, Place, Knows
<1>15. Knows(p, pc[p], job[p])' BY <1>10, <1>11, <1>12, <1>13, <1>14 DEF Knows
<1> QED BY Zenon, <1>1, <1>2, <1>7, <1>15, SoundStep

\* A writer commits: its message is admitted, in its slot, and of its intent.
LEMMA CommitKeeps ==
    ASSUME IInv, NEW p \in Writers, Commit(p)
    PROVE  IInv'
<1> DEFINE j == job[p]
           r == j.rec
           i == At(j.pos)
           s == slot[i]
           c == [rec |-> r, state |-> "committed"]
           v == [s EXCEPT !.claim = c]
           k == [j EXCEPT !.wake = "unwrite"]
<1>1. Step(p, "commit", "bump", k) /\ pc[p] = "commit" BY DEF Commit, Step, J
<1>2. /\ p \in Procs /\ Types /\ SharedInv /\ j \in JobType /\ Knows(p, "commit", j)
      /\ i \in 0 .. Capacity - 1 /\ s \in SlotType /\ regHold[p] = p
      /\ r \in Records /\ r[1] = p /\ s.claim = Reserved(r)
      /\ record[r].referenced /\ record[r].intent.pos = j.pos
      /\ j.msg \in 1 .. sent /\ fate[j.msg].pos = -1 /\ Place("commit", j) = "commit"
  BY <1>1, ClaimedFacts
<1>3. s.seq = j.pos /\ j.pos < lane.reserve /\ s.body = j.msg BY <1>2 DEF Knows, WriterInv
<1>4. /\ slot' = [slot EXCEPT ![i] = v]
      /\ fate' = [fate EXCEPT ![j.msg] = [pos |-> record[r].intent.pos,
                                          epoch |-> record[r].intent.epoch]]
      /\ bound' = bound /\ lane' = lane /\ record' = record /\ sent' = sent
      /\ owner' = owner /\ delivered' = delivered
      /\ laneHold' = laneHold /\ regHold' = regHold /\ malformed' = malformed
  BY <1>2 DEF Commit, SlotOf, J, SetSlot, regVars, holdVars
<1>5. c \in ClaimType /\ c # Free /\ c.rec = r /\ c.state = "committed" /\ Done(c)
  <2>1. c \in ClaimType BY <1>2 DEF ClaimType
  <2>2. c.rec = r /\ c.state = "committed" OBVIOUS
  <2>3. Done(c) BY <2>2 DEF Done
  <2> QED BY <2>1, <2>2, <2>3, FreeFacts
<1> HIDE DEF c
<1>6. v \in SlotType /\ v.seq = s.seq /\ v.claim = c /\ v.body = j.msg
  BY <1>2, <1>3, <1>5 DEF SlotType
<1>7. /\ k \in JobType /\ k.msg = j.msg /\ k.rec = r /\ k.wake = "unwrite"
      /\ k.serving = j.serving
  BY <1>2 DEF JobType
<1> HIDE DEF v, k
<1>8. Sound(p)
  <2>1. record' \in [Records -> RecordType] BY <1>2, <1>4 DEF Types
  <2>2. \A q \in Procs \ {p} : job[q].msg # j.msg
    <3>1. j.msg # 0 /\ MessageInv BY <1>2, SharedNumbers DEF IInv
    <3> QED BY <1>2, <3>1 DEF MessageInv
  <2>3. /\ v.claim.rec = r /\ v.claim.state = "committed" /\ v.claim # Free /\ v.body = j.msg
        /\ v.seq = s.seq /\ v \in SlotType
        /\ \A x \in Records : record'[x] = record[x]
        /\ slot[i].seq = record[r].intent.pos /\ record[r].intent.pos < lane.reserve
        /\ At(record[r].intent.pos) = i /\ slot[i].claim \in {Free, Reserved(r)}
        /\ regHold[r[1]] = p
    BY <1>2, <1>3, <1>4, <1>5, <1>6
  <2>4. Commits(p, r, v, j.msg) BY <1>2, <1>4, <2>2, <2>3 DEF Commits
  <2> QED BY Zenon, <1>2, <1>4, <2>1, <2>3, <2>4, SlotSound
<1>9. pc'[p] = "bump" /\ job'[p] = k BY <1>1, <1>2, StepFacts
<1>10. Place(pc[p], job[p])' = "unwrite" BY <1>7, <1>9 DEF Place
<1>11. Capacity' = Capacity /\ Records' = Records BY <1>4, SameTypes
<1>12. ControlInv(p, pc[p], job[p])' BY <1>9, <1>10 DEF ControlInv, Place
<1>13. WriterInv(p, pc[p], job[p])'
  BY <1>2, <1>4, <1>7, <1>9, <1>10, <1>11 DEF WriterInv, Place
<1>14. HelpInv(pc[p], job[p])' BY <1>9 DEF HelpInv
<1>15. RecoverInv(p, pc[p], job[p])' BY SMTT(40), <1>9, <1>10 DEF RecoverInv, Place
<1>16. ReaderInv(p, pc[p], job[p])'
  BY <1>2, <1>7, <1>9, <1>10 DEF ReaderInv, Place, Knows
<1>17. Knows(p, pc[p], job[p])' BY <1>12, <1>13, <1>14, <1>15, <1>16 DEF Knows
<1> QED BY Zenon, <1>1, <1>2, <1>7, <1>8, <1>17, SoundStep

\* Recovery cancels the admitted turn of a writer that died.
LEMMA RecCancelKeeps ==
    ASSUME IInv, NEW p \in Procs, RecCancel(p)
    PROVE  IInv'
<1> DEFINE j == job[p]
           r == j.rec
           i == At(j.pos)
           s == slot[i]
           k == [j EXCEPT !.help = "bump", !.wake = "recUnwrite"]
<1>1. Step(p, "recCancel", "help", k) /\ pc[p] = "recCancel" BY DEF RecCancel, Step, J
<1>2. /\ Types /\ SharedInv /\ j \in JobType /\ Knows(p, "recCancel", j)
      /\ i \in 0 .. Capacity - 1 /\ s \in SlotType
      /\ p \in Writers => regHold[p] = p
  BY <1>1, Actor
<1>3. Place("recCancel", j) = "recCancel" BY DEF Place
<1>4. /\ r \in Records /\ r[1] = j.who /\ regHold[j.who] = p /\ j.who \in Writers
      /\ \A x \in j.recs : x[1] = j.who
      /\ record[r].referenced /\ record[r].intent.pos = j.pos
      /\ s.claim # Reserved(r) \/ s.seq = j.pos
  BY <1>2, <1>3 DEF Knows, RecoverInv
<1>5. /\ k \in JobType /\ k.msg = j.msg /\ k.rec = r /\ k.who = j.who /\ k.recs = j.recs
      /\ k.after = j.after /\ k.serving = j.serving /\ k.help = "bump"
      /\ k.wake = "recUnwrite" /\ k.pos = j.pos
  BY Zenon, <1>2 DEF JobType
<1> HIDE DEF k
<1>6. /\ bound' = bound /\ lane' = lane /\ record' = record /\ sent' = sent
      /\ owner' = owner /\ fate' = fate /\ delivered' = delivered
      /\ laneHold' = laneHold /\ regHold' = regHold /\ malformed' = malformed
      /\ Capacity' = Capacity /\ Records' = Records /\ lane' \in LaneType
  BY <1>2, OnSlotFacts DEF RecCancel
<1>7. CASE s.claim = Reserved(r)
  <2> DEFINE v == [s EXCEPT !.claim.state = "cancelled"]
  <2>1. slot' = [slot EXCEPT ![i] = v] BY <1>7 DEF RecCancel, SlotOf, J, SetSlot
  <2>2. s.claim.rec = r BY <1>7, FreeFacts
  <2>3. /\ v \in SlotType /\ v.seq = s.seq /\ v.claim.rec = r /\ v.claim.state = "cancelled"
    BY <1>2, <1>4, <2>2 DEF SlotType, ClaimType
  <2>4. v.claim # Free BY <2>3, FreeFacts
  <2> HIDE DEF v
  <2>5. Sound(p)
    <3>1. record' \in [Records -> RecordType] BY <1>2, <1>6 DEF Types
    <3> QED BY ZenonT(60), <1>2, <1>4, <1>6, <1>7, <2>1, <2>3, <2>4, <3>1, SlotSound
  <2>6. pc'[p] = "help" /\ job'[p] = k BY <1>1, <1>2, StepFacts
  <2>7. Place(pc[p], job[p])' = "recUnwrite" BY <1>5, <2>6 DEF Place
  <2>8. ControlInv(p, pc[p], job[p])'
    BY <1>2, <1>3, <1>5, <2>6, <2>7 DEF ControlInv, Place, Knows
  <2>9. WriterInv(p, pc[p], job[p])'
    BY <1>2, <1>3, <1>5, <1>6, <2>6, <2>7 DEF WriterInv, Place, Knows
  <2>10. HelpInv(pc[p], job[p])' BY <2>6 DEF HelpInv
  <2>11. RecoverInv(p, pc[p], job[p])'
    BY <1>4, <1>5, <1>6, <2>6, <2>7 DEF RecoverInv, Place
  <2>12. ReaderInv(p, pc[p], job[p])'
    BY <1>2, <1>3, <1>5, <2>6, <2>7 DEF ReaderInv, Place, Knows
  <2>13. Knows(p, pc[p], job[p])' BY <2>8, <2>9, <2>10, <2>11, <2>12 DEF Knows
  <2> QED BY Zenon, <1>1, <1>5, <2>5, <2>13, SoundStep
<1>8. CASE s.claim # Reserved(r)
  <2>1. slot' = [slot EXCEPT ![i] = s] BY <1>8 DEF RecCancel, SlotOf, J, SetSlot
  <2>2. slot' = slot BY <1>2, <2>1 DEF Types
  <2>3. Calm BY <1>6, <2>2 DEF Calm
  <2>4. Place("help", k) = "recUnwrite" BY SMTT(40), <1>5 DEF Place
  <2>5. Knows(p, "help", k)
    BY SMTT(40), <1>2, <1>3, <1>4, <1>5, <2>4
    DEF Knows, ControlInv, WriterInv, HelpInv, RecoverInv, ReaderInv
  <2> QED BY Zenon, <1>1, <1>5, <1>6, <2>3, <2>5, CalmStep
<1> QED BY <1>7, <1>8

\* Recovery takes back the claim of a writer that died before its turn.
LEMMA RecRollBackKeeps ==
    ASSUME IInv, NEW p \in Procs, RecRollBack(p)
    PROVE  IInv'
<1> DEFINE j == job[p]
           r == j.rec
           i == At(j.pos)
           s == slot[i]
           v == [s EXCEPT !.claim = Free]
<1>1. pc[p] = "recRollback" BY DEF RecRollBack, Steps, Step
<1>2. /\ Types /\ SharedInv /\ j \in JobType /\ Knows(p, "recRollback", j)
      /\ i \in 0 .. Capacity - 1 /\ s \in SlotType
      /\ p \in Writers => regHold[p] = p
  BY <1>1, Actor
<1>3. Place("recRollback", j) = "recRollback" BY DEF Place
<1>4. /\ r \in Records /\ r[1] = j.who /\ regHold[j.who] = p /\ j.who \in Writers
      /\ \A x \in j.recs : x[1] = j.who
      /\ record[r].referenced /\ record[r].intent.pos = j.pos
      /\ s.claim = Reserved(r) /\ s.seq # j.pos
  BY <1>2, <1>3 DEF Knows, RecoverInv
<1>5. /\ slot' = [slot EXCEPT ![i] = v] /\ record' = [record EXCEPT ![r] = Unused(r)]
      /\ Step(p, "recRollback", "records", j)
      /\ bound' = bound /\ lane' = lane /\ sent' = sent
      /\ owner' = owner /\ fate' = fate /\ delivered' = delivered
      /\ laneHold' = laneHold /\ regHold' = regHold /\ malformed' = malformed
  BY <1>4 DEF RecRollBack, SlotOf, J, SetSlot, SetRecord, Steps, holdVars, histVars
<1>6. v \in SlotType /\ v.seq = s.seq /\ v.claim = Free BY <1>2, FreeFacts DEF SlotType
<1> HIDE DEF v
<1>7. /\ record' \in [Records -> RecordType]
      /\ record'[r].intent = record[r].intent /\ ~record'[r].referenced
      /\ \A x \in Records \ {r} : record'[x] = record[x]
  <2>1. /\ Unused(r) \in RecordType /\ Unused(r).intent = record[r].intent
        /\ ~Unused(r).referenced
    BY Zenon, <1>4, OneRecord DEF Unused, RecordType
  <2>2. record \in [Records -> RecordType] BY <1>2 DEF Types
  <2> QED BY <1>4, <1>5, <2>1, <2>2
<1>8. Sound(p)
  <2>1. ~Done(Free) /\ Free.state = "free" BY FreeFacts
  <2> QED BY ZenonT(60), <1>2, <1>4, <1>5, <1>6, <1>7, <2>1, SlotSound
<1>9. pc'[p] = "records" /\ job'[p] = j BY <1>2, <1>5, StepFacts
<1>10. ControlInv(p, pc[p], job[p])' BY <1>2, <1>3, <1>9 DEF ControlInv, Place, Knows
<1>11. WriterInv(p, pc[p], job[p])'
  BY <1>2, <1>3, <1>5, <1>9 DEF WriterInv, Place, Knows
<1>12. HelpInv(pc[p], job[p])' BY <1>9 DEF HelpInv
<1>13. RecoverInv(p, pc[p], job[p])' BY <1>4, <1>5, <1>9 DEF RecoverInv, Place
<1>14. ReaderInv(p, pc[p], job[p])' BY <1>2, <1>3, <1>9 DEF ReaderInv, Place, Knows
<1>15. Knows(p, pc[p], job[p])' BY <1>10, <1>11, <1>12, <1>13, <1>14 DEF Knows
<1> QED BY Zenon, <1>2, <1>5, <1>8, <1>15, SoundStep

-----------------------------------------------------------------------------
(***************************************************************************)
(* The steps that admit a turn                                             *)
(***************************************************************************)

\* A store to the lane leaves all else as it was.
LEMMA OnLaneFacts ==
    ASSUME Types, OnLane
    PROVE  /\ bound' = bound /\ slot' = slot /\ record' = record /\ sent' = sent
           /\ owner' = owner /\ fate' = fate /\ delivered' = delivered
           /\ laneHold' = laneHold /\ regHold' = regHold /\ malformed' = malformed
           /\ Capacity' = Capacity /\ Records' = Records
<1>1. bound' = bound BY DEF OnLane, histVars
<1> QED BY <1>1, SameTypes DEF OnLane, regVars, holdVars, histVars

\* Admitting a turn puts the reserve position past it.
LEMMA AdmittedFacts ==
    ASSUME Types, NEW x \in Nat, x <= lane.reserve, SetLane(AdmittedAt(x))
    PROVE  x < lane'.reserve /\ lane'.read = lane.read
<1>1. lane.reserve \in Nat /\ lane \in LaneType BY SharedNumbers DEF Types
<1>2. CASE lane.reserve = x
  <2>1. lane' = [lane EXCEPT !.reserve = x + 1] BY <1>2 DEF SetLane, AdmittedAt
  <2>2. lane'.reserve = x + 1 /\ lane'.read = lane.read BY <1>1, <2>1 DEF LaneType
  <2> QED BY <2>2
<1>3. CASE lane.reserve # x BY <1>1, <1>3 DEF SetLane, AdmittedAt
<1> QED BY <1>2, <1>3

\* A writer admits its turn, if no helper has.
LEMMA AdmitKeeps ==
    ASSUME IInv, NEW p \in Writers, Admit(p)
    PROVE  IInv'
<1> DEFINE j == job[p]
           r == j.rec
           i == At(j.pos)
           s == slot[i]
<1>1. Step(p, "admit", "payload", j) /\ pc[p] = "admit" BY DEF Admit, Steps, Step, J
<1>2. /\ p \in Procs /\ Types /\ SharedInv /\ j \in JobType /\ Knows(p, "admit", j)
      /\ regHold[p] = p /\ j.pos \in Nat
      /\ r \in Records /\ r[1] = p /\ s.claim = Reserved(r)
      /\ record[r].referenced /\ record[r].intent.pos = j.pos
      /\ j.msg \in 1 .. sent /\ fate[j.msg].pos = -1 /\ Place("admit", j) = "admit"
      /\ j.pos <= lane.reserve /\ j.pos < lane.read + Capacity /\ j.pos <= s.seq
      /\ Reserved(r).rec = r
  BY <1>1, ClaimedFacts
<1>3. s.seq = j.pos BY <1>2 DEF Knows, WriterInv
<1>4. SetLane(AdmittedAt(j.pos)) /\ OnLane BY DEF Admit, J
<1>5. Sound(p) BY <1>2, <1>3, <1>4, AdmitSound
<1>6. pc'[p] = "payload" /\ job'[p] = j BY <1>1, <1>2, StepFacts
<1>7. /\ bound' = bound /\ slot' = slot /\ record' = record /\ sent' = sent
      /\ fate' = fate /\ regHold' = regHold /\ Capacity' = Capacity /\ Records' = Records
  BY <1>2, <1>4, OnLaneFacts
<1>8. j.pos < lane'.reserve /\ j.pos <= lane'.reserve /\ lane'.read = lane.read
  <2>1. j.pos < lane'.reserve /\ lane'.read = lane.read BY <1>2, <1>4, AdmittedFacts
  <2>2. lane'.reserve \in Nat BY <1>5 DEF Sound, SharedTypes, LaneType
  <2> QED BY <1>2, <2>1, <2>2
<1>9. ControlInv(p, pc[p], job[p])' BY <1>2, <1>6 DEF ControlInv, Place, Knows
<1>10. WriterInv(p, pc[p], job[p])'
  BY <1>2, <1>3, <1>6, <1>7, <1>8 DEF WriterInv, Place, At, Reserved
<1>11. HelpInv(pc[p], job[p])' BY <1>6 DEF HelpInv
<1>12. RecoverInv(p, pc[p], job[p])' BY <1>6 DEF RecoverInv, Place
<1>13. ReaderInv(p, pc[p], job[p])' BY <1>2, <1>6 DEF ReaderInv, Place, Knows
<1>14. Knows(p, pc[p], job[p])' BY <1>9, <1>10, <1>11, <1>12, <1>13 DEF Knows
<1> QED BY Zenon, <1>1, <1>2, <1>5, <1>14, SoundStep

\* A helper admits a turn that is claimed and in turn, or that is admitted.
LEMMA HelpAdmitKeeps ==
    ASSUME IInv, NEW p \in Procs, HelpAdmit(p)
    PROVE  IInv'
<1> DEFINE j == job[p]
           r == j.claim.rec
           s == slot[At(j.pos)]
           k == [j EXCEPT !.claim = Free, !.intent = NoIntent]
<1>1. Step(p, "helpAdmit", j.help, k) /\ pc[p] = "helpAdmit"
  BY DEF HelpAdmit, Helping, Step, J
<1>2. Types /\ SharedInv /\ j \in JobType /\ j.pos \in Nat /\ Knows(p, "helpAdmit", j)
  BY <1>1, Actor
<1>3. /\ k \in JobType /\ k.pos = j.pos /\ k.msg = j.msg /\ k.rec = j.rec
      /\ k.who = j.who /\ k.recs = j.recs /\ k.serving = j.serving /\ k.after = j.after
      /\ k.help = j.help /\ k.wake = j.wake
  BY Zenon, <1>2, FreeFacts, NoJobFacts DEF JobType
<1> HIDE DEF k
<1>4. Knows(p, j.help, k) BY <1>2, <1>3, HelpGiven
<1>5. j.help \in {"progress", "bump"} /\ (j.help = "bump" => k.wake = "recUnwrite")
  BY <1>2, <1>3 DEF Knows, ControlInv
<1>6. SetLane(AdmittedAt(j.pos)) /\ OnLane BY SMTT(40) DEF HelpAdmit, J
<1>7. Sound(p)
  <2>1. \/ j.pos < lane.reserve
        \/ s.claim.rec \in Records /\ record[s.claim.rec].intent.pos = j.pos /\ s.seq = j.pos
    BY <1>2 DEF Knows, HelpInv
  <2> QED BY <1>2, <1>6, <2>1, AdmitSound
<1>8. pc'[p] = j.help /\ job'[p] = k BY <1>1, <1>2, <1>5, StepFacts
<1>9. bound' = bound /\ sent' = sent /\ fate' = fate /\ regHold' = regHold /\ Records' = Records
  BY <1>2, <1>6, OnLaneFacts
<1>10. Place(pc[p], job[p])' = Place(j.help, k)
       /\ Place(j.help, k) \in {"progress", "recUnwrite"}
  BY <1>5, <1>8 DEF Place
<1>11. ControlInv(p, pc[p], job[p])'
  BY <1>4, <1>5, <1>8, <1>10 DEF ControlInv, Place, Knows
<1>12. WriterInv(p, pc[p], job[p])'
  BY <1>4, <1>8, <1>9, <1>10 DEF WriterInv, Place, Knows
<1>13. HelpInv(pc[p], job[p])' BY <1>5, <1>8 DEF HelpInv
<1>14. RecoverInv(p, pc[p], job[p])'
  BY SMTT(40), <1>4, <1>8, <1>9, <1>10 DEF RecoverInv, Place, Knows
<1>15. ReaderInv(p, pc[p], job[p])' BY SMTT(40), <1>4, <1>8, <1>10 DEF ReaderInv, Place, Knows
<1>16. Knows(p, pc[p], job[p])' BY <1>11, <1>12, <1>13, <1>14, <1>15 DEF Knows
<1> QED BY Zenon, <1>1, <1>3, <1>5, <1>7, <1>16, SoundStep

-----------------------------------------------------------------------------
(***************************************************************************)
(* The steps that change a lock or a registration                          *)
(***************************************************************************)

\* A sweep locks the registration of a writer that died, or leaves it.
LEMMA NextOwnerKeeps ==
    ASSUME IInv, NEW p \in Readers, NextOwner(p)
    PROVE  IInv'
<1> DEFINE j == job[p]
<1>1. p \in Procs /\ p \notin Writers /\ pc[p] = "owners"
  BY Zenon, ProcsAssumption DEF Procs, NextOwner, Steps, Step
<1>2. Types /\ j \in JobType /\ Knows(p, "owners", j) BY <1>1, Actor
<1>3. j.msg = 0 /\ ~j.serving
  BY SMTT(40), <1>2 DEF Knows, WriterInv, ReaderInv, Place
<1>4. CASE Steps(p, "owners", "laneCheck") /\ Reads
  <2>1. Calm /\ lane' \in LaneType BY <1>2, <1>4, ReadsCalm
  <2>2. Step(p, "owners", "laneCheck", j) BY <1>4 DEF Steps
  <2>3. Knows(p, "laneCheck", j) BY <1>1, <1>2, <1>3, NothingKnown
  <2> QED BY Zenon, <1>1, <1>2, <2>1, <2>2, <2>3, CalmStep
<1>5. ASSUME NEW o \in j.owners, Step(p, "owners", "owners", [j EXCEPT !.owners = @ \ {o}]),
             Reads
      PROVE  IInv'
  <2> DEFINE k == [j EXCEPT !.owners = @ \ {o}]
  <2>1. Calm /\ lane' \in LaneType BY <1>2, <1>5, ReadsCalm
  <2>2. k \in JobType /\ k.msg = 0 /\ ~k.serving BY <1>2, <1>3 DEF JobType
  <2>3. Step(p, "owners", "owners", k) BY <1>5
  <2> HIDE DEF k
  <2>4. Knows(p, "owners", k) BY <1>1, <2>2, NothingKnown
  <2> QED BY Zenon, <1>1, <2>1, <2>2, <2>3, <2>4, CalmStep
<1>6. ASSUME NEW o \in j.owners, regHold[o] = Nobody,
             Step(p, "owners", "records",
                  [[j EXCEPT !.owners = @ \ {o}] EXCEPT !.who = o, !.recs = RecordsOf(o),
                                                        !.after = "owners"]),
             regHold' = [regHold EXCEPT ![o] = p],
             UNCHANGED <<laneVars, regVars, laneHold, up, wakeVars, histVars>>
      PROVE  IInv'
  <2> DEFINE k == [[j EXCEPT !.owners = @ \ {o}] EXCEPT !.who = o, !.recs = RecordsOf(o),
                                                        !.after = "owners"]
  <2>1. o \in Writers /\ RecordsOf(o) \subseteq Records /\ \A r \in RecordsOf(o) : r[1] = o
    BY <1>2, RecordFacts, SharedNumbers DEF JobType
  <2>2. /\ k \in JobType /\ k.msg = 0 /\ ~k.serving /\ k.who = o /\ k.after = "owners"
        /\ k.recs = RecordsOf(o)
    BY Zenon, <1>2, <1>3, <2>1 DEF JobType
  <2>3. Step(p, "owners", "records", k) BY <1>6
  <2> HIDE DEF k
  <2>4. /\ regHold' \in [Writers -> Procs \cup {Nobody}] /\ regHold'[o] = p
        /\ \A x \in Writers \ {o} : regHold'[x] = regHold[x]
    BY <1>1, <1>2, <1>6, <2>1 DEF Types
  <2>5. Sound(p)
    <3>1. \A q \in Procs : q # Nobody BY ProcsAssumption
    <3> QED BY Zenon, <1>1, <1>2, <1>6, <2>4, <3>1, HoldsSound DEF Types, regVars, histVars
  <2>6. pc'[p] = "records" /\ job'[p] = k BY <1>1, <1>2, <2>3, StepFacts
  <2>7. ControlInv(p, pc[p], job[p])' BY <1>1, <2>2, <2>6 DEF ControlInv, Place
  <2>8. WriterInv(p, pc[p], job[p])' BY <1>1, <2>2, <2>6 DEF WriterInv, Place
  <2>9. HelpInv(pc[p], job[p])' BY <2>6 DEF HelpInv
  <2>10. RecoverInv(p, pc[p], job[p])' BY <2>1, <2>2, <2>4, <2>6 DEF RecoverInv, Place
  <2>11. ReaderInv(p, pc[p], job[p])' BY <2>2, <2>6 DEF ReaderInv, Place
  <2>12. Knows(p, pc[p], job[p])' BY <2>7, <2>8, <2>9, <2>10, <2>11 DEF Knows
  <2> QED BY Zenon, <1>1, <2>2, <2>3, <2>5, <2>12, SoundStep
<1> QED BY Zenon, <1>4, <1>5, <1>6 DEF NextOwner, J

\* A registration whose records are recovered is retired, taken again or left
\* alone.
LEMMA RecordsDoneKeeps ==
    ASSUME IInv, NEW p \in Procs, RecordsDone(p)
    PROVE  IInv'
<1> DEFINE j == job[p]
           o == j.who
<1>1. pc[p] = "records" BY DEF RecordsDone
<1>2. /\ Types /\ j \in JobType /\ Knows(p, "records", j)
      /\ p \in Writers => regHold[p] = p
  BY <1>1, Actor
<1>3. /\ o \in Writers /\ regHold[o] = p
      /\ j.after = "owners" => p \in Readers
      /\ j.after # "owners" => p \in Writers /\ o = p
  BY <1>2 DEF Knows, RecoverInv, ControlInv, Place
<1>4. \A q \in Procs : q # Nobody BY ProcsAssumption
<1>5. UNCHANGED <<laneVars, record, laneHold, bound, sent, fate, delivered, malformed>>
  BY DEF RecordsDone, histVars
<1>6. owner \in [Writers -> [gen : Nat, active : BOOLEAN]] BY <1>2 DEF Types
<1>7. CASE j.after = "owners"
  <2> DEFINE k == [NoJob EXCEPT !.owners = j.owners]
  <2>1. /\ Step(p, "records", "owners", k)
        /\ owner' = [owner EXCEPT ![o].active = @ /\ ~OwnerIdle(o)]
        /\ regHold' = [regHold EXCEPT ![o] = Nobody]
    BY <1>7 DEF RecordsDone, J
  <2>2. k \in JobType /\ k.msg = 0 /\ ~k.serving
    <3>1. j.owners \in SUBSET Writers BY <1>2 DEF JobType
    <3> QED BY <3>1, NoJobFacts DEF JobType
  <2> HIDE DEF k
  <2>3. /\ regHold' \in [Writers -> Procs \cup {Nobody}]
        /\ \A x \in Writers \ {o} : regHold'[x] = regHold[x]
    BY Zenon, <1>2, <2>1 DEF Types
  <2>4. /\ owner' \in [Writers -> [gen : Nat, active : BOOLEAN]]
        /\ \A x \in Writers : owner'[x].gen = owner[x].gen
    <3>1. (owner[o].active /\ ~OwnerIdle(o)) \in BOOLEAN OBVIOUS
    <3>2. owner' = [owner EXCEPT ![o] = [owner[o] EXCEPT
                                            !.active = (owner[o].active /\ ~OwnerIdle(o))]]
      BY <2>1
    <3> HIDE DEF o
    <3> QED BY Zenon, <1>3, <1>6, <3>1, <3>2
  <2>5. Sound(p)
    <3>1. \A r \in Records : r[1] \in Writers BY <1>2, RecordFacts, SharedNumbers
    <3> QED BY Zenon, <1>2, <1>3, <1>4, <1>5, <2>3, <2>4, <3>1, HoldsSound DEF Types
  <2>6. pc'[p] = "owners" /\ job'[p] = k BY <1>2, <2>1, StepFacts
  <2>7. p \notin Writers BY <1>3, <1>7, ProcsAssumption
  <2>8. Knows(p, pc[p], job[p])' BY <2>2, <2>6, <2>7, NothingKnownNext
  <2> QED BY Zenon, <2>1, <2>2, <2>5, <2>8, SoundStep
<1>8. CASE j.after # "owners" /\ OwnerIdle(o)
  <2>1. /\ Step(p, "records", "idle", j) /\ regHold' = regHold
        /\ owner' = [owner EXCEPT ![o] = [gen |-> owner[o].gen + 1, active |-> TRUE]]
    BY <1>8 DEF RecordsDone, J, Steps
  <2>2. /\ owner' \in [Writers -> [gen : Nat, active : BOOLEAN]]
        /\ \A x \in Writers \ {o} : owner'[x] = owner[x]
    <3>1. [gen |-> owner[o].gen + 1, active |-> TRUE] \in [gen : Nat, active : BOOLEAN]
      BY <1>3, <1>6
    <3> QED BY <1>3, <1>6, <2>1, <3>1
  <2>3. ASSUME NEW r \in Records, record[r].referenced
        PROVE  owner'[r[1]].gen = owner[r[1]].gen
    <3>1. r[1] \in Writers /\ r \in RecordsOf(r[1]) BY <1>2, RecordFacts, SharedNumbers
    <3>2. r[1] # o BY <1>8, <2>3, <3>1 DEF OwnerIdle
    <3> QED BY <2>2, <3>1, <3>2
  <2>4. Sound(p) BY Zenon, <1>2, <1>5, <2>1, <2>2, <2>3, HoldsSound DEF Types
  <2>5. pc'[p] = "idle" /\ job'[p] = NoJob BY <1>2, <2>1, StepFacts
  <2>6. Knows(p, pc[p], job[p])' BY <1>2, <2>1, <2>5, NoJobFacts, NothingKnownNext
  <2> QED BY Zenon, <1>2, <2>1, <2>4, <2>6, SoundStep
<1>9. CASE j.after # "owners" /\ ~OwnerIdle(o)
  <2>1. /\ Step(p, "records", "dead", j) /\ owner' = owner
        /\ regHold' = [regHold EXCEPT ![o] = Nobody]
    BY <1>9 DEF RecordsDone, J, Steps
  <2>2. /\ regHold' \in [Writers -> Procs \cup {Nobody}]
        /\ \A x \in Writers \ {o} : regHold'[x] = regHold[x]
    BY Zenon, <1>2, <2>1 DEF Types
  <2>3. Sound(p) BY <1>2, <1>3, <1>4, <1>5, <1>6, <2>1, <2>2, HoldsSound DEF Types
  <2>4. pc'[p] = "dead" /\ job'[p] = NoJob BY <1>2, <2>1, StepFacts
  <2>5. Knows(p, pc[p], job[p])' BY <2>4, NoJobFacts, NothingKnownNext
  <2> QED BY Zenon, <1>2, <2>1, <2>3, <2>5, SoundStep
<1> QED BY <1>7, <1>8, <1>9

\* The lock of the lane changes hands with the process p.
LEMMA LaneHoldSound ==
    ASSUME IInv, NEW p \in Procs, laneHold \in {p, Nobody}, laneHold' \in {p, Nobody},
           UNCHANGED <<laneVars, regVars, regHold, histVars>>
    PROVE  Sound(p)
<1>1. Types /\ \A q \in Procs : q # Nobody BY ProcsAssumption DEF IInv
<1> QED BY Zenon, <1>1, HoldsSound DEF Types, regVars, histVars

\* A sweep takes the lock of a lane that nobody holds and that is not clean.
LEMMA LaneCheckKeeps ==
    ASSUME IInv, NEW p \in Readers, LaneCheck(p)
    PROVE  IInv'
<1> DEFINE j == job[p]
           b == IF lane.consumers # 0 THEN "release" ELSE "reset"
           k == [NoJob EXCEPT !.tries = Capacity, !.after = "retired"]
<1>1. p \in Procs /\ p \notin Writers /\ pc[p] = "laneCheck"
  BY ProcsAssumption DEF Procs, LaneCheck, Steps, Step
<1>2. Types /\ j \in JobType /\ Knows(p, "laneCheck", j) BY <1>1, Actor
<1>3. j.msg = 0 /\ ~j.serving
  BY SMTT(40), <1>2 DEF Knows, WriterInv, ReaderInv, Place
<1>4. CASE Steps(p, "laneCheck", "join") /\ Reads
  <2>1. Calm /\ lane' \in LaneType BY <1>2, <1>4, ReadsCalm
  <2>2. Step(p, "laneCheck", "join", j) BY <1>4 DEF Steps
  <2>3. Knows(p, "join", j) BY <1>1, <1>2, <1>3, NothingKnown
  <2> QED BY Zenon, <1>1, <1>2, <2>1, <2>2, <2>3, CalmStep
<1>5. CASE laneHold = Nobody /\ Step(p, "laneCheck", b, k) /\ Holds(p)
  <2>1. Sound(p) BY <1>1, <1>5, LaneHoldSound DEF Holds
  <2>2. /\ k \in JobType /\ k.msg = 0 /\ ~k.serving /\ k.after = "retired"
        /\ k.tries = Capacity
    <3>1. Capacity \in Int BY <1>2, SharedNumbers
    <3> QED BY Zenon, <3>1, NoJobFacts DEF JobType
  <2>3. b \in {"release", "reset"} OBVIOUS
  <2> HIDE DEF b, k
  <2>4. pc'[p] = b /\ job'[p] = k BY <1>1, <1>2, <1>5, <2>3, StepFacts
  <2>5. Place(pc[p], job[p])' = b BY <2>3, <2>4 DEF Place
  <2>6. Capacity' = Capacity /\ laneHold' = p BY <1>5 DEF Holds, histVars, Capacity
  <2>7. ControlInv(p, pc[p], job[p])'
    BY <1>1, <2>2, <2>3, <2>4, <2>5 DEF ControlInv, Place
  <2>8. WriterInv(p, pc[p], job[p])'
    BY <1>1, <2>2, <2>3, <2>4, <2>5 DEF WriterInv, Place
  <2>9. HelpInv(pc[p], job[p])' BY <2>3, <2>4 DEF HelpInv
  <2>10. RecoverInv(p, pc[p], job[p])' BY <2>3, <2>4, <2>5 DEF RecoverInv, Place
  <2>11. ReaderInv(p, pc[p], job[p])'
    BY <2>2, <2>3, <2>4, <2>5, <2>6 DEF ReaderInv, Place
  <2>12. Knows(p, pc[p], job[p])' BY <2>7, <2>8, <2>9, <2>10, <2>11 DEF Knows
  <2> QED BY <1>1, <1>5, <2>1, <2>2, <2>3, <2>12, SoundStep
<1> QED BY <1>4, <1>5 DEF LaneCheck

\* A reader takes the lock of the lane.
LEMMA JoinHoldKeeps ==
    ASSUME IInv, NEW p \in Readers, JoinHold(p)
    PROVE  IInv'
<1> DEFINE j == job[p]
<1>1. p \in Procs /\ p \notin Writers /\ pc[p] = "joinHold"
  BY ProcsAssumption DEF Procs, JoinHold, Steps, Step
<1>2. Types /\ j \in JobType /\ Knows(p, "joinHold", j) BY <1>1, Actor
<1>3. j.msg = 0 /\ ~j.serving BY SMTT(40), <1>2 DEF Knows, WriterInv, ReaderInv, Place
<1>4. CASE Steps(p, "joinHold", "idle") /\ Reads
  <2>1. Calm /\ lane' \in LaneType BY <1>2, <1>4, ReadsCalm
  <2>2. Step(p, "joinHold", "idle", j) BY <1>4 DEF Steps
  <2> QED BY Zenon, <1>1, <1>2, <2>1, <2>2, CalmStep
<1>5. CASE laneHold = Nobody /\ Steps(p, "joinHold", "joinClaim") /\ Holds(p)
  <2>1. Sound(p) BY <1>1, <1>5, LaneHoldSound DEF Holds
  <2>2. Step(p, "joinHold", "joinClaim", j) BY <1>5 DEF Steps
  <2>3. pc'[p] = "joinClaim" /\ job'[p] = j BY <1>1, <1>2, <2>2, StepFacts
  <2>4. laneHold' = p BY <1>5 DEF Holds
  <2>5. ControlInv(p, pc[p], job[p])' BY <1>1, <2>3 DEF ControlInv, Place
  <2>6. WriterInv(p, pc[p], job[p])' BY <1>1, <1>3, <2>3 DEF WriterInv, Place
  <2>7. HelpInv(pc[p], job[p])' BY <2>3 DEF HelpInv
  <2>8. RecoverInv(p, pc[p], job[p])' BY <2>3 DEF RecoverInv, Place
  <2>9. ReaderInv(p, pc[p], job[p])' BY <1>3, <2>3, <2>4 DEF ReaderInv, Place
  <2>10. Knows(p, pc[p], job[p])' BY <2>5, <2>6, <2>7, <2>8, <2>9 DEF Knows
  <2> QED BY Zenon, <1>1, <1>2, <2>1, <2>2, <2>10, SoundStep
<1> QED BY <1>4, <1>5 DEF JoinHold

\* A process that lets the lane go.
LEMMA LetsGoKeeps ==
    ASSUME IInv, NEW p \in Readers, NEW a \in {"joinClaim", "retired", "left"},
           NEW b \in {"idle", "join"},
           NEW k \in JobType, k.msg = 0, ~k.serving, Step(p, a, b, k), LetsGo
    PROVE  IInv'
<1>1. p \in Procs /\ p \notin Writers /\ pc[p] = a BY ProcsAssumption DEF Procs, Step
<1>2. Types /\ Knows(p, a, job[p]) BY <1>1, Actor
<1>3. laneHold = p BY <1>2 DEF Knows, ReaderInv, Place
<1>4. Sound(p) BY <1>1, <1>3, LaneHoldSound DEF LetsGo
<1>5. pc'[p] = b /\ job'[p] = IF b = "idle" THEN NoJob ELSE k BY <1>1, <1>2, StepFacts
<1>6. Knows(p, pc[p], job[p])' BY <1>1, <1>5, NoJobFacts, NothingKnownNext
<1> QED BY SMTT(40), <1>1, <1>4, <1>6, SoundStep

\* A reader that leaves, or comes too late, lets the lane go.
LEMMA LeavingKeeps ==
    ASSUME IInv, NEW p \in Readers, JoinLoses(p) \/ Retired(p) \/ Left(p)
    PROVE  IInv'
<1> DEFINE j == job[p]
<1>1. p \in Procs BY DEF Procs
<1>2. j \in JobType /\ Knows(p, pc[p], j) BY SMTT(40), <1>1, Actor
<1>3. pc[p] \in {"joinClaim", "left"} => j.msg = 0 /\ ~j.serving
  BY SMTT(40), <1>2 DEF Knows, WriterInv, ReaderInv, Place
<1>4. CASE JoinLoses(p)
  <2>1. Step(p, "joinClaim", "idle", j) /\ LetsGo BY <1>4 DEF JoinLoses, Steps
  <2> QED BY Zenon, <1>2, <1>3, <2>1, LetsGoKeeps DEF Step
<1>5. CASE Retired(p) BY <1>5, NoJobFacts, LetsGoKeeps DEF Retired
<1>6. CASE Left(p)
  <2>1. Step(p, "left", "idle", j) /\ LetsGo BY <1>6 DEF Left, Steps
  <2> QED BY Zenon, <1>2, <1>3, <2>1, LetsGoKeeps DEF Step
<1> QED BY <1>4, <1>5, <1>6

\* A process that dies leaves the shared memory as it was and its locks free.
LEMMA CrashKeeps ==
    ASSUME IInv, NEW p \in Procs, Crash(p)
    PROVE  IInv'
<1>1. Types /\ job[p] \in JobType BY Actor
<1>2. /\ Step(p, pc[p], "dead", job[p])
      /\ laneHold' = IF laneHold = p THEN Nobody ELSE laneHold
      /\ regHold' = [o \in Writers |-> IF regHold[o] = p THEN Nobody ELSE regHold[o]]
      /\ UNCHANGED <<laneVars, record, owner, bound, sent, fate, delivered, malformed>>
  BY DEF Crash, Steps, J, regVars
<1>3. Sound(p)
  <2>1. laneHold' \in Procs \cup {Nobody} BY <1>1, <1>2 DEF Types
  <2>2. regHold' \in [Writers -> Procs \cup {Nobody}] BY <1>1, <1>2 DEF Types
  <2>3. owner' = owner /\ owner \in [Writers -> [gen : Nat, active : BOOLEAN]]
    BY <1>1, <1>2 DEF Types
  <2> QED BY <1>2, <2>1, <2>2, <2>3, HoldsSound
<1>4. pc'[p] = "dead" /\ job'[p] = NoJob BY <1>1, <1>2, StepFacts
<1>5. Knows(p, pc[p], job[p])' BY <1>4, NoJobFacts, NothingKnownNext
<1> QED BY Zenon, <1>1, <1>2, <1>3, <1>5, SoundStep

\* A process starts anew, a writer with its registration locked.
LEMMA RestartKeeps ==
    ASSUME IInv, NEW p \in Procs, Restart(p)
    PROVE  IInv'
<1>1. Types /\ job[p] \in JobType BY Actor
<1>2. CASE p \in Readers
  <2>1. Step(p, "dead", "idle", job[p]) BY <1>2 DEF Restart, Steps, J
  <2>2. Calm /\ lane' \in LaneType
    BY <1>1, <1>2 DEF Restart, Calm, Types, laneVars, regVars, histVars
  <2>3. p \notin Writers BY <1>2, ProcsAssumption
  <2> QED BY Zenon, <1>1, <2>1, <2>2, <2>3, CalmStep
<1>3. CASE p \notin Readers
  <2> DEFINE k == [NoJob EXCEPT !.who = p, !.after = "register",
                                !.recs = IF owner[p].active THEN RecordsOf(p) ELSE {}]
  <2>1. /\ Step(p, "dead", "records", k) /\ regHold[p] = Nobody
        /\ regHold' = [regHold EXCEPT ![p] = p]
        /\ UNCHANGED <<laneVars, record, owner, laneHold, bound, sent, fate, delivered,
                       malformed>>
    BY <1>3 DEF Restart, regVars, histVars
  <2>2. p \in Writers /\ \A r \in RecordsOf(p) : r \in Records /\ r[1] = p
    BY <1>1, <1>3, RecordFacts, SharedNumbers DEF Procs
  <2>3. /\ k \in JobType /\ k.msg = 0 /\ ~k.serving /\ k.who = p /\ k.after = "register"
        /\ k.recs \subseteq RecordsOf(p)
    <3>1. (IF owner[p].active THEN RecordsOf(p) ELSE {}) \in SUBSET Records BY <2>2
    <3> QED BY Zenon, <2>2, <3>1, NoJobFacts DEF JobType
  <2> HIDE DEF k
  <2>4. /\ regHold' \in [Writers -> Procs \cup {Nobody}] /\ regHold'[p] = p
        /\ \A x \in Writers \ {p} : regHold'[x] = regHold[x]
    BY <1>1, <2>1, <2>2 DEF Types
  <2>5. Sound(p)
    <3>1. \A q \in Procs : q # Nobody BY ProcsAssumption
    <3>2. owner' = owner /\ owner \in [Writers -> [gen : Nat, active : BOOLEAN]]
          /\ laneHold' = laneHold /\ laneHold \in Procs \cup {Nobody}
      BY <1>1, <2>1 DEF Types
    <3> QED BY <2>1, <2>4, <3>1, <3>2, HoldsSound
  <2>6. pc'[p] = "records" /\ job'[p] = k BY <1>1, <2>1, StepFacts
  <2>7. ControlInv(p, pc[p], job[p])' BY <2>2, <2>3, <2>6 DEF ControlInv, Place
  <2>8. WriterInv(p, pc[p], job[p])' BY <2>3, <2>4, <2>6 DEF WriterInv, Place
  <2>9. HelpInv(pc[p], job[p])' BY <2>6 DEF HelpInv
  <2>10. RecoverInv(p, pc[p], job[p])' BY <2>2, <2>3, <2>4, <2>6 DEF RecoverInv, Place
  <2>11. ReaderInv(p, pc[p], job[p])' BY <2>3, <2>6 DEF ReaderInv, Place
  <2>12. Knows(p, pc[p], job[p])' BY <2>7, <2>8, <2>9, <2>10, <2>11 DEF Knows
  <2> QED BY Zenon, <2>1, <2>3, <2>5, <2>12, SoundStep
<1> QED BY <1>2, <1>3

-----------------------------------------------------------------------------
(***************************************************************************)
(* The steps of the process that has the lane                              *)
(***************************************************************************)

\* The first reader of a lane makes its slots ready.
LEMMA ResetFreshKeeps ==
    ASSUME IInv, NEW p \in Readers, ResetFresh(p)
    PROVE  IInv'
<1> DEFINE j == job[p]
<1>1. p \in Procs /\ p \notin Writers BY ProcsAssumption DEF Procs
<1>2. Step(p, "reset", "resetEpoch", j) /\ pc[p] = "reset" BY DEF ResetFresh, Steps, Step, J
<1>3. Types /\ SharedInv /\ j \in JobType /\ Knows(p, "reset", j) BY <1>1, <1>2, Actor
<1>4. Place("reset", j) = "reset" BY SMTT(40) DEF Place
<1>5. laneHold = p BY <1>3, <1>4 DEF Knows, ReaderInv
<1>6. Sound(p)
  BY Zenon, <1>1, <1>5, FreshSound DEF ResetFresh, regVars, holdVars, histVars
<1>7. lane'.initialized /\ laneHold' = p /\ delivered' = delivered
  BY <1>3, <1>5 DEF ResetFresh, SetLane, Types, LaneType, holdVars, histVars
<1>8. Passed'
  <2>1. delivered = <<>> BY <1>3 DEF ResetFresh, SharedInv, LaneInv
  <2> QED BY <1>7, <2>1 DEF Passed
<1>9. pc'[p] = "resetEpoch" /\ job'[p] = j BY <1>1, <1>2, <1>3, StepFacts
<1>10. ControlInv(p, pc[p], job[p])' BY <1>3, <1>4, <1>9 DEF ControlInv, Place, Knows
<1>11. WriterInv(p, pc[p], job[p])'
  BY <1>1, <1>3, <1>4, <1>9 DEF WriterInv, Place, Knows
<1>12. HelpInv(pc[p], job[p])' BY <1>9 DEF HelpInv
<1>13. RecoverInv(p, pc[p], job[p])' BY <1>9 DEF RecoverInv, Place
<1>14. ReaderInv(p, pc[p], job[p])'
  BY <1>3, <1>4, <1>7, <1>8, <1>9 DEF ReaderInv, Place, Knows
<1>15. Knows(p, pc[p], job[p])' BY <1>10, <1>11, <1>12, <1>13, <1>14 DEF Knows
<1> QED BY Zenon, <1>1, <1>2, <1>3, <1>6, <1>15, SoundStep

\* The epoch of the lane begins: nothing was committed for it yet.
LEMMA ResetEpochKeeps ==
    ASSUME IInv, NEW p \in Readers, ResetEpoch(p)
    PROVE  IInv'
<1> DEFINE j == job[p]
<1>1. p \in Procs /\ p \notin Writers BY ProcsAssumption DEF Procs
<1>2. Step(p, "resetEpoch", j.after, j) /\ pc[p] = "resetEpoch"
  BY DEF ResetEpoch, Steps, Step, J
<1>3. Types /\ SharedInv /\ j \in JobType /\ Knows(p, "resetEpoch", j) BY <1>1, <1>2, Actor
<1>4. Place("resetEpoch", j) = "resetEpoch" BY DEF Place
<1>5. laneHold = p /\ lane.initialized /\ Passed BY <1>3, <1>4 DEF Knows, ReaderInv
<1>6. j.after \in {"retired", "identity"} BY <1>3, <1>4 DEF Knows, ControlInv
<1>7. /\ lane' \in LaneType /\ lane'.reserve = lane.reserve /\ lane'.read = lane.read
      /\ lane'.epoch = lane.epoch + 1 /\ lane'.initialized = lane.initialized
  <2>1. lane' = [lane EXCEPT !.epoch = lane.epoch + 1, !.waiters = 0, !.reactor = FALSE]
    BY DEF ResetEpoch, SetLane
  <2>2. lane.epoch + 1 \in Nat /\ 0 \in Int /\ lane \in LaneType
    BY <1>3, LaneNumbers DEF Types
  <2> QED BY Zenon, <2>1, <2>2 DEF LaneType
<1>8. OnLane BY DEF ResetEpoch
<1>9. Sound(p) /\ Kept' BY <1>1, <1>5, <1>7, <1>8, EpochSound
<1>10. laneHold' = p /\ delivered' = delivered BY <1>3, <1>5, <1>8, OnLaneFacts
<1>11. Passed' BY <1>5, <1>7, <1>10 DEF Passed
<1>12. pc'[p] = j.after /\ job'[p] = j BY <1>1, <1>2, <1>3, <1>6, StepFacts
<1>13. Place(pc[p], job[p])' = j.after BY <1>6, <1>12 DEF Place
<1>14. ControlInv(p, pc[p], job[p])' BY <1>1, <1>6, <1>12, <1>13 DEF ControlInv, Place
<1>15. WriterInv(p, pc[p], job[p])'
  BY <1>1, <1>3, <1>4, <1>6, <1>12, <1>13 DEF WriterInv, Place, Knows
<1>16. HelpInv(pc[p], job[p])' BY <1>6, <1>12 DEF HelpInv
<1>17. RecoverInv(p, pc[p], job[p])' BY SMTT(40), <1>6, <1>12, <1>13 DEF RecoverInv, Place
<1>18. ReaderInv(p, pc[p], job[p])'
  BY <1>3, <1>4, <1>5, <1>6, <1>7, <1>9, <1>10, <1>11, <1>12, <1>13 DEF ReaderInv, Place, Knows
<1>19. Knows(p, pc[p], job[p])' BY <1>14, <1>15, <1>16, <1>17, <1>18 DEF Knows
<1> QED BY Zenon, <1>1, <1>2, <1>3, <1>6, <1>9, <1>19, SoundStep

\* The read position goes past a turn that is consumed.
LEMMA ConsumeHeadKeeps ==
    ASSUME IInv, NEW p \in Readers, ConsumeHead(p)
    PROVE  IInv'
<1> DEFINE j == job[p]
           b == j.then
           k == [j EXCEPT !.claim = Free, !.pos = 0, !.tries = @ - 1]
<1>1. p \in Procs /\ p \notin Writers BY ProcsAssumption DEF Procs
<1>2. Step(p, "consumeHead", b, k) /\ pc[p] = "consumeHead" BY DEF ConsumeHead, Step, J
<1>3. Types /\ SharedInv /\ j \in JobType /\ Knows(p, "consumeHead", j) BY <1>1, <1>2, Actor
<1>4. Place("consumeHead", j) = "consumeHead" BY DEF Place
<1>5. /\ b \in {"look", "readHead", "reset"}
      /\ b = "reset" => j.after \in {"retired", "identity"}
  BY <1>3, <1>4 DEF Knows, ControlInv
<1>6. /\ laneHold = p /\ lane.initialized /\ j.pos = lane.read /\ lane.read < lane.reserve
      /\ slot[At(j.pos)].seq = j.pos + Capacity /\ ~Done(slot[At(j.pos)].claim)
      /\ (b # "reset" => Kept) /\ (j.serving => b # "reset")
  BY <1>3, <1>4 DEF Knows, ReaderInv
<1>7. j.msg = 0 BY <1>3, <1>4 DEF Knows, WriterInv
<1>8. /\ k \in JobType /\ k.msg = 0 /\ k.after = j.after /\ k.serving = j.serving
  <2>1. j.tries - 1 \in Int /\ 0 \in Nat /\ Free \in ClaimType
    BY <1>3, FreeFacts DEF JobType
  <2>2. k = [j EXCEPT !.claim = Free, !.pos = 0, !.tries = j.tries - 1] OBVIOUS
  <2> HIDE DEF j
  <2> QED BY Zenon, <1>3, <1>7, <2>1, <2>2 DEF JobType
<1> HIDE DEF k, b
<1>9. OnLane /\ SetLane([lane EXCEPT !.read = lane.read + 1]) BY <1>6 DEF ConsumeHead, J
<1>10. Sound(p) /\ Passed' /\ lane'.initialized /\ (Kept => Kept')
  BY <1>1, <1>6, <1>9, HeadSound
<1>11. laneHold' = p BY <1>3, <1>6, <1>9, OnLaneFacts
<1>12. pc'[p] = b /\ job'[p] = k BY <1>1, <1>2, <1>3, <1>5, StepFacts
<1>13. Place(pc[p], job[p])' = b BY <1>5, <1>12 DEF Place
<1>14. ControlInv(p, pc[p], job[p])'
  BY <1>1, <1>5, <1>8, <1>12, <1>13 DEF ControlInv, Place
<1>15. WriterInv(p, pc[p], job[p])'
  BY <1>1, <1>5, <1>8, <1>12, <1>13 DEF WriterInv, Place
<1>16. HelpInv(pc[p], job[p])' BY <1>5, <1>12 DEF HelpInv
<1>17. RecoverInv(p, pc[p], job[p])' BY <1>5, <1>12, <1>13 DEF RecoverInv, Place
<1>18. ReaderInv(p, pc[p], job[p])'
  BY SMTT(40), <1>5, <1>6, <1>8, <1>10, <1>11, <1>12, <1>13 DEF ReaderInv, Place
<1>19. Knows(p, pc[p], job[p])' BY <1>14, <1>15, <1>16, <1>17, <1>18 DEF Knows
<1> QED BY SMTT(40), <1>1, <1>2, <1>5, <1>8, <1>10, <1>19, SoundStep

\* The reset finishes a consumption that an earlier reader died in.
LEMMA ResetLateKeeps ==
    ASSUME IInv, NEW p \in Readers, ResetLate(p)
    PROVE  IInv'
<1> DEFINE j == job[p]
           c == slot[At(j.pos)].claim
           old == Done(c) /\ record[c.rec].intent.pos = j.pos
<1>1. p \in Procs /\ p \notin Writers BY ProcsAssumption DEF Procs
<1>2. pc[p] = "resetLate" BY DEF ResetLate, Steps, Step
<1>3. Types /\ SharedInv /\ j \in JobType /\ Knows(p, "resetLate", j) BY <1>1, <1>2, Actor
<1>4. Place("resetLate", j) = "resetLate" BY DEF Place
<1>5. j.then = "reset" /\ j.after \in {"retired", "identity"}
  BY SMTT(40), <1>3, <1>4 DEF Knows, ControlInv
<1>6. /\ laneHold = p /\ lane.initialized /\ j.pos = lane.read /\ lane.read < lane.reserve
      /\ slot[At(j.pos)].seq = j.pos + Capacity /\ ~j.serving
      /\ j.tries = Capacity \/ Passed
  BY <1>3, <1>4 DEF Knows, ReaderInv
<1>7. j.msg = 0 BY <1>3, <1>4 DEF Knows, WriterInv
<1>8. CASE old
  <2>1. Step(p, "resetLate", "consumeTurn", j) /\ Reads
    BY <1>8 DEF ResetLate, Steps, J, SlotOf
  <2>2. Calm /\ lane' \in LaneType BY <1>3, <2>1, ReadsCalm
  <2>3. Knows(p, "consumeTurn", j)
    BY SMTT(40), <1>1, <1>5, <1>6, <1>7, <1>8
    DEF Knows, ControlInv, WriterInv, HelpInv, RecoverInv, ReaderInv, Place
  <2> QED BY <1>1, <1>3, <2>1, <2>2, <2>3, CalmStep
<1>9. CASE ~old
  <2> DEFINE k == [j EXCEPT !.tries = @ - 1]
  <2>1. /\ Step(p, "resetLate", "reset", k) /\ OnLane
        /\ SetLane([lane EXCEPT !.read = lane.read + 1])
    BY <1>6, <1>9 DEF ResetLate, J, SlotOf
  <2>2. ~Done(c) BY <1>6, <1>9, DoneAtHead
  <2>3. k \in JobType /\ k.msg = 0 /\ k.after = j.after /\ k.serving = j.serving
    BY <1>3, <1>7 DEF JobType
  <2> HIDE DEF k
  <2>4. Sound(p) /\ Passed' BY <1>1, <1>6, <2>1, <2>2, HeadSound
  <2>5. laneHold' = p BY <1>3, <1>6, <2>1, OnLaneFacts
  <2>6. pc'[p] = "reset" /\ job'[p] = k BY <1>1, <1>3, <2>1, StepFacts
  <2>7. ControlInv(p, pc[p], job[p])' BY <1>1, <1>5, <2>3, <2>6 DEF ControlInv, Place
  <2>8. WriterInv(p, pc[p], job[p])' BY <1>1, <2>3, <2>6 DEF WriterInv, Place
  <2>9. HelpInv(pc[p], job[p])' BY <2>6 DEF HelpInv
  <2>10. RecoverInv(p, pc[p], job[p])' BY <2>6 DEF RecoverInv, Place
  <2>11. ReaderInv(p, pc[p], job[p])'
    BY <1>6, <2>3, <2>4, <2>5, <2>6 DEF ReaderInv, Place
  <2>12. Knows(p, pc[p], job[p])' BY <2>7, <2>8, <2>9, <2>10, <2>11 DEF Knows
  <2> QED BY Zenon, <1>1, <2>1, <2>3, <2>4, <2>12, SoundStep
<1> QED BY <1>8, <1>9

\* What is queued stays so when the slot at the head is given back, unless it is
\* what is at the head.
LEMMA GiveBackKept ==
    ASSUME IInv, Kept, OnSlot, NEW v, slot' = [slot EXCEPT ![At(lane.read)] = v],
           LET s == slot[At(lane.read)] IN
           s.claim.state = "committed" /\ s.seq = lane.read /\ fate[s.body].epoch = lane.epoch
              => \E d \in DOMAIN delivered : delivered[d].msg = s.body
    PROVE  Kept'
<1> DEFINE i == At(lane.read)
<1>1. Types /\ LaneInv BY DEF IInv, SharedInv
<1>2. /\ bound' = bound /\ lane' = lane /\ sent' = sent /\ fate' = fate
      /\ delivered' = delivered /\ Capacity' = Capacity
  BY <1>1, OnSlotFacts
<1>3. /\ lane.read \in Nat /\ lane.reserve \in Nat /\ Capacity \in Nat
      /\ lane.reserve <= lane.read + Capacity /\ i \in 0 .. Capacity - 1
  BY Zenon, <1>1, SharedNumbers, CapacityFacts DEF LaneInv, Types
<1> SUFFICES ASSUME NEW m \in 1 .. sent, fate[m].pos >= 0, fate[m].epoch = lane.epoch
             PROVE  Queued(m)' \/ \E d \in DOMAIN delivered : delivered[d].msg = m
  BY <1>2 DEF Kept
<1>4. CASE ~Queued(m) BY <1>4 DEF Kept
<1>5. CASE Queued(m)
  <2> DEFINE x == fate[m].pos
  <2>1. x \in lane.read .. lane.reserve - 1 BY <1>5 DEF Queued
  <2>2. x \in Nat /\ lane.read <= x /\ x < lane.read + Capacity BY <1>3, <2>1
  <2>3. At(x) \in 0 .. Capacity - 1 BY Zenon, <1>1, <2>2, CapacityFacts DEF Types
  <2>4. CASE At(x) = i
    <3>1. x = lane.read BY <1>1, <1>3, <2>2, <2>4, SameSlot
    <3> QED BY <1>5, <3>1 DEF Queued
  <2>5. CASE At(x) # i
    <3>1. slot'[At(x)] = slot[At(x)] BY <1>1, <1>3, <2>3, <2>5, OneSlot
    <3> QED BY <1>2, <1>5, <3>1 DEF Queued, At
  <2> QED BY <2>4, <2>5
<1> QED BY <1>4, <1>5

\* The slot of the head is given the turn one capacity later.
LEMMA ConsumeTurnKeeps ==
    ASSUME IInv, NEW p \in Readers, ConsumeTurn(p)
    PROVE  IInv'
<1> DEFINE j == job[p]
           i == At(lane.read)
           s == slot[i]
           v == [s EXCEPT !.seq = lane.read + Capacity]
           n == record[s.claim.rec].intent
<1>1. p \in Procs /\ p \notin Writers BY ProcsAssumption DEF Procs
<1>2. Step(p, "consumeTurn", "consumeFree", j) /\ pc[p] = "consumeTurn"
  BY DEF ConsumeTurn, Steps, Step, J
<1>3. Types /\ SharedInv /\ j \in JobType /\ Knows(p, "consumeTurn", j) BY <1>1, <1>2, Actor
<1>4. Place("consumeTurn", j) = "consumeTurn" BY DEF Place
<1>5. j.pos = lane.read BY SMTT(40), <1>3, <1>4 DEF Knows, ReaderInv
<1>6. /\ laneHold = p /\ lane.initialized /\ lane.read < lane.reserve
      /\ Done(s.claim) /\ n.pos = lane.read
      /\ j.then = "look" => \E d \in DOMAIN delivered : delivered[d].msg = s.body
      /\ j.then = "readHead" => s.claim.state = "cancelled" \/ n.epoch # lane.epoch
      /\ j.then = "reset" => j.tries = Capacity \/ Passed
      /\ j.then = "readHead" => Passed
      /\ j.then # "reset" => Kept
      /\ j.serving => j.then # "reset"
  BY <1>3, <1>4, <1>5 DEF Knows, ReaderInv
<1>7. j.then \in {"look", "readHead", "reset"} BY <1>3 DEF Knows, ControlInv
<1>8. slot' = [slot EXCEPT ![i] = v] /\ OnSlot
  BY <1>5 DEF ConsumeTurn, SetSlot, SlotOf, J
<1>9. /\ i \in 0 .. Capacity - 1 /\ s \in SlotType /\ s.claim \in ClaimType
      /\ lane.read + Capacity \in Nat
  <2>1. lane.read \in Nat /\ Capacity \in Nat BY <1>3, SharedNumbers
  <2>2. i \in 0 .. Capacity - 1 BY Zenon, <1>3, <2>1, CapacityFacts DEF Types
  <2> QED BY <1>3, <2>1, <2>2, SharedNumbers
<1>10. v \in SlotType /\ v.seq = lane.read + Capacity /\ v.body = s.body /\ v.claim = s.claim
  BY <1>9 DEF SlotType
<1> HIDE DEF v
<1>11. Sound(p) BY Zenon, <1>1, <1>6, <1>8, <1>10, GiveBackSound
<1>12. /\ lane' = lane /\ laneHold' = p /\ record' = record /\ delivered' = delivered
       /\ Capacity' = Capacity
  BY <1>3, <1>6, <1>8, OnSlotFacts
<1>13. slot'[i] = v BY Zenon, <1>3, <1>8, <1>9, OneSlot
<1>14. j.then # "reset" => Kept'
  <2> SUFFICES ASSUME j.then # "reset" PROVE Kept' OBVIOUS
  <2>1. s.claim.state = "committed" => fate[s.body].epoch = n.epoch
    BY Zenon, <1>3, <1>6, <1>9, ClaimFacts, FreeFacts DEF SharedInv
  <2>2. s.claim.state = "committed" /\ s.seq = lane.read /\ fate[s.body].epoch = lane.epoch
           => \E d \in DOMAIN delivered : delivered[d].msg = s.body
    BY <1>6, <1>7, <2>1
  <2> QED BY Zenon, <1>6, <1>8, <2>2, GiveBackKept
<1>15. Passed' <=> Passed BY <1>12 DEF Passed
<1>16. pc'[p] = "consumeFree" /\ job'[p] = j BY <1>1, <1>2, <1>3, StepFacts
<1>17. slot'[At(job[p].pos)'] = v BY <1>5, <1>12, <1>13, <1>16 DEF At
<1>18. ControlInv(p, pc[p], job[p])'
  BY <1>1, <1>3, <1>4, <1>7, <1>16 DEF ControlInv, Place, Knows
<1>19. WriterInv(p, pc[p], job[p])'
  BY <1>1, <1>3, <1>4, <1>16 DEF WriterInv, Place, Knows
<1>20. HelpInv(pc[p], job[p])' BY <1>16 DEF HelpInv
<1>21. RecoverInv(p, pc[p], job[p])' BY SMTT(40), <1>16 DEF RecoverInv, Place
<1>22. ReaderInv(p, pc[p], job[p])'
  BY <1>5, <1>6, <1>10, <1>12, <1>14, <1>15, <1>16, <1>17 DEF ReaderInv, Place, Done
<1>23. Knows(p, pc[p], job[p])' BY <1>18, <1>19, <1>20, <1>21, <1>22 DEF Knows
<1> QED BY SMTT(40), <1>1, <1>2, <1>3, <1>11, <1>23, SoundStep

\* The claim of the head is taken off its slot.
LEMMA ConsumeFreeKeeps ==
    ASSUME IInv, NEW p \in Readers, ConsumeFree(p)
    PROVE  IInv'
<1> DEFINE j == job[p]
           i == At(lane.read)
           s == slot[i]
           v == [s EXCEPT !.claim = Free]
           n == record[s.claim.rec].intent
<1>1. p \in Procs /\ p \notin Writers BY ProcsAssumption DEF Procs
<1>2. Step(p, "consumeFree", "consumeHead", j) /\ pc[p] = "consumeFree"
  BY DEF ConsumeFree, Steps, Step, J
<1>3. Types /\ SharedInv /\ j \in JobType /\ Knows(p, "consumeFree", j) BY <1>1, <1>2, Actor
<1>4. Place("consumeFree", j) = "consumeFree" BY DEF Place
<1>5. j.pos = lane.read BY SMTT(40), <1>3, <1>4 DEF Knows, ReaderInv
<1>6. /\ laneHold = p /\ lane.initialized /\ lane.read < lane.reserve
      /\ Done(s.claim) /\ n.pos = lane.read /\ s.seq = lane.read + Capacity
      /\ j.then = "reset" => j.tries = Capacity \/ Passed
      /\ j.then = "readHead" => Passed
      /\ j.then # "reset" => Kept
      /\ j.serving => j.then # "reset"
  BY <1>3, <1>4, <1>5 DEF Knows, ReaderInv
<1>7. j.then \in {"look", "readHead", "reset"} BY <1>3 DEF Knows, ControlInv
<1>8. slot' = [slot EXCEPT ![i] = v] /\ OnSlot
  BY <1>5 DEF ConsumeFree, SetSlot, SlotOf, J
<1>9. i \in 0 .. Capacity - 1 /\ s \in SlotType /\ lane.read \in Nat /\ Capacity \in Nat \ {0}
  BY Zenon, <1>3, SharedNumbers, CapacityFacts DEF Types
<1>10. v \in SlotType /\ v.seq = lane.read + Capacity /\ v.body = s.body /\ v.claim = Free
  BY <1>6, <1>9, FreeFacts DEF SlotType
<1> HIDE DEF v
<1>11. Sound(p) BY Zenon, <1>1, <1>6, <1>8, <1>10, GiveBackSound
<1>12. /\ lane' = lane /\ laneHold' = p /\ record' = record /\ delivered' = delivered
       /\ Capacity' = Capacity
  BY <1>3, <1>6, <1>8, OnSlotFacts
<1>13. slot'[i] = v BY Zenon, <1>3, <1>8, <1>9, OneSlot
<1>14. j.then # "reset" => Kept'
  <2>1. s.seq # lane.read BY <1>6, <1>9
  <2> QED BY Zenon, <1>6, <1>8, <2>1, GiveBackKept
<1>15. Passed' <=> Passed BY <1>12 DEF Passed
<1>16. pc'[p] = "consumeHead" /\ job'[p] = j BY <1>1, <1>2, <1>3, StepFacts
<1>17. slot'[At(job[p].pos)'] = v BY <1>5, <1>12, <1>13, <1>16 DEF At
<1>18. ~Done(v.claim) BY <1>10, FreeFacts
<1>19. ControlInv(p, pc[p], job[p])'
  BY <1>1, <1>3, <1>4, <1>7, <1>16 DEF ControlInv, Place, Knows
<1>20. WriterInv(p, pc[p], job[p])'
  BY <1>1, <1>3, <1>4, <1>16 DEF WriterInv, Place, Knows
<1>21. HelpInv(pc[p], job[p])' BY <1>16 DEF HelpInv
<1>22. RecoverInv(p, pc[p], job[p])' BY <1>16 DEF RecoverInv, Place
<1>23. ReaderInv(p, pc[p], job[p])'
  BY <1>5, <1>6, <1>10, <1>12, <1>14, <1>15, <1>16, <1>17, <1>18 DEF ReaderInv, Place, Done
<1>24. Knows(p, pc[p], job[p])' BY <1>19, <1>20, <1>21, <1>22, <1>23 DEF Knows
<1> QED BY SMTT(40), <1>1, <1>2, <1>3, <1>11, <1>24, SoundStep

\* A reader is handed the message at the head, once.
LEMMA CopyOutKeeps ==
    ASSUME IInv, NEW p \in Readers, CopyOut(p)
    PROVE  IInv'
<1> DEFINE j == job[p]
           s == slot[At(lane.read)]
           n == record[s.claim.rec].intent
<1>1. p \in Procs /\ p \notin Writers BY ProcsAssumption DEF Procs
<1>2. Step(p, "copy", "consumeTurn", j) /\ pc[p] = "copy" BY DEF CopyOut, Steps, Step, J
<1>3. Types /\ SharedInv /\ j \in JobType /\ Knows(p, "copy", j) BY <1>1, <1>2, Actor
<1>4. Place("copy", j) = "copy" BY DEF Place
<1>5. j.pos = lane.read BY <1>3, <1>4 DEF Knows, ReaderInv
<1>6. /\ laneHold = p /\ lane.initialized /\ lane.read < lane.reserve
      /\ s.claim.state = "committed" /\ s.seq = lane.read /\ Passed /\ Kept
  BY <1>3, <1>4, <1>5 DEF Knows, ReaderInv
<1>7. j.then = "look" BY <1>3 DEF Knows, ControlInv
<1>8. /\ delivered' = Append(delivered, [pos |-> lane.read, msg |-> s.body])
      /\ lane' = lane /\ slot' = slot /\ record' = record /\ laneHold' = p
      /\ bound' = bound /\ Capacity' = Capacity
      /\ UNCHANGED <<bound, laneVars, record, owner, laneHold, regHold, sent, fate, malformed>>
  BY <1>5, <1>6 DEF CopyOut, SlotOf, J, laneVars, regVars, holdVars, Capacity
<1>9. Sound(p) /\ Kept' /\ \E d \in DOMAIN delivered' : delivered'[d].msg = s.body
  BY <1>1, <1>6, <1>8, CopySound
<1>10. Done(s.claim) BY <1>6 DEF Done
<1>11. n.pos = lane.read BY <1>6, <1>10, DoneAtHead
<1>12. pc'[p] = "consumeTurn" /\ job'[p] = j BY <1>1, <1>2, <1>3, StepFacts
<1>13. slot'[At(job[p].pos)'] = s BY <1>5, <1>8, <1>12 DEF At
<1> HIDE DEF s
<1>14. ControlInv(p, pc[p], job[p])'
  BY <1>1, <1>3, <1>4, <1>7, <1>12 DEF ControlInv, Place, Knows
<1>15. WriterInv(p, pc[p], job[p])'
  BY <1>1, <1>3, <1>4, <1>12 DEF WriterInv, Place, Knows
<1>16. HelpInv(pc[p], job[p])' BY <1>12 DEF HelpInv
<1>17. RecoverInv(p, pc[p], job[p])' BY SMTT(40), <1>12 DEF RecoverInv, Place
<1>18. ReaderInv(p, pc[p], job[p])'
  BY <1>5, <1>6, <1>7, <1>8, <1>9, <1>10, <1>11, <1>12, <1>13 DEF ReaderInv, Place, Done
<1>19. Knows(p, pc[p], job[p])' BY <1>14, <1>15, <1>16, <1>17, <1>18 DEF Knows
<1> QED BY SMTT(40), <1>1, <1>2, <1>3, <1>9, <1>19, SoundStep

-----------------------------------------------------------------------------
(***************************************************************************)
(* The other steps                                                         *)
(***************************************************************************)

\* A wake frees every reader that is parked; nothing else is changed.
LEMMA WakeWordKeeps ==
    ASSUME IInv, NEW p \in Procs, WakeWord(p)
    PROVE  IInv'
<1> DEFINE j == job[p]
<1>1. /\ Types /\ SharedInv /\ MessageInv /\ j \in JobType /\ Knows(p, "futex", j)
      /\ pc[p] = "futex" /\ (p \in Writers => regHold[p] = p)
  BY Actor DEF WakeWord
<1>2. Calm /\ lane' \in LaneType BY <1>1, ReadsCalm DEF WakeWord
<1>3. /\ j.wake \in Places /\ j.wake # "dead"
      /\ pc \in [Procs -> AllPlaces] /\ job \in [Procs -> JobType]
  BY Zenon, <1>1 DEF Types, JobType
<1>4. /\ pc'[p] = j.wake /\ job'[p] = IF j.wake = "idle" THEN NoJob ELSE j
      /\ \A q \in Procs \ {p} :
            /\ pc'[q] = IF pc[q] = "parked" THEN "unparked" ELSE pc[q]
            /\ job'[q] = job[q]
      /\ pc' \in [Procs -> AllPlaces] /\ job' \in [Procs -> JobType]
  BY <1>1, <1>3, NoJobFacts DEF WakeWord, J
<1>5. Types'
  <2>1. bound' = bound BY <1>2 DEF Calm
  <2> QED BY <1>1, <1>2, <1>4, <2>1, SameTypes DEF Types, Calm
<1>6. SharedInv' BY <1>1, <1>2, CalmShared
<1>7. MessageInv' BY <1>1, <1>4, NoJobFacts DEF MessageInv
<1>8. Knows(p, pc'[p], job'[p])
  <2>1. CASE j.wake = "idle" BY <1>1, <1>4, <2>1, NoJobFacts, NothingKnown
  <2>2. CASE j.wake # "idle" BY <1>1, <1>4, <2>2, WakeGiven
  <2> QED BY <2>1, <2>2
<1>9. ASSUME NEW q \in Procs \ {p} PROVE Knows(q, pc'[q], job'[q])
  <2>1. Knows(q, pc[q], job[q]) BY DEF IInv
  <2>2. CASE pc[q] # "parked" BY <1>4, <2>1, <2>2
  <2>3. CASE pc[q] = "parked"
    <3>1. Knows(q, "parked", job[q]) /\ pc'[q] = "unparked" /\ job'[q] = job[q]
      BY SMTT(40), <1>4, <2>1, <2>3
    <3>2. Knows(q, "unparked", job[q])
      BY SMTT(40), <3>1 DEF Knows, ControlInv, WriterInv, HelpInv, RecoverInv, ReaderInv, Place
    <3> QED BY <3>1, <3>2
  <2> QED BY <2>2, <2>3
<1>10. \A q \in Procs : Knows(q, pc[q], job[q])' BY <1>2, <1>8, <1>9, CalmKnows
<1> QED BY <1>5, <1>6, <1>7, <1>10 DEF IInv

\* A reader reports the directory it saw.
LEMMA ReportDirectoryKeeps ==
    ASSUME IInv, NEW p \in Readers, ReportDirectory(p)
    PROVE  IInv'
<1>1. Types /\ SharedInv /\ MessageInv /\ \A q \in Procs : Knows(q, pc[q], job[q])
  BY DEF IInv
<1>2. Calm /\ lane' = lane /\ pc' = pc /\ job' = job
  BY DEF ReportDirectory, Calm, laneVars, regVars, holdVars, histVars
<1>3. Types'
  <2>1. bound' = bound BY <1>2 DEF Calm
  <2> QED BY <1>1, <1>2, <2>1, SameTypes DEF Types, Calm
<1>4. SharedInv' BY <1>1, <1>2, CalmShared
<1>5. MessageInv' BY <1>1, <1>2 DEF MessageInv
<1>6. \A q \in Procs : Knows(q, pc[q], job[q])' BY <1>1, <1>2, CalmKnows
<1> QED BY <1>3, <1>4, <1>5, <1>6 DEF IInv

\* A writer takes up a new message, which no other has.
LEMMA WriteKeeps ==
    ASSUME IInv, NEW p \in Writers, Write(p)
    PROVE  IInv'
<1> DEFINE b == IF lane.consumers = 0 THEN "idle" ELSE "loadRead"
           k == [NoJob EXCEPT !.msg = sent + 1, !.tries = Capacity]
<1>1. p \in Procs /\ pc[p] = "idle" /\ Step(p, "idle", b, k) BY DEF Procs, Write, Step
<1>2. Types /\ SharedInv /\ MessageInv /\ regHold[p] = p BY <1>1, Actor
<1>3. Sound(p)
  BY <1>1, WriteSound DEF Write, regVars, holdVars, histVars
<1>4. sent \in Nat /\ sent' = sent + 1 /\ sent < bound.writes /\ bound.writes \in Nat
      /\ regHold' = regHold /\ bound' = bound /\ fate' = fate
  BY <1>2, NumbersAssumption DEF Write, Types, holdVars
<1>5. k \in JobType /\ k.msg = sent + 1 /\ ~k.serving
  <2>1. Capacity \in Int /\ sent + 1 \in Nat BY <1>2, <1>4, SharedNumbers
  <2> QED BY Zenon, <2>1, NoJobFacts DEF JobType
<1>6. b \in {"idle", "loadRead"} OBVIOUS
<1> HIDE DEF b, k
<1>7. /\ pc'[p] = b /\ job'[p] = IF b = "idle" THEN NoJob ELSE k
      /\ \A q \in Procs \ {p} : pc'[q] = pc[q] /\ job'[q] = job[q]
      /\ pc' \in [Procs -> AllPlaces] /\ job' \in [Procs -> JobType]
  BY <1>1, <1>2, <1>5, <1>6, StepFacts
<1>8. Types' BY <1>3, <1>4, <1>7, SameTypes DEF Sound, SharedTypes, Types
<1>9. \A q \in Procs : job[q].msg # sent + 1
  <2> SUFFICES ASSUME NEW q \in Procs PROVE job[q].msg # sent + 1 OBVIOUS
  <2>1. job[q].msg \in 1 .. sent \/ job[q].msg = 0
    BY Actor DEF Knows, WriterInv
  <2> QED BY <1>4, <2>1
<1>10. MessageInv'
  <2> SUFFICES ASSUME NEW q \in Procs, NEW r \in Procs, q # r
               PROVE  job'[q].msg = 0 \/ job'[q].msg # job'[r].msg
    BY DEF MessageInv
  <2>1. job'[p].msg = 0 \/ job'[p].msg = sent + 1 BY <1>5, <1>7, NoJobFacts
  <2>2. CASE q # p /\ r # p BY <1>2, <1>7, <2>2 DEF MessageInv
  <2>3. CASE q = p BY <1>7, <1>9, <2>1, <2>3
  <2>4. CASE r = p BY <1>7, <1>9, <2>1, <2>4
  <2> QED BY <2>2, <2>3, <2>4
<1>11. Knows(p, pc[p], job[p])'
  <2>1. CASE b = "idle" BY <1>1, <1>2, <1>4, <1>7, <2>1, NoJobFacts, NothingKnownNext
  <2>2. CASE b = "loadRead"
    <3>1. pc'[p] = "loadRead" /\ job'[p] = k BY <1>7, <2>2
    <3>2. fate[sent + 1].pos = -1
      <4>1. sent + 1 \in 1 .. bound.writes /\ ~(sent + 1 <= sent) BY <1>4
      <4> QED BY <1>2, <4>1, FateFacts DEF SharedInv
    <3>3. sent + 1 \in 1 .. sent' BY <1>4
    <3>4. ControlInv(p, pc[p], job[p])' BY <3>1 DEF ControlInv, Place
    <3>5. WriterInv(p, pc[p], job[p])'
      BY <1>2, <1>4, <1>5, <3>1, <3>2, <3>3 DEF WriterInv, Place
    <3>6. HelpInv(pc[p], job[p])' BY <3>1 DEF HelpInv
    <3>7. RecoverInv(p, pc[p], job[p])' BY <3>1 DEF RecoverInv, Place
    <3>8. ReaderInv(p, pc[p], job[p])' BY <1>5, <3>1 DEF ReaderInv, Place
    <3>9. Knows(p, pc[p], job[p])' BY <3>4, <3>5, <3>6, <3>7, <3>8 DEF Knows
    <3> QED BY <3>9
  <2> QED BY <1>6, <2>1, <2>2
<1>12. ASSUME NEW q \in Procs, q # p PROVE Knows(q, pc[q], job[q])'
  BY <1>3, <1>7, <1>8, <1>12, Bystander DEF Sound
<1> QED BY <1>3, <1>8, <1>10, <1>11, <1>12 DEF IInv, Sound

-----------------------------------------------------------------------------
(***************************************************************************)
(* The theorems                                                            *)
(***************************************************************************)

\* The initial states satisfy the invariant.
LEMMA InitIInv == Init => IInv
<1> SUFFICES ASSUME Init PROVE IInv OBVIOUS
<1> USE DEF Init
<1>1. Capacity \in Nat \ {0} /\ bound \in Bounds /\ bound.writes \in Nat
  BY CapacityFacts, NumbersAssumption
<1>2. \A i \in 0 .. Capacity - 1 : slot[i].seq = 0 /\ slot[i].claim = Free OBVIOUS
<1>3. \A r \in Records :
         /\ ~record[r].referenced /\ record[r].intent = NoIntent /\ record[r] \in RecordType
  BY NoJobFacts DEF RecordType
<1>4. \A m \in 1 .. bound.writes : fate[m].pos = -1 OBVIOUS
<1>5. delivered = <<>> /\ DOMAIN delivered = {} OBVIOUS
<1>6. Types
  <2>1. lane \in LaneType BY DEF LaneType
  <2>2. slot \in [0 .. Capacity - 1 -> SlotType]
    <3>1. [seq |-> 0, claim |-> Free, body |-> 0] \in SlotType BY FreeFacts DEF SlotType
    <3> QED BY <3>1
  <2>3. record \in [Records -> RecordType] BY Zenon, <1>3
  <2>4. owner \in [Writers -> [gen : Nat, active : BOOLEAN]] OBVIOUS
  <2>5. laneHold \in Procs \cup {Nobody} /\ regHold \in [Writers -> Procs \cup {Nobody}]
    BY DEF Procs
  <2>6. pc \in [Procs -> Places \cup Wakes \cup Helps] /\ job \in [Procs -> JobType]
    BY NoJobFacts
  <2>7. fate \in [1 .. bound.writes -> [pos : Int, epoch : Nat]] OBVIOUS
  <2>8. delivered \in Seq([pos : Nat, msg : Nat]) BY <1>5
  <2>9. sent \in Nat /\ sent <= bound.writes BY <1>1
  <2> QED BY Zenon, <1>1, <2>1, <2>2, <2>3, <2>4, <2>5, <2>6, <2>7, <2>8, <2>9 DEF Types
<1>7. SharedInv
  <2>1. ClaimInv BY <1>2 DEF ClaimInv
  <2>2. RecordInv BY <1>3 DEF RecordInv, NoIntent
  <2>3. LaneInv BY <1>1, <1>2, <1>3, <1>5 DEF LaneInv, NoIntent
  <2>4. FateInv BY <1>4 DEF FateInv
  <2>5. DeliveredInv BY <1>5 DEF DeliveredInv, DeliveredOnceInTurn, NeverMalformed
  <2> QED BY <2>1, <2>2, <2>3, <2>4, <2>5 DEF SharedInv
<1>8. MessageInv BY NoJobFacts DEF MessageInv
<1>9. ASSUME NEW p \in Procs PROVE Knows(p, pc[p], job[p])
  <2>1. pc[p] = "idle" /\ job[p] = NoJob OBVIOUS
  <2>2. p \in Writers => regHold[p] = p OBVIOUS
  <2> QED BY <2>1, <2>2, NoJobFacts, NothingKnown
<1> QED BY <1>6, <1>7, <1>8, <1>9 DEF IInv

\* A stuttering step keeps the invariant.
LEMMA StutterKeeps ==
    ASSUME IInv, UNCHANGED vars
    PROVE  IInv'
<1>1. Types /\ SharedInv /\ MessageInv /\ \A q \in Procs : Knows(q, pc[q], job[q])
  BY DEF IInv
<1>2. Calm /\ lane' = lane /\ pc' = pc /\ job' = job
  BY DEF vars, Calm, laneVars, regVars, holdVars, histVars
<1>3. Types'
  <2>1. bound' = bound BY <1>2 DEF Calm
  <2> QED BY <1>1, <1>2, <2>1, SameTypes DEF Types, Calm
<1>4. SharedInv' BY <1>1, <1>2, CalmShared
<1>5. MessageInv' BY <1>1, <1>2 DEF MessageInv
<1>6. \A q \in Procs : Knows(q, pc[q], job[q])' BY <1>1, <1>2, CalmKnows
<1> QED BY <1>3, <1>4, <1>5, <1>6 DEF IInv

\* A step of a process that wakes, helps, recovers, dies or comes back.
LEMMA AnyKeeps ==
    ASSUME IInv, NEW p \in Procs,
           \/ Bump(p) \/ LookForWaiters(p) \/ WakeWord(p) \/ SwapReactor(p)
           \/ Ring(p) \/ Crash(p) \/ Restart(p)
           \/ HelpClaim(p) \/ HelpIntent(p) \/ HelpTurn(p) \/ HelpAgain(p)
           \/ HelpAdmit(p)
           \/ NextRecord(p) \/ RecTurn(p) \/ RecClaim(p) \/ RecCancel(p)
           \/ RecRollBack(p) \/ RecUnwrite(p) \/ RecordsDone(p)
    PROVE  IInv'
BY BumpKeeps, LookForWaitersKeeps, WakeWordKeeps, SwapReactorKeeps, RingKeeps, CrashKeeps,
   RestartKeeps, HelpClaimKeeps, HelpIntentKeeps, HelpTurnKeeps, HelpAgainKeeps,
   HelpAdmitKeeps, NextRecordKeeps, RecTurnKeeps, RecClaimKeeps, RecCancelKeeps,
   RecRollBackKeeps, RecUnwriteKeeps, RecordsDoneKeeps

\* Every step of a writer keeps the invariant.
LEMMA WriterKeeps ==
    ASSUME IInv, NEW p \in Writers,
           \/ Write(p) \/ TryAgain(p) \/ LoadRead(p) \/ LoadReserve(p)
           \/ LoadClaim(p) \/ Progress(p) \/ TakeRecord(p)
           \/ IntentStore(p) \/ ClaimSlot(p) \/ CheckTurn(p)
           \/ RollBack(p) \/ DropIntent(p) \/ Admit(p) \/ StorePayload(p)
           \/ Commit(p) \/ Unwrite(p) \/ DirectoryMoves(p)
    PROVE  IInv'
BY WriteKeeps, TryAgainKeeps, LoadReadKeeps, LoadReserveKeeps, LoadClaimKeeps,
   ProgressKeeps, TakeRecordKeeps, IntentStoreKeeps, ClaimSlotKeeps, CheckTurnKeeps,
   RollBackKeeps, DropIntentKeeps, AdmitKeeps, StorePayloadKeeps, CommitKeeps,
   UnwriteKeeps, DirectoryMovesKeeps

\* Every step of a reader keeps the invariant.
LEMMA ReaderKeeps ==
    ASSUME IInv, NEW p \in Readers,
           \/ NextOwner(p) \/ JoinStarts(p) \/ LaneCheck(p) \/ ReleaseLane(p)
           \/ AnnounceLeave(p) \/ Retired(p) \/ JoinLook(p) \/ JoinHold(p) \/ JoinLoses(p)
           \/ JoinClaims(p) \/ PublishIdentity(p) \/ Serve(p)
           \/ ResetFresh(p) \/ ResetLook(p) \/ ResetTurn(p) \/ ResetLate(p)
           \/ ResetClaim(p) \/ ResetEpoch(p)
           \/ ConsumeTurn(p) \/ ConsumeFree(p) \/ ConsumeHead(p)
           \/ ReportDirectory(p) \/ TakeGeneration(p)
           \/ ReadHead(p) \/ ReadClaim(p) \/ ReadIntent(p)
           \/ CopyOut(p) \/ Disarm(p) \/ Drain(p) \/ Arm(p) \/ Recheck(p)
           \/ Awake(p) \/ Register(p) \/ EnterWait(p) \/ Unpark(p)
           \/ LeaveStarts(p) \/ Left(p)
    PROVE  IInv'
BY NextOwnerKeeps, JoinStartsKeeps, LaneCheckKeeps, ReleaseLaneKeeps, AnnounceLeaveKeeps,
   LeavingKeeps, JoinLookKeeps, JoinHoldKeeps, JoinClaimsKeeps, PublishIdentityKeeps,
   ServeKeeps, ResetFreshKeeps, ResetLookKeeps, ResetTurnKeeps, ResetLateKeeps,
   ResetClaimKeeps, ResetEpochKeeps, ConsumeTurnKeeps, ConsumeFreeKeeps, ConsumeHeadKeeps,
   ReportDirectoryKeeps, TakeGenerationKeeps, ReadHeadKeeps, ReadClaimKeeps,
   ReadIntentKeeps, CopyOutKeeps, DisarmKeeps, DrainKeeps, ArmKeeps, RecheckKeeps,
   AwakeKeeps, RegisterKeeps, EnterWaitKeeps, UnparkKeeps, LeaveStartsKeeps

\* Every step keeps the invariant.
LEMMA StepKeeps == IInv /\ [Next]_vars => IInv'
<1> SUFFICES ASSUME IInv, [Next]_vars PROVE IInv' OBVIOUS
<1>1. CASE UNCHANGED vars BY <1>1, StutterKeeps
<1>2. CASE Next BY <1>2, AnyKeeps, WriterKeeps, ReaderKeeps DEF Next
<1> QED BY <1>1, <1>2

\* The invariant holds of every lane: writers, readers and recoverers, any of
\* which may die between two stores, keep the places, records, slots and
\* positions of inbox.rs and claims.rs in step with each other.
THEOREM InboxInvariant == Spec => []IInv
<1>1. Init => IInv BY InitIInv
<1>2. IInv /\ [Next]_vars => IInv' BY StepKeeps
<1> QED BY <1>1, <1>2, PTL DEF Spec

\* Messages are handed to readers in the order of their turns, each once and as
\* its writer committed it, and no record of a claim is ever met unstable or of
\* another turn (admit, commit, take and recover of inbox.rs).
THEOREM InboxTurnsKept == Spec => []TurnsKept
<1>1. IInv => TurnsKept BY DEF IInv, SharedInv, DeliveredInv, TurnsKept
<1> QED BY <1>1, InboxInvariant, PTL

\* While a reader serves the lane, whatever was committed for its claim of it is
\* in the lane or was delivered (commit, consume_frame and reset_lane).
THEOREM InboxLosesNothing == Spec => []AcceptedNotLost
<1>1. ASSUME IInv PROVE AcceptedNotLost
  <2> SUFFICES ASSUME Serving # {} PROVE Kept BY DEF AcceptedNotLost, Kept
  <2>1. PICK p \in Readers : job[p].serving BY DEF Serving
  <2>2. p \in Procs BY DEF Procs
  <2>3. ReaderInv(p, pc[p], job[p]) BY <1>1, <2>2 DEF IInv, Knows
  <2> QED BY <2>1, <2>3 DEF ReaderInv
<1> QED BY <1>1, InboxInvariant, PTL
==============================================================================
