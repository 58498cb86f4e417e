-------------------------- MODULE StreamRingProofs --------------------------
(***************************************************************************)
(* Proofs about StreamRing, for every capacity, every number of bytes and  *)
(* every way to write, wait, end and die: the bytes cross in order.        *)
(*                                                                         *)
(* Writer and reader touch the same buffer without a lock.  The argument:  *)
(*   RingInv    the bytes between the two positions are in the ring, never *)
(*              more than it holds, and a FIN is only set behind the last; *)
(*   CommitInv  so are those copied in and not committed yet, which took   *)
(*              slots the reader had given back: positions less than a lap *)
(*              apart are in different slots (SameSlot);                   *)
(*   ReaderInv  what the reader is about to take has been committed, and   *)
(*              the flags it read before the head are still set, so that a *)
(*              FIN and an empty ring mean that nothing is missing;        *)
(*   GotInv     what it has taken is what it gave back, except between its *)
(*              copy and the store of the tail.                            *)
(* All the other steps (the wakes, the doorbells, the drivers, the waits)  *)
(* leave what these speak of alone; that they do is most of the work.      *)
(***************************************************************************)
EXTENDS StreamRing, TLAPS

Places ==
    {"go", "bump", "wakeOn", "pend", "ringGen", "ringLook", "look", "register",
     "again", "parked", "blockLook", "count", "since", "blockAgain", "sleep",
     "asleep", "unwait", "end", "commit", "publish", "drained", "after", "over",
     "readHead", "copy", "consume", "gained", "leave", "mayPark", "watch",
     "flag"}

\* The places where an operation holds on to a position or a flag it has read.
Busy == {"commit", "readHead", "copy", "consume", "leave"}

Flags == {"fin", "reset", "gone", "side", "watch"}

TaskRecord ==
    [at : Places, want : {"none", "read", "byte", "exact", "closed", "dead"},
     from : Int, to : Nat, flags : SUBSET Flags, same : BOOLEAN,
     ring : SUBSET Ends, now : Ends \cup {"none"}, then : {"go", "after", "over"}]

Direction ==
    [head : Nat, tail : Nat, flags : SUBSET Flags, needed : Int, waiters : Int,
     buffer : [0 .. Capacity - 1 -> Int]]

Types ==
    /\ mode \in Modes
    /\ dir \in Direction
    /\ task \in [Actors -> TaskRecord]
    /\ got \in [bytes : Nat, right : BOOLEAN]

\* The byte of that position is in the ring.
InRing(p) == dir.buffer[p % Capacity] = p

\* What is between the two positions was written and not written over.
RingInv ==
    /\ dir.tail <= dir.head /\ dir.head <= Total
    /\ dir.head <= dir.tail + Capacity
    /\ \A p \in dir.tail .. dir.head - 1 : InRing(p)
    /\ "fin" \in dir.flags => dir.head = Total

\* What the writer has copied in and not committed yet.
CommitInv ==
    task["w"].at = "commit" =>
        /\ dir.head < task["w"].to /\ task["w"].to <= Total
        /\ task["w"].to <= dir.tail + Capacity
        /\ \A p \in dir.tail .. task["w"].to - 1 : InRing(p)

\* What the reader takes, and what it knows when it leaves.
ReaderInv ==
    /\ task["r"].at \in {"copy", "consume"} =>
          dir.tail < task["r"].to /\ task["r"].to <= dir.head
    /\ task["r"].at = "readHead" => task["r"].flags \subseteq dir.flags
    /\ task["r"].at = "leave" => "reset" \in dir.flags \/ dir.tail = Total

\* What the reader has taken.
GotInv ==
    /\ got.right
    /\ "r" \in dead => task["r"].at \notin Busy
    /\ "r" \notin dead /\ task["r"].at = "consume" => got.bytes = task["r"].to
    /\ "r" \notin dead /\ task["r"].at # "consume" => got.bytes = dir.tail

IInv == Types /\ RingInv /\ CommitInv /\ ReaderInv /\ GotInv

-----------------------------------------------------------------------------
(***************************************************************************)
(* Arithmetic of the ring                                                  *)
(***************************************************************************)

\* Of the multiples of C only 0 lies between 0 and C.
LEMMA Multiple ==
    ASSUME NEW C \in Nat \ {0}, NEW k \in Int, 0 <= C * k, C * k < C
    PROVE  C * k = 0
<1>1. CASE k >= 1
  <2>1. PICK j \in Nat : k = j + 1 
    <3>1. k - 1 \in Nat /\ k = (k - 1) + 1 BY <1>1
    <3> QED BY <3>1
  <2>2. C * k = C * j + C BY <2>1
  <2>3. C * j >= 0 BY <2>1
  <2> QED BY <2>2, <2>3
<1>2. CASE k <= -1
  <2>1. PICK j \in Nat : k = -1 - j 
    <3>1. -1 - k \in Nat /\ k = -1 - (-1 - k) BY <1>2
    <3> QED BY <3>1
  <2>2. C * k = 0 - C - C * j BY <2>1
  <2>3. C * j >= 0 BY <2>1
  <2> QED BY <2>2, <2>3
<1>3. CASE k = 0 BY <1>3
<1> QED BY <1>1, <1>2, <1>3

\* Two positions less than a lap apart are in different slots.
LEMMA SameSlot ==
    ASSUME NEW C \in Nat \ {0}, NEW p \in Nat, NEW q \in Nat,
           p % C = q % C, p <= q, q < p + C
    PROVE  p = q
<1>1. PICK a \in Int, b \in Int, c \in Int : p = a * C + c /\ q = b * C + c
  <2>1. p \div C \in Int /\ q \div C \in Int /\ p % C \in Int BY Z3
  <2>2. p = (p \div C) * C + (p % C) BY Z3
  <2>3. q = (q \div C) * C + (q % C) BY Z3
  <2>4. q = (q \div C) * C + (p % C) BY <2>3
  <2> QED BY <2>1, <2>2, <2>4
<1>2. b - a \in Int OBVIOUS
<1>3. q - p = C * (b - a) BY <1>1
<1>4. 0 <= C * (b - a) /\ C * (b - a) < C BY <1>3
<1> QED BY <1>2, <1>3, <1>4, Multiple

\* What ModesAssumption says of the instance, and where a position is.
LEMMA ModeFacts ==
    ASSUME mode \in Modes
    PROVE  /\ Capacity \in Nat \ {0} /\ Total \in Nat \ {0}
           /\ mode.frame \in 1 .. Capacity /\ mode.ends \in {"fin", "reset"}
           /\ mode.after \in {"nothing", "closed", "dead"}
           /\ \A p \in Nat : p % Capacity \in 0 .. Capacity - 1
<1>1. /\ Capacity \in Nat \ {0} /\ Total \in Nat \ {0}
      /\ mode.frame \in 1 .. Capacity /\ mode.ends \in {"fin", "reset"}
      /\ mode.after \in {"nothing", "closed", "dead"}
  BY ModesAssumption DEF Capacity, Total
<1>2. \A p \in Nat : p % Capacity \in 0 .. Capacity - 1 BY <1>1
<1> QED BY <1>1, <1>2

-----------------------------------------------------------------------------
(***************************************************************************)
(* Initially                                                               *)
(***************************************************************************)

\* The locals of an operation that has not begun.
LEMMA IdleType ==
    /\ Idle \in TaskRecord /\ Idle.at = "go" /\ Idle.then = "go"
    /\ \A a \in Places : [Idle EXCEPT !.at = a] \in TaskRecord
                         /\ [Idle EXCEPT !.at = a].at = a
<1>1. Idle \in TaskRecord /\ Idle.at = "go" /\ Idle.then = "go"
  BY DEF Idle, TaskRecord, Places
<1>2. ASSUME NEW a \in Places
      PROVE  [Idle EXCEPT !.at = a] \in TaskRecord
             /\ [Idle EXCEPT !.at = a].at = a
  BY <1>1 DEF TaskRecord
<1> QED BY <1>1, <1>2

\* An empty ring satisfies the invariant.
LEMMA InitIInv == Init => IInv
<1> SUFFICES ASSUME Init PROVE IInv OBVIOUS
<1>1. mode \in Modes BY DEF Init
<1>2. Capacity \in Nat \ {0} /\ Total \in Nat \ {0} BY <1>1, ModeFacts
<1>3. /\ dir.head = 0 /\ dir.tail = 0 /\ dir.flags = {}
      /\ dir \in Direction
  BY <1>2 DEF Init, Direction, Capacity, NoByte
<1>4. task \in [Actors -> TaskRecord]
  <2>1. \A x \in Actors : task[x] \in TaskRecord
    BY IdleType DEF Init, Places
  <2> QED BY <2>1 DEF Init
<1>5. task["w"].at = "go" /\ task["r"].at = "go"
  BY IdleType DEF Init, Actors, Ends
<1>6. got \in [bytes : Nat, right : BOOLEAN] /\ got.right /\ got.bytes = 0
  BY DEF Init
<1>7. Types BY <1>1, <1>3, <1>4, <1>6 DEF Types
<1>8. RingInv BY <1>2, <1>3 DEF RingInv
<1>9. CommitInv /\ ReaderInv BY <1>5 DEF CommitInv, ReaderInv
<1>10. GotInv BY <1>3, <1>5, <1>6 DEF GotInv, Busy
<1> QED BY <1>7, <1>8, <1>9, <1>10 DEF IInv

-----------------------------------------------------------------------------
(***************************************************************************)
(* The steps that leave the bytes alone                                    *)
(***************************************************************************)

\* What an operation holds on to is unchanged.
Holds(y) ==
    /\ task'[y].at = task[y].at /\ task'[y].to = task[y].to
    /\ task'[y].flags = task[y].flags

QuietTask ==
    /\ task' \in [Actors -> TaskRecord]
    /\ \A y \in Ends :
          Holds(y) \/ (task'[y].at \notin Busy /\ task[y].at # "consume")

QuietDir ==
    /\ dir' \in Direction
    /\ dir'.head = dir.head /\ dir'.tail = dir.tail /\ dir'.buffer = dir.buffer
    /\ dir.flags \subseteq dir'.flags
    /\ "fin" \in dir'.flags => "fin" \in dir.flags

\* A step that begins no copy, and sets no FIN, keeps the invariant.
LEMMA QuietKeeps ==
    ASSUME IInv, QuietTask, QuietDir, UNCHANGED <<dead, got, mode>>
    PROVE  IInv'
<1>0. Types /\ RingInv /\ CommitInv /\ ReaderInv /\ GotInv BY DEF IInv
<1>1. Capacity' = Capacity /\ Total' = Total /\ Direction' = Direction
  BY DEF Capacity, Total, Direction
<1>2. Types' BY <1>0, <1>1 DEF Types, QuietTask, QuietDir
<1>3. \A p : InRing(p)' = InRing(p) BY <1>1 DEF InRing, QuietDir
<1>4. RingInv' BY <1>0, <1>1, <1>3 DEF RingInv, QuietDir
<1>5. /\ Holds("w") \/ task'["w"].at \notin Busy
      /\ Holds("r") \/ (task'["r"].at \notin Busy /\ task["r"].at # "consume")
  BY DEF QuietTask, Ends
<1>6. CommitInv'
  BY <1>0, <1>1, <1>3, <1>5 DEF CommitInv, Holds, Busy, QuietDir
<1>7. ReaderInv'
  BY <1>0, <1>1, <1>5 DEF ReaderInv, Holds, Busy, QuietDir
<1>8. GotInv' BY <1>0, <1>5 DEF GotInv, Holds, Busy, QuietDir
<1> QED BY <1>2, <1>4, <1>6, <1>7, <1>8 DEF IInv

\* One operation goes on to a place where it holds on to nothing.
LEMMA QuietSets ==
    ASSUME Types, NEW x \in Actors, NEW rec \in TaskRecord, Sets(x, rec),
           rec.at \notin Busy, task[x].at # "consume"
    PROVE  QuietTask
<1>1. /\ task' \in [Actors -> TaskRecord] /\ task'[x] = rec
      /\ \A y \in Actors \ {x} : task'[y] = task[y]
  BY DEF Types, Sets
<1> QED BY <1>1 DEF QuietTask, Holds, Ends, Actors

\* The same when only its place changes.
LEMMA QuietGoes ==
    ASSUME Types, NEW x \in Actors, NEW b \in Places \ Busy, Goes(x, b),
           task[x].at # "consume"
    PROVE  QuietTask
<1>1. task[x] \in TaskRecord BY DEF Types
<1>2. [task[x] EXCEPT !.at = b] \in TaskRecord
      /\ [task[x] EXCEPT !.at = b].at = b
  BY <1>1 DEF TaskRecord
<1>3. Sets(x, [task[x] EXCEPT !.at = b]) BY DEF Goes, Sets, Types
<1> QED BY <1>2, <1>3, QuietSets

\* A direction that is as it was is quiet.
LEMMA DirSame ==
    ASSUME Types, dir' = dir PROVE QuietDir
BY DEF Types, QuietDir

\* Clearing an exact wait, and counting a waiter, are quiet.
LEMMA DirQuiet ==
    ASSUME Types,
           \/ \E n \in Int : dir' = [dir EXCEPT !.needed = n]
           \/ \E n \in Int : dir' = [dir EXCEPT !.waiters = n]
           \/ \E f \in {"reset", "gone", "side", "watch"} :
                 dir' = [dir EXCEPT !.flags = @ \cup {f}]
    PROVE  QuietDir
<1>0. dir \in Direction BY DEF Types
<1>1. CASE \E n \in Int : dir' = [dir EXCEPT !.needed = n]
  BY <1>0, <1>1 DEF QuietDir, Direction
<1>2. CASE \E n \in Int : dir' = [dir EXCEPT !.waiters = n]
  BY <1>0, <1>2 DEF QuietDir, Direction
<1>3. CASE \E f \in {"reset", "gone", "side", "watch"} :
              dir' = [dir EXCEPT !.flags = @ \cup {f}]
  <2>1. PICK f \in {"reset", "gone", "side", "watch"} :
           dir' = [dir EXCEPT !.flags = @ \cup {f}]
    BY <1>3
  <2>2. dir.flags \cup {f} \in SUBSET Flags /\ f # "fin"
    BY <1>0, <2>1 DEF Direction, Flags
  <2> QED BY <1>0, <2>1, <2>2 DEF QuietDir, Direction
<1> QED BY <1>1, <1>2, <1>3

\* A look at the direction.
LEMMA ClearedQuiet ==
    ASSUME Types, NEW want, dir' = Cleared(want) PROVE QuietDir
BY DirSame, DirQuiet DEF Cleared

-----------------------------------------------------------------------------
(* notify and ring *)

\* Where an operation is when sides are still to be rung.
LEMMA ToldQuiet ==
    ASSUME Types, NEW x \in Actors, NEW left \in SUBSET Ends
    PROVE  Told(x, left) \in TaskRecord /\ Told(x, left).at \notin Busy
<1>1. task[x] \in TaskRecord BY DEF Types
<1>2. task[x].then \in {"go", "after", "over"} BY <1>1 DEF TaskRecord
<1>3. CASE left = {}
  BY <1>2, <1>3, IdleType DEF Told, Places, Busy
<1>4. CASE left # {}
  <2>1. Told(x, left) =
           [task[x] EXCEPT !.at = "pend", !.ring = left, !.now = "none"]
    BY <1>4 DEF Told
  <2> QED BY <1>1, <2>1 DEF TaskRecord, Places, Busy
<1> QED BY <1>3, <1>4

\* An operation that notifies holds on to nothing.
LEMMA NotifiesQuiet ==
    ASSUME Types, NEW x \in Actors, NEW sides \in SUBSET Ends,
           NEW after \in {"go", "after", "over"}, task[x].at # "consume",
           Notifies(x, sides, after)
    PROVE  QuietTask
<1> DEFINE rec == [Idle EXCEPT !.at = "bump", !.ring = sides, !.then = after]
<1>0. Idle \in TaskRecord BY IdleType
<1>1. rec \in TaskRecord /\ rec.at = "bump"
  BY <1>0 DEF TaskRecord, Places
<1>2. Sets(x, rec) BY DEF Notifies
<1>3. "bump" \notin Busy BY DEF Busy
<1> HIDE DEF rec
<1> QED BY <1>1, <1>2, <1>3, QuietSets

\* The change word moves.
LEMMA BumpQuiet ==
    ASSUME Types, NEW x \in Actors, Bump(x) PROVE QuietTask
<1>1. \A y \in Actors : task[y] \in TaskRecord BY DEF Types
<1>2. /\ task[x].at = "bump"
      /\ task' = [y \in Actors |-> IF y = x
                                   THEN [task[y] EXCEPT !.at = "wakeOn"]
                                   ELSE [task[y] EXCEPT !.same = FALSE]]
  BY DEF Bump, At
<1>3. ASSUME NEW y \in Actors
      PROVE  /\ task'[y] \in TaskRecord
             /\ Holds(y) \/ (task'[y].at \notin Busy /\ task[y].at # "consume")
  <2>1. CASE y = x
    BY <1>1, <1>2, <2>1 DEF TaskRecord, Places, Busy
  <2>2. CASE y # x
    <3>1. task'[y] = [task[y] EXCEPT !.same = FALSE] BY <1>2, <2>2
    <3> QED BY <1>1, <3>1 DEF TaskRecord, Holds
  <2> QED BY <2>1, <2>2
<1>4. task' \in [Actors -> TaskRecord] BY <1>2, <1>3
<1> QED BY <1>3, <1>4 DEF QuietTask, Actors

\* The threads on the change word are woken.
LEMMA WakeOnQuiet ==
    ASSUME Types, NEW x \in Actors, WakeOn(x) PROVE QuietTask
<1>1. \A y \in Actors : task[y] \in TaskRecord BY DEF Types
<1> DEFINE up == {y \in Ends : task[y].at = "asleep" /\ dir.waiters > 0}
<1>2. /\ task[x].at = "wakeOn"
      /\ task' = [y \in Actors |->
                    IF y \in up THEN [task[y] EXCEPT !.at = "unwait"]
                    ELSE IF y = x THEN Told(x, task[x].ring) ELSE task[y]]
  BY DEF WakeOn, At
<1>3. Told(x, task[x].ring) \in TaskRecord
      /\ Told(x, task[x].ring).at \notin Busy
  BY <1>1, ToldQuiet DEF TaskRecord
<1>4. ASSUME NEW y \in Actors
      PROVE  /\ task'[y] \in TaskRecord
             /\ Holds(y) \/ (task'[y].at \notin Busy /\ task[y].at # "consume")
  <2>1. CASE y \in up
    BY <1>1, <1>2, <2>1 DEF TaskRecord, Places, Busy
  <2>2. CASE y \notin up /\ y = x BY <1>2, <1>3, <2>2
  <2>3. CASE y \notin up /\ y # x BY <1>1, <1>2, <2>3 DEF Holds
  <2> QED BY <2>1, <2>2, <2>3
<1>5. task' \in [Actors -> TaskRecord] BY <1>2, <1>4
<1> QED BY <1>4, <1>5 DEF QuietTask, Actors

\* The steps of notify and ring, of either side and of the reporter.
LEMMA StepsKeep ==
    ASSUME IInv, NEW x \in Actors, Steps(x) PROVE IInv'
<1>0. Types /\ task[x] \in TaskRecord BY DEF IInv, Types
<1>1. UNCHANGED <<dir, dead, got, mode>>
  BY DEF Steps, Bump, WakeOn, RingHere, Pend, RingGeneration, RingLook, OnlyTask
<1>2. QuietDir BY <1>0, <1>1, DirSame
<1>3. QuietTask
  <2>1. CASE Bump(x) BY <1>0, <2>1, BumpQuiet
  <2>2. CASE WakeOn(x) BY <1>0, <2>2, WakeOnQuiet
  <2>3. CASE RingHere(x)
    <3>1. Sets(x, Told(x, {})) /\ task[x].at = "pend" BY <2>3 DEF RingHere, At
    <3> QED BY <1>0, <3>1, ToldQuiet, QuietSets
  <2>4. CASE \E y \in Ends : Pend(x, y)
    <3>1. PICK y \in Ends : Pend(x, y) BY <2>4
    <3>2. /\ Sets(x, [task[x] EXCEPT !.at = "ringGen", !.now = y])
          /\ task[x].at = "pend"
      BY <3>1 DEF Pend, At
    <3>3. /\ [task[x] EXCEPT !.at = "ringGen", !.now = y] \in TaskRecord
          /\ [task[x] EXCEPT !.at = "ringGen", !.now = y].at \notin Busy
      BY <1>0 DEF TaskRecord, Places, Busy
    <3> QED BY <1>0, <3>2, <3>3, QuietSets
  <2>5. CASE RingGeneration(x)
    <3>1. Goes(x, "ringLook") /\ task[x].at = "ringGen"
      BY <2>5 DEF RingGeneration, At
    <3>2. "ringLook" \in Places \ Busy BY DEF Places, Busy
    <3> QED BY <1>0, <3>1, <3>2, QuietGoes
  <2>6. CASE RingLook(x)
    <3>1. Sets(x, Told(x, task[x].ring \ {task[x].now}))
          /\ task[x].at = "ringLook"
      BY <2>6 DEF RingLook, At
    <3>2. task[x].ring \ {task[x].now} \in SUBSET Ends BY <1>0 DEF TaskRecord
    <3> QED BY <1>0, <3>1, <3>2, ToldQuiet, QuietSets
  <2> QED BY <2>1, <2>2, <2>3, <2>4, <2>5, <2>6 DEF Steps
<1> QED BY <1>1, <1>2, <1>3, QuietKeeps

-----------------------------------------------------------------------------
(* Waiting *)

\* A wait that goes on, or ends in another try.
LEMMA ContinuesQuiet ==
    ASSUME Types, NEW x \in Actors, NEW b \in Places \ Busy, Continues(x, b),
           task[x].at # "consume"
    PROVE  QuietTask
<1>1. task[x] \in TaskRecord BY DEF Types
<1>2. CASE b = "go" /\ task[x].want # "byte"
  <2>1. Sets(x, Idle) BY <1>2 DEF Continues
  <2>2. Idle.at \notin Busy BY IdleType DEF Busy
  <2> QED BY <2>1, <2>2, IdleType, QuietSets
<1>3. CASE ~(b = "go" /\ task[x].want # "byte")
  <2>1. Sets(x, [task[x] EXCEPT !.at = b]) BY <1>3 DEF Continues
  <2>2. [task[x] EXCEPT !.at = b] \in TaskRecord
        /\ [task[x] EXCEPT !.at = b].at = b
    BY <1>1 DEF TaskRecord
  <2> QED BY <2>1, <2>2, QuietSets
<1> QED BY <1>2, <1>3

\* The steps of poll_ready and of wait_until.
LEMMA WaitingKeeps ==
    ASSUME IInv, NEW x \in Ends, Waiting(x) PROVE IInv'
<1>0. Types /\ x \in Actors /\ task[x] \in TaskRecord /\ dir.waiters \in Int
  BY DEF IInv, Types, Actors, Direction
<1>1. UNCHANGED <<dead, got, mode>>
  BY DEF Waiting, Look, Register, LookAgain, Polled, BlockLook, CountWaiter,
     Since, BlockAgain, Sleep, Unwait, OnlyDir, OnlyTask
<1>2. Resumes(x) \in Places \ Busy BY DEF Resumes, Places, Busy
<1>3. QuietTask /\ QuietDir
  <2>1. CASE Look(x) \/ LookAgain(x) \/ BlockLook(x)
    <3>1. PICK b \in {"register", "parked", "count"} :
             /\ Continues(x, IF Ready(task[x].want) THEN Resumes(x) ELSE b)
             /\ task[x].at # "consume"
      BY <2>1 DEF Look, LookAgain, BlockLook, At
    <3>2. (IF Ready(task[x].want) THEN Resumes(x) ELSE b) \in Places \ Busy
      BY <1>2 DEF Places, Busy
    <3>3. QuietTask BY <1>0, <3>1, <3>2, ContinuesQuiet
    <3>4. dir' = Cleared(task[x].want) BY <2>1 DEF Look, LookAgain, BlockLook
    <3> QED BY <1>0, <3>3, <3>4, ClearedQuiet
  <2>2. CASE Register(x) \/ Polled(x) \/ Sleep(x)
    <3>1. /\ \E b \in {"again", "look", "asleep", "unwait"} : Goes(x, b)
          /\ task[x].at # "consume" /\ dir' = dir
      BY <2>2 DEF Register, Polled, Sleep, At, OnlyTask
    <3>2. {"again", "look", "asleep", "unwait"} \subseteq Places \ Busy
      BY DEF Places, Busy
    <3> QED BY <1>0, <3>1, <3>2, QuietGoes, DirSame
  <2>3. CASE BlockAgain(x)
    <3>1. /\ \E b \in {"unwait", "sleep"} : Goes(x, b)
          /\ task[x].at # "consume" /\ dir' = Cleared(task[x].want)
      BY <2>3 DEF BlockAgain, At
    <3>2. {"unwait", "sleep"} \subseteq Places \ Busy BY DEF Places, Busy
    <3> QED BY <1>0, <3>1, <3>2, QuietGoes, ClearedQuiet
  <2>4. CASE CountWaiter(x) \/ Unwait(x)
    <3>1. /\ \E b \in {"since", "blockLook"} : Goes(x, b)
          /\ task[x].at # "consume"
          /\ \E n \in Int : dir' = [dir EXCEPT !.waiters = n]
      BY <1>0, <2>4 DEF CountWaiter, Unwait, At
    <3>2. {"since", "blockLook"} \subseteq Places \ Busy BY DEF Places, Busy
    <3> QED BY <1>0, <3>1, <3>2, QuietGoes, DirQuiet
  <2>5. CASE Since(x)
    <3> DEFINE rec == [task[x] EXCEPT !.at = "blockAgain", !.same = TRUE]
    <3>1. Sets(x, rec) /\ task[x].at = "since" /\ dir' = dir
      BY <2>5 DEF Since, At, OnlyTask
    <3>2. rec \in TaskRecord /\ rec.at \notin Busy
      BY <1>0 DEF TaskRecord, Places, Busy
    <3> HIDE DEF rec
    <3> QED BY <1>0, <3>1, <3>2, QuietSets, DirSame
  <2> QED BY <2>1, <2>2, <2>3, <2>4, <2>5 DEF Waiting
<1> QED BY <1>1, <1>3, QuietKeeps

-----------------------------------------------------------------------------
(* The driver *)

\* The driver of a process touches its bell, its wakers and nothing else.
LEMMA DriverKeeps ==
    ASSUME IInv, NEW y \in Ends, Driver(y) PROVE IInv'
<1>0. Types BY DEF IInv
<1>1. UNCHANGED <<dir, task, dead, got, mode>>
  BY DEF Driver, DriverListens, DriverSees, Drain, DriverWakes, DriverCheck,
     DriverWaits, Arm, ArmCheck, Answer
<1>2. QuietDir BY <1>0, <1>1, DirSame
<1>3. QuietTask BY <1>0, <1>1 DEF Types, QuietTask, Holds
<1> QED BY <1>1, <1>2, <1>3, QuietKeeps

-----------------------------------------------------------------------------
(***************************************************************************)
(* The writer                                                              *)
(***************************************************************************)

\* An operation that begins to wait.
LEMMA WaitsQuiet ==
    ASSUME Types, NEW x \in Ends, NEW want \in {"read", "byte", "exact"},
           Waits(x, want), task[x].at # "consume"
    PROVE  QuietTask
<1>1. task[x] \in TaskRecord /\ x \in Actors BY DEF Types, Actors
<1>2. WaitPlace(x) \in Places \ Busy BY DEF WaitPlace, Places, Busy
<1> DEFINE rec == [task[x] EXCEPT !.at = WaitPlace(x), !.want = want]
<1>3. rec \in TaskRecord /\ rec.at = WaitPlace(x)
  BY <1>1, <1>2 DEF TaskRecord
<1>4. Sets(x, rec) BY DEF Waits
<1> HIDE DEF rec
<1> QED BY <1>1, <1>2, <1>3, <1>4, QuietSets

\* What the copy of n bytes behind the head makes of the buffer.
Filled(n) ==
    [i \in 0 .. Capacity - 1 |->
       IF \E p \in dir.head .. dir.head + n - 1 : p % Capacity = i
       THEN CHOOSE p \in dir.head .. dir.head + n - 1 : p % Capacity = i
       ELSE dir.buffer[i]]

\* A copy into room the reader has given back puts its bytes into the ring and
\* takes none out.
LEMMA FilledRing ==
    ASSUME IInv, NEW n \in Nat, n <= Free
    PROVE  /\ Filled(n) \in [0 .. Capacity - 1 -> Int]
           /\ \A p \in dir.tail .. dir.head + n - 1 :
                 Filled(n)[p % Capacity] = p
<1>0. /\ dir.head \in Nat /\ dir.tail \in Nat /\ mode \in Modes
      /\ dir.buffer \in [0 .. Capacity - 1 -> Int] /\ RingInv
  BY DEF IInv, Types, Direction
<1>1. /\ Capacity \in Nat \ {0}
      /\ \A p \in Nat : p % Capacity \in 0 .. Capacity - 1
  BY <1>0, ModeFacts
<1>2. /\ dir.head + n <= dir.tail + Capacity /\ dir.tail <= dir.head
      /\ dir.head \in Nat /\ dir.tail \in Nat /\ Capacity \in Nat
  <2>1. dir.head \in Nat /\ dir.tail \in Nat /\ Capacity \in Nat
    BY <1>0, <1>1
  <2>2. n <= Capacity - (dir.head - dir.tail) BY DEF Free, Queued
  <2>3. dir.head + n <= dir.tail + Capacity BY <2>1, <2>2
  <2> QED BY <1>0, <2>1, <2>3 DEF RingInv
<1> DEFINE New == dir.head .. dir.head + n - 1
<1>3. New \subseteq Nat BY <1>0
<1>4. ASSUME NEW i \in 0 .. Capacity - 1
      PROVE  (IF \E p \in New : p % Capacity = i
              THEN CHOOSE p \in New : p % Capacity = i
              ELSE dir.buffer[i]) \in Int
  <2>1. dir.buffer[i] \in Int BY <1>0
  <2> DEFINE q == CHOOSE p \in New : p % Capacity = i
  <2>2. (\E p \in New : p % Capacity = i) => q \in New BY Zenon
  <2>3. q \in New => q \in Int
    <3> HIDE DEF q
    <3> QED BY <1>0
  <2> QED BY <2>1, <2>2, <2>3
<1>5. Filled(n) \in [0 .. Capacity - 1 -> Int] BY <1>4 DEF Filled
<1>6. ASSUME NEW p \in dir.tail .. dir.head + n - 1
      PROVE  Filled(n)[p % Capacity] = p
  <2>p. p \in Nat /\ dir.tail <= p /\ p < dir.head + n BY <1>2
  <2>0. p \in Nat /\ p % Capacity \in 0 .. Capacity - 1 BY <1>1, <2>p
  <2>1. CASE p \in New
    <3> DEFINE q == CHOOSE k \in New : k % Capacity = p % Capacity
    <3>1. q \in New /\ q % Capacity = p % Capacity BY <2>1
    <3>2. Filled(n)[p % Capacity] = q BY <2>0, <2>1 DEF Filled
    <3>3. q \in Nat /\ q < p + Capacity /\ p < q + Capacity
      BY <1>2, <2>p, <2>1, <3>1
    <3> HIDE DEF q
    <3>4. q = p
      <4>1. CASE p <= q BY <1>1, <2>0, <3>1, <3>3, <4>1, SameSlot
      <4>2. CASE q <= p BY <1>1, <2>0, <3>1, <3>3, <4>2, SameSlot
      <4> QED BY <2>0, <3>3, <4>1, <4>2
    <3> QED BY <3>2, <3>4
  <2>2. CASE p \notin New
    <3>1. p \in dir.tail .. dir.head - 1 /\ p < dir.head BY <1>2, <2>p, <2>2
    <3>2. ASSUME NEW q \in New, q % Capacity = p % Capacity PROVE FALSE
      <4>1. q \in Nat /\ p <= q /\ q < p + Capacity /\ p # q
        BY <1>2, <2>p, <3>1
      <4> QED BY <1>1, <2>0, <3>2, <4>1, SameSlot
    <3>3. Filled(n)[p % Capacity] = dir.buffer[p % Capacity]
      BY <2>0, <3>2 DEF Filled
    <3> QED BY <1>0, <3>1, <3>3 DEF RingInv, InRing
  <2> QED BY <2>1, <2>2
<1> QED BY <1>5, <1>6

\* The buffer is all of the direction that a copy changes.
LEMMA DirFilled ==
    ASSUME dir \in Direction, NEW b \in [0 .. Capacity - 1 -> Int],
           dir' = [[dir EXCEPT !.needed = 0] EXCEPT !.buffer = b]
    PROVE  /\ dir' \in Direction /\ dir'.head = dir.head
           /\ dir'.tail = dir.tail /\ dir'.flags = dir.flags
           /\ dir'.buffer = b
<1> DEFINE d == [dir EXCEPT !.needed = 0]
<1>1. d \in Direction /\ d.head = dir.head /\ d.tail = dir.tail
      /\ d.flags = dir.flags
  BY DEF Direction
<1>2. dir' = [d EXCEPT !.buffer = b] OBVIOUS
<1> HIDE DEF d
<1> QED BY <1>1, <1>2 DEF Direction

\* The copy of try_write and try_write_exact.
LEMMA CopyInKeeps ==
    ASSUME IInv, NEW n \in Nat \ {0}, n <= Free, dir.head + n <= Total,
           dir' = [[dir EXCEPT !.needed = 0] EXCEPT !.buffer = Filled(n)],
           Sets("w", [task["w"] EXCEPT !.at = "commit", !.to = dir.head + n,
                                       !.want = "none"]),
           UNCHANGED <<dead, got, mode>>
    PROVE  IInv'
<1>0. /\ Types /\ RingInv /\ ReaderInv /\ GotInv /\ dir \in Direction
      /\ dir.head \in Nat /\ dir.tail \in Nat /\ Capacity \in Nat \ {0}
      /\ task["w"] \in TaskRecord /\ "w" \in Actors /\ "r" \in Actors
      /\ task \in [Actors -> TaskRecord]
  BY ModeFacts DEF IInv, Types, Direction, Actors, Ends
<1>1. Capacity' = Capacity /\ Total' = Total /\ Direction' = Direction
  BY DEF Capacity, Total, Direction
<1>2. /\ Filled(n) \in [0 .. Capacity - 1 -> Int]
      /\ \A p \in dir.tail .. dir.head + n - 1 : Filled(n)[p % Capacity] = p
  BY FilledRing
<1>3. /\ dir' \in Direction /\ dir'.head = dir.head /\ dir'.tail = dir.tail
      /\ dir'.flags = dir.flags /\ dir'.buffer = Filled(n)
  <2>1. Filled(n) \in [0 .. Capacity - 1 -> Int] BY <1>2
  <2> QED BY <1>0, <2>1, DirFilled
<1> DEFINE rec == [task["w"] EXCEPT !.at = "commit", !.to = dir.head + n,
                                    !.want = "none"]
<1>4. rec \in TaskRecord /\ rec.at = "commit" /\ rec.to = dir.head + n
  <2>1. task["w"] \in TaskRecord /\ dir.head + n \in Nat BY <1>0
  <2> QED BY <2>1 DEF TaskRecord, Places
<1>5. /\ task' \in [Actors -> TaskRecord] /\ task'["r"] = task["r"]
      /\ task'["w"] = rec
  BY <1>0, <1>4 DEF Sets
<1> HIDE DEF rec
<1>6. Types' BY <1>0, <1>1, <1>3, <1>5 DEF Types
<1>7. RingInv'
  <2>1. \A p \in dir.tail .. dir.head - 1 : p \in dir.tail .. dir.head + n - 1
    BY <1>0
  <2> QED BY <1>0, <1>1, <1>2, <1>3, <2>1 DEF RingInv, InRing
<1>8. CommitInv'
  <2>1. dir.head < dir.head + n /\ dir.head + n <= dir.tail + Capacity
    BY <1>0 DEF Free, Queued
  <2>2. task'["w"].to = dir.head + n BY <1>4, <1>5
  <2>3. \A p \in dir.tail .. dir.head + n - 1 : InRing(p)'
    BY <1>1, <1>2, <1>3 DEF InRing
  <2>4. /\ dir'.head < task'["w"].to /\ task'["w"].to <= Total'
        /\ task'["w"].to <= dir'.tail + Capacity'
    BY <1>1, <1>3, <2>1, <2>2
  <2>5. \A p \in dir'.tail .. task'["w"].to - 1 : InRing(p)'
    <3>1. dir'.tail .. task'["w"].to - 1 = dir.tail .. dir.head + n - 1
      BY <1>0, <1>3, <2>2
    <3> QED BY <2>3, <3>1
  <2> QED BY <2>4, <2>5 DEF CommitInv
<1>9. ReaderInv' BY <1>0, <1>1, <1>3, <1>5 DEF ReaderInv
<1>10. GotInv' BY <1>0, <1>3, <1>5 DEF GotInv
<1> QED BY <1>6, <1>7, <1>8, <1>9, <1>10 DEF IInv

\* A writer that tries to write: it ends, waits, or copies what there is room
\* for.
LEMMA WriteTryKeeps == IInv /\ WriteTry => IInv'
<1> SUFFICES ASSUME IInv, WriteTry PROVE IInv' OBVIOUS
<1>0. /\ Types /\ RingInv /\ dir.head \in Nat /\ dir.tail \in Nat
      /\ Capacity \in Nat /\ Total \in Nat /\ mode.frame \in Nat \ {0}
      /\ "w" \in Actors /\ "w" \in Ends
  <2>1. mode \in Modes BY DEF IInv, Types
  <2>2. Capacity \in Nat /\ Total \in Nat /\ mode.frame \in 1 .. Capacity
    BY <2>1, ModeFacts
  <2>3. mode.frame \in Nat \ {0} BY <2>2
  <2> QED BY <2>2, <2>3 DEF IInv, Types, Direction, Actors, Ends
<1> DEFINE exact == mode.write = "exact" /\ task["w"].want # "byte"
           n == IF exact THEN Frame
                ELSE IF Total - dir.head < Free THEN Total - dir.head ELSE Free
           blocked == (exact /\ Free < Frame) \/ Free = 0
<1>1. /\ dir.head < Total /\ task["w"].at = "go"
      /\ UNCHANGED <<dead, got, mode>>
  BY DEF WriteTry, At, OnlyDir
<1>2. CASE /\ Goes("w", "end") \/ Goes("w", "publish")
                \/ Waits("w", "exact") \/ Waits("w", "byte")
           /\ dir' = [dir EXCEPT !.needed = 0]
  <2>1. QuietTask
    <3>1. {"end", "publish"} \subseteq Places \ Busy BY DEF Places, Busy
    <3> QED BY <1>0, <1>1, <1>2, <3>1, QuietGoes, WaitsQuiet
  <2>2. \E i \in Int : dir' = [dir EXCEPT !.needed = i] BY <1>2
  <2>3. QuietDir BY <1>0, <2>2, DirQuiet
  <2> QED BY <1>1, <2>1, <2>3, QuietKeeps
<1>3. CASE /\ ~blocked
           /\ Sets("w", [task["w"] EXCEPT !.at = "commit",
                            !.to = dir.head + n, !.want = "none"])
           /\ dir' = [[dir EXCEPT !.needed = 0] EXCEPT !.buffer = Filled(n)]
  <2>1. Free \in Int /\ Free >= 0 /\ Total - dir.head \in Nat \ {0}
    BY <1>0, <1>1 DEF Free, Queued, RingInv
  <2>2. Frame \in Nat \ {0} /\ Frame <= Total - dir.head
    BY <1>0, <1>1, <2>1 DEF Frame
  <2>3. n \in Nat \ {0} /\ n <= Free /\ n <= Total - dir.head
    <3>1. CASE exact BY <1>3, <2>1, <2>2, <3>1
    <3>2. CASE ~exact BY <1>3, <2>1, <3>2
    <3> QED BY <3>1, <3>2
  <2>4. dir.head + n <= Total
    <3> HIDE DEF n
    <3> QED BY <1>0, <2>3
  <2> HIDE DEF n
  <2> QED BY <1>1, <1>3, <2>3, <2>4, CopyInKeeps
<1> QED BY <1>2, <1>3 DEF WriteTry, Filled

\* The store of the head.
LEMMA CommitKeeps == IInv /\ Commit => IInv'
<1> SUFFICES ASSUME IInv, Commit PROVE IInv' OBVIOUS
<1>0. /\ Types /\ RingInv /\ CommitInv /\ ReaderInv /\ GotInv
      /\ dir \in Direction /\ dir.head \in Nat /\ dir.tail \in Nat
      /\ Capacity \in Nat /\ Total \in Nat /\ task \in [Actors -> TaskRecord]
      /\ task["w"] \in TaskRecord /\ "w" \in Actors /\ "r" \in Actors
      /\ task["w"].to \in Nat /\ task["r"].to \in Nat
  BY ModeFacts DEF IInv, Types, Direction, Actors, Ends, TaskRecord
<1>1. /\ task["w"].at = "commit" /\ UNCHANGED <<dead, got, mode>>
      /\ dir' = [dir EXCEPT !.head = task["w"].to]
      /\ Sets("w", [task["w"] EXCEPT !.at = "drained", !.from = dir.head])
  BY DEF Commit, At, OnlyDir
<1>2. Capacity' = Capacity /\ Total' = Total /\ Direction' = Direction
  BY <1>1 DEF Capacity, Total, Direction
<1>3. /\ dir' \in Direction /\ dir'.head = task["w"].to
      /\ dir'.tail = dir.tail /\ dir'.flags = dir.flags
      /\ dir'.buffer = dir.buffer
  BY <1>0, <1>1 DEF Direction
<1>4. /\ task' \in [Actors -> TaskRecord] /\ task'["r"] = task["r"]
      /\ task'["w"].at = "drained"
  <2>1. /\ [task["w"] EXCEPT !.at = "drained", !.from = dir.head] \in TaskRecord
        /\ [task["w"] EXCEPT !.at = "drained", !.from = dir.head].at = "drained"
    <3>1. task["w"] \in TaskRecord /\ dir.head \in Int BY <1>0
    <3> QED BY <3>1 DEF TaskRecord, Places
  <2> QED BY <1>0, <1>1, <2>1 DEF Sets
<1>5. /\ dir.head < task["w"].to /\ task["w"].to <= Total
      /\ task["w"].to <= dir.tail + Capacity
      /\ \A p \in dir.tail .. task["w"].to - 1 : InRing(p)
  BY <1>0, <1>1 DEF CommitInv
<1>6. Types' BY <1>0, <1>1, <1>2, <1>3, <1>4 DEF Types
<1>7. RingInv'
  <2>1. \A p \in dir.tail .. task["w"].to - 1 : InRing(p)'
    BY <1>2, <1>3, <1>5 DEF InRing
  <2>2. dir.tail <= task["w"].to BY <1>0, <1>5 DEF RingInv
  <2>3. "fin" \notin dir.flags BY <1>0, <1>5 DEF RingInv
  <2> QED BY <1>2, <1>3, <1>5, <2>1, <2>2, <2>3 DEF RingInv
<1>8. CommitInv' BY <1>4 DEF CommitInv
<1>9. ReaderInv'
  <2>1. task["r"].to <= dir.head => task["r"].to <= task["w"].to BY <1>0, <1>5
  <2> QED BY <1>0, <1>2, <1>3, <1>4, <2>1 DEF ReaderInv
<1>10. GotInv' BY <1>0, <1>1, <1>3, <1>4 DEF GotInv
<1> QED BY <1>6, <1>7, <1>8, <1>9, <1>10 DEF IInv

\* The flag that ends the stream: a FIN is set when everything is committed.
LEMMA EndWriteKeeps == IInv /\ EndWrite => IInv'
<1> SUFFICES ASSUME IInv, EndWrite PROVE IInv' OBVIOUS
<1>0. /\ Types /\ RingInv /\ CommitInv /\ ReaderInv /\ GotInv
      /\ dir \in Direction /\ task \in [Actors -> TaskRecord]
      /\ "w" \in Actors /\ "w" \in Ends /\ "r" \in Ends
  BY DEF IInv, Types, Actors, Ends
<1> DEFINE flag == IF task["w"].at = "end" THEN "reset" ELSE mode.ends
<1>1. /\ task["w"].at \in {"go", "end"} /\ UNCHANGED <<dead, got, mode>>
      /\ task["w"].at = "go" => dir.head = Total
      /\ dir' = [dir EXCEPT !.flags = @ \cup {flag}]
      /\ Goes("w", "after") \/ Notifies("w", {"r"}, "after")
  BY DEF EndWrite, At, OnlyDir
<1>2. flag = "reset" \/ (flag = "fin" /\ dir.head = Total)
  BY <1>0, <1>1, ModeFacts DEF Types
<1> HIDE DEF flag
<1>3. QuietTask
  <2>1. "after" \in Places \ Busy /\ {"r"} \in SUBSET Ends
    BY DEF Places, Busy, Ends
  <2> QED BY <1>0, <1>1, <2>1, QuietGoes, NotifiesQuiet
<1>4. CASE flag = "reset"
  <2>1. QuietDir BY <1>0, <1>1, <1>4, DirQuiet
  <2> QED BY <1>1, <1>3, <2>1, QuietKeeps
<1>5. CASE flag = "fin" /\ dir.head = Total
  <2>1. Capacity' = Capacity /\ Total' = Total /\ Direction' = Direction
    BY <1>1 DEF Capacity, Total, Direction
  <2>2. /\ dir' \in Direction /\ dir'.head = dir.head
        /\ dir'.tail = dir.tail /\ dir'.flags = dir.flags \cup {"fin"}
        /\ dir'.buffer = dir.buffer
    <3>1. dir.flags \cup {"fin"} \in SUBSET Flags
      BY <1>0 DEF Direction, Flags
    <3>2. dir' = [dir EXCEPT !.flags = dir.flags \cup {"fin"}]
      BY <1>1, <1>5
    <3>3. dir \in Direction BY <1>0
    <3> QED BY <3>1, <3>2, <3>3 DEF Direction
  <2>3. /\ Holds("w") \/ task'["w"].at \notin Busy
        /\ Holds("r") \/ (task'["r"].at \notin Busy /\ task["r"].at # "consume")
    BY <1>0, <1>3 DEF QuietTask
  <2>4. \A p : InRing(p)' = InRing(p) BY <2>1, <2>2 DEF InRing
  <2>5. Types' BY <1>0, <1>1, <1>3, <2>1, <2>2 DEF Types, QuietTask
  <2>6. RingInv' BY <1>0, <1>5, <2>1, <2>2, <2>4 DEF RingInv
  <2>7. CommitInv' BY <1>0, <2>1, <2>2, <2>3, <2>4 DEF CommitInv, Holds, Busy
  <2>8. ReaderInv' BY <1>0, <2>1, <2>2, <2>3 DEF ReaderInv, Holds, Busy
  <2>9. GotInv' BY <1>0, <1>1, <2>2, <2>3 DEF GotInv, Holds, Busy
  <2> QED BY <2>5, <2>6, <2>7, <2>8, <2>9 DEF IInv
<1> QED BY <1>2, <1>4, <1>5

\* The other steps of the writer.
LEMMA WriterKeeps == IInv /\ (Writer \/ GiveUpExact) => IInv'
<1> SUFFICES ASSUME IInv, Writer \/ GiveUpExact PROVE IInv' OBVIOUS
<1>0. Types /\ "w" \in Actors /\ "w" \in Ends /\ task["w"] \in TaskRecord
      /\ dir \in Direction
  BY DEF IInv, Types, Actors, Ends
<1>1. CASE PublishNeeded
  <2>1. /\ Waits("w", "exact") /\ dir' = [dir EXCEPT !.needed = Frame]
        /\ task["w"].at = "publish" /\ UNCHANGED <<dead, got, mode>>
    BY <1>1 DEF PublishNeeded, At, OnlyDir
  <2>2. Frame \in Int
    <3>1. mode \in Modes /\ dir.head \in Nat BY <1>0 DEF Types, Direction
    <3>2. Total \in Nat /\ mode.frame \in 1 .. Capacity /\ Capacity \in Nat
      BY <3>1, ModeFacts
    <3> QED BY <3>1, <3>2 DEF Frame
  <2>3. QuietDir
    <3>1. \E i \in Int : dir' = [dir EXCEPT !.needed = i] BY <2>1, <2>2
    <3> QED BY <1>0, <3>1, DirQuiet
  <2>4. QuietTask BY <1>0, <2>1, WaitsQuiet
  <2> QED BY <2>1, <2>3, <2>4, QuietKeeps
<1>2. CASE Drained
  <2>1. /\ \E sides \in SUBSET Ends : Notifies("w", sides, "go")
        /\ dir' = dir /\ task["w"].at = "drained" /\ UNCHANGED <<dead, got, mode>>
    <3>1. {} \in SUBSET Ends /\ {"r"} \in SUBSET Ends BY DEF Ends
    <3>2. (IF dir.tail >= task["w"].from THEN {"r"} ELSE {}) \in SUBSET Ends
      BY <3>1
    <3> QED BY <1>2, <3>2 DEF Drained, At, OnlyTask
  <2>2. QuietTask BY <1>0, <2>1, NotifiesQuiet
  <2> QED BY <1>0, <2>1, <2>2, DirSame, QuietKeeps
<1>3. CASE After
  <2>1. /\ task["w"].at = "after" /\ UNCHANGED <<dead, got, mode>>
        /\ dir' = dir \/ dir' = [dir EXCEPT !.flags = @ \cup {"watch"}]
    BY <1>3 DEF After, At, OnlyDir
  <2>2. QuietDir BY <1>0, <2>1, DirSame, DirQuiet
  <2>3. QuietTask
    <3>1. CASE Goes("w", "over")
      <4>1. "over" \in Places \ Busy BY DEF Places, Busy
      <4> QED BY <1>0, <2>1, <3>1, <4>1, QuietGoes
    <3>2. CASE /\ mode.after # "nothing"
               /\ Sets("w", [task["w"] EXCEPT !.at = "look", !.want = mode.after])
      <4>1. mode.after \in {"closed", "dead"}
        BY <1>0, <3>2, ModeFacts DEF Types
      <4> DEFINE rec == [task["w"] EXCEPT !.at = "look", !.want = mode.after]
      <4>2. rec \in TaskRecord /\ rec.at \notin Busy
        <5>1. task["w"] \in TaskRecord BY <1>0
        <5> QED BY <4>1, <5>1 DEF TaskRecord, Places, Busy
      <4>3. Sets("w", rec) BY <3>2
      <4> HIDE DEF rec
      <4> QED BY <1>0, <2>1, <4>2, <4>3, QuietSets
    <3> QED BY <1>3, <3>1, <3>2 DEF After
  <2> QED BY <2>1, <2>2, <2>3, QuietKeeps
<1>4. CASE GiveUpExact
  <2>1. /\ Sets("w", [task["w"] EXCEPT !.at = "look", !.want = "byte"])
        /\ dir' = dir /\ task["w"].at = "parked" /\ UNCHANGED <<dead, got, mode>>
    BY <1>4 DEF GiveUpExact, At, OnlyTask
  <2>2. /\ [task["w"] EXCEPT !.at = "look", !.want = "byte"] \in TaskRecord
        /\ [task["w"] EXCEPT !.at = "look", !.want = "byte"].at \notin Busy
    BY <1>0 DEF TaskRecord, Places, Busy
  <2>3. QuietTask BY <1>0, <2>1, <2>2, QuietSets
  <2> QED BY <1>0, <2>1, <2>3, DirSame, QuietKeeps
<1> QED
  BY <1>0, <1>1, <1>2, <1>3, <1>4, WriteTryKeeps, CommitKeeps, EndWriteKeeps,
     StepsKeep, WaitingKeeps
     DEF Writer

-----------------------------------------------------------------------------
(***************************************************************************)
(* The reader                                                              *)
(***************************************************************************)

\* What a step of the reader needs to know.
LEMMA ReaderFacts ==
    ASSUME IInv
    PROVE  /\ Types /\ RingInv /\ CommitInv /\ ReaderInv /\ GotInv
           /\ dir \in Direction /\ dir.head \in Nat /\ dir.tail \in Nat
           /\ dir.flags \in SUBSET Flags
           /\ Capacity \in Nat /\ Total \in Nat
           /\ task \in [Actors -> TaskRecord] /\ "w" \in Actors
           /\ "r" \in Actors /\ "r" \in Ends /\ task["r"] \in TaskRecord
           /\ task["r"].to \in Nat /\ task["w"].to \in Nat
           /\ got \in [bytes : Nat, right : BOOLEAN]
BY ModeFacts DEF IInv, Types, Direction, Actors, Ends, TaskRecord

\* A step that changes the reader's own place and nothing else.
LEMMA ReaderMoves ==
    ASSUME IInv, NEW rec \in TaskRecord, Sets("r", rec), "r" \notin dead,
           task["r"].at # "consume", rec.at # "consume", rec.at # "commit",
           UNCHANGED <<dir, dead, got, mode>>,
           rec.at = "copy" => dir.tail < rec.to /\ rec.to <= dir.head,
           rec.at = "readHead" => rec.flags \subseteq dir.flags,
           rec.at = "leave" => "reset" \in dir.flags \/ dir.tail = Total
    PROVE  IInv'
<1>0. /\ Types /\ RingInv /\ CommitInv /\ ReaderInv /\ GotInv
      /\ task \in [Actors -> TaskRecord] /\ "w" \in Actors /\ "r" \in Actors
  BY ReaderFacts
<1>1. /\ task' \in [Actors -> TaskRecord] /\ task'["r"] = rec
      /\ task'["w"] = task["w"]
  BY <1>0 DEF Sets
<1>2. Capacity' = Capacity /\ Total' = Total /\ Direction' = Direction
  BY DEF Capacity, Total, Direction
<1>3. \A p : InRing(p)' = InRing(p) BY <1>2 DEF InRing
<1>4. Types' BY <1>0, <1>1, <1>2 DEF Types
<1>5. RingInv' BY <1>0, <1>2, <1>3 DEF RingInv
<1>6. CommitInv' BY <1>0, <1>1, <1>2, <1>3 DEF CommitInv
<1>7. ReaderInv' BY <1>1, <1>2 DEF ReaderInv
<1>8. GotInv' BY <1>0, <1>1 DEF GotInv
<1> QED BY <1>4, <1>5, <1>6, <1>7, <1>8 DEF IInv

\* try_read: the flags first, then the head.  A FIN read before an empty ring
\* means that everything was taken.
LEMMA ReadTryKeeps == IInv /\ (ReadTry \/ ReadHead) => IInv'
<1> SUFFICES ASSUME IInv, ReadTry \/ ReadHead PROVE IInv' OBVIOUS
<1>0. /\ Types /\ RingInv /\ ReaderInv /\ dir.head \in Nat /\ dir.tail \in Nat
      /\ dir.flags \in SUBSET Flags /\ task["r"] \in TaskRecord
      /\ "r" \in Actors /\ "r" \in Ends
  BY ReaderFacts
<1>1. /\ "r" \notin dead /\ task["r"].at \in {"go", "readHead"}
      /\ UNCHANGED <<dir, dead, got, mode>>
  BY DEF ReadTry, ReadHead, At, OnlyTask
<1>2. ASSUME Goes("r", "leave"), "reset" \in dir.flags \/ dir.tail = Total
      PROVE  IInv'
  <2>1. /\ [task["r"] EXCEPT !.at = "leave"] \in TaskRecord
        /\ [task["r"] EXCEPT !.at = "leave"].at = "leave"
    BY <1>0 DEF TaskRecord, Places
  <2>2. Sets("r", [task["r"] EXCEPT !.at = "leave"])
    BY <1>0, <1>2 DEF Goes, Sets, Types
  <2> QED BY <1>1, <1>2, <2>1, <2>2, ReaderMoves
<1>3. CASE ReadTry
  <2>1. CASE "reset" \in dir.flags /\ Goes("r", "leave") BY <1>2, <2>1
  <2>2. CASE Sets("r", [task["r"] EXCEPT !.at = "readHead",
                                         !.flags = dir.flags])
    <3> DEFINE rec == [task["r"] EXCEPT !.at = "readHead", !.flags = dir.flags]
    <3>1. rec \in TaskRecord /\ rec.at = "readHead" /\ rec.flags = dir.flags
      <4>1. task["r"] \in TaskRecord /\ dir.flags \in SUBSET Flags BY <1>0
      <4> QED BY <4>1 DEF TaskRecord, Places
    <3>2. Sets("r", rec) BY <2>2
    <3> HIDE DEF rec
    <3> QED BY <1>1, <3>1, <3>2, ReaderMoves
  <2> QED BY <1>3, <2>1, <2>2 DEF ReadTry
<1>4. CASE ReadHead
  <2>0. task["r"].at = "readHead" BY <1>4 DEF ReadHead, At
  <2>1. CASE Queued = 0 /\ "fin" \in task["r"].flags /\ Goes("r", "leave")
    <3>1. "fin" \in dir.flags BY <1>0, <2>0, <2>1 DEF ReaderInv
    <3>2. dir.tail = dir.head BY <1>0, <2>1 DEF Queued
    <3> QED BY <1>0, <1>2, <2>1, <3>1, <3>2 DEF RingInv
  <2>2. CASE Waits("r", "read")
    <3>1. QuietTask BY <1>0, <2>0, <2>2, WaitsQuiet
    <3> QED BY <1>0, <1>1, <3>1, DirSame, QuietKeeps
  <2>3. CASE \E n \in 1 .. Queued :
                Sets("r", [task["r"] EXCEPT !.at = "copy", !.to = dir.tail + n])
    <3>1. PICK n \in 1 .. Queued :
             Sets("r", [task["r"] EXCEPT !.at = "copy", !.to = dir.tail + n])
      BY <2>3
    <3>2. /\ dir.tail + n \in Nat /\ dir.tail < dir.tail + n
          /\ dir.tail + n <= dir.head
      BY <1>0 DEF Queued
    <3> DEFINE rec == [task["r"] EXCEPT !.at = "copy", !.to = dir.tail + n]
    <3>3. rec \in TaskRecord /\ rec.at = "copy" /\ rec.to = dir.tail + n
      <4>1. task["r"] \in TaskRecord BY <1>0
      <4> QED BY <3>2, <4>1 DEF TaskRecord, Places
    <3>4. Sets("r", rec) BY <3>1
    <3> HIDE DEF rec
    <3> QED BY <1>1, <2>0, <3>2, <3>3, <3>4, ReaderMoves
  <2> QED BY <1>4, <2>1, <2>2, <2>3 DEF ReadHead
<1> QED BY <1>3, <1>4

\* The copy out of the ring: every byte is the one of its position.
LEMMA CopyKeeps == IInv /\ Copy => IInv'
<1> SUFFICES ASSUME IInv, Copy PROVE IInv' OBVIOUS
<1>0. /\ Types /\ RingInv /\ CommitInv /\ ReaderInv /\ GotInv
      /\ dir.head \in Nat /\ dir.tail \in Nat /\ task["r"] \in TaskRecord
      /\ task \in [Actors -> TaskRecord] /\ "w" \in Actors /\ "r" \in Actors
      /\ task["r"].to \in Nat /\ got \in [bytes : Nat, right : BOOLEAN]
  BY ReaderFacts
<1>1. /\ task["r"].at = "copy" /\ "r" \notin dead /\ Goes("r", "consume")
      /\ got' = Copied /\ UNCHANGED <<dir, dead, mode>>
  BY DEF Copy, At
<1>2. /\ task' \in [Actors -> TaskRecord] /\ task'["w"] = task["w"]
      /\ task'["r"].at = "consume" /\ task'["r"].to = task["r"].to
  <2>1. /\ [task["r"] EXCEPT !.at = "consume"] \in TaskRecord
        /\ [task["r"] EXCEPT !.at = "consume"].at = "consume"
        /\ [task["r"] EXCEPT !.at = "consume"].to = task["r"].to
    BY <1>0 DEF TaskRecord, Places
  <2>2. task' = [task EXCEPT !["r"] = [task["r"] EXCEPT !.at = "consume"]]
    BY <1>0, <1>1 DEF Goes
  <2> QED BY <1>0, <2>1, <2>2
<1>3. dir.tail < task["r"].to /\ task["r"].to <= dir.head
  BY <1>0, <1>1 DEF ReaderInv
<1>4. \A p \in dir.tail .. task["r"].to - 1 : dir.buffer[p % Capacity] = p
  <2>1. \A p \in dir.tail .. task["r"].to - 1 : p \in dir.tail .. dir.head - 1
    BY <1>0, <1>3
  <2> QED BY <1>0, <2>1 DEF RingInv, InRing
<1>5. got' = [bytes |-> task["r"].to, right |-> TRUE]
  <2>1. got.right = TRUE BY <1>0 DEF GotInv
  <2>2. got' = [got EXCEPT !.bytes = task["r"].to, !.right = TRUE]
    BY <1>1, <1>4, <2>1 DEF Copied
  <2> QED BY <1>0, <2>2
<1>6. Capacity' = Capacity /\ Total' = Total /\ Direction' = Direction
  BY <1>1 DEF Capacity, Total, Direction
<1>7. \A p : InRing(p)' = InRing(p) BY <1>1, <1>6 DEF InRing
<1>8. Types' BY <1>0, <1>1, <1>2, <1>5, <1>6 DEF Types
<1>9. RingInv' BY <1>0, <1>1, <1>6, <1>7 DEF RingInv
<1>10. CommitInv' BY <1>0, <1>1, <1>2, <1>6, <1>7 DEF CommitInv
<1>11. ReaderInv' BY <1>1, <1>2, <1>3 DEF ReaderInv
<1>12. GotInv' BY <1>1, <1>2, <1>5 DEF GotInv
<1> QED BY <1>8, <1>9, <1>10, <1>11, <1>12 DEF IInv

\* The store of the tail gives the room back.
LEMMA ConsumeKeeps == IInv /\ Consume => IInv'
<1> SUFFICES ASSUME IInv, Consume PROVE IInv' OBVIOUS
<1>0. /\ Types /\ RingInv /\ CommitInv /\ ReaderInv /\ GotInv
      /\ dir.head \in Nat /\ dir.tail \in Nat /\ task["r"] \in TaskRecord
      /\ dir \in Direction /\ Capacity \in Nat
      /\ task \in [Actors -> TaskRecord] /\ "w" \in Actors /\ "r" \in Actors
      /\ task["r"].to \in Nat /\ task["w"].to \in Nat
  BY ReaderFacts
<1>1. /\ task["r"].at = "consume" /\ "r" \notin dead
      /\ Sets("r", [task["r"] EXCEPT !.at = "gained", !.from = dir.tail])
      /\ dir' = [dir EXCEPT !.tail = task["r"].to]
      /\ UNCHANGED <<dead, got, mode>>
  BY DEF Consume, At, OnlyDir
<1>2. /\ task' \in [Actors -> TaskRecord] /\ task'["w"] = task["w"]
      /\ task'["r"].at = "gained"
  <2>1. /\ [task["r"] EXCEPT !.at = "gained", !.from = dir.tail] \in TaskRecord
        /\ [task["r"] EXCEPT !.at = "gained", !.from = dir.tail].at = "gained"
    <3>1. task["r"] \in TaskRecord /\ dir.tail \in Int BY <1>0
    <3> QED BY <3>1 DEF TaskRecord, Places
  <2> QED BY <1>0, <1>1, <2>1 DEF Sets
<1>3. /\ dir' \in Direction /\ dir'.tail = task["r"].to
      /\ dir'.head = dir.head /\ dir'.flags = dir.flags
      /\ dir'.buffer = dir.buffer
  <2>1. dir \in Direction /\ task["r"].to \in Nat
        /\ dir' = [dir EXCEPT !.tail = task["r"].to]
    BY <1>0, <1>1
  <2> QED BY <2>1 DEF Direction
<1>4. dir.tail < task["r"].to /\ task["r"].to <= dir.head
  BY <1>0, <1>1 DEF ReaderInv
<1>5. Capacity' = Capacity /\ Total' = Total /\ Direction' = Direction
  BY <1>1 DEF Capacity, Total, Direction
<1>6. \A p : InRing(p)' = InRing(p) BY <1>3, <1>5 DEF InRing
<1>7. Types' BY <1>0, <1>1, <1>2, <1>3, <1>5 DEF Types
<1>8. RingInv'
  <2>1. \A p \in task["r"].to .. dir.head - 1 : p \in dir.tail .. dir.head - 1
    BY <1>0, <1>4
  <2>2. dir.head <= task["r"].to + Capacity BY <1>0, <1>4 DEF RingInv
  <2> QED BY <1>0, <1>3, <1>4, <1>5, <1>6, <2>1, <2>2 DEF RingInv
<1>9. CommitInv'
  <2>1. \A p \in task["r"].to .. task["w"].to - 1 :
           p \in dir.tail .. task["w"].to - 1
    BY <1>0, <1>4
  <2>2. task["w"].to <= dir.tail + Capacity =>
           task["w"].to <= task["r"].to + Capacity
    BY <1>0, <1>4
  <2> QED BY <1>0, <1>2, <1>3, <1>5, <1>6, <2>1, <2>2 DEF CommitInv
<1>10. ReaderInv' BY <1>2 DEF ReaderInv
<1>11. GotInv' BY <1>0, <1>1, <1>2, <1>3 DEF GotInv, Busy
<1> QED BY <1>7, <1>8, <1>9, <1>10, <1>11 DEF IInv

\* The other steps of the reader.
LEMMA ReaderKeeps == IInv /\ Reader => IInv'
<1> SUFFICES ASSUME IInv, Reader PROVE IInv' OBVIOUS
<1>0. Types /\ "r" \in Actors /\ "r" \in Ends /\ {} \in SUBSET Ends
      /\ {"w"} \in SUBSET Ends
  BY ReaderFacts DEF Ends
<1>1. CASE Gained
  <2>1. /\ \E sides \in SUBSET Ends : Notifies("r", sides, "go")
        /\ dir' = dir /\ task["r"].at = "gained" /\ UNCHANGED <<dead, got, mode>>
    BY <1>0, <1>1 DEF Gained, At, OnlyTask
  <2>2. QuietTask BY <1>0, <2>1, NotifiesQuiet
  <2> QED BY <1>0, <2>1, <2>2, DirSame, QuietKeeps
<1>2. CASE MayPark
  <2>1. /\ \E sides \in SUBSET Ends : Notifies("r", sides, "over")
        /\ dir' = dir /\ task["r"].at = "mayPark" /\ UNCHANGED <<dead, got, mode>>
    BY <1>0, <1>2 DEF MayPark, At, OnlyTask
  <2>2. QuietTask BY <1>0, <2>1, NotifiesQuiet
  <2> QED BY <1>0, <2>1, <2>2, DirSame, QuietKeeps
<1>3. CASE Leave
  <2>1. /\ \/ \E sides \in SUBSET Ends : Notifies("r", sides, "over")
           \/ Goes("r", "over") \/ Goes("r", "mayPark")
        /\ task["r"].at \in {"leave", "go"} /\ UNCHANGED <<dead, got, mode>>
        /\ dir' = [dir EXCEPT !.flags = @ \cup {"gone"}]
    BY <1>0, <1>3 DEF Leave, At, OnlyDir
  <2>2. QuietTask
    <3>1. {"over", "mayPark"} \subseteq Places \ Busy BY DEF Places, Busy
    <3> QED BY <1>0, <2>1, <3>1, NotifiesQuiet, QuietGoes
  <2>3. QuietDir BY <1>0, <2>1, DirQuiet
  <2> QED BY <2>1, <2>2, <2>3, QuietKeeps
<1> QED
  BY <1>0, <1>1, <1>2, <1>3, ReadTryKeeps, CopyKeeps, ConsumeKeeps, StepsKeep,
     WaitingKeeps
     DEF Reader

-----------------------------------------------------------------------------
(***************************************************************************)
(* Deaths, and the theorem                                                 *)
(***************************************************************************)

\* A side dies: what it had begun is dropped, its positions stay.
LEMMA DieKeeps ==
    ASSUME IInv, NEW x \in Ends, Die(x) PROVE IInv'
<1>0. /\ Types /\ RingInv /\ CommitInv /\ ReaderInv /\ GotInv
      /\ task \in [Actors -> TaskRecord] /\ "w" \in Actors /\ "r" \in Actors
  BY ReaderFacts
<1>1. /\ dead = {} /\ dead' = {x} /\ UNCHANGED <<dir, got, mode>>
      /\ task' = [task EXCEPT ![x] = Idle]
  BY DEF Die, Sets
<1>2. task' \in [Actors -> TaskRecord] BY <1>0, <1>1, IdleType
<1>3. Capacity' = Capacity /\ Total' = Total /\ Direction' = Direction
  BY <1>1 DEF Capacity, Total, Direction
<1>4. \A p : InRing(p)' = InRing(p) BY <1>1, <1>3 DEF InRing
<1>5. Types' BY <1>0, <1>1, <1>2, <1>3 DEF Types
<1>6. RingInv' BY <1>0, <1>1, <1>3, <1>4 DEF RingInv
<1>7. CASE x = "w"
  <2>1. task'["w"].at = "go" /\ task'["r"] = task["r"] /\ "r" \notin dead'
    BY <1>0, <1>1, <1>7, IdleType
  <2>2. CommitInv' BY <2>1 DEF CommitInv
  <2>3. ReaderInv' BY <1>0, <1>1, <1>3, <2>1 DEF ReaderInv
  <2>4. GotInv' BY <1>0, <1>1, <2>1 DEF GotInv
  <2> QED BY <1>5, <1>6, <2>2, <2>3, <2>4 DEF IInv
<1>8. CASE x = "r"
  <2>1. task'["r"].at = "go" /\ task'["w"] = task["w"] /\ "r" \in dead'
    BY <1>0, <1>1, <1>8, IdleType
  <2>2. CommitInv' BY <1>0, <1>1, <1>3, <1>4, <2>1 DEF CommitInv
  <2>3. ReaderInv' BY <2>1 DEF ReaderInv
  <2>4. GotInv' BY <1>0, <1>1, <2>1 DEF GotInv, Busy
  <2> QED BY <1>5, <1>6, <2>2, <2>3, <2>4 DEF IInv
<1> QED BY <1>7, <1>8 DEF Ends

\* end_sides sets flags and notifies both.
LEMMA ReporterKeeps == IInv /\ Reporter => IInv'
<1> SUFFICES ASSUME IInv, Reporter PROVE IInv' OBVIOUS
<1>0. Types /\ "d" \in Actors BY DEF IInv, Actors
<1>1. CASE ReportSide
  <2>1. /\ Goes("d", "flag") /\ task["d"].at = "watch"
        /\ dir' = [dir EXCEPT !.flags = @ \cup {"side"}]
        /\ UNCHANGED <<dead, got, mode>>
    BY <1>1 DEF ReportSide, At, OnlyDir
  <2>2. "flag" \in Places \ Busy BY DEF Places, Busy
  <2>3. QuietTask BY <1>0, <2>1, <2>2, QuietGoes
  <2>4. QuietDir BY <1>0, <2>1, DirQuiet
  <2> QED BY <2>1, <2>3, <2>4, QuietKeeps
<1>2. CASE ReportFlag
  <2>1. /\ Notifies("d", Ends, "over") /\ task["d"].at = "flag"
        /\ \E f \in {"reset", "gone"} : dir' = [dir EXCEPT !.flags = @ \cup {f}]
        /\ UNCHANGED <<dead, got, mode>>
    BY <1>2 DEF ReportFlag, At, OnlyDir
  <2>2. QuietTask BY <1>0, <2>1, NotifiesQuiet
  <2>3. QuietDir BY <1>0, <2>1, DirQuiet
  <2> QED BY <2>1, <2>2, <2>3, QuietKeeps
<1> QED BY <1>0, <1>1, <1>2, StepsKeep DEF Reporter

\* Every step keeps the invariant.
LEMMA NextIInv == IInv /\ [Next]_vars => IInv'
<1> SUFFICES ASSUME IInv, [Next]_vars PROVE IInv' OBVIOUS
<1>1. CASE UNCHANGED vars
  <2>1. Types /\ UNCHANGED <<dir, task, dead, got, mode>>
    BY <1>1 DEF vars, IInv
  <2>2. QuietDir BY <2>1, DirSame
  <2>3. QuietTask BY <2>1 DEF Types, QuietTask, Holds
  <2> QED BY <2>1, <2>2, <2>3, QuietKeeps
<1>2. CASE Finished BY <1>1, <1>2 DEF Finished
<1> QED
  BY <1>1, <1>2, WriterKeeps, ReaderKeeps, ReporterKeeps, DriverKeeps, DieKeeps
     DEF Next

\* The invariant of the ring holds in every reachable state of the two halves
\* of a stream, whoever waits how and whoever dies.
THEOREM InvariantHolds == Spec => []IInv
BY InitIInv, NextIInv, PTL DEF Spec

\* The bytes cross in order, for every capacity, length, frame and way to wait:
\* what try_read copies is what try_write put there, without a lock, and a
\* reader that sees a clean FIN has taken everything.
THEOREM BytesCrossInOrder == Spec => []BytesInOrder
<1>1. IInv => BytesInOrder
  BY DEF IInv, GotInv, ReaderInv, BytesInOrder, Busy
<1> QED BY <1>1, InvariantHolds, PTL
=============================================================================
