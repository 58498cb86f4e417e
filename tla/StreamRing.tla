----------------------------- MODULE StreamRing -----------------------------
(***************************************************************************)
(* One direction of a stream (stream/src/lib.rs, table.rs, wake.rs, bell.rs, *)
(* poll.rs): a writer "w" and a reader "r" in two processes, the ring of     *)
(* bytes between them, the flags that end it, the two ways to wait for the   *)
(* other (a thread on the change word, a task behind the doorbell of its     *)
(* process) and the driver that answers a doorbell.                          *)
(*                                                                           *)
(* Every action is one access of the shared words.  The bytes are numbered   *)
(* by their position in the stream.  The change word and the generations of  *)
(* the doorbells are only compared with an earlier reading of them, so the   *)
(* reader of such a word keeps whether it has moved since (same).            *)
(***************************************************************************)
EXTENDS Integers, FiniteSets

CONSTANT Modes      \* instances

\* capacity: buffer_bytes; total: bytes the writer has before it ends; write:
\* "byte" or "exact", in frames of frame; ends: how the writer ends; after: what
\* it waits for then; park: how each side waits; driver: what answers the
\* doorbells; stops: the reader may stop early; mortal: who may die.
ASSUME ModesAssumption ==
    \A m \in Modes :
       /\ {m.capacity, m.total} \subseteq Nat \ {0} /\ m.frame \in 1 .. m.capacity
       /\ m.write \in {"byte", "exact"} /\ m.ends \in {"fin", "reset"}
       /\ m.after \in {"nothing", "closed", "dead"}
       /\ {m.park.w, m.park.r} \subseteq {"task", "thread"}
       /\ m.driver \in {"thread", "reactor", "local"}
       /\ m.stops \in BOOLEAN /\ m.mortal \subseteq {"w", "r"}

Ends == {"w", "r"}
Actors == Ends \cup {"d"}      \* "d" reports a death
Terminal == {"fin", "reset", "gone"}

VARIABLES
    dir,    \* Direction, and the bytes of its buffer
    bell,   \* Doorbell and pending bit of each process
    drv,    \* the driver of each process
    task,   \* what each actor does
    waker,  \* Registry: whose waker is registered
    woken,  \* tasks that were woken since they were last polled
    dead,   \* ends that died; SIDE_DEAD once the reporter said so
    got,    \* history: bytes the reader took, and whether they were right
    mode

Capacity == mode.capacity
Total == mode.total

vars == <<dir, bell, drv, task, waker, woken, dead, got, mode>>

\* What an operation keeps between its steps: the position it read, the one it
\* goes to, the flags it read, whether the change word is as it was read, and
\* for notify the sides to ring, the one being rung and what comes after.
Idle == [at |-> "go", want |-> "none", from |-> 0, to |-> 0, flags |-> {},
         same |-> FALSE, ring |-> {}, now |-> "none", then |-> "go"]

\* What the buffer holds where nothing was written yet.
NoByte == -1

Init ==
    /\ mode \in Modes
    /\ dir = [head |-> 0, tail |-> 0, flags |-> {}, needed |-> 0, waiters |-> 0,
              buffer |-> [i \in 0 .. mode.capacity - 1 |-> NoByte]]
    /\ bell = [x \in Ends |-> [pending |-> FALSE, listening |-> FALSE,
                               armed |-> FALSE, rung |-> FALSE]]
    /\ drv = [x \in Ends |-> [at |-> "off", same |-> FALSE]]
    /\ task = [x \in Actors |-> IF x = "d" THEN [Idle EXCEPT !.at = "watch"]
                                ELSE Idle]
    /\ waker = [x \in Ends |-> FALSE] /\ woken = [x \in Ends |-> FALSE]
    /\ dead = {} /\ got = [bytes |-> 0, right |-> TRUE]

-----------------------------------------------------------------------------
(***************************************************************************)
(* Helpers                                                                 *)
(***************************************************************************)

At(x, a) == task[x].at = a /\ x \notin dead
Goes(x, b) == task' = [task EXCEPT ![x].at = b]
Sets(x, rec) == task' = [task EXCEPT ![x] = rec]

OnlyDir == UNCHANGED <<bell, drv, waker, woken, dead, got, mode>>
OnlyTask == UNCHANGED <<dir, bell, drv, waker, woken, dead, got, mode>>

\* A read or a commit that is followed by notify, and what comes after it.
Notifies(x, sides, after) ==
    Sets(x, [Idle EXCEPT !.at = "bump", !.ring = sides, !.then = after])

Queued == dir.head - dir.tail
FreeOneMore == Capacity - Queued + 1
Free == Capacity - Queued

\* The next frame of an exact write.
Frame == IF Total - dir.head < mode.frame THEN Total - dir.head ELSE mode.frame

\* readable, writable, writable_exact, and what peer_closed and poll_peer_dead
\* wait for.
Ready(want) ==
    CASE want = "read"   -> Queued # 0 \/ dir.flags \cap {"fin", "reset"} # {}
      [] want = "byte"   -> Queued < Capacity \/ dir.flags \cap Terminal # {}
      [] want = "exact"  -> Free >= Frame \/ dir.flags \cap Terminal # {}
      [] want = "closed" -> dir.flags \cap {"reset", "gone"} # {}
      [] want = "dead"   -> "side" \in dir.flags

\* Everything but poll_writable_exact clears an exact wait before it looks.
Cleared(want) == IF want \in {"byte"} THEN [dir EXCEPT !.needed = 0] ELSE dir

-----------------------------------------------------------------------------
(***************************************************************************)
(* Table::notify, Table::ring                                              *)
(***************************************************************************)

\* Where x is when the sides in left are still to be rung.
Told(x, left) ==
    IF left = {} THEN [Idle EXCEPT !.at = task[x].then]
    ELSE [task[x] EXCEPT !.at = "pend", !.ring = left, !.now = "none"]

Bump(x) ==
    /\ At(x, "bump")
    /\ task' = [y \in Actors |-> IF y = x THEN [task[y] EXCEPT !.at = "wakeOn"]
                                 ELSE [task[y] EXCEPT !.same = FALSE]]
    /\ OnlyTask

\* Threads that sleep on the change word are counted before they sleep.
WakeOn(x) ==
    /\ At(x, "wakeOn")
    /\ LET up == {y \in Ends : task[y].at = "asleep" /\ dir.waiters > 0}
       IN  task' = [y \in Actors |->
                       IF y \in up THEN [task[y] EXCEPT !.at = "unwait"]
                       ELSE IF y = x
                            THEN Told(x, task[x].ring) ELSE task[y]]
    /\ OnlyTask

\* Registry::wake takes the wakers of the slot.
TakeWakers(who) ==
    /\ woken' = [y \in Ends |-> woken[y] \/ (y \in who /\ waker[y])]
    /\ waker' = [y \in Ends |-> waker[y] /\ y \notin who]

\* A table of one process wakes its tasks itself.
RingHere(x) ==
    /\ At(x, "pend") /\ mode.driver = "local"
    /\ Sets(x, Told(x, {}))
    /\ TakeWakers(Ends)
    /\ UNCHANGED <<dir, bell, drv, dead, got, mode>>

Pend(x, y) ==
    /\ At(x, "pend") /\ mode.driver # "local" /\ y \in task[x].ring
    /\ bell' = [bell EXCEPT ![y].pending = TRUE]
    /\ Sets(x, [task[x] EXCEPT !.at = "ringGen", !.now = y])
    /\ UNCHANGED <<dir, drv, waker, woken, dead, got, mode>>

RingGeneration(x) ==
    /\ At(x, "ringGen") /\ Goes(x, "ringLook")
    /\ drv' = [drv EXCEPT ![task[x].now].same = FALSE]
    /\ UNCHANGED <<dir, bell, waker, woken, dead, got, mode>>

\* The one who takes ARMED away sends; a thread is woken on its word.
RingLook(x) ==
    LET y == task[x].now IN
    /\ At(x, "ringLook")
    /\ bell' = [bell EXCEPT ![y].armed = FALSE, ![y].rung = @ \/ bell[y].armed]
    /\ drv' = [drv EXCEPT ![y].at =
                  IF @ = "asleep" /\ bell[y].listening THEN "drain" ELSE @]
    /\ Sets(x, Told(x, task[x].ring \ {y}))
    /\ UNCHANGED <<dir, waker, woken, dead, got, mode>>

-----------------------------------------------------------------------------
(***************************************************************************)
(* The driver of process y: wake::run, and bell::answer                    *)
(***************************************************************************)

Drives(y, a, b) == drv[y].at = a /\ y \notin dead /\ drv' = [drv EXCEPT ![y].at = b]

DriverListens(y) ==
    /\ Drives(y, "start", "see")
    /\ bell' = [bell EXCEPT ![y].listening = mode.driver = "thread"]
    /\ UNCHANGED <<dir, task, waker, woken, dead, got, mode>>

DriverSees(y) ==
    /\ drv[y].at = "see" /\ y \notin dead
    /\ drv' = [drv EXCEPT ![y] = [at |-> "drain", same |-> TRUE]]
    /\ UNCHANGED <<dir, bell, task, waker, woken, dead, got, mode>>

\* The bits are swapped out, and the tasks of their slots are woken.
Drain(y) ==
    /\ Drives(y, "drain", IF bell[y].pending THEN "wake"
                          ELSE IF mode.driver = "thread" THEN "check" ELSE "arm")
    /\ bell' = [bell EXCEPT ![y].pending = FALSE]
    /\ UNCHANGED <<dir, task, waker, woken, dead, got, mode>>

DriverWakes(y) ==
    /\ Drives(y, "wake", IF mode.driver = "thread" THEN "check" ELSE "arm")
    /\ TakeWakers({y})
    /\ UNCHANGED <<dir, bell, task, dead, got, mode>>

\* The generation is compared by the thread and again by the wait itself.
DriverCheck(y) ==
    /\ drv[y].at = "check" /\ y \notin dead
    /\ drv' = [drv EXCEPT ![y] =
                  IF @.same THEN [@ EXCEPT !.at = "wait"]
                  ELSE [at |-> "drain", same |-> TRUE]]
    /\ UNCHANGED <<dir, bell, task, waker, woken, dead, got, mode>>

DriverWaits(y) ==
    /\ drv[y].at = "wait" /\ y \notin dead
    /\ drv' = [drv EXCEPT ![y].at =
                  IF drv[y].same THEN "asleep" ELSE "drain"]
    /\ UNCHANGED <<dir, bell, task, waker, woken, dead, got, mode>>

\* The bell is armed before the generation is read again.
Arm(y) ==
    /\ Drives(y, "arm", "armed")
    /\ bell' = [bell EXCEPT ![y].armed = TRUE]
    /\ UNCHANGED <<dir, task, waker, woken, dead, got, mode>>

ArmCheck(y) ==
    /\ Drives(y, "armed", IF drv[y].same THEN "socket" ELSE "see")
    /\ UNCHANGED <<dir, bell, task, waker, woken, dead, got, mode>>

Answer(y) ==
    /\ bell[y].rung /\ Drives(y, "socket", "see")
    /\ bell' = [bell EXCEPT ![y].rung = FALSE]
    /\ UNCHANGED <<dir, task, waker, woken, dead, got, mode>>

-----------------------------------------------------------------------------
(***************************************************************************)
(* poll_ready: look, register, look again                                  *)
(***************************************************************************)

\* Where a task or a thread begins to wait.
WaitPlace(x) == IF mode.park[x] = "task" THEN "look" ELSE "blockLook"
\* Where it goes once it is ready: it tries again, or it is done.
Resumes(x) == IF task[x].want \in {"closed", "dead"} THEN "over" ELSE "go"
Continues(x, b) ==
    Sets(x, IF b = "go" /\ task[x].want # "byte" THEN Idle
            ELSE [task[x] EXCEPT !.at = b])

Look(x) ==
    /\ At(x, "look")
    /\ Continues(x, IF Ready(task[x].want) THEN Resumes(x) ELSE "register")
    /\ dir' = Cleared(task[x].want) /\ OnlyDir

\* The first waker of a process starts its driver.
EnsureDriver(x) ==
    drv' = [drv EXCEPT ![x].at =
               IF @ = "off" /\ mode.driver # "local" THEN "start" ELSE @]

Register(x) ==
    /\ At(x, "register") /\ Goes(x, "again")
    /\ waker' = [waker EXCEPT ![x] = TRUE]
    /\ EnsureDriver(x)
    /\ UNCHANGED <<dir, bell, woken, dead, got, mode>>

LookAgain(x) ==
    /\ At(x, "again")
    /\ Continues(x, IF Ready(task[x].want) THEN Resumes(x) ELSE "parked")
    /\ dir' = Cleared(task[x].want) /\ OnlyDir

\* A task that was woken is polled again.
Polled(x) ==
    /\ At(x, "parked") /\ woken[x]
    /\ woken' = [woken EXCEPT ![x] = FALSE]
    /\ Goes(x, "look")
    /\ UNCHANGED <<dir, bell, drv, waker, dead, got, mode>>

\* An exact wait is given up for an ordinary write.
GiveUpExact ==
    /\ At("w", "parked") /\ task["w"].want = "exact"
    /\ Sets("w", [task["w"] EXCEPT !.at = "look", !.want = "byte"])
    /\ OnlyTask

-----------------------------------------------------------------------------
(***************************************************************************)
(* wait_until: a thread on the change word                                 *)
(***************************************************************************)

BlockLook(x) ==
    /\ At(x, "blockLook")
    /\ Continues(x, IF Ready(task[x].want) THEN Resumes(x) ELSE "count")
    /\ dir' = Cleared(task[x].want) /\ OnlyDir

CountWaiter(x) ==
    /\ At(x, "count") /\ Goes(x, "since")
    /\ dir' = [dir EXCEPT !.waiters = @ + 1] /\ OnlyDir

Since(x) ==
    /\ At(x, "since")
    /\ Sets(x, [task[x] EXCEPT !.at = "blockAgain", !.same = TRUE])
    /\ OnlyTask

BlockAgain(x) ==
    /\ At(x, "blockAgain")
    /\ Goes(x, IF Ready(task[x].want) THEN "unwait" ELSE "sleep")
    /\ dir' = Cleared(task[x].want) /\ OnlyDir

Sleep(x) ==
    /\ At(x, "sleep")
    /\ Goes(x, IF task[x].same THEN "asleep" ELSE "unwait")
    /\ OnlyTask

Unwait(x) ==
    /\ At(x, "unwait") /\ Goes(x, "blockLook")
    /\ dir' = [dir EXCEPT !.waiters = @ - 1] /\ OnlyDir

-----------------------------------------------------------------------------
(***************************************************************************)
(* The writer                                                              *)
(***************************************************************************)

Waits(x, want) ==
    Sets(x, [task[x] EXCEPT !.at = WaitPlace(x), !.want = want])

\* try_write and try_write_exact up to the commit: the flags end them, a ring
\* that is full, or that has no room for the frame, makes them wait.
WriteTry ==
    LET exact == mode.write = "exact" /\ task["w"].want # "byte"
        n == IF exact THEN Frame
             ELSE IF Total - dir.head < Free THEN Total - dir.head ELSE Free
        d == [dir EXCEPT !.needed = 0]
    IN  /\ At("w", "go") /\ dir.head < Total
        /\ \/ /\ dir.flags \cap Terminal # {}
              /\ Goes("w", "end") /\ dir' = d
           \/ /\ dir.flags \cap Terminal = {}
              /\ IF (exact /\ Free < Frame) \/ Free = 0
                 THEN IF exact /\ mode.park.w = "task"
                      THEN Goes("w", "publish") /\ dir' = d
                      ELSE Waits("w", IF exact THEN "exact" ELSE "byte")
                           /\ dir' = d
                 ELSE /\ Sets("w", [task["w"] EXCEPT !.at = "commit",
                                       !.to = dir.head + n,
                                       !.want = "none"])
                      /\ dir' = [d EXCEPT !.buffer =
                           [i \in 0 .. Capacity - 1 |->
                              IF \E p \in dir.head .. dir.head + n - 1 :
                                    p % Capacity = i
                              THEN CHOOSE p \in dir.head .. dir.head + n - 1 :
                                      p % Capacity = i
                              ELSE @[i]]]
        /\ OnlyDir

\* poll_writable_exact publishes what it needs before it looks.
PublishNeeded ==
    /\ At("w", "publish")
    /\ dir' = [dir EXCEPT !.needed = Frame]
    /\ Waits("w", "exact") /\ OnlyDir

Commit ==
    /\ At("w", "commit") /\ Sets("w", [task["w"] EXCEPT !.at = "drained",
                                          !.from = dir.head])
    /\ dir' = [dir EXCEPT !.head = task["w"].to] /\ OnlyDir

DrainedBefore ==
    /\ At("w", "drained")
    /\ Notifies("w", IF Queued = 0 THEN {"r"} ELSE {}, "go") /\ OnlyTask

\* Whether the reader could be parked is the tail after the commit.
Drained ==
    /\ At("w", "drained")
    /\ Notifies("w", IF dir.tail >= task["w"].from THEN {"r"} ELSE {}, "go")
    /\ OnlyTask

\* finish, reset, and the drop that resets; set_flag notifies of a new flag.
EndWrite ==
    /\ \/ At("w", "go") /\ dir.head = Total
       \/ At("w", "end")
    /\ LET flag == IF task["w"].at = "end" THEN "reset" ELSE mode.ends IN
       /\ dir' = [dir EXCEPT !.flags = @ \cup {flag}]
       /\ IF flag \in dir.flags THEN Goes("w", "after")
          ELSE Notifies("w", {"r"}, "after")
    /\ OnlyDir

\* peer_closed arms its flag first; both watches share the writer's waker.
After ==
    /\ At("w", "after")
    /\ IF mode.after = "nothing"
       THEN Goes("w", "over") /\ UNCHANGED dir
       ELSE /\ dir' = IF mode.after = "closed"
                      THEN [dir EXCEPT !.flags = @ \cup {"watch"}] ELSE dir
            /\ Sets("w", [task["w"] EXCEPT !.at = "look", !.want = mode.after])
    /\ OnlyDir

-----------------------------------------------------------------------------
(***************************************************************************)
(* The reader                                                              *)
(***************************************************************************)

\* try_read up to the copy: the flags are read first.
ReadTry ==
    /\ At("r", "go")
    /\ \/ "reset" \in dir.flags /\ Goes("r", "leave")
       \/ /\ "reset" \notin dir.flags
          /\ Sets("r", [task["r"] EXCEPT !.at = "readHead", !.flags = dir.flags])
    /\ OnlyTask

ReadHead ==
    /\ At("r", "readHead")
    /\ IF Queued = 0
       THEN IF "fin" \in task["r"].flags THEN Goes("r", "leave")
            ELSE Waits("r", "read")
       ELSE \E n \in 1 .. Queued :
               Sets("r", [task["r"] EXCEPT !.at = "copy", !.to = dir.tail + n])
    /\ OnlyTask

Copied == [got EXCEPT !.bytes = task["r"].to,
              !.right = @ /\ \A p \in dir.tail .. task["r"].to - 1 :
                                dir.buffer[p % Capacity] = p]

Copy ==
    /\ At("r", "copy") /\ Goes("r", "consume")
    /\ got' = Copied
    /\ UNCHANGED <<dir, bell, drv, waker, woken, dead, mode>>

Consume ==
    /\ At("r", "consume")
    /\ Sets("r", [task["r"] EXCEPT !.at = "gained", !.from = dir.tail])
    /\ dir' = [dir EXCEPT !.tail = task["r"].to] /\ OnlyDir

\* writer_gained_capacity
Gained ==
    /\ At("r", "gained")
    /\ LET before == Capacity - (dir.head - task["r"].from)
           gains == IF dir.needed = 0 THEN before <= 0
                    ELSE /\ dir.flags \cap Terminal = {}
                         /\ before < dir.needed /\ Free >= dir.needed
       IN  Notifies("r", IF gains THEN {"w"} ELSE {}, "go")
    /\ OnlyTask

\* stop_reading and the drop of the read half: the flag, and whether a writer
\* could be parked on what is queued.
Leave ==
    /\ \/ At("r", "leave")
       \/ At("r", "go") /\ mode.stops
    /\ dir' = [dir EXCEPT !.flags = @ \cup {"gone"}]
    /\ IF "gone" \in dir.flags THEN Goes("r", "over")
       ELSE IF "watch" \in dir.flags THEN Notifies("r", {"w"}, "over")
       ELSE IF dir.flags \cap {"fin", "reset"} # {} THEN Notifies("r", {}, "over")
       ELSE Goes("r", "mayPark")
    /\ OnlyDir

\* writer_may_park
MayPark ==
    /\ At("r", "mayPark")
    /\ Notifies("r", IF Queued # 0 THEN {"w"} ELSE {}, "over") /\ OnlyTask

-----------------------------------------------------------------------------
(***************************************************************************)
(* A death, and its report (Table::end_sides)                              *)
(***************************************************************************)

Die(x) ==
    /\ x \in mode.mortal /\ dead = {} /\ task[x].at # "over"
    /\ dead' = {x}
    /\ Sets(x, Idle) /\ drv' = [drv EXCEPT ![x].at = "off"]
    /\ UNCHANGED <<dir, bell, waker, woken, got, mode>>

\* The side is dead first; then what it wrote is reset, or its reader is gone.
ReportSide ==
    /\ At("d", "watch") /\ dead # {}
    /\ dir' = [dir EXCEPT !.flags = @ \cup {"side"}]
    /\ Goes("d", "flag") /\ OnlyDir

ReportFlag ==
    /\ At("d", "flag")
    /\ dir' = [dir EXCEPT !.flags = @ \cup
                  {IF "w" \in dead THEN "reset" ELSE "gone"}]
    /\ Notifies("d", Ends, "over") /\ OnlyDir

-----------------------------------------------------------------------------
\* A writer may wait for a death that never comes.
Done ==
    \A x \in Ends :
       \/ x \in dead
       \/ task[x].at = "over"
       \/ task[x].want = "dead" /\ "r" \notin dead

Finished == Done /\ UNCHANGED vars

Steps(x) ==
    \/ Bump(x) \/ WakeOn(x) \/ RingHere(x) \/ (\E y \in Ends : Pend(x, y))
    \/ RingGeneration(x) \/ RingLook(x)

Waiting(x) ==
    \/ Look(x) \/ Register(x) \/ LookAgain(x) \/ Polled(x)
    \/ BlockLook(x) \/ CountWaiter(x) \/ Since(x) \/ BlockAgain(x) \/ Sleep(x)
    \/ Unwait(x)

Driver(y) ==
    \/ DriverListens(y) \/ DriverSees(y) \/ Drain(y) \/ DriverWakes(y)
    \/ DriverCheck(y) \/ DriverWaits(y) \/ Arm(y) \/ ArmCheck(y) \/ Answer(y)

Writer ==
    \/ WriteTry \/ PublishNeeded \/ Commit \/ Drained \/ EndWrite \/ After
    \/ Steps("w") \/ Waiting("w")
Reader ==
    \/ ReadTry \/ ReadHead \/ Copy \/ Consume \/ Gained \/ Leave \/ MayPark
    \/ Steps("r") \/ Waiting("r")
Reporter == ReportSide \/ ReportFlag \/ Steps("d")

Next ==
    \/ Writer \/ Reader \/ Reporter \/ GiveUpExact
    \/ \E x \in Ends : Driver(x) \/ Die(x)
    \/ Finished

\* The scheduler runs every thread, every task that was woken and every driver,
\* and a death is reported.
Fairness ==
    /\ WF_vars(Writer) /\ WF_vars(Reader) /\ WF_vars(Reporter)
    /\ \A y \in Ends : WF_vars(Driver(y))

Spec == Init /\ [][Next]_vars /\ Fairness

-----------------------------------------------------------------------------
(***************************************************************************)
(* Properties                                                              *)
(***************************************************************************)

\* "The bytes cross in order": the reader takes every byte as it was written,
\* and a reader that left after a clean FIN has taken all of them.
BytesInOrder ==
    /\ got.right
    /\ task["r"].at = "leave" /\ dir.flags \cap {"reset", "side"} = {} =>
          got.bytes = Total

\* No wake is lost: whatever each side waits for, in every form of waiting and
\* whoever answers the doorbell, both sides come to their end.
EveryoneEnds == <>[]Done
=============================================================================
