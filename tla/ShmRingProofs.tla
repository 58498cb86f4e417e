--------------------------- MODULE ShmRingProofs ---------------------------
(***************************************************************************)
(* Proofs about ShmRing, for every capacity, every set of processes,       *)
(* threads and readers, every batch size and every number of crashes.      *)
(*                                                                         *)
(* The guarantees are those of the ordered lanes (PerNode, SharedOrdered), *)
(* whose writers hold a lock from the load of the head to its store; a     *)
(* Shared lane gives them up when a claim is lapped.  The argument:        *)
(*   LockHeld    the writer between the load of the head and its store is  *)
(*               the only one, and the head has not moved under it;        *)
(*   SlotShape   an even sequence word names the counter in its slot;      *)
(*   LaneInv     every published counter has been committed, and a slot    *)
(*               with its sequence holds its frame;                        *)
(*   BatchInv    the same for the unpublished part of the batch;           *)
(*   FillInv     what the slot being filled holds;                         *)
(*   CopyInv     what a reader between its two looks at the sequence word  *)
(*               may have copied.  A sequence word may return to an older  *)
(*               value (the replacement of a dead writer rewrites its      *)
(*               unpublished counters), never for a published counter.     *)
(* The last part shows that an ordered lane implements RingLog.            *)
(***************************************************************************)
EXTENDS ShmRing, TLAPS

Ordered == topology # "Shared"

InProgress(w) == wpc[w] \in {"mark", "fill", "publish"}

Seq(c) == slot[SlotOf(c)].seq

WriterShape ==
    \A w \in Writers :
        /\ wpc[w] = "flock" => topology = "SharedOrdered" /\ num[w] > 0
        /\ wpc[w] = "publish" => Ordered
        /\ InProgress(w) => start[w] <= ctr[w]
        /\ wpc[w] \in {"mark", "fill"} => ctr[w] < start[w] + num[w]
        /\ wpc[w] = "publish" => ctr[w] = start[w] + num[w]

LockHeld ==
    Ordered =>
        \A w \in Writers : InProgress(w) =>
            /\ start[w] = head
            /\ topology = "PerNode" => ProcOf[w] = Owner /\ local[Owner] = w
            /\ topology = "SharedOrdered" => flock = w

SlotShape ==
    Ordered =>
        \A i \in 0 .. Capacity - 1 :
            \/ slot[i].seq = 0
            \/ \E k \in Nat : slot[i].seq = Writing(k)
            \/ slot[i].seq = Committed(slot[i].id)

LaneInv ==
    Ordered =>
        \A c \in 0 .. head - 1 :
            /\ Seq(c) >= Committed(c)
            /\ Seq(c) = Committed(c) => slot[SlotOf(c)].body = log[c]

BatchInv ==
    Ordered =>
        \A w \in Writers : InProgress(w) =>
            \A c \in start[w] .. ctr[w] - 1 :
                /\ Seq(c) >= Committed(c)
                /\ Seq(c) = Committed(c) =>
                      slot[SlotOf(c)].body = Body(w, c)

FillInv ==
    Ordered =>
        \A w \in Writers : wpc[w] = "fill" =>
            /\ Seq(ctr[w]) = Writing(ctr[w])
            /\ "id" \notin unwritten[w] => slot[SlotOf(ctr[w])].id = ctr[w]
            /\ "body" \notin unwritten[w] =>
                  slot[SlotOf(ctr[w])].body = Body(w, ctr[w])

Shape(r) ==
    /\ rpc[r] \in {"pre", "load"} => tries[r] < Retries
    /\ rpc[r] = "probe" => op[r] = "poll"
    /\ rpc[r] # "idle" => at[r] < head
    /\ rpc[r] # "idle" /\ op[r] = "poll" => at[r] < lim[r] /\ lim[r] <= head

CopyInv(r) ==
    /\ rpc[r] # "idle" /\ tries[r] > 0 => Seq(at[r]) > Committed(at[r])
    /\ rpc[r] = "load" /\ pre[r] = Committed(at[r]) /\ Seq(at[r]) = pre[r] =>
          /\ "id" \notin unread[r] => buf[r].id = at[r]
          /\ "body" \notin unread[r] => buf[r].body = log[at[r]]
    /\ rpc[r] = "load" /\ pre[r] # Committed(at[r]) =>
          /\ Seq(at[r]) > Committed(at[r])
          /\ slot[SlotOf(at[r])].id # at[r]
          /\ "id" \notin unread[r] => buf[r].id # at[r]

LossInv(r) ==
    /\ \A c \in lost[r] : c < head /\ Seq(c) > Committed(c)
    /\ \A c \in over[r] : c + Capacity < head

WholeInv(r) ==
    /\ \A f \in got[r] : f.id < head /\ f.body = log[f.id]
    /\ op[r] = "id" /\ res[r].ok =>
          res[r].id < head /\ res[r].body = log[res[r].id]

WriterInv == WriterShape /\ LockHeld
LaneState == SlotShape /\ LaneInv /\ BatchInv /\ FillInv
ReaderInv ==
    \A r \in Readers :
        Shape(r) /\ (Ordered => CopyInv(r) /\ LossInv(r) /\ WholeInv(r))
IInv == TypeOK /\ WriterInv /\ LaneState /\ ReaderInv

-----------------------------------------------------------------------------
(***************************************************************************)
(* Arithmetic of slots and sequence words                                  *)
(***************************************************************************)

\* A counter's slot is a slot of the lane.
LEMMA SlotInLane ==
    ASSUME NEW c \in Nat PROVE SlotOf(c) \in 0 .. Capacity - 1
BY CapacityAssumption DEF SlotOf

\* A sequence word says which counter it belongs to and whether it is
\* committed.
LEMMA SeqWords ==
    ASSUME NEW c \in Nat, NEW d \in Nat
    PROVE  /\ Writing(c) \in Nat /\ Committed(c) \in Nat
           /\ Writing(c) # Committed(d)
           /\ Committed(c) = Committed(d) => c = d
           /\ c < d => Committed(c) < Writing(d)
           /\ c < d => Committed(c) < Committed(d)
           /\ Writing(c) % 2 = 1
           /\ Committed(c) # 0
<1>1. /\ Writing(c) \in Nat /\ Committed(c) \in Nat
      /\ Writing(c) # Committed(d)
      /\ Committed(c) = Committed(d) => c = d
      /\ c < d => Committed(c) < Writing(d)
      /\ c < d => Committed(c) < Committed(d)
      /\ Committed(c) # 0
  BY DEF Writing, Committed
<1>2. Writing(c) % 2 = 1
  BY DEF Writing
<1> QED BY <1>1, <1>2

\* A body names its writer, its counter and the writer's incarnation.
LEMMA BodyType ==
    ASSUME WriterType, NEW w \in Writers, NEW c \in Nat
    PROVE  Body(w, c) \in Bodies
BY ProcAssumption DEF Body, Bodies, WriterType

\* The history of a lane grows at its end.
LEMMA ExtendedLog ==
    ASSUME LaneType, WriterType, NEW w \in Writers, NEW n \in Nat
    PROVE  /\ Extended(w, n) \in [0 .. head + n - 1 -> Bodies]
           /\ \A c \in 0 .. head - 1 : Extended(w, n)[c] = log[c]
           /\ \A c \in head .. head + n - 1 : Extended(w, n)[c] = Body(w, c)
<1>1. \A c \in 0 .. head + n - 1 :
         (IF c < head THEN log[c] ELSE Body(w, c)) \in Bodies
  BY BodyType DEF LaneType
<1> QED BY <1>1 DEF Extended, LaneType

-----------------------------------------------------------------------------
(***************************************************************************)
(* Initially                                                               *)
(***************************************************************************)

\* An empty lane satisfies the invariant.
LEMMA InitIInv == Init => IInv
<1> SUFFICES ASSUME Init PROVE IInv OBVIOUS
<1>1. TypeOK
  <2>1. EmptySlot \in [seq : Nat, id : Nat, body : Bodies]
    BY DEF EmptySlot, Bodies
  <2>2. NoBuf \in [id : Nat, body : Bodies]
    BY DEF NoBuf, Bodies
  <2>3. log \in [0 .. head - 1 -> Bodies]
    BY DEF Init
  <2> QED
    BY <2>1, <2>2, <2>3, CapacityAssumption, NoOneAssumption
       DEF Init, TypeOK, LaneType, WriterType, WalkType, CopyType, FoundType,
           Retries
<1>2. WriterInv
  BY DEF Init, WriterInv, WriterShape, LockHeld, InProgress
<1>3. LaneState
  BY DEF Init, LaneState, SlotShape, LaneInv, BatchInv, FillInv, InProgress,
     EmptySlot
<1>4. ReaderInv
  BY DEF Init, ReaderInv, Shape, CopyInv, LossInv, WholeInv, NoFrame
<1> QED BY <1>1, <1>2, <1>3, <1>4 DEF IInv

-----------------------------------------------------------------------------
(***************************************************************************)
(* Types                                                                   *)
(***************************************************************************)

\* The types of what a reader owns hold on as long as nothing of it changes.
LEMMA ReaderTypeUnchanged ==
    ASSUME TypeOK, UNCHANGED readerVars
    PROVE  WalkType' /\ CopyType' /\ FoundType'
BY DEF TypeOK, WalkType, CopyType, FoundType, readerVars

\* A step of a writer keeps every variable in its range.  The head store needs
\* the lock: the history is extended where the head stands.
LEMMA WriterKeepsType ==
    ASSUME TypeOK, WriterInv, NEW w \in Writers, WriterStep(w)
    PROVE  TypeOK'
<1>0. LaneType /\ WriterType /\ UNCHANGED topology BY DEF TypeOK, WriterStep
<1>1. LaneType' /\ WriterType' /\ UNCHANGED readerVars
  <2>1. CASE Claim(w)
    <3>1. PICK n \in BatchSizes : head' = head + n /\ log' = Extended(w, n)
                                 /\ num' = [num EXCEPT ![w] = n]
      BY <2>1 DEF Claim
    <3>2. n \in Nat BY BatchAssumption
    <3>3. log' \in [0 .. head' - 1 -> Bodies]
      <4>1. Extended(w, n) \in [0 .. head + n - 1 -> Bodies]
        BY <1>0, <3>2, ExtendedLog
      <4> QED BY <1>0, <3>1, <3>2, <4>1 DEF LaneType
    <3>4. LaneType' BY <1>0, <2>1, <3>1, <3>2, <3>3 DEF Claim, LaneType
    <3>5. WriterType'
      BY <1>0, <2>1, <3>1, <3>2 DEF Claim, LaneType, WriterType, lockVars
    <3> QED BY <2>1, <3>4, <3>5 DEF Claim
  <2>2. CASE LockLane(w)
    <3>1. PICK n \in BatchSizes : num' = [num EXCEPT ![w] = n]
      BY <2>2 DEF LockLane
    <3>2. n \in Nat /\ head \in Nat /\ ProcOf[w] \in Procs
      BY <1>0, BatchAssumption, ProcAssumption DEF LaneType
    <3>3. LaneType' BY <1>0, <2>2 DEF LockLane, LaneType, laneVars
    <3>4. WriterType'
      BY <1>0, <2>2, <3>1, <3>2 DEF LockLane, LoadHead, WriterType
    <3> QED BY <2>2, <3>3, <3>4 DEF LockLane
  <2>3. CASE LockLocal(w)
    BY <1>0, <2>3, BatchAssumption, ProcAssumption
       DEF LockLocal, LaneType, WriterType, laneVars
  <2>4. CASE LockRegion(w)
    BY <1>0, <2>4 DEF LockRegion, LoadHead, LaneType, WriterType, laneVars
  <2>5. CASE LockRegionFails(w)
    BY <1>0, <2>5
       DEF LockRegionFails, WriterReturns, LaneType, WriterType, laneVars
  <2>6. CASE MarkWriting(w)
    <3>1. ctr[w] \in Nat BY <1>0 DEF WriterType
    <3>2. Writing(ctr[w]) \in Nat BY <3>1, SeqWords
    <3>3. LaneType' BY <1>0, <2>6, <3>2 DEF MarkWriting, LaneType
    <3>4. WriterType' BY <1>0, <2>6 DEF MarkWriting, WriterType, lockVars
    <3> QED BY <2>6, <3>3, <3>4 DEF MarkWriting
  <2>7. CASE StorePart(w)
    <3>1. ctr[w] \in Nat BY <1>0 DEF WriterType
    <3>2. Body(w, ctr[w]) \in Bodies BY <1>0, <3>1, BodyType
    <3>3. LaneType'
      <4>1. PICK p \in unwritten[w] :
               slot' = [slot EXCEPT ![SlotOf(ctr[w])] =
                          IF p = "id" THEN [@ EXCEPT !.id = ctr[w]]
                          ELSE [@ EXCEPT !.body = Body(w, ctr[w])]]
        BY <2>7 DEF StorePart
      <4>2. slot' \in [0 .. Capacity - 1 -> [seq : Nat, id : Nat, body : Bodies]]
        <5>1. CASE p = "id" BY <1>0, <3>1, <4>1, <5>1 DEF LaneType
        <5>2. CASE p # "id" BY <1>0, <3>2, <4>1, <5>2 DEF LaneType
        <5> QED BY <5>1, <5>2
      <4> QED BY <1>0, <2>7, <4>2 DEF StorePart, LaneType
    <3>4. WriterType' BY <1>0, <2>7 DEF StorePart, WriterType, lockVars
    <3> QED BY <2>7, <3>3, <3>4 DEF StorePart
  <2>8. CASE Commit(w)
    <3>1. ctr[w] \in Nat BY <1>0 DEF WriterType
    <3>2. Committed(ctr[w]) \in Nat BY <3>1, SeqWords
    <3>3. LaneType' BY <1>0, <2>8, <3>2 DEF Commit, LaneType
    <3>4. WriterType'
      BY <1>0, <2>8 DEF Commit, WriterReturns, WriterType, lockVars
    <3> QED BY <2>8, <3>3, <3>4 DEF Commit
  <2>9. CASE Publish(w)
    <3>1. start[w] = head /\ num[w] \in Nat
      BY <1>0, <2>9
         DEF Publish, WriterInv, WriterShape, LockHeld, InProgress, WriterType
    <3>2. log' \in [0 .. head' - 1 -> Bodies] /\ head' \in Nat
      BY <1>0, <2>9, <3>1, ExtendedLog DEF Publish, LaneType
    <3>3. LaneType' BY <1>0, <2>9, <3>2 DEF Publish, LaneType
    <3>4. WriterType' BY <1>0, <2>9 DEF Publish, WriterReturns, WriterType
    <3> QED BY <2>9, <3>3, <3>4 DEF Publish
  <2> QED BY <2>1, <2>2, <2>3, <2>4, <2>5, <2>6, <2>7, <2>8, <2>9 DEF WriterStep
<1> QED BY <1>1, ReaderTypeUnchanged DEF TypeOK

\* A crash keeps every variable in its range.
LEMMA CrashKeepsType ==
    ASSUME TypeOK, NEW p \in Procs, Crash(p), UNCHANGED topology
    PROVE  TypeOK'
<1>1. LaneType' /\ UNCHANGED readerVars
  BY DEF TypeOK, LaneType, Crash, laneVars
<1>2. WriterType'
  BY DEF TypeOK, WriterType, Crash
<1> QED BY <1>1, <1>2, ReaderTypeUnchanged DEF TypeOK

\* The types of the lane and of its writers hold on as long as nothing of
\* them changes.
LEMMA LaneTypeUnchanged ==
    ASSUME TypeOK, UNCHANGED <<topology, laneVars, lockVars, writerVars>>
    PROVE  LaneType' /\ WriterType'
BY DEF TypeOK, LaneType, WriterType, laneVars, lockVars, writerVars

\* The locals of a reader stay in their ranges when it returns, goes on or
\* tries again.
LEMMA ReaderLocals ==
    ASSUME WalkType, CopyType, NEW r \in Readers, Shape(r)
    PROVE  /\ ReaderReturns(r) =>
                 /\ rpc' \in [Readers -> {"idle", "probe", "pre", "load"}]
                 /\ at' \in [Readers -> Nat] /\ lim' \in [Readers -> Nat]
                 /\ tries' \in [Readers -> 0 .. Retries]
           /\ Advance(r) =>
                 /\ rpc' \in [Readers -> {"idle", "probe", "pre", "load"}]
                 /\ at' \in [Readers -> Nat] /\ lim' \in [Readers -> Nat]
                 /\ tries' \in [Readers -> 0 .. Retries]
                 /\ cursor' \in [Readers -> Nat]
           /\ rpc[r] \in {"pre", "load"} /\ Retry(r) =>
                 /\ rpc' \in [Readers -> {"idle", "probe", "pre", "load"}]
                 /\ at' \in [Readers -> Nat] /\ lim' \in [Readers -> Nat]
                 /\ tries' \in [Readers -> 0 .. Retries]
           /\ DropCopy(r) => CopyType'
<1>1. Retries = 3 BY DEF Retries
<1>2. ASSUME ReaderReturns(r)
      PROVE  /\ rpc' \in [Readers -> {"idle", "probe", "pre", "load"}]
             /\ at' \in [Readers -> Nat] /\ lim' \in [Readers -> Nat]
             /\ tries' \in [Readers -> 0 .. Retries]
  BY <1>1, <1>2 DEF ReaderReturns, WalkType
<1>3. ASSUME Advance(r)
      PROVE  /\ rpc' \in [Readers -> {"idle", "probe", "pre", "load"}]
             /\ at' \in [Readers -> Nat] /\ lim' \in [Readers -> Nat]
             /\ tries' \in [Readers -> 0 .. Retries]
             /\ cursor' \in [Readers -> Nat]
  BY <1>1, <1>3, <1>2 DEF Advance, WalkType
<1>4. ASSUME rpc[r] \in {"pre", "load"}, Retry(r)
      PROVE  /\ rpc' \in [Readers -> {"idle", "probe", "pre", "load"}]
             /\ at' \in [Readers -> Nat] /\ lim' \in [Readers -> Nat]
             /\ tries' \in [Readers -> 0 .. Retries]
  <2>1. tries[r] + 1 \in 0 .. Retries
    BY <1>1, <1>4 DEF Shape, WalkType
  <2> QED BY <1>4, <1>2, <2>1 DEF Retry, WalkType
<1>5. ASSUME DropCopy(r) PROVE CopyType'
  <2>1. NoBuf \in [id : Nat, body : Bodies] BY DEF NoBuf, Bodies
  <2> QED BY <1>5, <2>1 DEF DropCopy, CopyType
<1> QED BY <1>2, <1>3, <1>4, <1>5

\* A step of a reader keeps every variable in its range.
LEMMA ReaderKeepsType ==
    ASSUME TypeOK, NEW r \in Readers, Shape(r), ReaderStep(r)
    PROVE  TypeOK'
<1>0. LaneType /\ WalkType /\ CopyType /\ FoundType /\ UNCHANGED topology
  BY DEF TypeOK, ReaderStep
<1>1. UNCHANGED <<laneVars, lockVars, writerVars>>
  BY DEF ReaderStep, SubscribeAtHead, PollNothing, PollStart, ProbePending,
     ProbeUnavailable, ProbeCommitted, DirectStart, ReadPre, LoadPart, ReadTorn,
     WalkReady, DirectReady
<1>2. WalkType' /\ CopyType' /\ FoundType'
  <2>1. CASE SubscribeAtHead(r)
    BY <1>0, <2>1 DEF SubscribeAtHead, LaneType, WalkType, CopyType, FoundType
  <2>2. CASE PollNothing(r)
    BY <1>0, <2>2 DEF PollNothing, LaneType, WalkType, CopyType, FoundType
  <2>3. CASE PollStart(r)
    <3>1. Floor(head) \in Nat /\ head \in Nat
      BY <1>0, CapacityAssumption DEF Floor, LaneType
    <3>2. Skipped(cursor[r], head) \subseteq Nat BY DEF Skipped
    <3>3. WalkType'
      BY <1>0, <2>3, <3>1 DEF PollStart, WalkType, Retries
    <3>4. CopyType' BY <1>0, <2>3 DEF PollStart, CopyType
    <3>5. FoundType' BY <1>0, <2>3, <3>2 DEF PollStart, FoundType
    <3> QED BY <3>3, <3>4, <3>5
  <2>4. CASE ProbePending(r)
    <3>1. WalkType' BY <1>0, <2>4, ReaderLocals DEF ProbePending, WalkType
    <3> QED BY <1>0, <2>4, <3>1 DEF ProbePending, CopyType, FoundType
  <2>5. CASE ProbeUnavailable(r)
    <3>1. WalkType' BY <1>0, <2>5, ReaderLocals DEF ProbeUnavailable, WalkType
    <3>2. CopyType' BY <1>0, <2>5 DEF ProbeUnavailable, CopyType
    <3>3. FoundType' BY <1>0, <2>5 DEF ProbeUnavailable, WalkType, FoundType
    <3> QED BY <3>1, <3>2, <3>3
  <2>6. CASE ProbeCommitted(r)
    BY <1>0, <2>6 DEF ProbeCommitted, WalkType, CopyType, FoundType
  <2>7. CASE DirectStart(r)
    <3>1. WalkType'
      BY <1>0, <2>7 DEF DirectStart, WalkType, LaneType, Retries
    <3>2. CopyType' BY <1>0, <2>7 DEF DirectStart, CopyType
    <3>3. FoundType' BY <1>0, <2>7 DEF DirectStart, FoundType
    <3> QED BY <3>1, <3>2, <3>3
  <2>8. CASE ReadPre(r)
    <3>1. SeqAt(r) \in Nat
      BY <1>0, SlotInLane DEF SeqAt, LaneType, WalkType
    <3>2. WalkType'
      BY <1>0, <2>8, ReaderLocals DEF ReadPre, WalkType
    <3>3. CopyType' BY <1>0, <2>8, <3>1 DEF ReadPre, CopyType
    <3>4. FoundType' BY <1>0, <2>8 DEF ReadPre, FoundType
    <3> QED BY <3>2, <3>3, <3>4
  <2>9. CASE LoadPart(r)
    <3>1. slot[SlotOf(at[r])] \in [seq : Nat, id : Nat, body : Bodies]
      BY <1>0, SlotInLane DEF LaneType, WalkType
    <3>2. CopyType'
      <4>1. PICK p \in unread[r] :
              /\ buf' = [buf EXCEPT ![r] =
                           IF p = "id"
                           THEN [@ EXCEPT !.id = slot[SlotOf(at[r])].id]
                           ELSE [@ EXCEPT !.body = slot[SlotOf(at[r])].body]]
              /\ unread' = [unread EXCEPT ![r] = @ \ {p}]
        BY <2>9 DEF LoadPart
      <4>2. CASE p = "id"
        BY <1>0, <2>9, <3>1, <4>1, <4>2 DEF LoadPart, CopyType
      <4>3. CASE p # "id"
        BY <1>0, <2>9, <3>1, <4>1, <4>3 DEF LoadPart, CopyType
      <4> QED BY <4>2, <4>3
    <3>3. WalkType' /\ FoundType'
      BY <1>0, <2>9 DEF LoadPart, WalkType, FoundType
    <3> QED BY <3>2, <3>3
  <2>10. CASE ReadTorn(r)
    <3>1. WalkType' BY <1>0, <2>10, ReaderLocals DEF ReadTorn, WalkType
    <3>2. CopyType' BY <1>0, <2>10, ReaderLocals DEF ReadTorn
    <3>3. FoundType' BY <1>0, <2>10 DEF ReadTorn, FoundType
    <3> QED BY <3>1, <3>2, <3>3
  <2>11. CASE WalkReady(r)
    <3>1. FrameOf(buf[r].id, buf[r].body) \in Frames
      BY <1>0 DEF FrameOf, Frames, CopyType
    <3>2. WalkType' BY <1>0, <2>11, ReaderLocals DEF WalkReady, WalkType
    <3>3. CopyType' BY <1>0, <2>11, ReaderLocals DEF WalkReady
    <3>4. FoundType'
      BY <1>0, <2>11, <3>1 DEF WalkReady, WalkType, FoundType
    <3> QED BY <3>2, <3>3, <3>4
  <2>12. CASE DirectReady(r)
    <3>1. FrameOf(buf[r].id, buf[r].body) \in Frames
      BY <1>0 DEF FrameOf, Frames, CopyType
    <3>2. WalkType' BY <1>0, <2>12, ReaderLocals DEF DirectReady, WalkType
    <3>3. CopyType' BY <1>0, <2>12, ReaderLocals DEF DirectReady
    <3>4. FoundType' BY <1>0, <2>12, <3>1 DEF DirectReady, FoundType
    <3> QED BY <3>2, <3>3, <3>4
  <2> QED BY <2>1, <2>2, <2>3, <2>4, <2>5, <2>6, <2>7, <2>8, <2>9, <2>10, <2>11,
             <2>12 DEF ReaderStep
<1> QED BY <1>0, <1>1, <1>2, LaneTypeUnchanged DEF TypeOK

-----------------------------------------------------------------------------
(***************************************************************************)
(* The lock of an ordered lane                                             *)
(***************************************************************************)

\* At most one writer of an ordered lane is past the load of the head.
LEMMA OneWriter ==
    ASSUME TypeOK, WriterInv, Ordered, NEW v \in Writers, NEW w \in Writers,
           InProgress(v), InProgress(w)
    PROVE  v = w
BY TopologyAssumption DEF TypeOK, LaneType, WriterInv, LockHeld, Ordered

\* A step of a writer keeps the lock with the writer that is past the load of
\* the head, and the head under it.
LEMMA WriterKeepsWriterInv ==
    ASSUME TypeOK, WriterInv, NEW w \in Writers, WriterStep(w)
    PROVE  WriterInv'
<1>0. WriterShape /\ LockHeld /\ LaneType /\ WriterType /\ UNCHANGED topology
  BY DEF TypeOK, WriterInv, WriterStep
<1>1. CASE Claim(w)
  <2>1. PICK n \in BatchSizes : Admitted(n) /\ num' = [num EXCEPT ![w] = n]
    BY <1>1 DEF Claim
  <2>2. n \in Nat /\ n > 0 /\ head \in Nat
    BY <1>0, <2>1, BatchAssumption DEF Admitted, LaneType
  <2>3. WriterShape'
    BY <1>0, <1>1, <2>1, <2>2 DEF Claim, WriterShape, WriterType, InProgress, Ordered
  <2>4. LockHeld' BY <1>0, <1>1 DEF Claim, LockHeld, Ordered
  <2> QED BY <2>3, <2>4 DEF WriterInv
<1>2. CASE LockLane(w)
  <2>1. PICK n \in BatchSizes : Admitted(n) /\ num' = [num EXCEPT ![w] = n]
    BY <1>2 DEF LockLane
  <2>2. n \in Nat /\ n > 0 /\ head \in Nat
    BY <1>0, <2>1, BatchAssumption DEF Admitted, LaneType
  <2>3. WriterShape'
    BY <1>0, <1>2, <2>1, <2>2
       DEF LockLane, LoadHead, WriterShape, WriterType, InProgress, Ordered
  <2>4. \A v \in Writers : ~InProgress(v)
    BY <1>0, <1>2, NoOneAssumption DEF LockLane, LockHeld, Ordered
  <2>5. LockHeld'
    BY <1>0, <1>2, <2>4, OwnerAssumption
       DEF LockLane, LoadHead, LockHeld, WriterType, InProgress, laneVars
  <2> QED BY <2>3, <2>5 DEF WriterInv
<1>3. CASE LockLocal(w)
  <2>1. PICK n \in BatchSizes : Admitted(n) /\ num' = [num EXCEPT ![w] = n]
    BY <1>3 DEF LockLocal
  <2>2. n \in Nat /\ n > 0
    BY <2>1, BatchAssumption DEF Admitted
  <2>3. WriterShape'
    BY <1>0, <1>3, <2>1, <2>2
       DEF LockLocal, WriterShape, WriterType, InProgress, Ordered
  <2>4. LockHeld'
    BY <1>0, <1>3 DEF LockLocal, LockHeld, WriterType, InProgress, Ordered, laneVars
  <2> QED BY <2>3, <2>4 DEF WriterInv
<1>4. CASE LockRegion(w)
  <2>1. WriterShape'
    BY <1>0, <1>4
       DEF LockRegion, LoadHead, WriterShape, WriterType, LaneType, InProgress, Ordered
  <2>2. topology = "SharedOrdered" BY <1>0, <1>4 DEF LockRegion, WriterShape
  <2>3. \A v \in Writers : ~InProgress(v)
    BY <1>0, <1>4, <2>2, NoOneAssumption DEF LockRegion, LockHeld, Ordered
  <2>4. LockHeld'
    BY <1>0, <1>4, <2>2, <2>3
       DEF LockRegion, LoadHead, LockHeld, WriterType, InProgress, laneVars
  <2> QED BY <2>1, <2>4 DEF WriterInv
<1>5. CASE LockRegionFails(w)
  <2>1. WriterShape'
    BY <1>0, <1>5
       DEF LockRegionFails, WriterReturns, WriterShape, WriterType, InProgress, Ordered
  <2>2. topology = "SharedOrdered" BY <1>0, <1>5 DEF LockRegionFails, WriterShape
  <2>3. LockHeld'
    BY <1>0, <1>5, <2>2
       DEF LockRegionFails, WriterReturns, LockHeld, WriterType, InProgress,
           Ordered, laneVars
  <2> QED BY <2>1, <2>3 DEF WriterInv
<1>6. CASE MarkWriting(w)
  BY <1>0, <1>6
     DEF MarkWriting, WriterInv, WriterShape, LockHeld, WriterType, InProgress,
         Ordered, lockVars
<1>7. CASE StorePart(w)
  BY <1>0, <1>7
     DEF StorePart, WriterInv, WriterShape, LockHeld, WriterType, InProgress,
         Ordered, lockVars
<1>8. CASE Commit(w)
  <2>1. WriterShape'
    BY <1>0, <1>8
       DEF Commit, WriterReturns, WriterShape, WriterType, InProgress, Ordered, lockVars
  <2>2. LockHeld'
    BY <1>0, <1>8
       DEF Commit, WriterReturns, LockHeld, WriterType, InProgress, Ordered, lockVars
  <2> QED BY <2>1, <2>2 DEF WriterInv
<1>9. CASE Publish(w)
  <2>1. WriterShape'
    BY <1>0, <1>9
       DEF Publish, WriterReturns, WriterShape, WriterType, InProgress, Ordered
  <2>2. Ordered /\ InProgress(w) BY <1>0, <1>9 DEF Publish, WriterShape, InProgress
  <2>3. \A v \in Writers : v # w => ~InProgress(v)
    BY <2>2, OneWriter
  <2>4. LockHeld'
    BY <1>0, <1>9, <2>3
       DEF Publish, WriterReturns, LockHeld, WriterType, InProgress
  <2> QED BY <2>1, <2>4 DEF WriterInv
<1> QED BY <1>1, <1>2, <1>3, <1>4, <1>5, <1>6, <1>7, <1>8, <1>9 DEF WriterStep

\* A crash takes its writers out of the lane together with their lock.
LEMMA CrashKeepsWriterInv ==
    ASSUME TypeOK, WriterInv, NEW p \in Procs, Crash(p), UNCHANGED topology
    PROVE  WriterInv'
<1>0. WriterShape /\ LockHeld /\ LaneType /\ WriterType
  BY DEF TypeOK, WriterInv
<1>1. \A w \in Writers :
         /\ ProcOf[w] = p => wpc'[w] = "idle"
         /\ ProcOf[w] # p => /\ wpc'[w] = wpc[w] /\ start'[w] = start[w]
                            /\ num'[w] = num[w] /\ ctr'[w] = ctr[w]
  BY DEF Crash
<1>2. WriterShape'
  BY <1>0, <1>1 DEF WriterShape, InProgress, Ordered
<1>3. LockHeld'
  <2> SUFFICES ASSUME Ordered, NEW w \in Writers, InProgress(w)'
               PROVE  /\ start'[w] = head'
                      /\ topology = "PerNode" => ProcOf[w] = Owner /\ local'[Owner] = w
                      /\ topology = "SharedOrdered" => flock' = w
    BY DEF LockHeld, Ordered
  <2>1. ProcOf[w] # p /\ InProgress(w)
    BY <1>1 DEF InProgress
  <2>2. head' = head /\ start'[w] = start[w]
    BY <1>1, <2>1 DEF Crash, laneVars
  <2>3. topology = "PerNode" => ProcOf[w] = Owner /\ local'[Owner] = w
    BY <1>0, <2>1, OwnerAssumption DEF Crash, LockHeld, WriterType
  <2>4. topology = "SharedOrdered" => flock' = w
    BY <1>0, <2>1 DEF Crash, LockHeld
  <2> QED BY <1>0, <2>1, <2>2, <2>3, <2>4 DEF LockHeld
<1> QED BY <1>2, <1>3 DEF WriterInv

-----------------------------------------------------------------------------
(***************************************************************************)
(* The slots of an ordered lane                                            *)
(***************************************************************************)

\* What a step of write_slot does: it touches the slot of a counter that is
\* not published yet, and leaves a sequence word of that counter there.
LEMMA SlotWrite ==
    ASSUME TypeOK, WriterInv, FillInv, Ordered, NEW w \in Writers,
           MarkWriting(w) \/ StorePart(w) \/ Commit(w)
    PROVE  /\ ctr[w] \in Nat /\ head <= ctr[w]
           /\ \A i \in 0 .. Capacity - 1 :
                 i # SlotOf(ctr[w]) => slot'[i] = slot[i]
           /\ slot'[SlotOf(ctr[w])].seq \in {Writing(ctr[w]), Committed(ctr[w])}
           /\ slot'[SlotOf(ctr[w])].id \in {slot[SlotOf(ctr[w])].id, ctr[w]}
           /\ UNCHANGED <<head, log>>
<1>1. ctr[w] \in Nat /\ head <= ctr[w]
  BY DEF TypeOK, WriterType, WriterInv, WriterShape, LockHeld, InProgress,
     MarkWriting, StorePart, Commit
<1>2. SlotOf(ctr[w]) \in 0 .. Capacity - 1 BY <1>1, SlotInLane
<1>3. slot \in [0 .. Capacity - 1 -> [seq : Nat, id : Nat, body : Bodies]]
  BY DEF TypeOK, LaneType
<1>4. CASE MarkWriting(w)
  BY <1>1, <1>2, <1>3, <1>4 DEF MarkWriting
<1>5. CASE StorePart(w)
  <2>1. slot[SlotOf(ctr[w])].seq = Writing(ctr[w])
    BY <1>5 DEF StorePart, FillInv, Seq
  <2>2. PICK p \in unwritten[w] :
           slot' = [slot EXCEPT ![SlotOf(ctr[w])] =
                      IF p = "id" THEN [@ EXCEPT !.id = ctr[w]]
                      ELSE [@ EXCEPT !.body = Body(w, ctr[w])]]
    BY <1>5 DEF StorePart
  <2>3. CASE p = "id"
    BY <1>1, <1>2, <1>3, <1>5, <2>1, <2>2, <2>3 DEF StorePart
  <2>4. CASE p # "id"
    BY <1>1, <1>2, <1>3, <1>5, <2>1, <2>2, <2>4 DEF StorePart
  <2> QED BY <2>3, <2>4
<1>6. CASE Commit(w)
  BY <1>1, <1>2, <1>3, <1>6 DEF Commit
<1> QED BY <1>4, <1>5, <1>6

\* The odd marker leaves the lane in shape.
LEMMA MarkKeepsLane ==
    ASSUME TypeOK, WriterInv, LaneState, NEW w \in Writers, MarkWriting(w),
           UNCHANGED topology
    PROVE  LaneState'
<1> SUFFICES ASSUME Ordered PROVE LaneState'
  BY DEF LaneState, SlotShape, LaneInv, BatchInv, FillInv, Ordered
<1>0. SlotShape /\ LaneInv /\ BatchInv /\ FillInv /\ Ordered'
      /\ LaneType /\ WriterType /\ WriterShape /\ LockHeld
  BY DEF LaneState, Ordered, TypeOK, WriterInv
<1>1. /\ ctr[w] \in Nat /\ head <= ctr[w] /\ head' = head /\ log' = log
      /\ \A i \in 0 .. Capacity - 1 :
            i # SlotOf(ctr[w]) => slot'[i] = slot[i]
  BY <1>0, SlotWrite
<1>2. /\ slot'[SlotOf(ctr[w])].seq = Writing(ctr[w])
      /\ wpc'[w] = "fill" /\ ctr' = ctr /\ start' = start /\ crashes' = crashes
      /\ InProgress(w) /\ unwritten'[w] = {"id", "body"}
      /\ \A v \in Writers : v # w => wpc'[v] = wpc[v] /\ ~InProgress(v)
  BY <1>0, <1>1, SlotInLane, OneWriter
     DEF MarkWriting, LaneType, WriterType, InProgress, lockVars, Parts
<1>3. SlotShape'
  BY <1>0, <1>1, <1>2, SeqWords DEF SlotShape, LaneType
<1>4. LaneInv'
  <2> SUFFICES ASSUME NEW c \in 0 .. head - 1
               PROVE  /\ Seq(c)' >= Committed(c)
                      /\ Seq(c)' = Committed(c) =>
                            slot'[SlotOf(c)].body = log[c]
    BY <1>1 DEF LaneInv
  <2>0. head \in Nat BY <1>0 DEF LaneType
  <2>1. c \in Nat /\ c < ctr[w] /\ SlotOf(c) \in 0 .. Capacity - 1
    BY <1>1, <2>0, SlotInLane
  <2>2. CASE SlotOf(c) = SlotOf(ctr[w])
    BY <1>1, <1>2, <2>1, <2>2, SeqWords DEF Seq
  <2>3. CASE SlotOf(c) # SlotOf(ctr[w])
    BY <1>0, <1>1, <2>1, <2>3 DEF LaneInv, Seq
  <2> QED BY <2>2, <2>3
<1>5. BatchInv'
  <2> SUFFICES ASSUME NEW c \in start[w] .. ctr[w] - 1
               PROVE  /\ Seq(c)' >= Committed(c)
                      /\ Seq(c)' = Committed(c) =>
                            slot'[SlotOf(c)].body = Body(w, c)
    BY <1>2 DEF BatchInv, InProgress, Body
  <2>1. c \in Nat /\ c < ctr[w] /\ SlotOf(c) \in 0 .. Capacity - 1
    BY <1>0, <1>1, SlotInLane DEF WriterType
  <2>2. CASE SlotOf(c) = SlotOf(ctr[w])
    BY <1>1, <1>2, <2>1, <2>2, SeqWords DEF Seq
  <2>3. CASE SlotOf(c) # SlotOf(ctr[w])
    BY <1>0, <1>1, <1>2, <2>1, <2>3 DEF BatchInv, Seq
  <2> QED BY <2>2, <2>3
<1>6. FillInv'
  BY <1>1, <1>2 DEF FillInv, Seq, InProgress
<1> QED BY <1>3, <1>4, <1>5, <1>6 DEF LaneState

\* A content store touches a slot whose sequence is odd.
LEMMA StoreKeepsLane ==
    ASSUME TypeOK, WriterInv, LaneState, NEW w \in Writers, StorePart(w),
           UNCHANGED topology
    PROVE  LaneState'
<1> SUFFICES ASSUME Ordered PROVE LaneState'
  BY DEF LaneState, SlotShape, LaneInv, BatchInv, FillInv, Ordered
<1>0. SlotShape /\ LaneInv /\ BatchInv /\ FillInv /\ Ordered'
      /\ LaneType /\ WriterType /\ WriterShape /\ LockHeld
  BY DEF LaneState, Ordered, TypeOK, WriterInv
<1>1. /\ ctr[w] \in Nat /\ head <= ctr[w] /\ head' = head /\ log' = log
      /\ \A i \in 0 .. Capacity - 1 :
            i # SlotOf(ctr[w]) => slot'[i] = slot[i]
  BY <1>0, SlotWrite
<1>2. /\ wpc' = wpc /\ ctr' = ctr /\ start' = start /\ crashes' = crashes
      /\ wpc[w] = "fill" /\ InProgress(w)
      /\ \A v \in Writers : v # w => ~InProgress(v)
  BY <1>0, OneWriter DEF StorePart, InProgress, lockVars
<1>3. PICK p \in unwritten[w] :
         /\ slot' = [slot EXCEPT ![SlotOf(ctr[w])] =
                        IF p = "id" THEN [@ EXCEPT !.id = ctr[w]]
                        ELSE [@ EXCEPT !.body = Body(w, ctr[w])]]
         /\ unwritten' = [unwritten EXCEPT ![w] = @ \ {p}]
  BY DEF StorePart
<1>4. SlotOf(ctr[w]) \in 0 .. Capacity - 1 BY <1>1, SlotInLane
<1>5. /\ slot'[SlotOf(ctr[w])].seq = Writing(ctr[w])
      /\ "id" \notin unwritten'[w] => slot'[SlotOf(ctr[w])].id = ctr[w]
      /\ "body" \notin unwritten'[w] =>
            slot'[SlotOf(ctr[w])].body = Body(w, ctr[w])
  <2>1. slot[SlotOf(ctr[w])] \in [seq : Nat, id : Nat, body : Bodies]
        /\ unwritten'[w] = unwritten[w] \ {p} /\ p \in {"id", "body"}
    BY <1>0, <1>3, <1>4 DEF LaneType, WriterType, Parts
  <2>2. slot'[SlotOf(ctr[w])] =
            IF p = "id" THEN [slot[SlotOf(ctr[w])] EXCEPT !.id = ctr[w]]
            ELSE [slot[SlotOf(ctr[w])] EXCEPT !.body = Body(w, ctr[w])]
    BY <1>0, <1>3, <1>4 DEF LaneType
  <2>3. /\ slot[SlotOf(ctr[w])].seq = Writing(ctr[w])
        /\ "id" \notin unwritten[w] => slot[SlotOf(ctr[w])].id = ctr[w]
        /\ "body" \notin unwritten[w] =>
              slot[SlotOf(ctr[w])].body = Body(w, ctr[w])
    BY <1>0, <1>2 DEF FillInv, Seq
  <2>4. CASE p = "id" BY <2>1, <2>2, <2>3, <2>4
  <2>5. CASE p = "body" BY <2>1, <2>2, <2>3, <2>5
  <2> QED BY <2>1, <2>4, <2>5
<1>6. SlotShape'
  BY <1>0, <1>1, <1>5, SeqWords DEF SlotShape, LaneType
<1>7. LaneInv'
  <2> SUFFICES ASSUME NEW c \in 0 .. head - 1
               PROVE  /\ Seq(c)' >= Committed(c)
                      /\ Seq(c)' = Committed(c) =>
                            slot'[SlotOf(c)].body = log[c]
    BY <1>1 DEF LaneInv
  <2>0. head \in Nat BY <1>0 DEF LaneType
  <2>1. c \in Nat /\ c < ctr[w] /\ SlotOf(c) \in 0 .. Capacity - 1
    BY <1>1, <2>0, SlotInLane
  <2>2. CASE SlotOf(c) = SlotOf(ctr[w])
    BY <1>1, <1>5, <2>1, <2>2, SeqWords DEF Seq
  <2>3. CASE SlotOf(c) # SlotOf(ctr[w])
    BY <1>0, <1>1, <2>1, <2>3 DEF LaneInv, Seq
  <2> QED BY <2>2, <2>3
<1>8. BatchInv'
  <2> SUFFICES ASSUME NEW c \in start[w] .. ctr[w] - 1
               PROVE  /\ Seq(c)' >= Committed(c)
                      /\ Seq(c)' = Committed(c) =>
                            slot'[SlotOf(c)].body = Body(w, c)
    BY <1>2 DEF BatchInv, InProgress, Body
  <2>1. c \in Nat /\ c < ctr[w] /\ SlotOf(c) \in 0 .. Capacity - 1
    BY <1>0, <1>1, SlotInLane DEF WriterType
  <2>2. CASE SlotOf(c) = SlotOf(ctr[w])
    BY <1>1, <1>5, <2>1, <2>2, SeqWords DEF Seq
  <2>3. CASE SlotOf(c) # SlotOf(ctr[w])
    BY <1>0, <1>1, <1>2, <2>1, <2>3 DEF BatchInv, Seq
  <2> QED BY <2>2, <2>3
<1>9. FillInv'
  BY <1>1, <1>2, <1>5 DEF FillInv, Seq, InProgress, Body
<1> QED BY <1>6, <1>7, <1>8, <1>9 DEF LaneState

\* The committed sequence is stored over a slot that holds its frame.
LEMMA CommitKeepsLane ==
    ASSUME TypeOK, WriterInv, LaneState, NEW w \in Writers, Commit(w),
           UNCHANGED topology
    PROVE  LaneState'
<1> SUFFICES ASSUME Ordered PROVE LaneState'
  BY DEF LaneState, SlotShape, LaneInv, BatchInv, FillInv, Ordered
<1>0. SlotShape /\ LaneInv /\ BatchInv /\ FillInv /\ Ordered'
      /\ LaneType /\ WriterType /\ WriterShape /\ LockHeld
  BY DEF LaneState, Ordered, TypeOK, WriterInv
<1>1. /\ ctr[w] \in Nat /\ head <= ctr[w] /\ head' = head /\ log' = log
      /\ \A i \in 0 .. Capacity - 1 :
            i # SlotOf(ctr[w]) => slot'[i] = slot[i]
  BY <1>0, SlotWrite
<1>2. /\ start' = start /\ crashes' = crashes /\ InProgress(w)
      /\ ctr'[w] = ctr[w] + 1 /\ wpc'[w] \in {"mark", "publish"}
      /\ \A v \in Writers : v # w => wpc'[v] = wpc[v] /\ ~InProgress(v)
  BY <1>0, OneWriter DEF Commit, InProgress, lockVars, Ordered, WriterType
<1>3. SlotOf(ctr[w]) \in 0 .. Capacity - 1 BY <1>1, SlotInLane
<1>4. /\ slot'[SlotOf(ctr[w])].seq = Committed(ctr[w])
      /\ slot'[SlotOf(ctr[w])].id = ctr[w]
      /\ slot'[SlotOf(ctr[w])].body = Body(w, ctr[w])
  BY <1>0, <1>3 DEF Commit, FillInv, LaneType
<1>5. SlotShape'
  BY <1>0, <1>1, <1>4, SeqWords DEF SlotShape, LaneType
<1>6. LaneInv'
  <2> SUFFICES ASSUME NEW c \in 0 .. head - 1
               PROVE  /\ Seq(c)' >= Committed(c)
                      /\ Seq(c)' = Committed(c) =>
                            slot'[SlotOf(c)].body = log[c]
    BY <1>1 DEF LaneInv
  <2>0. head \in Nat BY <1>0 DEF LaneType
  <2>1. c \in Nat /\ c < ctr[w] /\ SlotOf(c) \in 0 .. Capacity - 1
    BY <1>1, <2>0, SlotInLane
  <2>2. CASE SlotOf(c) = SlotOf(ctr[w])
    BY <1>1, <1>4, <2>1, <2>2, SeqWords DEF Seq
  <2>3. CASE SlotOf(c) # SlotOf(ctr[w])
    BY <1>0, <1>1, <2>1, <2>3 DEF LaneInv, Seq
  <2> QED BY <2>2, <2>3
<1>7. BatchInv'
  <2> SUFFICES ASSUME NEW c \in start[w] .. ctr[w]
               PROVE  /\ Seq(c)' >= Committed(c)
                      /\ Seq(c)' = Committed(c) =>
                            slot'[SlotOf(c)].body = Body(w, c)
    BY <1>1, <1>2 DEF BatchInv, InProgress, Body
  <2>0. start[w] \in Nat BY <1>0 DEF WriterType
  <2>1. c \in Nat /\ c <= ctr[w] /\ SlotOf(c) \in 0 .. Capacity - 1
    BY <1>1, <2>0, SlotInLane
  <2>2. CASE c = ctr[w]
    BY <1>1, <1>4, <2>2, SeqWords DEF Seq
  <2>3. CASE c < ctr[w] /\ SlotOf(c) = SlotOf(ctr[w])
    BY <1>1, <1>4, <2>1, <2>3, SeqWords DEF Seq
  <2>4. CASE c < ctr[w] /\ SlotOf(c) # SlotOf(ctr[w])
    <3>1. c \in start[w] .. ctr[w] - 1 BY <1>1, <2>0, <2>1, <2>4
    <3> QED BY <1>0, <1>1, <1>2, <2>1, <2>4, <3>1 DEF BatchInv, Seq
  <2> QED BY <1>1, <2>1, <2>2, <2>3, <2>4
<1>8. FillInv'
  BY <1>2 DEF FillInv, InProgress
<1> QED BY <1>5, <1>6, <1>7, <1>8 DEF LaneState

\* The head store publishes what the batch has committed.
LEMMA PublishKeepsLane ==
    ASSUME TypeOK, WriterInv, LaneState, NEW w \in Writers, Publish(w),
           UNCHANGED topology
    PROVE  LaneState'
<1> SUFFICES ASSUME Ordered PROVE LaneState'
  BY DEF LaneState, SlotShape, LaneInv, BatchInv, FillInv, Ordered
<1>0. SlotShape /\ LaneInv /\ BatchInv /\ FillInv /\ Ordered'
      /\ LaneType /\ WriterType /\ WriterShape /\ LockHeld
  BY DEF LaneState, Ordered, TypeOK, WriterInv
<1>1. InProgress(w) /\ start[w] = head /\ ctr[w] = head + num[w]
      /\ num[w] \in Nat /\ head \in Nat
  BY <1>0 DEF Publish, InProgress, LockHeld, WriterShape, LaneType, WriterType
<1>2. \A v \in Writers : ~InProgress(v)'
  BY <1>0, <1>1, OneWriter DEF Publish, WriterReturns, InProgress, WriterType
<1>3. /\ slot' = slot /\ head' = head + num[w]
      /\ \A c \in 0 .. head - 1 : log'[c] = log[c]
      /\ \A c \in head .. head + num[w] - 1 : log'[c] = Body(w, c)
  BY <1>0, <1>1, ExtendedLog DEF Publish
<1>4. SlotShape' BY <1>0, <1>3 DEF SlotShape
<1>5. LaneInv'
  <2> SUFFICES ASSUME NEW c \in 0 .. head + num[w] - 1
               PROVE  /\ Seq(c) >= Committed(c)
                      /\ Seq(c) = Committed(c) =>
                            slot[SlotOf(c)].body = log'[c]
    BY <1>1, <1>3 DEF LaneInv, Seq
  <2>1. CASE c < head
    <3>1. c \in 0 .. head - 1 BY <1>1, <2>1
    <3>2. log'[c] = log[c] BY <1>3, <3>1
    <3> QED BY <1>0, <3>1, <3>2 DEF LaneInv
  <2>2. CASE c >= head
    <3>1. c \in head .. head + num[w] - 1 /\ c \in start[w] .. ctr[w] - 1
      BY <1>1, <2>2
    <3>2. log'[c] = Body(w, c) BY <1>3, <3>1
    <3> QED BY <1>0, <1>1, <3>1, <3>2 DEF BatchInv
  <2> QED BY <1>1, <2>1, <2>2
<1>6. BatchInv' BY <1>2 DEF BatchInv
<1>7. FillInv' BY <1>2 DEF FillInv, InProgress
<1> QED BY <1>4, <1>5, <1>6, <1>7 DEF LaneState

\* The steps that take the lock, or fail to, begin with an empty batch.
LEMMA LockKeepsLane ==
    ASSUME TypeOK, WriterInv, LaneState, NEW w \in Writers,
           \/ Claim(w) \/ LockLane(w) \/ LockLocal(w) \/ LockRegion(w)
           \/ LockRegionFails(w),
           UNCHANGED topology
    PROVE  LaneState'
<1> SUFFICES ASSUME Ordered PROVE LaneState'
  BY DEF LaneState, SlotShape, LaneInv, BatchInv, FillInv, Ordered
<1>0. SlotShape /\ LaneInv /\ BatchInv /\ FillInv /\ LaneType /\ WriterType
      /\ WriterShape
  BY DEF LaneState, TypeOK, WriterInv
<1>1. UNCHANGED <<laneVars, crashes>>
  BY DEF Claim, LockLane, LockLocal, LockRegion, LockRegionFails, Ordered
<1>2. SlotShape' /\ LaneInv'
  BY <1>0, <1>1 DEF SlotShape, LaneInv, Seq, laneVars
<1>3. \A v \in Writers \ {w} : wpc'[v] = wpc[v] /\ start'[v] = start[v]
                             /\ ctr'[v] = ctr[v] /\ unwritten'[v] = unwritten[v]
  BY <1>0 DEF Claim, LockLane, LockLocal, LockRegion, LockRegionFails, LoadHead,
     WriterReturns, Ordered, WriterType
<1>4. wpc'[w] # "fill" /\ (InProgress(w)' => start'[w] = head /\ ctr'[w] = head)
  BY <1>0 DEF Claim, LockLane, LockLocal, LockRegion, LockRegionFails, LoadHead,
     WriterReturns, Ordered, WriterType, InProgress
<1>5. head \in Nat BY <1>0 DEF LaneType
<1>6. FillInv'
  BY <1>0, <1>1, <1>3, <1>4 DEF FillInv, Seq, Body, laneVars
<1>7. BatchInv'
  <2> SUFFICES ASSUME NEW v \in Writers, InProgress(v)',
                      NEW c \in start'[v] .. ctr'[v] - 1
               PROVE  /\ Seq(c) >= Committed(c)
                      /\ Seq(c) = Committed(c) =>
                            slot[SlotOf(c)].body = Body(v, c)
    BY <1>1 DEF BatchInv, Seq, Body, laneVars
  <2>1. v # w BY <1>4, <1>5
  <2> QED BY <1>0, <1>3, <2>1 DEF BatchInv, InProgress
<1> QED BY <1>2, <1>6, <1>7 DEF LaneState

\* A crash leaves the slots as they are; its writers' batches are given up.
LEMMA CrashKeepsLane ==
    ASSUME TypeOK, WriterInv, LaneState, NEW p \in Procs, Crash(p),
           UNCHANGED topology
    PROVE  LaneState'
<1>0. SlotShape /\ LaneInv /\ BatchInv /\ FillInv /\ WriterType
  BY DEF LaneState, TypeOK
<1>1. UNCHANGED laneVars BY DEF Crash
<1>2. \A w \in Writers :
         /\ ProcOf[w] = p => wpc'[w] = "idle"
         /\ ProcOf[w] # p =>
               /\ wpc'[w] = wpc[w] /\ start'[w] = start[w] /\ ctr'[w] = ctr[w]
               /\ unwritten'[w] = unwritten[w]
               /\ crashes'[ProcOf[w]] = crashes[ProcOf[w]]
  BY <1>0, ProcAssumption DEF Crash, WriterType
<1>3. SlotShape' /\ LaneInv'
  BY <1>0, <1>1 DEF SlotShape, LaneInv, Seq, Ordered, laneVars
<1>4. FillInv'
  BY <1>0, <1>1, <1>2 DEF FillInv, Seq, Body, Ordered, laneVars
<1>5. BatchInv'
  BY <1>0, <1>1, <1>2 DEF BatchInv, Seq, Body, Ordered, InProgress, laneVars
<1> QED BY <1>3, <1>4, <1>5 DEF LaneState

-----------------------------------------------------------------------------
(***************************************************************************)
(* Readers                                                                 *)
(***************************************************************************)

\* What a writer may do to the slots of published counters: nothing, or give
\* them to a later counter.
Overwrites ==
    \A c \in 0 .. head - 1 :
        \/ slot'[SlotOf(c)] = slot[SlotOf(c)]
        \/ /\ slot'[SlotOf(c)].seq > Committed(c)
           /\ slot'[SlotOf(c)].id \in {slot[SlotOf(c)].id} \cup (Nat \ {c})

\* A step that overwrites like that, and only extends the history, disturbs no
\* reader.
LEMMA ReadersUndisturbed ==
    ASSUME TypeOK, ReaderInv, UNCHANGED <<topology, readerVars>>,
           head' \in Nat, head <= head',
           Ordered => \A c \in 0 .. head - 1 : log'[c] = log[c],
           Ordered => Overwrites
    PROVE  ReaderInv'
<1> SUFFICES ASSUME NEW r \in Readers
             PROVE  Shape(r)' /\ (Ordered => CopyInv(r)' /\ LossInv(r)' /\ WholeInv(r)')
  BY DEF ReaderInv, Ordered
<1>0. /\ head \in Nat /\ at[r] \in Nat /\ lim[r] \in Nat
      /\ lost[r] \in SUBSET Nat /\ over[r] \in SUBSET Nat
      /\ got[r] \in SUBSET Frames /\ res[r] \in Frames \cup {NoFrame}
      /\ \A f \in Frames : f.id \in Nat
      /\ Capacity \in Nat
  BY CapacityAssumption DEF TypeOK, LaneType, WalkType, FoundType, Frames
<1>a. Shape(r) /\ (Ordered => CopyInv(r) /\ LossInv(r) /\ WholeInv(r))
  BY DEF ReaderInv
<1>1. Shape(r)'
  BY <1>0, <1>a DEF Shape, readerVars
<1>2. ASSUME Ordered PROVE CopyInv(r)'
  <2>1. CASE rpc[r] = "idle"
    BY <2>1 DEF CopyInv, readerVars
  <2>2. CASE rpc[r] # "idle"
    <3>1. at[r] \in 0 .. head - 1
      BY <1>0, <1>a, <2>2 DEF Shape
    <3>2. log'[at[r]] = log[at[r]]
      BY <1>2, <3>1
    <3>3. CASE slot'[SlotOf(at[r])] = slot[SlotOf(at[r])]
      BY <1>2, <1>a, <3>2, <3>3 DEF CopyInv, Seq, readerVars
    <3>4. CASE /\ slot'[SlotOf(at[r])].seq > Committed(at[r])
               /\ slot'[SlotOf(at[r])].id \in
                     {slot[SlotOf(at[r])].id} \cup (Nat \ {at[r]})
      <4>1. Committed(at[r]) \in Nat BY <3>1, SeqWords
      <4> QED BY <1>2, <1>a, <3>4, <4>1 DEF CopyInv, Seq, readerVars
    <3> QED BY <1>2, <3>1, <3>3, <3>4 DEF Overwrites
  <2> QED BY <2>1, <2>2
<1>3. ASSUME Ordered PROVE LossInv(r)'
  <2>1. \A c \in over[r] : c + Capacity < head'
    BY <1>0, <1>3, <1>a DEF LossInv
  <2>2. ASSUME NEW c \in lost[r]
        PROVE  c < head' /\ Seq(c)' > Committed(c)
    <3>1. c \in Nat /\ c < head /\ Seq(c) > Committed(c)
      BY <1>0, <1>3, <1>a DEF LossInv
    <3>2. c \in 0 .. head - 1 BY <1>0, <3>1
    <3> QED BY <1>0, <1>3, <3>1, <3>2 DEF Overwrites, Seq
  <2> QED BY <2>1, <2>2 DEF LossInv, readerVars
<1>4. ASSUME Ordered PROVE WholeInv(r)'
  <2>1. ASSUME NEW f \in got[r] PROVE f.id < head' /\ f.body = log'[f.id]
    <3>1. f.id \in Nat /\ f.id < head /\ f.body = log[f.id]
      BY <1>0, <1>4, <1>a DEF WholeInv
    <3> QED BY <1>0, <1>4, <3>1
  <2>2. ASSUME op[r] = "id", res[r].ok
        PROVE  res[r].id < head' /\ res[r].body = log'[res[r].id]
    <3>1. res[r] \in Frames
      <4>1. NoFrame.ok = FALSE BY DEF NoFrame
      <4>2. res[r] # NoFrame BY <2>2, <4>1, Zenon
      <4> QED BY <1>0, <4>2
    <3>2. res[r].id \in Nat /\ res[r].id < head /\ res[r].body = log[res[r].id]
      BY <1>0, <1>4, <1>a, <2>2, <3>1 DEF WholeInv
    <3> QED BY <1>0, <1>4, <3>2
  <2> QED BY <2>1, <2>2 DEF WholeInv, readerVars
<1> QED BY <1>1, <1>2, <1>3, <1>4

\* No step of a writer disturbs a reader.
LEMMA WriterKeepsReaders ==
    ASSUME IInv, NEW w \in Writers, WriterStep(w)
    PROVE  ReaderInv'
<1>0. /\ TypeOK /\ WriterInv /\ LaneState /\ ReaderInv /\ LaneType /\ WriterType
      /\ UNCHANGED topology /\ head \in Nat
  BY DEF IInv, TypeOK, WriterStep, LaneType
<1>1. CASE Claim(w)
  <2>1. \E n \in BatchSizes : head' = head + n BY <1>1 DEF Claim
  <2>2. head' \in Nat /\ head <= head' BY <1>0, <2>1, BatchAssumption
  <2>3. ~Ordered /\ UNCHANGED readerVars BY <1>1 DEF Claim, Ordered
  <2> QED BY <1>0, <2>2, <2>3, ReadersUndisturbed
<1>2. CASE LockLane(w) \/ LockLocal(w) \/ LockRegion(w) \/ LockRegionFails(w)
  <2>1. UNCHANGED <<laneVars, readerVars>>
    BY <1>2 DEF LockLane, LockLocal, LockRegion, LockRegionFails
  <2>2. Overwrites BY <2>1 DEF Overwrites, laneVars
  <2> QED BY <1>0, <2>1, <2>2, ReadersUndisturbed DEF laneVars
<1>3. CASE MarkWriting(w) \/ StorePart(w) \/ Commit(w)
  <2>1. UNCHANGED <<head, log, readerVars>>
    BY <1>3 DEF MarkWriting, StorePart, Commit
  <2>2. ASSUME Ordered PROVE Overwrites
    <3>1. /\ ctr[w] \in Nat /\ head <= ctr[w]
          /\ \A i \in 0 .. Capacity - 1 :
                i # SlotOf(ctr[w]) => slot'[i] = slot[i]
          /\ slot'[SlotOf(ctr[w])].seq \in {Writing(ctr[w]), Committed(ctr[w])}
          /\ slot'[SlotOf(ctr[w])].id \in {slot[SlotOf(ctr[w])].id, ctr[w]}
      BY <1>0, <1>3, <2>2, SlotWrite DEF LaneState
    <3> SUFFICES ASSUME NEW c \in 0 .. head - 1, SlotOf(c) = SlotOf(ctr[w])
                 PROVE  /\ slot'[SlotOf(c)].seq > Committed(c)
                        /\ slot'[SlotOf(c)].id \in
                              {slot[SlotOf(c)].id} \cup (Nat \ {c})
      BY <1>0, <3>1, SlotInLane DEF Overwrites
    <3>2. c \in Nat /\ c < ctr[w] BY <1>0, <3>1
    <3>3. Committed(c) < Writing(ctr[w]) /\ Committed(c) < Committed(ctr[w])
          /\ Committed(c) \in Nat
      BY <3>1, <3>2, SeqWords
    <3> QED BY <3>1, <3>2, <3>3
  <2> QED BY <1>0, <2>1, <2>2, ReadersUndisturbed
<1>4. CASE Publish(w)
  <2>1. start[w] = head /\ num[w] \in Nat
    BY <1>0, <1>4
       DEF Publish, WriterInv, WriterShape, LockHeld, InProgress, WriterType
  <2>2. head' \in Nat /\ head <= head' /\ slot' = slot /\ UNCHANGED readerVars
    BY <1>0, <1>4, <2>1 DEF Publish
  <2>3. \A c \in 0 .. head - 1 : log'[c] = log[c]
    BY <1>0, <1>4, <2>1, ExtendedLog DEF Publish
  <2>4. Overwrites BY <2>2 DEF Overwrites
  <2> QED BY <1>0, <2>2, <2>3, <2>4, ReadersUndisturbed
<1> QED BY <1>1, <1>2, <1>3, <1>4 DEF WriterStep

\* Neither does a crash.
LEMMA CrashKeepsReaders ==
    ASSUME IInv, NEW p \in Procs, Crash(p), UNCHANGED topology
    PROVE  ReaderInv'
<1>1. TypeOK /\ ReaderInv /\ head \in Nat /\ UNCHANGED <<laneVars, readerVars>>
  BY DEF IInv, TypeOK, LaneType, Crash
<1>2. Overwrites BY <1>1 DEF Overwrites, laneVars
<1> QED BY <1>1, <1>2, ReadersUndisturbed DEF laneVars

\* A reader's step concerns nobody but the reader.
LEMMA OtherReaders ==
    ASSUME TypeOK, NEW r \in Readers, NEW q \in Readers, q # r, ReaderStep(r)
    PROVE  /\ rpc'[q] = rpc[q] /\ op'[q] = op[q] /\ at'[q] = at[q]
           /\ lim'[q] = lim[q] /\ tries'[q] = tries[q] /\ pre'[q] = pre[q]
           /\ unread'[q] = unread[q] /\ buf'[q] = buf[q] /\ got'[q] = got[q]
           /\ over'[q] = over[q] /\ lost'[q] = lost[q] /\ res'[q] = res[q]
<1>0. WalkType /\ CopyType /\ FoundType BY DEF TypeOK
<1> USE <1>0 DEF WalkType, CopyType, FoundType
<1>1. CASE SubscribeAtHead(r) BY <1>1 DEF SubscribeAtHead
<1>2. CASE PollNothing(r) BY <1>2 DEF PollNothing
<1>3. CASE PollStart(r) BY <1>3 DEF PollStart
<1>4. CASE ProbePending(r) BY <1>4 DEF ProbePending, ReaderReturns
<1>5. CASE ProbeUnavailable(r)
  BY <1>5 DEF ProbeUnavailable, Advance, ReaderReturns
<1>6. CASE ProbeCommitted(r) BY <1>6 DEF ProbeCommitted
<1>7. CASE DirectStart(r) BY <1>7 DEF DirectStart
<1>8. CASE ReadPre(r) BY <1>8 DEF ReadPre, Retry, ReaderReturns
<1>9. CASE LoadPart(r) BY <1>9 DEF LoadPart
<1>10. CASE ReadTorn(r) BY <1>10 DEF ReadTorn, Retry, ReaderReturns, DropCopy
<1>11. CASE WalkReady(r)
  BY <1>11 DEF WalkReady, Advance, ReaderReturns, DropCopy
<1>12. CASE DirectReady(r) BY <1>12 DEF DirectReady, ReaderReturns, DropCopy
<1> QED BY <1>1, <1>2, <1>3, <1>4, <1>5, <1>6, <1>7, <1>8, <1>9, <1>10, <1>11,
           <1>12 DEF ReaderStep

\* A reader's step leaves the lane alone.
LEMMA ReaderLeavesLane ==
    ASSUME NEW r \in Readers, ReaderStep(r)
    PROVE  UNCHANGED <<topology, laneVars, lockVars, writerVars>>
BY DEF ReaderStep, SubscribeAtHead, PollNothing, PollStart, ProbePending,
   ProbeUnavailable, ProbeCommitted, DirectStart, ReadPre, LoadPart, ReadTorn,
   WalkReady, DirectReady

\* A reader that returns is in shape.
LEMMA IdleReader ==
    ASSUME NEW r \in Readers, rpc'[r] = "idle"
    PROVE  Shape(r)' /\ CopyInv(r)'
BY DEF Shape, CopyInv

\* A walk that goes on is in shape.
LEMMA AdvancingReader ==
    ASSUME TypeOK, NEW r \in Readers, Shape(r), rpc[r] # "idle", op[r] = "poll",
           Advance(r), UNCHANGED <<head, op>>
    PROVE  Shape(r)' /\ CopyInv(r)'
<1>0. WalkType /\ head \in Nat BY DEF TypeOK, LaneType
<1>1. CASE at[r] + 1 < lim[r]
  <2>1. rpc'[r] = "probe" /\ at'[r] = at[r] + 1 /\ tries'[r] = 0 /\ lim'[r] = lim[r]
        /\ at[r] \in Nat /\ lim[r] \in Nat
    BY <1>0, <1>1 DEF Advance, WalkType
  <2> QED BY <1>0, <1>1, <2>1 DEF Shape, CopyInv
<1>2. CASE ~(at[r] + 1 < lim[r])
  <2>1. rpc'[r] = "idle" BY <1>0, <1>2 DEF Advance, ReaderReturns, WalkType
  <2> QED BY <2>1, IdleReader
<1> QED BY <1>1, <1>2

\* In an ordered lane the sequence word of a counter below the head has reached
\* that counter, and an even one names what the slot holds.
LEMMA ProbedSeq ==
    ASSUME TypeOK, LaneState, Ordered, NEW r \in Readers, Shape(r),
           rpc[r] # "idle"
    PROVE  /\ at[r] \in Nat /\ SeqAt(r) \in Nat /\ Committed(at[r]) \in Nat
           /\ Seq(at[r]) = SeqAt(r) /\ SeqAt(r) >= Committed(at[r])
           /\ SeqAt(r) = Committed(at[r]) =>
                 /\ slot[SlotOf(at[r])].body = log[at[r]]
                 /\ slot[SlotOf(at[r])].id = at[r]
           /\ SeqAt(r) # 0 /\ SeqAt(r) % 2 # 1 =>
                 SeqAt(r) = Committed(slot[SlotOf(at[r])].id)
<1>1. at[r] \in Nat /\ head \in Nat /\ at[r] < head
  BY DEF TypeOK, LaneType, WalkType, Shape
<1>2. SlotOf(at[r]) \in 0 .. Capacity - 1 BY <1>1, SlotInLane
<1>3. slot[SlotOf(at[r])].seq \in Nat /\ slot[SlotOf(at[r])].id \in Nat
  BY <1>2 DEF TypeOK, LaneType
<1>4. Seq(at[r]) >= Committed(at[r])
      /\ (Seq(at[r]) = Committed(at[r]) => slot[SlotOf(at[r])].body = log[at[r]])
  BY <1>1 DEF LaneState, LaneInv
<1>5. \/ SeqAt(r) = 0
      \/ \E k \in Nat : SeqAt(r) = Writing(k)
      \/ SeqAt(r) = Committed(slot[SlotOf(at[r])].id)
  BY <1>2 DEF LaneState, SlotShape, SeqAt
<1>6. SeqAt(r) = Committed(at[r]) => slot[SlotOf(at[r])].id = at[r]
  BY <1>1, <1>3, <1>5, SeqWords
<1>7. SeqAt(r) # 0 /\ SeqAt(r) % 2 # 1 =>
         SeqAt(r) = Committed(slot[SlotOf(at[r])].id)
  BY <1>5, SeqWords
<1>8. Committed(at[r]) \in Nat BY <1>1, SeqWords
<1> QED BY <1>1, <1>3, <1>4, <1>6, <1>7, <1>8 DEF Seq, SeqAt

\* The steps of a walk between polls and in front of a probe.
LEMMA WalkKeepsReader ==
    ASSUME IInv, NEW r \in Readers, ReaderStep(r),
           \/ SubscribeAtHead(r) \/ PollNothing(r) \/ PollStart(r)
           \/ ProbePending(r) \/ ProbeUnavailable(r) \/ ProbeCommitted(r)
           \/ DirectStart(r)
    PROVE  Shape(r)' /\ (Ordered => CopyInv(r)' /\ LossInv(r)' /\ WholeInv(r)')
<1>0. /\ TypeOK /\ LaneState /\ LaneType /\ WalkType /\ CopyType /\ FoundType
      /\ Shape(r) /\ (Ordered => CopyInv(r) /\ LossInv(r) /\ WholeInv(r))
      /\ UNCHANGED laneVars /\ head \in Nat /\ Retries = 3
  BY ReaderLeavesLane DEF IInv, TypeOK, LaneType, ReaderInv, Retries
<1>1. CASE SubscribeAtHead(r)
  BY <1>0, <1>1
     DEF SubscribeAtHead, Shape, CopyInv, LossInv, WholeInv, Seq, laneVars
<1>2. CASE PollNothing(r)
  BY <1>0, <1>2
     DEF PollNothing, Shape, CopyInv, LossInv, WholeInv, Seq, laneVars
<1>3. CASE PollStart(r)
  <2>1. Floor(head) \in Nat /\ Floor(head) < head
    BY <1>0, <1>3, CapacityAssumption DEF Floor, PollStart, WalkType
  <2>2. /\ rpc'[r] = "probe" /\ lim'[r] = head /\ tries'[r] = 0 /\ op' = op
        /\ at'[r] = IF cursor[r] < Floor(head) THEN Floor(head) ELSE cursor[r]
        /\ over'[r] = over[r] \cup Skipped(cursor[r], head)
        /\ cursor[r] < head /\ op[r] = "poll" /\ cursor[r] \in Nat
    BY <1>0, <1>3 DEF PollStart, WalkType, FoundType
  <2>3. Shape(r)' BY <1>0, <2>1, <2>2 DEF Shape, laneVars
  <2>4. CopyInv(r)' BY <2>2 DEF CopyInv
  <2>5. ASSUME Ordered PROVE LossInv(r)' /\ WholeInv(r)'
    <3>1. \A c \in Skipped(cursor[r], head) : c + Capacity < head
      BY <1>0, CapacityAssumption DEF Skipped, Floor
    <3> QED
      BY <1>0, <1>3, <2>2, <2>5, <3>1
         DEF PollStart, LossInv, WholeInv, Seq, laneVars
  <2> QED BY <2>3, <2>4, <2>5
<1>4. CASE ProbePending(r)
  <2>1. rpc'[r] = "idle" BY <1>0, <1>4 DEF ProbePending, ReaderReturns, WalkType
  <2>2. ~Ordered BY <1>4 DEF ProbePending, Ordered
  <2> QED BY <2>1, <2>2, IdleReader
<1>5. CASE ProbeUnavailable(r)
  <2>1. rpc[r] = "probe" /\ op[r] = "poll" /\ op' = op /\ Advance(r)
    BY <1>0, <1>5 DEF ProbeUnavailable, Shape
  <2>2. Shape(r)' /\ CopyInv(r)'
    BY <1>0, <2>1, AdvancingReader DEF laneVars
  <2>3. ASSUME Ordered PROVE LossInv(r)' /\ WholeInv(r)'
    <3>1. SeqAt(r) > Committed(at[r])
      BY <1>0, <1>5, <2>1, <2>3, ProbedSeq
         DEF ProbeUnavailable, CopyInv, Ordered
    <3>2. at[r] < head /\ Seq(at[r]) > Committed(at[r])
      BY <1>0, <2>1, <2>3, <3>1, ProbedSeq DEF Shape
    <3>3. lost'[r] = lost[r] \cup {at[r]}
      BY <1>0, <1>5 DEF ProbeUnavailable, FoundType
    <3> QED
      BY <1>0, <1>5, <2>3, <3>2, <3>3
         DEF ProbeUnavailable, LossInv, WholeInv, Seq, laneVars
  <2> QED BY <2>2, <2>3
<1>6. CASE ProbeCommitted(r)
  <2>1. rpc'[r] = "pre" /\ rpc[r] = "probe" /\ op[r] = "poll"
    BY <1>0, <1>6 DEF ProbeCommitted, WalkType, Shape
  <2>2. Shape(r)'
    BY <1>0, <1>6, <2>1 DEF ProbeCommitted, Shape, laneVars
  <2>3. ASSUME Ordered PROVE CopyInv(r)' /\ LossInv(r)' /\ WholeInv(r)'
    BY <1>0, <1>6, <2>1, <2>3
       DEF ProbeCommitted, CopyInv, LossInv, WholeInv, Seq, laneVars
  <2> QED BY <2>2, <2>3
<1>7. CASE DirectStart(r)
  <2>1. PICK c \in 0 .. head - 1 : at' = [at EXCEPT ![r] = c]
    BY <1>7 DEF DirectStart
  <2>2. /\ rpc'[r] = "pre" /\ tries'[r] = 0 /\ op[r] # "poll" /\ op' = op
        /\ at'[r] = c /\ res'[r] = NoFrame
    BY <1>0, <1>7, <2>1 DEF DirectStart, WalkType, FoundType
  <2>3. Shape(r)' BY <1>0, <2>1, <2>2 DEF Shape, laneVars
  <2>4. CopyInv(r)' BY <2>2 DEF CopyInv
  <2>5. ASSUME Ordered PROVE LossInv(r)' /\ WholeInv(r)'
    BY <1>0, <1>7, <2>2, <2>5
       DEF DirectStart, LossInv, WholeInv, NoFrame, Seq, laneVars
  <2> QED BY <2>3, <2>4, <2>5
<1> QED BY <1>1, <1>2, <1>3, <1>4, <1>5, <1>6, <1>7

\* A content read that failed: in an ordered lane the slot has moved on for
\* good.
LEMMA RetryKeepsReader ==
    ASSUME TypeOK, NEW r \in Readers, Shape(r), rpc[r] \in {"pre", "load"},
           Retry(r), UNCHANGED <<laneVars, op>>,
           Ordered => Seq(at[r]) > Committed(at[r])
    PROVE  Shape(r)' /\ (Ordered => CopyInv(r)')
<1>0. WalkType /\ head \in Nat /\ Retries = 3 BY DEF TypeOK, LaneType, Retries
<1>1. CASE op[r] # "poll" /\ tries[r] + 1 = Retries
  <2>1. rpc'[r] = "idle" BY <1>0, <1>1 DEF Retry, ReaderReturns, WalkType
  <2> QED BY <2>1, IdleReader
<1>2. CASE ~(op[r] # "poll" /\ tries[r] + 1 = Retries)
  <2>1. /\ tries'[r] = tries[r] + 1 /\ tries[r] \in Nat
        /\ rpc'[r] = IF op[r] = "poll" THEN "probe" ELSE "pre"
        /\ at' = at /\ lim' = lim
    BY <1>0, <1>2 DEF Retry, WalkType
  <2>2. Shape(r)' BY <1>0, <1>2, <2>1 DEF Shape, laneVars
  <2>3. Ordered => CopyInv(r)'
    BY <2>1 DEF CopyInv, Seq, laneVars
  <2> QED BY <2>2, <2>3
<1> QED BY <1>1, <1>2

\* The steps of a content read.
LEMMA CopyKeepsReader ==
    ASSUME IInv, NEW r \in Readers, ReaderStep(r),
           \/ ReadPre(r) \/ LoadPart(r) \/ ReadTorn(r)
    PROVE  Shape(r)' /\ (Ordered => CopyInv(r)' /\ LossInv(r)' /\ WholeInv(r)')
<1>0. /\ TypeOK /\ LaneState /\ LaneType /\ WalkType /\ CopyType /\ FoundType
      /\ Shape(r) /\ (Ordered => CopyInv(r) /\ LossInv(r) /\ WholeInv(r))
      /\ UNCHANGED laneVars /\ head \in Nat /\ op' = op
  BY ReaderLeavesLane
     DEF IInv, TypeOK, LaneType, ReaderInv, ReadPre, LoadPart, ReadTorn
<1>1. Ordered => LossInv(r)' /\ WholeInv(r)'
  BY <1>0
     DEF ReadPre, LoadPart, ReadTorn, LossInv, WholeInv, Seq, laneVars
<1>2. CASE ReadPre(r)
  <2>1. CASE SeqAt(r) = 0 \/ SeqAt(r) % 2 = 1
    <3>1. ASSUME Ordered PROVE Seq(at[r]) > Committed(at[r])
      <4>1. SeqAt(r) # Committed(at[r])
        <5>1. at[r] \in Nat /\ Committed(at[r]) # 0
          BY <1>0, SeqWords DEF WalkType
        <5>2. Committed(at[r]) % 2 # 1 BY <5>1 DEF Committed
        <5> QED BY <2>1, <5>1, <5>2
      <4> QED BY <1>0, <1>2, <3>1, <4>1, ProbedSeq DEF ReadPre
    <3>2. Retry(r) /\ rpc[r] = "pre" BY <1>2, <2>1 DEF ReadPre
    <3> QED BY <1>0, <1>1, <3>1, <3>2, RetryKeepsReader
  <2>2. CASE ~(SeqAt(r) = 0 \/ SeqAt(r) % 2 = 1)
    <3>1. /\ pre'[r] = SeqAt(r) /\ unread'[r] = {"id", "body"}
          /\ rpc'[r] = "load" /\ rpc[r] = "pre" /\ tries' = tries /\ at' = at
          /\ lim' = lim
      BY <1>0, <1>2, <2>2 DEF ReadPre, Parts, WalkType, CopyType
    <3>2. Shape(r)' BY <1>0, <3>1 DEF Shape, laneVars
    <3>3. ASSUME Ordered PROVE CopyInv(r)'
      <4>1. /\ SeqAt(r) = Committed(slot[SlotOf(at[r])].id)
            /\ SeqAt(r) >= Committed(at[r]) /\ Seq(at[r]) = SeqAt(r)
            /\ SeqAt(r) \in Nat /\ Committed(at[r]) \in Nat
        BY <1>0, <2>2, <3>1, <3>3, ProbedSeq
      <4> QED
        BY <1>0, <3>1, <3>3, <4>1 DEF CopyInv, Seq, laneVars
    <3> QED BY <1>1, <3>2, <3>3
  <2> QED BY <2>1, <2>2
<1>3. CASE LoadPart(r)
  <2>1. PICK p \in unread[r] :
           /\ buf' = [buf EXCEPT ![r] =
                        IF p = "id"
                        THEN [@ EXCEPT !.id = slot[SlotOf(at[r])].id]
                        ELSE [@ EXCEPT !.body = slot[SlotOf(at[r])].body]]
           /\ unread' = [unread EXCEPT ![r] = @ \ {p}]
    BY <1>3 DEF LoadPart
  <2>2. /\ rpc[r] = "load" /\ rpc' = rpc /\ at' = at /\ lim' = lim
        /\ tries' = tries /\ pre' = pre /\ p \in {"id", "body"}
        /\ unread'[r] = unread[r] \ {p}
    BY <1>0, <1>3, <2>1 DEF LoadPart, CopyType, Parts
  <2>3. Shape(r)' BY <1>0, <2>2 DEF Shape, laneVars
  <2>4. /\ p = "id" => buf'[r].id = slot[SlotOf(at[r])].id
                       /\ buf'[r].body = buf[r].body
        /\ p = "body" => buf'[r].body = slot[SlotOf(at[r])].body
                         /\ buf'[r].id = buf[r].id
    BY <1>0, <2>1 DEF CopyType
  <2>5. ASSUME Ordered PROVE CopyInv(r)'
    <3>1. /\ Seq(at[r]) = SeqAt(r)
          /\ SeqAt(r) = Committed(at[r]) =>
                 /\ slot[SlotOf(at[r])].body = log[at[r]]
                 /\ slot[SlotOf(at[r])].id = at[r]
      BY <1>0, <2>2, <2>5, ProbedSeq
    <3> QED
      BY <1>0, <2>2, <2>4, <2>5, <3>1 DEF CopyInv, Seq, laneVars
  <2> QED BY <1>1, <2>3, <2>5
<1>4. CASE ReadTorn(r)
  <2>1. ASSUME Ordered PROVE Seq(at[r]) > Committed(at[r])
    BY <1>0, <1>4, <2>1, ProbedSeq DEF ReadTorn, Undisturbed, CopyInv
  <2>2. Retry(r) /\ rpc[r] = "load" BY <1>4 DEF ReadTorn
  <2> QED BY <1>0, <1>1, <2>1, <2>2, RetryKeepsReader
<1> QED BY <1>2, <1>3, <1>4

\* A copy whose sequence word did not move: it is the frame of the counter
\* asked for, or carries another counter because the slot has moved on.
LEMMA UndisturbedCopy ==
    ASSUME TypeOK, LaneState, Ordered, NEW r \in Readers, Shape(r), CopyInv(r),
           rpc[r] = "load", unread[r] = {}, Undisturbed(r)
    PROVE  /\ buf[r].id = at[r] => at[r] < head /\ buf[r].body = log[at[r]]
           /\ buf[r].id # at[r] => at[r] < head /\ Seq(at[r]) > Committed(at[r])
<1>1. at[r] < head /\ Seq(at[r]) = SeqAt(r) /\ SeqAt(r) = pre[r]
  BY ProbedSeq DEF Shape, Undisturbed
<1>2. pre[r] = Committed(at[r]) =>
         buf[r].id = at[r] /\ buf[r].body = log[at[r]]
  BY <1>1 DEF CopyInv
<1>3. pre[r] # Committed(at[r]) =>
         Seq(at[r]) > Committed(at[r]) /\ buf[r].id # at[r]
  BY DEF CopyInv
<1> QED BY <1>1, <1>2, <1>3

\* What a walk delivers or gives up at the end of a content read.
LEMMA WalkReadyKeepsReader ==
    ASSUME IInv, NEW r \in Readers, ReaderStep(r), WalkReady(r)
    PROVE  Shape(r)' /\ (Ordered => CopyInv(r)' /\ LossInv(r)' /\ WholeInv(r)')
<1>0. /\ TypeOK /\ LaneState /\ FoundType
      /\ Shape(r) /\ (Ordered => CopyInv(r) /\ LossInv(r) /\ WholeInv(r))
      /\ UNCHANGED laneVars /\ op' = op /\ res' = res /\ over' = over
      /\ rpc[r] = "load" /\ unread[r] = {} /\ op[r] = "poll" /\ Undisturbed(r)
      /\ Advance(r)
  BY ReaderLeavesLane DEF IInv, TypeOK, ReaderInv, WalkReady
<1>1. Shape(r)' /\ CopyInv(r)' BY <1>0, AdvancingReader DEF laneVars
<1>2. ASSUME Ordered PROVE LossInv(r)' /\ WholeInv(r)'
  <2>1. /\ buf[r].id = at[r] => at[r] < head /\ buf[r].body = log[at[r]]
        /\ buf[r].id # at[r] => at[r] < head /\ Seq(at[r]) > Committed(at[r])
    BY <1>0, <1>2, UndisturbedCopy
  <2>2. CASE buf[r].id = at[r]
    <3>1. got'[r] = got[r] \cup {FrameOf(at[r], buf[r].body)} /\ lost' = lost
      BY <1>0, <2>2 DEF WalkReady, FoundType
    <3>2. FrameOf(at[r], buf[r].body).id < head
          /\ FrameOf(at[r], buf[r].body).body = log[at[r]]
          /\ FrameOf(at[r], buf[r].body).id = at[r]
      BY <2>1, <2>2 DEF FrameOf
    <3>3. LossInv(r)' BY <1>0, <1>2, <3>1 DEF LossInv, Seq, laneVars
    <3>4. WholeInv(r)' BY <1>0, <1>2, <3>1, <3>2 DEF WholeInv, laneVars
    <3> QED BY <3>3, <3>4
  <2>3. CASE buf[r].id # at[r]
    <3>1. lost'[r] = lost[r] \cup {at[r]} /\ got' = got
      BY <1>0, <2>3 DEF WalkReady, FoundType
    <3>2. LossInv(r)' BY <1>0, <1>2, <2>1, <2>3, <3>1 DEF LossInv, Seq, laneVars
    <3>3. WholeInv(r)' BY <1>0, <1>2, <3>1 DEF WholeInv, laneVars
    <3> QED BY <3>2, <3>3
  <2> QED BY <2>2, <2>3
<1> QED BY <1>1, <1>2

\* What a direct read returns.
LEMMA DirectReadyKeepsReader ==
    ASSUME IInv, NEW r \in Readers, ReaderStep(r), DirectReady(r)
    PROVE  Shape(r)' /\ (Ordered => CopyInv(r)' /\ LossInv(r)' /\ WholeInv(r)')
<1>0. /\ TypeOK /\ LaneState /\ FoundType /\ WalkType
      /\ Shape(r) /\ (Ordered => CopyInv(r) /\ LossInv(r) /\ WholeInv(r))
      /\ UNCHANGED laneVars /\ op' = op /\ got' = got /\ over' = over
      /\ lost' = lost
      /\ rpc[r] = "load" /\ unread[r] = {} /\ Undisturbed(r)
  BY ReaderLeavesLane DEF IInv, TypeOK, ReaderInv, DirectReady
<1>1. rpc'[r] = "idle" BY <1>0 DEF DirectReady, ReaderReturns, WalkType
<1>2. Shape(r)' /\ CopyInv(r)' BY <1>1, IdleReader
<1>3. ASSUME Ordered PROVE LossInv(r)' /\ WholeInv(r)'
  <2>1. LossInv(r)' BY <1>0, <1>3 DEF LossInv, Seq, laneVars
  <2>2. op[r] = "id" /\ res'[r].ok =>
           res'[r].id < head /\ res'[r].body = log[res'[r].id]
    <3>1. res'[r] = IF op[r] = "head" \/ buf[r].id = at[r]
                    THEN FrameOf(buf[r].id, buf[r].body) ELSE NoFrame
      BY <1>0 DEF DirectReady, FoundType
    <3>2. buf[r].id = at[r] => at[r] < head /\ buf[r].body = log[at[r]]
      BY <1>0, <1>3, UndisturbedCopy
    <3> QED BY <3>1, <3>2 DEF FrameOf, NoFrame
  <2>3. WholeInv(r)' BY <1>0, <1>3, <2>2 DEF WholeInv, laneVars
  <2> QED BY <2>1, <2>3
<1> QED BY <1>2, <1>3

\* A step of a reader leaves what the invariant says of the writers and of the
\* lane as it is, and keeps what it says of the readers.
LEMMA ReaderKeepsReaders ==
    ASSUME IInv, NEW r \in Readers, ReaderStep(r)
    PROVE  ReaderInv'
<1>0. TypeOK /\ ReaderInv BY DEF IInv
<1>1. UNCHANGED <<topology, laneVars>> BY ReaderLeavesLane
<1>2. Ordered' <=> Ordered BY <1>1 DEF Ordered
<1>3. Shape(r)' /\ (Ordered => CopyInv(r)' /\ LossInv(r)' /\ WholeInv(r)')
  <2>1. CASE \/ SubscribeAtHead(r) \/ PollNothing(r) \/ PollStart(r)
             \/ ProbePending(r) \/ ProbeUnavailable(r) \/ ProbeCommitted(r)
             \/ DirectStart(r)
    BY <2>1, WalkKeepsReader
  <2>2. CASE ReadPre(r) \/ LoadPart(r) \/ ReadTorn(r)
    BY <2>2, CopyKeepsReader
  <2>3. CASE WalkReady(r) BY <2>3, WalkReadyKeepsReader
  <2>4. CASE DirectReady(r) BY <2>4, DirectReadyKeepsReader
  <2> QED BY <2>1, <2>2, <2>3, <2>4 DEF ReaderStep
<1>4. ASSUME NEW q \in Readers, q # r
      PROVE  Shape(q)' /\ (Ordered => CopyInv(q)' /\ LossInv(q)' /\ WholeInv(q)')
  <2>1. Shape(q) /\ (Ordered => CopyInv(q) /\ LossInv(q) /\ WholeInv(q))
    BY <1>0 DEF ReaderInv
  <2>2. /\ rpc'[q] = rpc[q] /\ op'[q] = op[q] /\ at'[q] = at[q]
        /\ lim'[q] = lim[q] /\ tries'[q] = tries[q] /\ pre'[q] = pre[q]
        /\ unread'[q] = unread[q] /\ buf'[q] = buf[q] /\ got'[q] = got[q]
        /\ over'[q] = over[q] /\ lost'[q] = lost[q] /\ res'[q] = res[q]
    BY <1>0, <1>4, OtherReaders
  <2>3. Shape(q)' BY <1>1, <2>1, <2>2 DEF Shape, laneVars
  <2>4. CopyInv(q) => CopyInv(q)' BY <1>1, <2>2 DEF CopyInv, Seq, laneVars
  <2>5. LossInv(q) => LossInv(q)' BY <1>1, <2>2 DEF LossInv, Seq, laneVars
  <2>6. WholeInv(q) => WholeInv(q)' BY <1>1, <2>2 DEF WholeInv, laneVars
  <2> QED BY <2>1, <2>3, <2>4, <2>5, <2>6
<1> QED BY <1>2, <1>3, <1>4 DEF ReaderInv

\* What the invariant says of the writers and of the lane holds on as long as
\* nothing of them changes.
LEMMA LaneUnchanged ==
    ASSUME WriterInv, LaneState,
           UNCHANGED <<topology, laneVars, lockVars, writerVars>>
    PROVE  WriterInv' /\ LaneState'
<1>1. WriterInv'
  BY DEF WriterInv, WriterShape, LockHeld, InProgress, Ordered, laneVars,
     lockVars, writerVars
<1>2. SlotShape' /\ LaneInv'
  BY DEF LaneState, SlotShape, LaneInv, Ordered, Seq, laneVars
<1>3. BatchInv' /\ FillInv'
  BY DEF LaneState, BatchInv, FillInv, InProgress, Ordered, Seq, Body, laneVars,
     lockVars, writerVars
<1> QED BY <1>1, <1>2, <1>3 DEF LaneState

-----------------------------------------------------------------------------
(***************************************************************************)
(* The theorems                                                            *)
(***************************************************************************)

\* Every step keeps the invariant.
LEMMA NextIInv == IInv /\ [Next]_vars => IInv'
<1> SUFFICES ASSUME IInv, [Next]_vars PROVE IInv' OBVIOUS
<1>0. TypeOK /\ WriterInv /\ LaneState /\ ReaderInv BY DEF IInv
<1>1. ASSUME NEW w \in Writers, WriterStep(w) PROVE IInv'
  <2>0. UNCHANGED topology BY <1>1 DEF WriterStep
  <2>1. TypeOK' BY <1>0, <1>1, WriterKeepsType
  <2>2. WriterInv' BY <1>0, <1>1, WriterKeepsWriterInv
  <2>3. LaneState'
    <3>1. CASE MarkWriting(w) BY <1>0, <2>0, <3>1, MarkKeepsLane
    <3>2. CASE StorePart(w) BY <1>0, <2>0, <3>2, StoreKeepsLane
    <3>3. CASE Commit(w) BY <1>0, <2>0, <3>3, CommitKeepsLane
    <3>4. CASE Publish(w) BY <1>0, <2>0, <3>4, PublishKeepsLane
    <3>5. CASE \/ Claim(w) \/ LockLane(w) \/ LockLocal(w) \/ LockRegion(w)
               \/ LockRegionFails(w)
      BY <1>0, <2>0, <3>5, LockKeepsLane
    <3> QED BY <1>1, <3>1, <3>2, <3>3, <3>4, <3>5 DEF WriterStep
  <2>4. ReaderInv' BY <1>1, WriterKeepsReaders
  <2> QED BY <2>1, <2>2, <2>3, <2>4 DEF IInv
<1>2. ASSUME NEW p \in Procs, Crash(p), UNCHANGED topology PROVE IInv'
  <2>1. TypeOK' BY <1>0, <1>2, CrashKeepsType
  <2>2. WriterInv' BY <1>0, <1>2, CrashKeepsWriterInv
  <2>3. LaneState' BY <1>0, <1>2, CrashKeepsLane
  <2>4. ReaderInv' BY <1>2, CrashKeepsReaders
  <2> QED BY <2>1, <2>2, <2>3, <2>4 DEF IInv
<1>3. ASSUME NEW r \in Readers, ReaderStep(r) PROVE IInv'
  <2>1. Shape(r) BY <1>0 DEF ReaderInv
  <2>2. TypeOK' BY <1>0, <1>3, <2>1, ReaderKeepsType
  <2>3. WriterInv' /\ LaneState' BY <1>0, <1>3, ReaderLeavesLane, LaneUnchanged
  <2>4. ReaderInv' BY <1>3, ReaderKeepsReaders
  <2> QED BY <2>2, <2>3, <2>4 DEF IInv
<1>4. CASE UNCHANGED vars
  <2>1. /\ UNCHANGED <<topology, laneVars, lockVars, writerVars>>
        /\ UNCHANGED readerVars
    BY <1>4 DEF vars
  <2>2. TypeOK' BY <1>0, <2>1, LaneTypeUnchanged, ReaderTypeUnchanged DEF TypeOK
  <2>3. WriterInv' /\ LaneState' BY <1>0, <2>1, LaneUnchanged
  <2>4. ReaderInv'
    BY <1>0, <2>1
       DEF ReaderInv, Shape, CopyInv, LossInv, WholeInv, Ordered, Seq, laneVars,
           readerVars
  <2> QED BY <2>2, <2>3, <2>4 DEF IInv
<1> QED BY <1>1, <1>2, <1>3, <1>4 DEF Next

\* The invariant holds in every reachable state of write, write_batch, read
\* and poll_ring, whatever the topology.
THEOREM IInvHolds == Spec => []IInv
BY InitIInv, NextIInv, PTL DEF Spec

\* Every variable stays in its range (all topologies, lapped claims included).
THEOREM TypeCorrect == Spec => []TypeOK
<1>1. IInv => TypeOK BY DEF IInv
<1> QED BY <1>1, IInvHolds, PTL

\* On an ordered lane every frame poll_ring delivers is the frame published
\* under its counter, across torn reads, overwrites and dead writers.
THEOREM OrderedFramesAreWhole == Spec => [](Ordered => FramesAreWhole)
<1>1. IInv => (Ordered => FramesAreWhole)
  BY DEF IInv, ReaderInv, WholeInv, FramesAreWhole
<1> QED BY <1>1, IInvHolds, PTL

\* On an ordered lane so is what read(id) returns.
THEOREM OrderedIdReadIsWhole == Spec => [](Ordered => IdReadIsWhole)
<1>1. IInv => (Ordered => IdReadIsWhole)
  BY DEF IInv, ReaderInv, WholeInv, IdReadIsWhole
<1> QED BY <1>1, IInvHolds, PTL

\* On an ordered lane every counter below the head has been committed: a writer
\* that dies inside write_batch leaves nothing visible.
THEOREM OrderedNoVisibleHole == Spec => [](Ordered => NoVisibleHole)
<1>1. IInv => (Ordered => NoVisibleHole)
  BY DEF IInv, LaneState, LaneInv, NoVisibleHole, Seq
<1> QED BY <1>1, IInvHolds, PTL

\* On an ordered lane poll_ring reports a frame lost only once a newer write
\* has taken its slot.
THEOREM OrderedLossIsReal == Spec => [](Ordered => LossIsReal)
<1>1. IInv => (Ordered => LossIsReal)
  BY DEF IInv, ReaderInv, LossInv, LossIsReal, Seq
<1> QED BY <1>1, IInvHolds, PTL

\* On an ordered lane what readers get can be relied on: whole frames, published
\* under their counter, and no loss that did not happen.
THEOREM OrderedReadsAreSound == Spec => [](Ordered => ReadsAreSound)
<1>1. TypeOK /\ (Ordered => FramesAreWhole) /\ (Ordered => IdReadIsWhole)
      /\ (Ordered => LossIsReal) => (Ordered => ReadsAreSound)
  BY DEF ReadsAreSound
<1> QED
  BY <1>1, TypeCorrect, OrderedFramesAreWhole, OrderedIdReadIsWhole,
     OrderedLossIsReal, PTL

\* A writer or a death leaves every reader as it is, and the head moves only
\* where an ordered writer stores it or a shared one claims.
LEMMA WritersMoveHead ==
    ASSUME IInv,
           \/ \E w \in Writers : WriterStep(w)
           \/ \E p \in Procs : Crash(p)
    PROVE  UNCHANGED readerVars /\ head' >= head
<1>0. head \in Nat /\ WriterType /\ WriterInv
  BY DEF IInv, TypeOK, LaneType
<1>1. ASSUME NEW w \in Writers, WriterStep(w)
      PROVE  UNCHANGED readerVars /\ head' >= head
  <2>1. CASE Claim(w) BY <1>0, <2>1, BatchAssumption DEF Claim
  <2>2. CASE Publish(w)
    <3>1. start[w] = head /\ num[w] \in Nat
      BY <1>0, <2>2
         DEF Publish, WriterInv, WriterShape, LockHeld, InProgress, WriterType
    <3> QED BY <1>0, <2>2, <3>1 DEF Publish
  <2>3. CASE \/ LockLane(w) \/ LockLocal(w) \/ LockRegion(w)
             \/ LockRegionFails(w) \/ MarkWriting(w) \/ StorePart(w)
             \/ Commit(w)
    <3>1. UNCHANGED readerVars /\ head' = head
      BY <2>3 DEF LockLane, LockLocal, LockRegion, LockRegionFails,
         MarkWriting, StorePart, Commit, laneVars
    <3> QED BY <1>0, <3>1
  <2> QED BY <1>1, <2>1, <2>2, <2>3 DEF WriterStep
<1>2. ASSUME NEW p \in Procs, Crash(p)
      PROVE  UNCHANGED readerVars /\ head' >= head
  BY <1>0, <1>2 DEF Crash, laneVars
<1> QED BY <1>1, <1>2

\* The head of a lane of any topology never moves back.
THEOREM HeadAdvances == Spec => HeadNeverRetreats
<1>1. IInv /\ [Next]_vars => [head' >= head]_vars
  <2> SUFFICES ASSUME IInv, [Next]_vars PROVE head' >= head
    OBVIOUS
  <2>0. head \in Nat BY DEF IInv, TypeOK, LaneType
  <2>1. CASE (\E w \in Writers : WriterStep(w)) \/ (\E p \in Procs : Crash(p))
    BY <2>1, WritersMoveHead
  <2>2. ASSUME NEW r \in Readers, ReaderStep(r) PROVE head' >= head
    BY <2>0, <2>2, ReaderLeavesLane DEF laneVars
  <2>3. CASE UNCHANGED vars BY <2>0, <2>3 DEF vars, laneVars
  <2> QED BY <2>1, <2>2, <2>3 DEF Next
<1> QED BY <1>1, IInvHolds, PTL DEF Spec, HeadNeverRetreats

-----------------------------------------------------------------------------
(***************************************************************************)
(* The lane as an append-only log                                          *)
(*                                                                         *)
(* Of an ordered lane the log gets a batch when its writer publishes it,   *)
(* and a reader of the log moves when its walk is done with a counter.     *)
(* Two facts are needed beyond IInv: the batch under way is one a log may  *)
(* append, and no cursor is ahead of the head.                             *)
(***************************************************************************)

BatchSized == \A w \in Writers : wpc[w] # "idle" => num[w] \in 1 .. Capacity

CursorBehind == \A r \in Readers : cursor[r] <= head

LogInv == BatchSized /\ CursorBehind

\* Nothing is under way in an empty lane.
LEMMA InitLogInv == Init => LogInv
BY DEF Init, LogInv, BatchSized, CursorBehind

\* The batch a writer has been admitted with keeps its length until it returns.
LEMMA BatchStaysSized ==
    ASSUME IInv, BatchSized, [Next]_vars PROVE BatchSized'
<1>0. WriterType /\ Capacity \in Nat
  BY CapacityAssumption DEF IInv, TypeOK
<1>1. ASSUME NEW w \in Writers, WriterStep(w) PROVE BatchSized'
  <2>1. CASE Claim(w) \/ LockLane(w) \/ LockLocal(w)
    <3>1. PICK n \in BatchSizes : Admitted(n) /\ num' = [num EXCEPT ![w] = n]
      BY <2>1 DEF Claim, LockLane, LockLocal
    <3>2. n \in 1 .. Capacity BY <1>0, <3>1, BatchAssumption DEF Admitted
    <3>3. \A v \in Writers \ {w} : wpc'[v] = wpc[v]
      BY <1>0, <2>1 DEF Claim, LockLane, LockLocal, LoadHead, WriterType
    <3> QED BY <1>0, <3>1, <3>2, <3>3 DEF BatchSized, WriterType
  <2>2. CASE LockRegion(w) \/ MarkWriting(w) \/ StorePart(w)
    BY <1>0, <2>2
       DEF LockRegion, LoadHead, MarkWriting, StorePart, BatchSized, WriterType
  <2>3. CASE LockRegionFails(w) \/ Publish(w)
    BY <1>0, <2>3
       DEF LockRegionFails, Publish, WriterReturns, BatchSized, WriterType
  <2>4. CASE Commit(w)
    BY <1>0, <2>4 DEF Commit, WriterReturns, BatchSized, WriterType
  <2> QED BY <1>1, <2>1, <2>2, <2>3, <2>4 DEF WriterStep
<1>2. ASSUME NEW p \in Procs, Crash(p) PROVE BatchSized'
  BY <1>0, <1>2 DEF Crash, BatchSized, WriterType
<1>3. ASSUME NEW r \in Readers, ReaderStep(r) PROVE BatchSized'
  BY <1>3, ReaderLeavesLane DEF BatchSized, writerVars
<1>4. CASE UNCHANGED vars BY <1>4 DEF BatchSized, vars, writerVars
<1> QED BY <1>1, <1>2, <1>3, <1>4 DEF Next

\* Where a walk that is done with a counter leaves its reader: one further.
LEMMA Advanced ==
    ASSUME WalkType, NEW r \in Readers, Advance(r), rpc[r] # "idle",
           op[r] = "poll", op' = op
    PROVE  /\ Position(r)' = at[r] + 1
           /\ cursor'[r] = cursor[r] \/ cursor'[r] = at[r] + 1
           /\ \A q \in Readers \ {r} : cursor'[q] = cursor[q]
           /\ \A q \in Readers \ {r} : Position(q)' = Position(q)
<1>1. CASE at[r] + 1 < lim[r]
  BY <1>1 DEF Advance, Position, WalkType
<1>2. CASE ~(at[r] + 1 < lim[r])
  BY <1>2 DEF Advance, ReaderReturns, Position, WalkType
<1> QED BY <1>1, <1>2

\* A walk stays inside the log it loaded the head of, and so does the cursor
\* it leaves behind.
LEMMA CursorStaysBehind ==
    ASSUME IInv, CursorBehind, [Next]_vars PROVE CursorBehind'
<1>0. WalkType /\ head \in Nat /\ \A r \in Readers : Shape(r)
  BY DEF IInv, TypeOK, LaneType, ReaderInv
<1>1. CASE \/ \E w \in Writers : WriterStep(w)
           \/ \E p \in Procs : Crash(p)
  <2>1. head' >= head /\ cursor' = cursor BY <1>1, WritersMoveHead DEF readerVars
  <2>2. head' \in Nat BY NextIInv DEF IInv, TypeOK, LaneType
  <2> QED BY <1>0, <2>1, <2>2 DEF CursorBehind, WalkType
<1>2. ASSUME NEW r \in Readers, ReaderStep(r) PROVE CursorBehind'
  <2>0. head' = head BY <1>2, ReaderLeavesLane DEF laneVars
  <2>1. CASE SubscribeAtHead(r) \/ PollNothing(r)
    BY <1>0, <2>0, <2>1
       DEF SubscribeAtHead, PollNothing, CursorBehind, WalkType
  <2>2. CASE ProbePending(r)
    BY <1>0, <2>0, <2>2 DEF ProbePending, Shape, CursorBehind, WalkType
  <2>3. CASE ProbeUnavailable(r) \/ WalkReady(r)
    <3>1. /\ rpc[r] # "idle" /\ op[r] = "poll" /\ op' = op /\ Advance(r)
          /\ at[r] < head /\ at[r] \in Nat
      BY <1>0, <2>3 DEF ProbeUnavailable, WalkReady, Shape, WalkType
    <3>2. /\ cursor'[r] = cursor[r] \/ cursor'[r] = at[r] + 1
          /\ \A q \in Readers \ {r} : cursor'[q] = cursor[q]
      BY <1>0, <3>1, Advanced
    <3> QED BY <1>0, <2>0, <3>1, <3>2 DEF CursorBehind, WalkType
  <2>4. CASE \/ PollStart(r) \/ ProbeCommitted(r) \/ DirectStart(r)
             \/ ReadPre(r) \/ LoadPart(r) \/ ReadTorn(r) \/ DirectReady(r)
    <3>1. cursor' = cursor
      BY <2>4 DEF PollStart, ProbeCommitted, DirectStart, ReadPre, LoadPart,
         ReadTorn, DirectReady
    <3> QED BY <2>0, <3>1 DEF CursorBehind
  <2> QED BY <1>2, <2>1, <2>2, <2>3, <2>4 DEF ReaderStep
<1>3. CASE UNCHANGED vars
  BY <1>3 DEF CursorBehind, vars, laneVars, readerVars
<1> QED BY <1>1, <1>2, <1>3 DEF Next

-----------------------------------------------------------------------------
(* The steps of the lane as steps of the log. *)

\* A step that moves no walk and no head is none of the log's.
LEMMA LogStandsStill ==
    ASSUME UNCHANGED <<head, log, got, over, lost>>,
           \A r \in Readers : Position(r)' = Position(r)
    PROVE  UNCHANGED Log!logVars
<1>1. [r \in Readers |-> Position(r)]' = [r \in Readers |-> Position(r)]
  OBVIOUS
<1> QED BY <1>1 DEF Log!logVars

\* The head store of an ordered lane appends the batch.
LEMMA PublishAppends ==
    ASSUME IInv, LogInv, Ordered, NEW w \in Writers, Publish(w)
    PROVE  Log!Append
<1>0. LaneType /\ WriterType /\ WriterInv /\ head \in Nat /\ Capacity \in Nat
  BY CapacityAssumption DEF IInv, TypeOK, LaneType
<1>1. start[w] = head /\ num[w] \in 1 .. Capacity
  BY <1>0 DEF Publish, WriterInv, LockHeld, InProgress, LogInv, BatchSized
<1>2. head' = head + num[w] BY <1>1 DEF Publish
<1>3. /\ log' \in [0 .. head + num[w] - 1 -> Bodies]
      /\ \A c \in 0 .. head - 1 : log'[c] = log[c]
  <2>1. log' = Extended(w, num[w]) /\ num[w] \in Nat BY <1>0, <1>1 DEF Publish
  <2>2. /\ Extended(w, num[w]) \in [0 .. head + num[w] - 1 -> Bodies]
        /\ \A c \in 0 .. head - 1 : Extended(w, num[w])[c] = log[c]
    BY <1>0, <2>1, ExtendedLog
  <2> QED BY <2>1, <2>2
<1>4. UNCHANGED readerVars BY DEF Publish
<1>5. UNCHANGED <<[r \in Readers |-> Position(r)], [r \in Readers |-> got[r]],
                  [r \in Readers |-> over[r] \cup lost[r]]>>
  BY <1>4 DEF Position, readerVars
<1> QED BY <1>1, <1>2, <1>3, <1>5 DEF Log!Append

\* The other steps of an ordered writer, and its death, are not seen.
LEMMA WritersLeaveLog ==
    ASSUME Ordered,
           \/ \E w \in Writers : WriterStep(w) /\ ~Publish(w)
           \/ \E p \in Procs : Crash(p)
    PROVE  UNCHANGED Log!logVars
<1>1. UNCHANGED <<head, log, readerVars>>
  <2>1. ASSUME NEW w \in Writers, WriterStep(w), ~Publish(w)
        PROVE  UNCHANGED <<head, log, readerVars>>
    BY <2>1 DEF WriterStep, Claim, Ordered, LockLane, LockLocal, LockRegion,
       LockRegionFails, MarkWriting, StorePart, Commit, laneVars
  <2>2. ASSUME NEW p \in Procs, Crash(p)
        PROVE  UNCHANGED <<head, log, readerVars>>
    BY <2>2 DEF Crash, laneVars
  <2> QED BY <2>1, <2>2
<1> QED BY <1>1, LogStandsStill DEF readerVars, Position

\* The walk of one reader moves: its place in the log is the only one that
\* changes.
LEMMA WalkMoves ==
    ASSUME NEW r \in Readers, NEW k, Position(r)' = k,
           \A q \in Readers \ {r} : Position(q)' = Position(q)
    PROVE  [q \in Readers |-> Position(q)]' =
              [[q \in Readers |-> Position(q)] EXCEPT ![r] = k]
OBVIOUS

\* A stretch of counters a walk gives up, as skipped or as unavailable, is
\* missed in the log.
LEMMA WalkMisses ==
    ASSUME NEW r \in Readers, NEW k \in Nat, Position(r) \in Nat, head \in Nat,
           Position(r) < k, k <= head, UNCHANGED <<head, log, got>>,
           Position(r)' = k,
           \A q \in Readers \ {r} : Position(q)' = Position(q),
           over'[r] \cup lost'[r] =
              (over[r] \cup lost[r]) \cup Position(r) .. k - 1,
           \A q \in Readers \ {r} : over'[q] \cup lost'[q] = over[q] \cup lost[q]
    PROVE  Log!Miss(r)
<1>1. [q \in Readers |-> Position(q)]' =
         [[q \in Readers |-> Position(q)] EXCEPT ![r] = k]
  BY WalkMoves
<1>2. [q \in Readers |-> over[q] \cup lost[q]]' =
         [[q \in Readers |-> over[q] \cup lost[q]] EXCEPT ![r] =
            @ \cup Position(r) .. k - 1]
  OBVIOUS
<1>3. k \in Position(r) + 1 .. head OBVIOUS
<1> QED BY <1>1, <1>2, <1>3 DEF Log!Miss

\* A poll that starts behind the window misses what has left it, and moves
\* nothing otherwise.
LEMMA PollStartInLog ==
    ASSUME IInv, LogInv, NEW r \in Readers, PollStart(r)
    PROVE  Log!Miss(r) \/ UNCHANGED Log!logVars
<1>0. /\ WalkType /\ FoundType /\ head \in Nat /\ Capacity \in Nat
      /\ cursor[r] \in Nat /\ cursor[r] < head
      /\ op[r] = "poll" /\ rpc[r] = "idle" /\ op' = op /\ cursor' = cursor
      /\ UNCHANGED <<head, log, got, lost>>
  BY CapacityAssumption
     DEF IInv, TypeOK, LaneType, WalkType, PollStart, laneVars
<1>1. /\ Position(r) = cursor[r] /\ Position(r)' = at'[r]
      /\ \A q \in Readers \ {r} : Position(q)' = Position(q)
  BY <1>0 DEF PollStart, Position, WalkType
<1>2. Floor(head) \in Nat /\ Floor(head) <= head BY <1>0 DEF Floor
<1>3. /\ over'[r] = over[r] \cup Skipped(cursor[r], head)
      /\ \A q \in Readers \ {r} : over'[q] = over[q]
  BY <1>0 DEF PollStart, FoundType
<1>4. CASE cursor[r] < Floor(head)
  <2>1. at'[r] = Floor(head) BY <1>0, <1>4 DEF PollStart, WalkType
  <2>2. Skipped(cursor[r], head) = cursor[r] .. Floor(head) - 1
    BY <1>0, <1>2 DEF Skipped
  <2>3. over'[r] \cup lost'[r] =
           (over[r] \cup lost[r]) \cup Position(r) .. Floor(head) - 1
    BY <1>0, <1>1, <1>3, <2>2
  <2> QED BY <1>0, <1>1, <1>2, <1>3, <1>4, <2>1, <2>3, WalkMisses
<1>5. CASE ~(cursor[r] < Floor(head))
  <2>1. at'[r] = cursor[r] BY <1>0, <1>5 DEF PollStart, WalkType
  <2>2. Skipped(cursor[r], head) = {} BY <1>0, <1>2, <1>5 DEF Skipped
  <2>3. over' = over BY <1>0, <1>3, <2>2 DEF PollStart, FoundType
  <2> QED BY <1>0, <1>1, <2>1, <2>3, LogStandsStill
<1> QED BY <1>4, <1>5

\* A counter the walk gives up at the probe, or whose slot turned out to hold
\* another, is missed.
LEMMA UnavailableMisses ==
    ASSUME IInv, NEW r \in Readers, op[r] = "poll", rpc[r] # "idle",
           Advance(r), UNCHANGED <<head, log, op, got, over>>,
           lost' = [lost EXCEPT ![r] = @ \cup {at[r]}]
    PROVE  Log!Miss(r)
<1>0. /\ WalkType /\ FoundType /\ head \in Nat /\ at[r] \in Nat
      /\ at[r] < head /\ Position(r) = at[r]
  BY DEF IInv, TypeOK, LaneType, WalkType, ReaderInv, Shape, Position
<1>1. /\ Position(r)' = at[r] + 1
      /\ \A q \in Readers \ {r} : Position(q)' = Position(q)
  BY <1>0, Advanced
<1>2. at[r] .. (at[r] + 1) - 1 = {at[r]} BY <1>0
<1>3. over'[r] \cup lost'[r] =
         (over[r] \cup lost[r]) \cup Position(r) .. (at[r] + 1) - 1
  BY <1>0, <1>2 DEF FoundType
<1>4. \A q \in Readers \ {r} : over'[q] \cup lost'[q] = over[q] \cup lost[q]
  BY <1>0 DEF FoundType
<1> QED BY <1>0, <1>1, <1>3, <1>4, WalkMisses

\* A frame that carries the counter asked for is the log's next frame.
LEMMA WalkReadyInLog ==
    ASSUME IInv, Ordered, NEW r \in Readers, WalkReady(r), ReaderStep(r)
    PROVE  Log!Deliver(r) \/ Log!Miss(r)
<1>0. /\ TypeOK /\ LaneState /\ Shape(r) /\ CopyInv(r) /\ WalkType /\ FoundType
      /\ head \in Nat /\ at[r] \in Nat /\ Advance(r)
      /\ rpc[r] = "load" /\ unread[r] = {} /\ op[r] = "poll" /\ Undisturbed(r)
      /\ UNCHANGED <<head, log, op, over>>
  BY DEF IInv, TypeOK, LaneType, WalkType, ReaderInv, WalkReady, laneVars
<1>1. CASE buf[r].id # at[r]
  BY <1>0, <1>1, UnavailableMisses DEF WalkReady
<1>2. CASE buf[r].id = at[r]
  <2>1. at[r] < head /\ buf[r].body = log[at[r]]
    BY <1>0, <1>2, UndisturbedCopy
  <2>2. /\ got' = [got EXCEPT ![r] = @ \cup {FrameOf(at[r], log[at[r]])}]
        /\ lost' = lost
    BY <1>2, <2>1 DEF WalkReady
  <2>3. /\ Position(r) = at[r] /\ Position(r)' = at[r] + 1
        /\ \A q \in Readers \ {r} : Position(q)' = Position(q)
    BY <1>0, Advanced DEF Position
  <2>4. [q \in Readers |-> Position(q)]' =
           [[q \in Readers |-> Position(q)] EXCEPT ![r] = at[r] + 1]
    BY <2>3, WalkMoves
  <2>5. [q \in Readers |-> got[q]]' =
           [[q \in Readers |-> got[q]] EXCEPT ![r] =
              @ \cup {[ok |-> TRUE, id |-> at[r], body |-> log[at[r]]]}]
    BY <1>0, <2>2 DEF FoundType, FrameOf
  <2>6. UNCHANGED [q \in Readers |-> over[q] \cup lost[q]]
    BY <1>0, <2>2
  <2> QED BY <1>0, <2>1, <2>3, <2>4, <2>5, <2>6 DEF Log!Deliver
<1> QED BY <1>1, <1>2

\* A subscriber joins the log at its end.
LEMMA SubscribeJoins ==
    ASSUME IInv, NEW r \in Readers, SubscribeAtHead(r)
    PROVE  Log!Join(r)
<1>0. /\ WalkType /\ cursor[r] = 0 /\ rpc[r] = "idle"
      /\ UNCHANGED <<head, log, rpc, op, at, got, over, lost>>
      /\ cursor' = [cursor EXCEPT ![r] = head]
  BY DEF IInv, TypeOK, SubscribeAtHead, laneVars
<1>1. /\ Position(r) = 0 /\ Position(r)' = head
      /\ \A q \in Readers \ {r} : Position(q)' = Position(q)
  BY <1>0 DEF Position, WalkType
<1>2. [q \in Readers |-> Position(q)]' =
         [[q \in Readers |-> Position(q)] EXCEPT ![r] = head]
  BY <1>1, WalkMoves
<1> QED BY <1>0, <1>1, <1>2 DEF Log!Join

\* The steps inside a content read, the direct reads and a poll with nothing
\* new leave every walk where it is.
LEMMA QuietReaders ==
    ASSUME IInv, LogInv, NEW r \in Readers,
           \/ PollNothing(r) \/ ProbeCommitted(r) \/ DirectStart(r)
           \/ ReadPre(r) \/ LoadPart(r) \/ ReadTorn(r) \/ DirectReady(r)
    PROVE  UNCHANGED Log!logVars
<1>0. WalkType /\ head \in Nat /\ cursor[r] \in Nat /\ cursor[r] <= head
  BY DEF IInv, TypeOK, LaneType, WalkType, LogInv, CursorBehind
<1>1. UNCHANGED <<head, log, op, got, over, lost>>
  BY DEF PollNothing, ProbeCommitted, DirectStart, ReadPre, LoadPart, ReadTorn,
     DirectReady, laneVars
<1>2. CASE PollNothing(r)
  <2>1. cursor' = cursor BY <1>0, <1>2 DEF PollNothing, WalkType
  <2> QED BY <1>1, <1>2, <2>1, LogStandsStill DEF PollNothing, Position
<1>3. CASE ProbeCommitted(r) \/ LoadPart(r)
  <2>1. \A q \in Readers : Position(q)' = Position(q)
    BY <1>0, <1>3 DEF ProbeCommitted, LoadPart, Position, WalkType
  <2> QED BY <1>1, <2>1, LogStandsStill
<1>4. CASE DirectStart(r) \/ DirectReady(r)
  <2>1. \A q \in Readers : Position(q)' = Position(q)
    BY <1>0, <1>4
       DEF DirectStart, DirectReady, ReaderReturns, Position, WalkType
  <2> QED BY <1>1, <2>1, LogStandsStill
<1>5. CASE ReadPre(r)
  <2>1. \A q \in Readers : Position(q)' = Position(q)
    BY <1>0, <1>5 DEF ReadPre, Retry, ReaderReturns, Position, WalkType
  <2> QED BY <1>1, <2>1, LogStandsStill
<1>6. CASE ReadTorn(r)
  <2>1. \A q \in Readers : Position(q)' = Position(q)
    BY <1>0, <1>6 DEF ReadTorn, Retry, ReaderReturns, Position, WalkType
  <2> QED BY <1>1, <2>1, LogStandsStill
<1> QED BY <1>2, <1>3, <1>4, <1>5, <1>6

\* Every step of an ordered lane is a step of the log or none of its own.
LEMMA NextInLog ==
    ASSUME IInv, LogInv, Ordered, [Next]_vars
    PROVE  [Log!LogNext]_(Log!logVars)
<1>1. ASSUME NEW w \in Writers, WriterStep(w)
      PROVE  [Log!LogNext]_(Log!logVars)
  <2>1. CASE Publish(w) BY <2>1, PublishAppends DEF Log!LogNext
  <2>2. CASE ~Publish(w) BY <1>1, <2>2, WritersLeaveLog
  <2> QED BY <2>1, <2>2
<1>2. ASSUME NEW p \in Procs, Crash(p) PROVE [Log!LogNext]_(Log!logVars)
  BY <1>2, WritersLeaveLog
<1>3. ASSUME NEW r \in Readers, ReaderStep(r)
      PROVE  [Log!LogNext]_(Log!logVars)
  <2>1. CASE SubscribeAtHead(r) BY <2>1, SubscribeJoins DEF Log!LogNext
  <2>2. CASE PollStart(r) BY <2>2, PollStartInLog DEF Log!LogNext
  <2>3. CASE ProbeUnavailable(r)
    <3>1. /\ op[r] = "poll" /\ rpc[r] # "idle" /\ Advance(r)
          /\ UNCHANGED <<head, log, op, got, over>>
          /\ lost' = [lost EXCEPT ![r] = @ \cup {at[r]}]
      BY <2>3 DEF ProbeUnavailable, IInv, ReaderInv, Shape, laneVars
    <3> QED BY <3>1, UnavailableMisses DEF Log!LogNext
  <2>4. CASE WalkReady(r) BY <1>3, <2>4, WalkReadyInLog DEF Log!LogNext
  <2>5. CASE ProbePending(r) BY <2>5 DEF ProbePending, Ordered
  <2>6. CASE \/ PollNothing(r) \/ ProbeCommitted(r) \/ DirectStart(r)
             \/ ReadPre(r) \/ LoadPart(r) \/ ReadTorn(r) \/ DirectReady(r)
    BY <2>6, QuietReaders
  <2> QED BY <1>3, <2>1, <2>2, <2>3, <2>4, <2>5, <2>6 DEF ReaderStep
<1>4. CASE UNCHANGED vars
  BY <1>4, LogStandsStill DEF vars, laneVars, readerVars, Position
<1> QED BY <1>1, <1>2, <1>3, <1>4 DEF Next

\* An empty lane is an empty log.
LEMMA InitInLog == Init => Log!LogInit
BY DEF Init, Log!LogInit, Position, NoBody

\* The refinement: a ring that has only ordered lanes (PerNode, SharedOrdered)
\* implements the append-only log its readers are promised by write_batch and
\* poll_ring.  Batches become visible whole, every reader is handed each frame
\* in order and as it was published, or is told that it is gone.
THEOREM OrderedLaneIsLog ==
    ASSUME "Shared" \notin Topologies
    PROVE  Spec => IsAppendOnlyLog
<1>1. Init => LogInv BY InitLogInv
<1>2. IInv /\ LogInv /\ [Next]_vars => LogInv'
  BY BatchStaysSized, CursorStaysBehind DEF LogInv
<1>3. Init => Log!LogInit BY InitInLog
<1>4. IInv => Ordered BY DEF IInv, TypeOK, LaneType, Ordered
<1>5. IInv /\ LogInv /\ [Next]_vars => [Log!LogNext]_(Log!logVars)
  BY <1>4, NextInLog
<1> QED
  BY <1>1, <1>2, <1>3, <1>5, IInvHolds, PTL DEF Spec, IsAppendOnlyLog, Log!LogSpec
=============================================================================
