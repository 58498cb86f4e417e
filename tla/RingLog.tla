------------------------------ MODULE RingLog ------------------------------
(***************************************************************************)
(* What a ring lane promises to the readers that walk it: an append-only   *)
(* log of frames.  Whole batches are appended, and every reader moves      *)
(* through the log in order, either handed the next frame as it was        *)
(* appended or told that a stretch of frames is gone.                      *)
(***************************************************************************)
EXTENDS Naturals

CONSTANTS
    Readers,
    Bodies,     \* what a frame may carry
    MaxBatch    \* the longest batch a writer may append

VARIABLES
    frames,     \* the log: counter -> body
    size,       \* its length
    next,       \* per reader: the next counter to hand over
    seen,       \* per reader: the frames handed over
    missed      \* per reader: the counters reported lost

logVars == <<frames, size, next, seen, missed>>

LogInit ==
    /\ size = 0
    /\ frames = [c \in {} |-> <<>>]
    /\ next = [r \in Readers |-> 0]
    /\ seen = [r \in Readers |-> {}]
    /\ missed = [r \in Readers |-> {}]

\* A writer publishes a batch.
Append ==
    /\ \E n \in 1 .. MaxBatch :
          /\ size' = size + n
          /\ frames' \in [0 .. size + n - 1 -> Bodies]
    /\ \A c \in 0 .. size - 1 : frames'[c] = frames[c]
    /\ UNCHANGED <<next, seen, missed>>

\* A new subscriber starts behind the last frame.
Join(r) ==
    /\ next[r] = 0
    /\ next' = [next EXCEPT ![r] = size]
    /\ UNCHANGED <<frames, size, seen, missed>>

\* The next frame is handed over.
Deliver(r) ==
    /\ next[r] < size
    /\ seen' = [seen EXCEPT ![r] =
                   @ \cup {[ok |-> TRUE, id |-> next[r],
                            body |-> frames[next[r]]]}]
    /\ next' = [next EXCEPT ![r] = @ + 1]
    /\ UNCHANGED <<frames, size, missed>>

\* The counters up to k are reported as lost.
Miss(r) ==
    /\ \E k \in next[r] + 1 .. size :
          /\ next' = [next EXCEPT ![r] = k]
          /\ missed' = [missed EXCEPT ![r] = @ \cup next[r] .. k - 1]
    /\ UNCHANGED <<frames, size, seen>>

LogNext == Append \/ \E r \in Readers : Join(r) \/ Deliver(r) \/ Miss(r)

LogSpec == LogInit /\ [][LogNext]_logVars
=============================================================================
