---------------------------- MODULE MCStreamRing ----------------------------
EXTENDS StreamRing

Base == [capacity |-> 1, total |-> 2, write |-> "byte", frame |-> 1,
         ends |-> "fin", after |-> "nothing", driver |-> "thread",
         park |-> [w |-> "task", r |-> "task"], stops |-> FALSE, mortal |-> {}]

WriterTask == [Base EXCEPT !.park.r = "thread"]
ExactTask == [WriterTask EXCEPT !.write = "exact", !.capacity = 2, !.frame = 2,
                                 !.total = 4]
ReaderTask == [Base EXCEPT !.park.w = "thread"]

\* A task on one side behind either driver, against a thread on the other:
\* ordinary and exact writes, a reader that stops, a writer that watches its
\* reader leave or die, a writer that dies.  Two threads; two tasks of one
\* process.
MCModes ==
    { ReaderTask,
      [ReaderTask EXCEPT !.driver = "reactor", !.mortal = {"w"}, !.total = 1],
      [WriterTask EXCEPT !.stops = TRUE],
      [ExactTask EXCEPT !.driver = "reactor"],
      [ExactTask EXCEPT !.stops = TRUE],
      [WriterTask EXCEPT !.driver = "reactor", !.after = "closed", !.stops = TRUE],
      [WriterTask EXCEPT !.after = "dead", !.mortal = {"r"}, !.total = 1],
      [Base EXCEPT !.park = [w |-> "thread", r |-> "thread"], !.stops = TRUE],
      [Base EXCEPT !.driver = "local", !.ends = "reset", !.after = "closed"] }
=============================================================================
