---------------------------- MODULE RegionProofs ----------------------------
(***************************************************************************)
(* The segments of a fleet and their lock files keep their promise for any *)
(* members, readers and bounds: Spec => []SegmentKept.                     *)
(*                                                                         *)
(* The argument.  The tool holds the fleet's lock alone, so that whatever  *)
(* it removes, nobody has a file or a segment (Alone).  Outside of it the  *)
(* path of a lock file keeps standing for the file the members have open,  *)
(* and whoever is inside has that file locked: two are never inside of one *)
(* path (Kept, OneInside).  A segment that has a name and no header is in  *)
(* the hands of its creator alone, who is inside; only such a creator      *)
(* takes the name away, and nobody uses the segment yet (OnlyCreator).     *)
(***************************************************************************)
EXTENDS Region, TLAPS

-----------------------------------------------------------------------------
(***************************************************************************)
(* The inductive invariant                                                 *)
(***************************************************************************)

\* Processes are neither the tool nor nobody.
Apart == Tool \notin Everyone /\ Nobody \notin Everyone

\* Where a process holds the lock of the segment's path.
Inside == {"shm", "configure", "access", "truncate", "size", "map", "header",
           "validate", "opened", "section"}
\* Where a creator has a segment without its header.
Private == {"configure", "access", "truncate", "size", "map", "header"}
Sharing == {"open", "enter", "section", "attached"}
Mapped == (Inside \ {"shm"}) \cup Sharing
Filed == {"lock", "enter"} \cup Inside
Places == Inside \cup Sharing
            \cup {"out", "joined", "lock", "refused", "attach"}

PolicySet == setup.policies \cup {"owner"}
Objects == [size : BOOLEAN, ready : BOOLEAN, policy : PolicySet]
Processes == [pc : Places, file : Nat, obj : Nat, created : BOOLEAN,
              policy : PolicySet, lane : Nat]
Holders == Everyone \cup {Nobody}

Types ==
    /\ fleet \subseteq Everyone \cup {Tool}
    /\ object \in Seq(Objects) /\ name \in 0 .. Len(object)
    /\ flock \in Seq(Holders) /\ lockfile \in [Paths -> 0 .. Len(flock)]
    /\ proc \in [Everyone -> Processes]
    /\ tool \in [pc : {"off", "found", "unlink", "files", "done"}]

\* The tool removes things when it is alone; two paths are two files.
Alone ==
    /\ tool.pc \in {"unlink", "files", "done"} => Tool \in fleet
    /\ Tool \in fleet => fleet = {Tool}
    /\ lockfile["region"] = lockfile["lane"] => lockfile["lane"] = None

\* What holds of a process wherever it is.
Kept(p) ==
    /\ proc[p].pc # "out" <=> p \in fleet
    /\ proc[p].pc = "out" => proc[p].file = None /\ proc[p].lane = None
    /\ proc[p].file # None => proc[p].file = lockfile["region"]
    /\ proc[p].lane # None =>
          proc[p].lane = lockfile["lane"] /\ flock[proc[p].lane] = p
    /\ proc[p].pc \in Filed => proc[p].file # None
    /\ proc[p].pc \in Inside => flock[proc[p].file] = p
    /\ proc[p].pc \in Mapped => proc[p].obj = name /\ name # None
    /\ proc[p].pc \in Sharing \cup {"opened"} => object[name].ready
    /\ proc[p].created => proc[p].pc \in Private \cup {"opened", "refused"}
    /\ proc[p].created /\ proc[p].pc \in Private => ~object[name].ready
    /\ proc[p].pc \in {"header", "configure", "truncate"} => proc[p].created

IInv == Types /\ Alone /\ \A p \in Everyone : Kept(p)

-----------------------------------------------------------------------------
(***************************************************************************)
(* Who excludes whom                                                       *)
(***************************************************************************)

\* Two processes are never inside of the segment's lock.
LEMMA OneInside ==
    ASSUME IInv, NEW p \in Everyone, NEW q \in Everyone,
           proc[p].pc \in Inside, proc[q].pc \in Inside
    PROVE  p = q
  BY DEF IInv, Kept, Filed

\* A creator that has not written its header has the segment for itself.
LEMMA OnlyCreator ==
    ASSUME IInv, NEW p \in Everyone, NEW q \in Everyone, q # p,
           proc[p].created, proc[p].pc \in Private
    PROVE  proc[q].pc \notin Mapped
<1>1. proc[p].pc \in Inside BY DEF Private, Inside
<1>2. proc[q].pc \notin Inside BY <1>1, OneInside
<1>3. ~object[name].ready BY DEF IInv, Kept
<1>4. proc[q].pc \notin Sharing BY <1>3 DEF IInv, Kept
<1> QED BY <1>2, <1>4 DEF Mapped

\* A process that a step does not touch keeps what it has, when the files it
\* has open and its segment stay.
LEMMA OthersKept ==
    ASSUME IInv, NEW q \in Everyone, proc'[q] = proc[q],
           q \in fleet' <=> q \in fleet,
           \A x \in Paths : lockfile[x] # None => lockfile'[x] = lockfile[x],
           \A f \in 1 .. Len(flock) : flock[f] = q => flock'[f] = q,
           proc[q].pc \in Mapped =>
              name' = name /\ object'[name].ready = object[name].ready
    PROVE  Kept(q)'
<1>1. Kept(q) /\ proc[q] \in Processes /\ "region" \in Paths /\ "lane" \in Paths
  BY DEF IInv, Types, Paths
<1>2. lockfile["region"] \in 0 .. Len(flock) /\ lockfile["lane"] \in 0 .. Len(flock)
        /\ Len(flock) \in Nat
  BY <1>1 DEF IInv, Types
<1>3. proc'[q].file # None => proc'[q].file = lockfile'["region"]
  BY <1>1 DEF Kept
<1>4. proc'[q].lane # None =>
          proc'[q].lane = lockfile'["lane"] /\ flock'[proc'[q].lane] = q
  BY <1>1, <1>2 DEF Kept, None
<1>5. proc'[q].pc \in Inside => flock'[proc'[q].file] = q
  BY <1>1, <1>2 DEF Kept, None, Filed
<1>6. /\ proc'[q].pc \in Mapped => proc'[q].obj = name' /\ name' # None
      /\ proc'[q].pc \in Sharing \cup {"opened"} => object'[name'].ready
      /\ proc'[q].created /\ proc'[q].pc \in Private => ~object'[name'].ready
  <2>1. Sharing \cup {"opened"} \subseteq Mapped /\ Private \subseteq Mapped
    BY DEF Sharing, Mapped, Private, Inside
  <2> QED BY <1>1, <2>1 DEF Kept
<1> QED BY <1>1, <1>3, <1>4, <1>5, <1>6 DEF Kept

-----------------------------------------------------------------------------
(***************************************************************************)
(* The steps of a process                                                  *)
(***************************************************************************)

\* A step of p in its own right: nobody else's record or membership changes.
Moves(p, r) ==
    /\ proc' = [proc EXCEPT ![p] = r] /\ r \in Processes
    /\ setup' = setup /\ tool' = tool
    /\ \A q \in Everyone : q # p => (q \in fleet' <=> q \in fleet)
    /\ Tool \in fleet' <=> Tool \in fleet
    /\ fleet' \subseteq Everyone \cup {Tool}

\* The locks of the others stay theirs, and a path keeps its file.
LocksStay(p) ==
    /\ flock' \in Seq(Holders) /\ lockfile' \in [Paths -> 0 .. Len(flock')]
    /\ \A x \in Paths : lockfile[x] # None => lockfile'[x] = lockfile[x]
    /\ \A q \in Everyone : q # p =>
          \A f \in 1 .. Len(flock) : flock[f] = q => flock'[f] = q
    /\ lockfile'["region"] = lockfile'["lane"] => lockfile'["lane"] = None

\* The segment of the others stays what it is.
SegmentStays(p) ==
    /\ object' \in Seq(Objects) /\ name' \in 0 .. Len(object')
    /\ \A q \in Everyone : q # p /\ proc[q].pc \in Mapped =>
          name' = name /\ object'[name].ready = object[name].ready

\* A step of p that leaves the others' locks and their segment alone, and p
\* itself in order, keeps the invariant.
LEMMA ProcessStep ==
    ASSUME IInv, NEW p \in Everyone, NEW r, Moves(p, r), LocksStay(p),
           SegmentStays(p), Kept(p)', Tool \in fleet' => fleet' = {Tool}
    PROVE  IInv'
<1>1. Types'
  <2>1. proc' \in [Everyone -> Processes] BY DEF Moves, IInv, Types
  <2>2. Processes' = Processes /\ Objects' = Objects
    BY DEF Moves, Processes, Objects, PolicySet
  <2>3. tool' \in [pc : {"off", "found", "unlink", "files", "done"}]
    BY DEF Moves, IInv, Types
  <2> QED BY <2>1, <2>2, <2>3 DEF Types, LocksStay, SegmentStays, Moves
<1>2. Alone' BY DEF Alone, IInv, Moves, LocksStay
<1>3. ASSUME NEW q \in Everyone, q # p PROVE Kept(q)'
  <2>1. proc'[q] = proc[q] BY <1>3 DEF Moves, IInv, Types
  <2> QED
    BY <1>3, <2>1, OthersKept DEF Moves, LocksStay, SegmentStays
<1> QED BY <1>1, <1>2, <1>3 DEF IInv

\* The types of what a step reads.
LEMMA Reads ==
    ASSUME IInv, NEW p \in Everyone
    PROVE  /\ proc[p] \in Processes /\ Kept(p)
           /\ "owner" \in PolicySet /\ proc[p].policy \in PolicySet
           /\ object \in Seq(Objects) /\ name \in 0 .. Len(object)
           /\ flock \in Seq(Holders) /\ Len(flock) \in Nat /\ Len(object) \in Nat
           /\ lockfile \in [Paths -> 0 .. Len(flock)]
           /\ "region" \in Paths /\ "lane" \in Paths
           /\ p \in Holders /\ Nobody \in Holders
<1>1. proc[p] \in Processes BY DEF IInv, Types
<1>2. proc[p].policy \in PolicySet BY <1>1 DEF Processes
<1>3. object \in Seq(Objects) /\ flock \in Seq(Holders) BY DEF IInv, Types
<1>4. Len(flock) \in Nat /\ Len(object) \in Nat BY <1>3
<1> QED BY <1>1, <1>2, <1>3, <1>4 DEF IInv, Types, PolicySet, Paths, Holders

\* Where nothing of it is touched.
LEMMA LocksUntouched ==
    ASSUME IInv, NEW p, UNCHANGED <<lockfile, flock>>
    PROVE  LocksStay(p)
  BY DEF LocksStay, IInv, Types, Alone

\* A step that leaves the name and the objects is no matter for others.
LEMMA SegmentUntouched ==
    ASSUME IInv, NEW p, UNCHANGED <<name, object>>
    PROVE  SegmentStays(p)
  BY DEF SegmentStays, IInv, Types

\* open_lock_file gives the path a file when it has none.
LEMMA OpensFile ==
    ASSUME IInv, NEW p \in Everyone, NEW x \in Paths,
           lockfile' = [lockfile EXCEPT ![x] = Opened(x)],
           \/ lockfile[x] # None /\ flock' = flock
           \/ /\ lockfile[x] = None
              /\ \E h \in Holders : flock' = Append(flock, h)
    PROVE  /\ LocksStay(p) /\ lockfile'[x] = Opened(x)
           /\ Opened(x) # None /\ Opened(x) \in Nat
           /\ \A q \in Everyone, f \in 1 .. Len(flock) :
                 flock[f] = q => flock'[f] = q
           /\ \A y \in Paths : lockfile[y] # None => lockfile'[y] = lockfile[y]
<1>1. /\ flock \in Seq(Holders) /\ Len(flock) \in Nat
      /\ lockfile \in [Paths -> 0 .. Len(flock)]
      /\ "region" \in Paths /\ "lane" \in Paths
  BY Reads
<1>2. CASE lockfile[x] # None
  <2>1. Opened(x) = lockfile[x] BY <1>2 DEF Opened
  <2>2. lockfile' = lockfile /\ flock' = flock BY <1>1, <1>2, <2>1
  <2> QED BY <1>1, <1>2, <2>1, <2>2, LocksUntouched
<1>3. CASE lockfile[x] = None
  <2>1. Opened(x) = Len(flock) + 1 BY <1>3 DEF Opened
  <2>2. PICK h \in Holders : flock' = Append(flock, h) BY <1>3
  <2>3. /\ flock' \in Seq(Holders) /\ Len(flock') = Len(flock) + 1
        /\ \A f \in 1 .. Len(flock) : flock'[f] = flock[f]
    BY <1>1, <2>2
  <2>4. \A y \in Paths :
           lockfile'[y] = IF y = x THEN Len(flock) + 1 ELSE lockfile[y]
    BY <1>1, <2>1
  <2>5. lockfile' \in [Paths -> 0 .. Len(flock')]
    BY <1>1, <2>1, <2>3
  <2>6. lockfile'["region"] = lockfile'["lane"] => lockfile'["lane"] = None
    <3>1. lockfile["region"] <= Len(flock) /\ lockfile["lane"] <= Len(flock)
            /\ lockfile["region"] \in Nat /\ lockfile["lane"] \in Nat
      BY <1>1
    <3>2. x = "region" \/ x = "lane" BY DEF Paths
    <3> QED BY <1>1, <2>4, <3>1, <3>2
  <2>7. /\ \A y \in Paths : lockfile[y] # None => lockfile'[y] = lockfile[y]
        /\ lockfile'[x] = Opened(x)
    BY <1>3, <2>1, <2>4
  <2>8. Opened(x) # None /\ Opened(x) \in Nat BY <1>1, <2>1 DEF None
  <2> QED BY <2>3, <2>5, <2>6, <2>7, <2>8 DEF LocksStay
<1> QED BY <1>2, <1>3

\* A file nobody else has locked changes hands.
LEMMA FileChanges ==
    ASSUME IInv, NEW p \in Everyone, NEW f, NEW h \in Holders,
           f \in 1 .. Len(flock), flock[f] = p \/ flock[f] = Nobody, Apart,
           flock' = [flock EXCEPT ![f] = h], lockfile' = lockfile
    PROVE  /\ LocksStay(p) /\ flock'[f] = h
           /\ \A g \in 1 .. Len(flock) : g # f => flock'[g] = flock[g]
<1>1. /\ flock \in Seq(Holders) /\ Len(flock) \in Nat
      /\ lockfile \in [Paths -> 0 .. Len(flock)]
  BY Reads
<1>2. /\ flock' \in Seq(Holders) /\ Len(flock') = Len(flock)
      /\ flock'[f] = h
      /\ \A g \in 1 .. Len(flock) : g # f => flock'[g] = flock[g]
  BY <1>1
<1>3. \A q \in Everyone : q # p =>
          \A g \in 1 .. Len(flock) : flock[g] = q => flock'[g] = q
  BY <1>2 DEF Apart
<1> QED BY <1>1, <1>2, <1>3 DEF LocksStay, IInv, Alone

\* The places a process moves through are of the sets above.
LEMMA JoinStep ==
    ASSUME IInv, Apart, NEW p \in Everyone, Join(p) \/ HoldExisting(p)
    PROVE  IInv'
<1>1. PICK r : /\ proc' = [proc EXCEPT ![p] = r] /\ r \in Processes
               /\ r.pc \in {"joined", "attach"} /\ r.file = None /\ r.lane = None
               /\ ~r.created
  <2>1. "owner" \in PolicySet BY Reads
  <2>2. CASE Join(p)
    <3>1. PICK policy \in setup.policies :
             Step(p, [Out EXCEPT !.pc = "joined", !.policy = policy])
      BY <2>2 DEF Join
    <3> DEFINE r == [Out EXCEPT !.pc = "joined", !.policy = policy]
    <3>2. /\ r \in Processes /\ r.pc = "joined" /\ r.file = None
          /\ r.lane = None /\ ~r.created
      BY DEF Processes, Out, Places, PolicySet, None
    <3> QED BY <3>1, <3>2 DEF Step
  <2>3. CASE HoldExisting(p)
    <3> DEFINE r == [Out EXCEPT !.pc = "attach"]
    <3>1. /\ r \in Processes /\ r.pc = "attach" /\ r.file = None
          /\ r.lane = None /\ ~r.created
      BY <2>1 DEF Processes, Out, Places, None
    <3> QED BY <2>3, <3>1 DEF Step, HoldExisting
  <2> QED BY <2>2, <2>3
<1>2. /\ Tool \notin fleet /\ fleet' = fleet \cup {p}
      /\ UNCHANGED <<name, object, lockfile, flock, tool, setup>>
  BY DEF Join, HoldExisting
<1>3. Moves(p, r) BY <1>1, <1>2 DEF Moves, Apart, IInv, Types
<1>4. LocksStay(p) /\ SegmentStays(p)
  BY <1>2, LocksUntouched, SegmentUntouched
<1>5. proc'[p] = r BY <1>1 DEF IInv, Types
<1>6. Kept(p)'
  BY <1>1, <1>2, <1>5
  DEF Kept, Filed, Inside, Mapped, Sharing, Private
<1>7. Tool \notin fleet' BY <1>2 DEF Apart
<1> QED BY <1>3, <1>4, <1>6, <1>7, ProcessStep

\* The path of the segment's lock is opened, by a member that starts or for a
\* section.
LEMMA OpenStep ==
    ASSUME IInv, Apart, NEW p \in Everyone, OpenRegion(p) \/ OpenSection(p)
    PROVE  IInv'
<1>1. PICK r : /\ proc' = [proc EXCEPT ![p] = r] /\ r \in Processes
               /\ r.file = Opened("region") /\ r.lane = proc[p].lane
               /\ r.obj = proc[p].obj /\ r.created = proc[p].created
               /\ \/ proc[p].pc = "joined" /\ r.pc = "lock"
                  \/ proc[p].pc = "open" /\ r.pc = "enter"
  <2>1. proc[p] \in Processes BY Reads
  <2>2. Opened("region") \in Nat BY Reads DEF Opened
  <2>3. CASE OpenRegion(p)
    <3> DEFINE r == [proc[p] EXCEPT !.pc = "lock", !.file = Opened("region")]
    <3>1. /\ r \in Processes /\ r.file = Opened("region")
          /\ r.lane = proc[p].lane /\ r.obj = proc[p].obj
          /\ r.created = proc[p].created /\ r.pc = "lock"
      BY <2>1, <2>2 DEF Processes, Places
    <3> QED BY <2>3, <3>1 DEF Step, OpenRegion, At
  <2>4. CASE OpenSection(p)
    <3> DEFINE r == [proc[p] EXCEPT !.pc = "enter", !.file = Opened("region")]
    <3>1. /\ r \in Processes /\ r.file = Opened("region")
          /\ r.lane = proc[p].lane /\ r.obj = proc[p].obj
          /\ r.created = proc[p].created /\ r.pc = "enter"
      BY <2>1, <2>2 DEF Processes, Places, Sharing
    <3> QED BY <2>4, <3>1 DEF Step, OpenSection, At
  <2> QED BY <2>3, <2>4
<1>2. /\ OpenLockFile("region")
      /\ UNCHANGED <<fleet, name, object, tool, setup>>
  BY DEF OpenRegion, OpenSection
<1>3. /\ LocksStay(p) /\ lockfile'["region"] = Opened("region")
      /\ Opened("region") # None
      /\ \A f \in 1 .. Len(flock) : flock[f] = p => flock'[f] = p
      /\ \A y \in Paths : lockfile[y] # None => lockfile'[y] = lockfile[y]
  <2>1. "region" \in Paths /\ Nobody \in Holders BY Reads
  <2>2. \/ lockfile["region"] # None /\ flock' = flock
        \/ /\ lockfile["region"] = None
           /\ \E h \in Holders : flock' = Append(flock, h)
    BY <1>2, <2>1 DEF OpenLockFile
  <2> QED BY <1>2, <2>1, <2>2, OpensFile DEF OpenLockFile
<1>4. Moves(p, r) BY <1>1, <1>2 DEF Moves, IInv, Types
<1>5. SegmentStays(p) BY <1>2, SegmentUntouched
<1>6. proc'[p] = r BY <1>1 DEF IInv, Types
<1>7. Kept(p)'
  <2>1. Kept(p) /\ proc[p] \in Processes /\ "lane" \in Paths
          /\ lockfile \in [Paths -> 0 .. Len(flock)] /\ Len(flock) \in Nat
    BY Reads
  <2>2. r.lane # None => r.lane = lockfile'["lane"] /\ flock'[r.lane] = p
    <3> SUFFICES ASSUME r.lane # None
                 PROVE  r.lane = lockfile'["lane"] /\ flock'[r.lane] = p
      OBVIOUS
    <3>1. r.lane = lockfile["lane"] /\ flock[r.lane] = p
      BY <1>1, <2>1 DEF Kept
    <3>2. r.lane \in 1 .. Len(flock) BY <2>1, <3>1 DEF None
    <3> QED BY <1>3, <2>1, <3>1, <3>2
  <2>3. p \in fleet' BY <1>1, <1>2, <2>1 DEF Kept
  <2>4. r.pc = "lock" => ~r.created BY <1>1, <2>1 DEF Kept, Private
  <2>5. r.pc = "enter" => /\ r.obj = name /\ name # None /\ object[name].ready
                          /\ ~r.created
    BY <1>1, <2>1 DEF Kept, Private, Mapped, Sharing
  <2>6. r.pc \in {"lock", "enter"} BY <1>1
  <2> QED
    BY <1>1, <1>2, <1>3, <1>6, <2>2, <2>3, <2>4, <2>5, <2>6
    DEF Kept, Filed, Inside, Mapped, Sharing, Private
<1> QED BY <1>2, <1>3, <1>4, <1>5, <1>7, ProcessStep DEF IInv, Alone

\* The lock of the segment is taken.
LEMMA LockStep ==
    ASSUME IInv, Apart, NEW p \in Everyone, LockRegion(p) \/ EnterSection(p)
    PROVE  IInv'
<1>1. PICK r : /\ proc' = [proc EXCEPT ![p] = r] /\ r \in Processes
               /\ r.file = proc[p].file /\ r.lane = proc[p].lane
               /\ r.obj = proc[p].obj /\ r.created = proc[p].created
               /\ \/ proc[p].pc = "lock" /\ r.pc = "shm"
                  \/ proc[p].pc = "enter" /\ r.pc = "section"
  <2>1. proc[p] \in Processes BY Reads
  <2>2. CASE LockRegion(p)
    <3> DEFINE r == [proc[p] EXCEPT !.pc = "shm"]
    <3>1. /\ r \in Processes /\ r.file = proc[p].file
          /\ r.lane = proc[p].lane /\ r.obj = proc[p].obj
          /\ r.created = proc[p].created /\ r.pc = "shm"
      BY <2>1 DEF Processes, Places, Inside
    <3> QED BY <2>2, <3>1 DEF Step, LockRegion, At
  <2>3. CASE EnterSection(p)
    <3> DEFINE r == [proc[p] EXCEPT !.pc = "section"]
    <3>1. /\ r \in Processes /\ r.file = proc[p].file
          /\ r.lane = proc[p].lane /\ r.obj = proc[p].obj
          /\ r.created = proc[p].created /\ r.pc = "section"
      BY <2>1 DEF Processes, Places, Inside
    <3> QED BY <2>3, <3>1 DEF Step, EnterSection, At
  <2> QED BY <2>2, <2>3
<1>2. /\ flock[proc[p].file] = Nobody
      /\ flock' = [flock EXCEPT ![proc[p].file] = p]
      /\ UNCHANGED <<fleet, name, object, lockfile, tool, setup>>
  BY DEF LockRegion, EnterSection, Locked
<1>3. /\ Kept(p) /\ proc[p] \in Processes /\ "lane" \in Paths
      /\ "region" \in Paths /\ p \in Holders
      /\ lockfile \in [Paths -> 0 .. Len(flock)] /\ Len(flock) \in Nat
  BY Reads
<1>4. /\ proc[p].file # None /\ proc[p].file = lockfile["region"]
      /\ proc[p].file \in 1 .. Len(flock)
  <2>1. proc[p].file # None BY <1>1, <1>3 DEF Kept, Filed
  <2> QED BY <1>3, <2>1 DEF Kept, None
<1>5. /\ LocksStay(p) /\ flock'[proc[p].file] = p
      /\ \A g \in 1 .. Len(flock) : g # proc[p].file => flock'[g] = flock[g]
  BY <1>2, <1>3, <1>4, FileChanges
<1>6. Moves(p, r) BY <1>1, <1>2 DEF Moves, IInv, Types
<1>7. SegmentStays(p) BY <1>2, SegmentUntouched
<1>8. proc'[p] = r BY <1>1 DEF IInv, Types
<1>9. Kept(p)'
  <2>1. r.lane # None => r.lane = lockfile'["lane"] /\ flock'[r.lane] = p
    <3> SUFFICES ASSUME r.lane # None
                 PROVE  r.lane = lockfile'["lane"] /\ flock'[r.lane] = p
      OBVIOUS
    <3>1. r.lane = lockfile["lane"] /\ flock[r.lane] = p
      BY <1>1, <1>3 DEF Kept
    <3>2. r.lane \in 1 .. Len(flock) BY <1>3, <3>1 DEF None
    <3> QED BY <1>2, <1>5, <3>1, <3>2
  <2>2. p \in fleet' BY <1>1, <1>2, <1>3 DEF Kept
  <2>3. r.pc = "shm" => ~r.created BY <1>1, <1>3 DEF Kept, Private
  <2>4. r.pc = "section" => /\ r.obj = name /\ name # None
                            /\ object[name].ready /\ ~r.created
    BY <1>1, <1>3 DEF Kept, Private, Mapped, Sharing
  <2>5. r.pc \in {"shm", "section"} BY <1>1
  <2> QED
    BY <1>1, <1>2, <1>4, <1>5, <1>8, <2>1, <2>2, <2>3, <2>4, <2>5
    DEF Kept, Filed, Inside, Mapped, Sharing, Private
<1> QED BY <1>2, <1>5, <1>6, <1>7, <1>9, ProcessStep DEF IInv, Alone

\* A process stays inside of the lock and keeps what it holds.
LEMMA InsideStep ==
    ASSUME IInv, Apart, NEW p \in Everyone, NEW r,
           proc[p].pc \in Inside, r.pc \in Inside,
           proc' = [proc EXCEPT ![p] = r], r \in Processes,
           r.file = proc[p].file, r.lane = proc[p].lane,
           UNCHANGED <<fleet, lockfile, flock, tool, setup>>,
           SegmentStays(p),
           r.pc \in Mapped => r.obj = name' /\ name' # None,
           r.pc \in Sharing \cup {"opened"} => object'[name'].ready,
           r.created => r.pc \in Private \cup {"opened"},
           r.created /\ r.pc \in Private => ~object'[name'].ready,
           r.pc \in {"header", "configure", "truncate"} => r.created
    PROVE  IInv'
<1>1. Kept(p) BY Reads
<1>2. Moves(p, r) BY DEF Moves, IInv, Types
<1>3. LocksStay(p) BY LocksUntouched
<1>4. proc'[p] = r BY DEF IInv, Types
<1>5. r.pc # "out" /\ proc[p].pc # "out" BY DEF Inside
<1>6. Kept(p)' BY <1>1, <1>4, <1>5 DEF Kept, Filed
<1> QED BY <1>2, <1>3, <1>6, ProcessStep DEF IInv, Alone

\* shm_open gives p the object of the name or a new one; the fleet's file
\* lock keeps the tool away meanwhile.
LEMMA ShmOpenStep ==
    ASSUME IInv, Apart, NEW p \in Everyone, ShmOpen(p)
    PROVE  IInv'
<1>1. /\ proc[p] \in Processes /\ Kept(p) /\ object \in Seq(Objects)
      /\ name \in 0 .. Len(object) /\ Len(object) \in Nat /\ "owner" \in PolicySet
  BY Reads
<1>2. /\ proc[p].pc = "shm"
      /\ UNCHANGED <<fleet, lockfile, flock, tool, setup>>
  BY DEF ShmOpen, At
<1>3. proc[p].pc \in Inside /\ ~proc[p].created
  BY <1>1, <1>2 DEF Inside, Kept, Private
<1>4. CASE name # None
  <2> DEFINE r == [proc[p] EXCEPT !.pc = "access", !.obj = name]
  <2>1. proc' = [proc EXCEPT ![p] = r] /\ UNCHANGED <<name, object>>
    BY <1>4 DEF ShmOpen, Step
  <2>2. /\ r \in Processes /\ r.file = proc[p].file /\ r.lane = proc[p].lane
        /\ r.obj = name /\ r.created = proc[p].created /\ r.pc = "access"
    <3>1. name \in Nat /\ "access" \in Places BY <1>1 DEF Places, Inside
    <3> QED BY <1>1, <3>1 DEF Processes
  <2>3. SegmentStays(p) BY <2>1, SegmentUntouched
  <2> HIDE DEF r
  <2>4. r.pc \in Inside /\ r.pc \notin Sharing \cup {"opened"}
          /\ r.pc \notin {"header", "configure", "truncate"}
    BY <2>2 DEF Inside, Sharing
  <2> QED BY <1>2, <1>3, <1>4, <2>1, <2>2, <2>3, <2>4, InsideStep
<1>5. CASE name = None
  <2> DEFINE r == [proc[p] EXCEPT !.pc = "configure", !.obj = Len(object) + 1,
                                  !.created = TRUE]
  <2>1. /\ proc' = [proc EXCEPT ![p] = r] /\ object' = Append(object, Fresh)
        /\ name' = Len(object) + 1
    BY <1>5 DEF ShmOpen, Step
  <2>2. /\ r \in Processes /\ r.file = proc[p].file /\ r.lane = proc[p].lane
        /\ r.obj = Len(object) + 1 /\ r.created = TRUE /\ r.pc = "configure"
    <3>1. Len(object) + 1 \in Nat /\ "configure" \in Places
      BY <1>1 DEF Places, Inside
    <3> QED BY <1>1, <3>1 DEF Processes
  <2>3. Fresh \in Objects /\ Fresh.ready = FALSE BY <1>1 DEF Fresh, Objects
  <2>4. /\ object' \in Seq(Objects) /\ Len(object') = Len(object) + 1
        /\ object'[name'] = Fresh
    BY <1>1, <2>1, <2>3
  <2>5. \A q \in Everyone : proc[q].pc \notin Mapped
    BY <1>5 DEF IInv, Kept
  <2>6. SegmentStays(p) BY <1>1, <2>1, <2>4, <2>5 DEF SegmentStays
  <2>7. name' # None BY <1>1, <2>1 DEF None
  <2> HIDE DEF r
  <2>8. r.pc \in Inside /\ r.pc \notin Sharing \cup {"opened"}
          /\ r.pc \in Private
    BY <2>2 DEF Inside, Sharing, Private
  <2>9. r.obj = name' /\ ~object'[name'].ready BY <2>1, <2>2, <2>3, <2>4
  <2> QED BY <1>2, <1>3, <2>1, <2>2, <2>6, <2>7, <2>8, <2>9, InsideStep
<1> QED BY <1>4, <1>5

\* A creator works on a segment it has for itself.
LEMMA CreatorStep ==
    ASSUME IInv, Apart, NEW p \in Everyone,
           Configure(p) \/ Truncate(p) \/ WriteHeader(p)
    PROVE  IInv'
<1>1. /\ proc[p] \in Processes /\ Kept(p) /\ object \in Seq(Objects)
      /\ name \in 0 .. Len(object) /\ Len(object) \in Nat
      /\ proc[p].policy \in PolicySet
  BY Reads
<1>2. /\ proc[p].pc \in {"configure", "truncate", "header"}
      /\ UNCHANGED <<fleet, name, lockfile, flock, tool, setup>>
  BY DEF Configure, Truncate, WriteHeader, At
<1>3. proc[p].pc \in Inside /\ proc[p].pc \in Private /\ proc[p].pc \in Mapped
  BY <1>2 DEF Inside, Private, Mapped
<1>4. /\ proc[p].created /\ ~object[name].ready
      /\ proc[p].obj = name /\ name # None
  BY <1>1, <1>2, <1>3 DEF Kept
<1>5. name \in 1 .. Len(object) /\ object[name] \in Objects
  BY <1>1, <1>4 DEF None
<1>6. PICK o \in Objects : /\ object' = [object EXCEPT ![name] = o]
                           /\ proc[p].pc # "header" => ~o.ready
                           /\ proc[p].pc = "header" => o.ready
  <2>1. CASE Configure(p)
    <3> DEFINE o == [object[name] EXCEPT !.policy = proc[p].policy]
    <3>1. o \in Objects /\ o.ready = object[name].ready
      BY <1>1, <1>5 DEF Objects
    <3>2. object' = [object EXCEPT ![name] = o] /\ proc[p].pc = "configure"
      BY <1>4, <2>1 DEF Configure, At
    <3> QED BY <1>4, <3>1, <3>2
  <2>2. CASE Truncate(p)
    <3> DEFINE o == [object[name] EXCEPT !.size = TRUE]
    <3>1. o \in Objects /\ o.ready = object[name].ready
      BY <1>1, <1>5 DEF Objects
    <3>2. object' = [object EXCEPT ![name] = o] /\ proc[p].pc = "truncate"
      BY <1>4, <2>2 DEF Truncate, At
    <3> QED BY <1>4, <3>1, <3>2
  <2>3. CASE WriteHeader(p)
    <3> DEFINE o == [object[name] EXCEPT !.ready = TRUE]
    <3>1. o \in Objects /\ o.ready = TRUE BY <1>1, <1>5 DEF Objects
    <3>2. object' = [object EXCEPT ![name] = o] /\ proc[p].pc = "header"
      BY <1>4, <2>3 DEF WriteHeader, At
    <3> QED BY <3>1, <3>2
  <2> QED BY <2>1, <2>2, <2>3
<1>7. PICK r : /\ proc' = [proc EXCEPT ![p] = r] /\ r \in Processes
               /\ r.file = proc[p].file /\ r.lane = proc[p].lane
               /\ r.obj = proc[p].obj /\ r.created = proc[p].created
               /\ \/ proc[p].pc # "header" /\ r.pc \in {"access", "size"}
                  \/ proc[p].pc = "header" /\ r.pc = "opened"
  <2> DEFINE r(x) == [proc[p] EXCEPT !.pc = x]
  <2>1. \A x \in Inside :
          /\ r(x) \in Processes /\ r(x).file = proc[p].file
          /\ r(x).lane = proc[p].lane /\ r(x).obj = proc[p].obj
          /\ r(x).created = proc[p].created /\ r(x).pc = x
    BY <1>1 DEF Processes, Places
  <2>2. "access" \in Inside /\ "size" \in Inside /\ "opened" \in Inside
    BY DEF Inside
  <2>3. \/ proc' = [proc EXCEPT ![p] = r("access")] /\ proc[p].pc # "header"
        \/ proc' = [proc EXCEPT ![p] = r("size")] /\ proc[p].pc # "header"
        \/ proc' = [proc EXCEPT ![p] = r("opened")] /\ proc[p].pc = "header"
    BY DEF Configure, Truncate, WriteHeader, Step, At
  <2> HIDE DEF r
  <2> QED BY <2>1, <2>2, <2>3
<1>8. /\ object' \in Seq(Objects) /\ Len(object') = Len(object)
      /\ object'[name] = o
  BY <1>1, <1>5, <1>6
<1>9. SegmentStays(p)
  <2>1. \A q \in Everyone : q # p => proc[q].pc \notin Mapped
    BY <1>3, <1>4, OnlyCreator
  <2> QED BY <1>1, <1>2, <1>8, <2>1 DEF SegmentStays
<1>10. /\ r.pc \in Inside /\ r.pc \in Private \cup {"opened"}
       /\ r.pc \in Sharing \cup {"opened"} => r.pc = "opened"
       /\ r.pc \in Private => r.pc # "opened"
       /\ r.created
  BY <1>4, <1>7 DEF Inside, Private, Sharing
<1>11. /\ r.pc \in Sharing \cup {"opened"} => object'[name'].ready
       /\ r.pc \in Private => ~object'[name'].ready
  BY <1>2, <1>6, <1>7, <1>8, <1>10
<1> QED
  BY <1>2, <1>3, <1>4, <1>7, <1>9, <1>10, <1>11, InsideStep

\* What a process finds lets it go on.
LEMMA PassStep ==
    ASSUME IInv, Apart, NEW p \in Everyone, NEW x,
           UNCHANGED <<fleet, name, object, lockfile, flock, tool, setup>>,
           Step(p, [proc[p] EXCEPT !.pc = x]),
           \/ /\ proc[p].pc = "access"
              /\ x = IF proc[p].created THEN "truncate" ELSE "size"
           \/ proc[p].pc = "size" /\ x = "map"
           \/ /\ proc[p].pc = "map"
              /\ x = IF proc[p].created THEN "header" ELSE "validate"
           \/ proc[p].pc = "validate" /\ x = "opened" /\ object[name].ready
    PROVE  IInv'
<1> DEFINE r == [proc[p] EXCEPT !.pc = x]
<1>1. proc[p] \in Processes /\ Kept(p) BY Reads
<1>2. x \in Inside /\ x \in Mapped /\ proc[p].pc \in Inside
        /\ proc[p].pc \in Mapped
  BY DEF Inside, Mapped
<1>3. /\ r \in Processes /\ r.file = proc[p].file /\ r.lane = proc[p].lane
      /\ r.obj = proc[p].obj /\ r.created = proc[p].created /\ r.pc = x
  BY <1>1, <1>2 DEF Processes, Places
<1>4. proc' = [proc EXCEPT ![p] = r] BY DEF Step
<1>5. SegmentStays(p) BY SegmentUntouched
<1> HIDE DEF r
<1>6. /\ r.obj = name' /\ name' # None BY <1>1, <1>2, <1>3 DEF Kept
<1>7. x \in Sharing \cup {"opened"} => object'[name'].ready
  BY DEF Sharing
<1>8. r.created => /\ proc[p].pc \in Private /\ ~object[name].ready
                   /\ x \in Private
  BY <1>1, <1>3 DEF Kept, Private
<1>9. r.pc \in {"header", "configure", "truncate"} => r.created
  BY <1>3
<1> QED
  BY <1>2, <1>3, <1>4, <1>5, <1>6, <1>7, <1>8, <1>9, InsideStep

\* The lock of the segment is given back.
LEMMA GivesBack ==
    ASSUME IInv, Apart, NEW p \in Everyone, proc[p].pc \in Inside,
           Unlocked(proc[p].file), lockfile' = lockfile
    PROVE  /\ LocksStay(p)
           /\ proc[p].lane # None => flock'[proc[p].lane] = p
<1>1. /\ Kept(p) /\ Nobody \in Holders /\ "region" \in Paths /\ "lane" \in Paths
      /\ lockfile \in [Paths -> 0 .. Len(flock)] /\ Len(flock) \in Nat
  BY Reads
<1>2. /\ proc[p].file # None /\ proc[p].file = lockfile["region"]
      /\ flock[proc[p].file] = p
  BY <1>1 DEF Kept, Filed
<1>3. proc[p].file \in 1 .. Len(flock) BY <1>1, <1>2 DEF None
<1>4. /\ LocksStay(p)
      /\ \A g \in 1 .. Len(flock) : g # proc[p].file => flock'[g] = flock[g]
  BY <1>1, <1>2, <1>3, FileChanges DEF Unlocked
<1>5. proc[p].lane # None => flock'[proc[p].lane] = p
  <2> SUFFICES ASSUME proc[p].lane # None PROVE flock'[proc[p].lane] = p
    OBVIOUS
  <2>1. proc[p].lane = lockfile["lane"] /\ flock[proc[p].lane] = p
    BY <1>1 DEF Kept
  <2>2. proc[p].lane \in 1 .. Len(flock) BY <1>1, <2>1 DEF None
  <2>3. proc[p].lane # proc[p].file BY <1>2, <2>1 DEF IInv, Alone
  <2> QED BY <1>4, <2>1, <2>2, <2>3
<1> QED BY <1>4, <1>5

\* An open that fails.
LEMMA RefusedStep ==
    ASSUME IInv, Apart, NEW p \in Everyone, Refused(p),
           proc[p].pc \in Inside \ {"opened", "section"},
           UNCHANGED <<fleet, object, lockfile, tool, setup>>
    PROVE  IInv'
<1> DEFINE r == [proc[p] EXCEPT !.pc = "refused", !.file = None, !.obj = None]
<1>1. /\ proc[p] \in Processes /\ Kept(p) /\ name \in 0 .. Len(object)
      /\ Len(object) \in Nat /\ object \in Seq(Objects)
  BY Reads
<1>2. /\ r \in Processes /\ r.file = None /\ r.lane = proc[p].lane
      /\ r.created = proc[p].created /\ r.pc = "refused"
  BY <1>1 DEF Processes, Places, None
<1>3. proc' = [proc EXCEPT ![p] = r] BY DEF Refused, Step
<1> HIDE DEF r
<1>4. Moves(p, r) BY <1>2, <1>3 DEF Moves, IInv, Types
<1>5. LocksStay(p) /\ (proc[p].lane # None => flock'[proc[p].lane] = p)
  BY GivesBack DEF Refused
<1>6. SegmentStays(p)
  <2>1. name' \in 0 .. Len(object) BY <1>1 DEF Refused, None
  <2>2. ASSUME NEW q \in Everyone, q # p, proc[q].pc \in Mapped
        PROVE  name' = name
    <3>1. CASE proc[p].created
      <4>1. proc[p].pc \in Private BY <1>1, <3>1 DEF Kept, Inside
      <4> QED BY <2>2, <3>1, <4>1, OnlyCreator
    <3>2. CASE ~proc[p].created BY <3>2 DEF Refused
    <3> QED BY <3>1, <3>2
  <2> QED BY <1>1, <2>1, <2>2 DEF SegmentStays
<1>7. proc'[p] = r BY <1>3 DEF IInv, Types
<1>8. Kept(p)'
  <2>1. proc[p].pc # "out" BY DEF Inside
  <2>2. "refused" \notin Filed /\ "refused" \notin Inside
          /\ "refused" \notin Mapped /\ "refused" \notin Sharing
          /\ "refused" \notin Private
    BY DEF Filed, Inside, Mapped, Sharing, Private
  <2> QED BY <1>1, <1>2, <1>5, <1>7, <2>1, <2>2 DEF Kept
<1> QED BY <1>4, <1>5, <1>6, <1>8, ProcessStep DEF IInv, Alone

\* A start is complete, or a section ends.
LEMMA LeaveLockStep ==
    ASSUME IInv, Apart, NEW p \in Everyone, Initialized(p) \/ LeaveSection(p)
    PROVE  IInv'
<1>1. proc[p] \in Processes /\ Kept(p) BY Reads
<1>2. /\ proc[p].pc \in {"opened", "section"} /\ Unlocked(proc[p].file)
      /\ UNCHANGED <<fleet, name, object, lockfile, tool, setup>>
  BY DEF Initialized, LeaveSection, At
<1>3. proc[p].pc \in Inside /\ proc[p].pc \in Mapped /\ proc[p].pc # "out"
        /\ proc[p].pc \in Sharing \cup {"opened"}
  BY <1>2 DEF Inside, Mapped, Sharing
<1>4. PICK r : /\ proc' = [proc EXCEPT ![p] = r] /\ r \in Processes
               /\ r.file = None /\ r.lane = proc[p].lane
               /\ r.obj = proc[p].obj /\ ~r.created /\ r.pc = "open"
  <2>1. CASE Initialized(p)
    <3> DEFINE r == [proc[p] EXCEPT !.pc = "open", !.file = None,
                                    !.created = FALSE]
    <3>1. /\ r \in Processes /\ r.file = None /\ r.lane = proc[p].lane
          /\ r.obj = proc[p].obj /\ r.created = FALSE /\ r.pc = "open"
      BY <1>1 DEF Processes, Places, Sharing, None
    <3> QED BY <2>1, <3>1 DEF Initialized, Step
  <2>2. CASE LeaveSection(p)
    <3> DEFINE r == [proc[p] EXCEPT !.pc = "open", !.file = None]
    <3>1. /\ r \in Processes /\ r.file = None /\ r.lane = proc[p].lane
          /\ r.obj = proc[p].obj /\ r.created = proc[p].created
          /\ r.pc = "open"
      BY <1>1 DEF Processes, Places, Sharing, None
    <3>2. ~proc[p].created BY <1>1, <2>2 DEF LeaveSection, At, Kept, Private
    <3> QED BY <2>2, <3>1, <3>2 DEF LeaveSection, Step
  <2> QED BY <2>1, <2>2 DEF Initialized, LeaveSection
<1>5. Moves(p, r) BY <1>2, <1>4 DEF Moves, IInv, Types
<1>6. LocksStay(p) /\ (proc[p].lane # None => flock'[proc[p].lane] = p)
  BY <1>2, <1>3, GivesBack
<1>7. SegmentStays(p) BY <1>2, SegmentUntouched
<1>8. proc'[p] = r BY <1>4 DEF IInv, Types
<1>9. Kept(p)'
  <2>1. "open" \notin Filed /\ "open" \notin Inside /\ "open" \notin Private
    BY DEF Filed, Inside, Private
  <2>2. proc[p].obj = name /\ name # None /\ object[name].ready
    BY <1>1, <1>3 DEF Kept
  <2> QED BY <1>1, <1>2, <1>3, <1>4, <1>6, <1>8, <2>1, <2>2 DEF Kept
<1> QED BY <1>2, <1>5, <1>6, <1>7, <1>9, ProcessStep DEF IInv, Alone

\* A lane is held by one process.
LEMMA HoldLaneStep ==
    ASSUME IInv, Apart, NEW p \in Everyone, HoldLane(p)
    PROVE  IInv'
<1> DEFINE r == [proc[p] EXCEPT !.lane = Opened("lane")]
<1>1. /\ proc[p] \in Processes /\ Kept(p) /\ "lane" \in Paths
      /\ "region" \in Paths /\ p \in Holders
      /\ lockfile \in [Paths -> 0 .. Len(flock)] /\ Len(flock) \in Nat
      /\ flock \in Seq(Holders)
  BY Reads
<1>2. /\ proc[p].pc = "open" /\ proc[p].lane = None
      /\ lockfile' = [lockfile EXCEPT !["lane"] = Opened("lane")]
      /\ proc' = [proc EXCEPT ![p] = r]
      /\ UNCHANGED <<fleet, name, object, tool, setup>>
  BY DEF HoldLane, At, Step
<1>3. Opened("lane") \in Nat BY <1>1 DEF Opened
<1>4. /\ r \in Processes /\ r.file = proc[p].file
      /\ r.lane = Opened("lane") /\ r.obj = proc[p].obj
      /\ r.created = proc[p].created /\ r.pc = proc[p].pc
  BY <1>1, <1>3 DEF Processes
<1> HIDE DEF r
<1>5. LocksStay(p) /\ lockfile'["lane"] = Opened("lane")
        /\ flock'[Opened("lane")] = p
        /\ (lockfile["region"] # None => lockfile'["region"] = lockfile["region"])
  <2>1. CASE lockfile["lane"] = None
    <3>1. flock' = Append(flock, p) /\ Opened("lane") = Len(flock) + 1
      BY <2>1 DEF HoldLane, Opened
    <3>2. flock'[Opened("lane")] = p BY <1>1, <3>1
    <3>3. LocksStay(p) /\ lockfile'["lane"] = Opened("lane")
            /\ \A y \in Paths : lockfile[y] # None => lockfile'[y] = lockfile[y]
      BY <1>1, <1>2, <2>1, <3>1, OpensFile
    <3> QED BY <1>1, <3>2, <3>3
  <2>2. CASE lockfile["lane"] # None
    <3>1. /\ flock[lockfile["lane"]] = Nobody /\ Opened("lane") = lockfile["lane"]
          /\ flock' = [flock EXCEPT ![lockfile["lane"]] = p]
      BY <2>2 DEF HoldLane, Opened, Locked
    <3>2. lockfile["lane"] \in 1 .. Len(flock) BY <1>1, <2>2 DEF None
    <3>3. lockfile' = lockfile BY <1>1, <1>2, <3>1
    <3>4. LocksStay(p) /\ flock'[lockfile["lane"]] = p
      BY <1>1, <3>1, <3>2, <3>3, FileChanges
    <3> QED BY <3>1, <3>3, <3>4
  <2> QED BY <2>1, <2>2
<1>6. Moves(p, r) BY <1>2, <1>4 DEF Moves, IInv, Types
<1>7. SegmentStays(p) BY <1>2, SegmentUntouched
<1>8. proc'[p] = r BY <1>2 DEF IInv, Types
<1>9. Kept(p)'
  <2>1. "open" \notin Filed /\ "open" \notin Inside
    BY DEF Filed, Inside
  <2>2. r.file # None => r.file = lockfile'["region"]
    BY <1>1, <1>4, <1>5 DEF Kept
  <2> QED BY <1>1, <1>2, <1>4, <1>5, <1>8, <2>1, <2>2 DEF Kept
<1> QED BY <1>2, <1>5, <1>6, <1>7, <1>9, ProcessStep DEF IInv, Alone

\* p gives up its lane, which nobody else held.
LEMMA ReleaseLaneStep ==
    ASSUME IInv, Apart, NEW p \in Everyone, ReleaseLane(p)
    PROVE  IInv'
<1> DEFINE r == [proc[p] EXCEPT !.lane = None]
<1>1. /\ proc[p] \in Processes /\ Kept(p) /\ "lane" \in Paths
      /\ Nobody \in Holders
      /\ lockfile \in [Paths -> 0 .. Len(flock)] /\ Len(flock) \in Nat
  BY Reads
<1>2. /\ proc[p].pc = "open" /\ proc[p].lane # None
      /\ flock' = [flock EXCEPT ![proc[p].lane] = Nobody]
      /\ proc' = [proc EXCEPT ![p] = r]
      /\ UNCHANGED <<fleet, name, object, lockfile, tool, setup>>
  BY DEF ReleaseLane, At, Step, Unlocked
<1>3. /\ r \in Processes /\ r.file = proc[p].file
      /\ r.lane = None /\ r.obj = proc[p].obj
      /\ r.created = proc[p].created /\ r.pc = proc[p].pc
  BY <1>1 DEF Processes, None
<1> HIDE DEF r
<1>4. LocksStay(p)
  <2>1. proc[p].lane = lockfile["lane"] /\ flock[proc[p].lane] = p
    BY <1>1, <1>2 DEF Kept
  <2>2. proc[p].lane \in 1 .. Len(flock) BY <1>1, <1>2, <2>1 DEF None
  <2> QED BY <1>1, <1>2, <2>1, <2>2, FileChanges
<1>5. Moves(p, r) BY <1>2, <1>3 DEF Moves, IInv, Types
<1>6. SegmentStays(p) BY <1>2, SegmentUntouched
<1>7. proc'[p] = r BY <1>2 DEF IInv, Types
<1>8. Kept(p)'
  <2>1. "open" \notin Filed /\ "open" \notin Inside
    BY DEF Filed, Inside
  <2> QED BY <1>1, <1>2, <1>3, <1>7, <2>1 DEF Kept
<1> QED BY <1>2, <1>4, <1>5, <1>6, <1>8, ProcessStep DEF IInv, Alone

\* A reader attaches to what is there.
LEMMA AttachStep ==
    ASSUME IInv, Apart, NEW p \in Everyone, Attach(p)
    PROVE  IInv'
<1>1. /\ proc[p] \in Processes /\ Kept(p) /\ name \in 0 .. Len(object)
      /\ Len(object) \in Nat
  BY Reads
<1>2. /\ proc[p].pc = "attach"
      /\ UNCHANGED <<fleet, name, object, lockfile, flock, tool, setup>>
  BY DEF Attach, At
<1>3. PICK r : /\ proc' = [proc EXCEPT ![p] = r] /\ r \in Processes
               /\ r.file = proc[p].file /\ r.lane = proc[p].lane
               /\ r.created = proc[p].created
               /\ \/ r.pc = "refused"
                  \/ /\ r.pc = "attached" /\ r.obj = name /\ name # None
                     /\ object[name].ready
  <2> DEFINE good == [proc[p] EXCEPT !.pc = "attached", !.obj = name]
             bad == [proc[p] EXCEPT !.pc = "refused"]
  <2>1. /\ good \in Processes /\ good.file = proc[p].file
        /\ good.lane = proc[p].lane /\ good.created = proc[p].created
        /\ good.pc = "attached" /\ good.obj = name
    <3>1. name \in Nat /\ "attached" \in Places BY <1>1 DEF Places, Sharing
    <3> QED BY <1>1, <3>1 DEF Processes
  <2>2. /\ bad \in Processes /\ bad.file = proc[p].file
        /\ bad.lane = proc[p].lane /\ bad.created = proc[p].created
        /\ bad.pc = "refused"
    BY <1>1 DEF Processes, Places
  <2>3. \/ /\ proc' = [proc EXCEPT ![p] = good]
           /\ name # None /\ object[name].ready
        \/ proc' = [proc EXCEPT ![p] = bad]
    BY DEF Attach, Step, Readable
  <2> HIDE DEF good, bad
  <2> QED BY <2>1, <2>2, <2>3
<1>4. Moves(p, r) BY <1>2, <1>3 DEF Moves, IInv, Types
<1>5. LocksStay(p) /\ SegmentStays(p)
  BY <1>2, LocksUntouched, SegmentUntouched
<1>6. proc'[p] = r BY <1>3 DEF IInv, Types
<1>7. Kept(p)'
  <2>1. ~r.created BY <1>1, <1>2, <1>3 DEF Kept, Private
  <2>2. r.pc \notin Filed /\ r.pc \notin Inside /\ r.pc # "out"
          /\ r.pc \notin {"header", "configure", "truncate"}
          /\ (r.pc \in Mapped \cup Sharing \cup {"opened"} => r.pc = "attached")
    BY <1>3 DEF Filed, Inside, Mapped, Sharing
  <2> QED BY <1>1, <1>2, <1>3, <1>6, <2>1, <2>2 DEF Kept
<1> QED BY <1>2, <1>4, <1>5, <1>7, ProcessStep DEF IInv, Alone

\* A process ends, and the kernel lets go of its locks.
LEMMA EndStep ==
    ASSUME IInv, Apart, NEW p \in Everyone, Leave(p) \/ Crash(p)
    PROVE  IInv'
<1>1. /\ "owner" \in PolicySet /\ flock \in Seq(Holders) /\ Len(flock) \in Nat
      /\ Nobody \in Holders /\ Kept(p)
      /\ lockfile \in [Paths -> 0 .. Len(flock)]
  BY Reads
<1>2. /\ proc' = [proc EXCEPT ![p] = Out] /\ fleet' = fleet \ {p}
      /\ flock' = [f \in DOMAIN flock |->
                      IF flock[f] = p THEN Nobody ELSE flock[f]]
      /\ UNCHANGED <<name, object, lockfile, tool, setup>>
      /\ proc[p].pc # "out"
  BY DEF Leave, Crash, Step, Dropped, At
<1>3. /\ Out \in Processes /\ Out.pc = "out" /\ Out.file = None
      /\ Out.lane = None /\ ~Out.created
  BY <1>1 DEF Out, Processes, Places, None
<1>4. Moves(p, Out) BY <1>2, <1>3 DEF Moves, Apart, IInv, Types
<1>5. LocksStay(p)
  <2>1. /\ DOMAIN flock = 1 .. Len(flock)
        /\ \A f \in 1 .. Len(flock) : flock[f] \in Holders
    BY <1>1
  <2>2. flock' \in [1 .. Len(flock) -> Holders] BY <1>1, <1>2, <2>1
  <2>3. flock' \in Seq(Holders) /\ Len(flock') = Len(flock) BY <1>1, <2>2
  <2>4. \A q \in Everyone : q # p =>
           \A f \in 1 .. Len(flock) : flock[f] = q => flock'[f] = q
    BY <1>2, <2>1
  <2> QED BY <1>1, <1>2, <2>3, <2>4 DEF LocksStay, IInv, Alone
<1>6. SegmentStays(p) BY <1>2, SegmentUntouched
<1>7. proc'[p] = Out BY <1>2 DEF IInv, Types
<1>8. Kept(p)'
  <2>1. "out" \notin Filed /\ "out" \notin Inside /\ "out" \notin Mapped
          /\ "out" \notin Sharing /\ "out" \notin Private
    BY DEF Filed, Inside, Mapped, Sharing, Private
  <2> QED BY <1>2, <1>3, <1>7, <2>1 DEF Kept
<1>9. Tool \in fleet' => fleet' = {Tool}
  <2>1. p \in fleet /\ p # Tool BY <1>1, <1>2 DEF Kept, Apart
  <2> QED BY <1>2, <2>1 DEF IInv, Alone
<1> QED BY <1>4, <1>5, <1>6, <1>8, <1>9, ProcessStep

-----------------------------------------------------------------------------
(***************************************************************************)
(* The tool                                                                *)
(***************************************************************************)

\* With the fleet's lock held exclusively nobody is in.
LEMMA NobodyIn ==
    ASSUME IInv, Apart, fleet \subseteq {Tool}, NEW p \in Everyone
    PROVE  proc[p].pc = "out" /\ proc[p].file = None /\ proc[p].lane = None
             /\ ~proc[p].created
<1>1. Kept(p) BY Reads
<1>2. p \notin fleet BY DEF Apart
<1> QED BY <1>1, <1>2 DEF Kept, Private

\* Nothing is asked of a process that is out.
LEMMA OutKept ==
    ASSUME NEW p \in Everyone, proc'[p].pc = "out", proc'[p].file = None,
           proc'[p].lane = None, ~proc'[p].created, p \notin fleet'
    PROVE  Kept(p)'
<1>1. "out" \notin Filed /\ "out" \notin Inside /\ "out" \notin Mapped
        /\ "out" \notin Sharing /\ "out" \notin Private
  BY DEF Filed, Inside, Mapped, Sharing, Private
<1> QED BY <1>1 DEF Kept

\* The removing tool acts on the name, the paths and nothing that anyone
\* has open: it holds the fleet's lock alone.
LEMMA ToolStep ==
    ASSUME IInv, Apart,
           \/ Discover \/ TryLockFleet \/ ToolUnlink \/ ToolRemoveFiles
           \/ ToolDone \/ ToolStops
    PROVE  IInv'
<1>1. /\ object \in Seq(Objects) /\ name \in 0 .. Len(object)
      /\ flock \in Seq(Holders) /\ lockfile \in [Paths -> 0 .. Len(flock)]
      /\ proc \in [Everyone -> Processes] /\ fleet \subseteq Everyone \cup {Tool}
      /\ tool.pc \in {"off", "found", "unlink", "files", "done"}
  BY DEF IInv, Types
<1>2. proc' = proc /\ object' = object /\ flock' = flock /\ setup' = setup
  BY DEF Discover, TryLockFleet, ToolUnlink, ToolRemoveFiles, ToolDone, ToolStops
<1>3. Processes' = Processes /\ Objects' = Objects
  BY <1>2 DEF Processes, Objects, PolicySet
<1>4. ASSUME fleet \subseteq {Tool}, fleet' \subseteq {Tool}
      PROVE  \A p \in Everyone : Kept(p)'
  <2> TAKE p \in Everyone
  <2>1. p \notin fleet' BY <1>4 DEF Apart
  <2> QED BY <1>2, <1>4, <2>1, NobodyIn, OutKept
<1>5. ASSUME UNCHANGED <<name, lockfile>>,
             \A p \in Everyone : p \in fleet' <=> p \in fleet
      PROVE  \A p \in Everyone : Kept(p)'
  BY <1>2, <1>5, OthersKept
<1>6. CASE Discover
  <2>1. UNCHANGED <<name, lockfile, fleet>> /\ tool' = [pc |-> "found"]
          /\ tool'.pc = "found"
    BY <1>6 DEF Discover
  <2>2. Types' BY <1>1, <1>2, <1>3, <2>1 DEF Types
  <2>3. Alone' BY <2>1 DEF IInv, Alone
  <2> QED BY <1>5, <2>1, <2>2, <2>3 DEF IInv
<1>7. CASE TryLockFleet
  <2>1. UNCHANGED <<name, lockfile>> BY <1>7 DEF TryLockFleet
  <2>2. CASE fleet = {}
    <3>1. fleet' = {Tool} /\ tool' = [pc |-> "unlink"] /\ tool'.pc = "unlink"
      BY <1>7, <2>2 DEF TryLockFleet
    <3>2. Types' BY <1>1, <1>2, <1>3, <2>1, <3>1 DEF Types
    <3>3. Alone' BY <2>1, <3>1 DEF IInv, Alone
    <3> QED BY <1>4, <2>2, <3>1, <3>2, <3>3 DEF IInv
  <2>3. CASE fleet # {}
    <3>1. fleet' = fleet /\ tool' = [pc |-> "off"] /\ tool'.pc = "off"
      BY <1>7, <2>3 DEF TryLockFleet
    <3>2. Types' BY <1>1, <1>2, <1>3, <2>1, <3>1 DEF Types
    <3>3. Alone' BY <2>1, <3>1 DEF IInv, Alone
    <3> QED BY <1>5, <2>1, <3>1, <3>2, <3>3 DEF IInv
  <2> QED BY <2>2, <2>3
<1>8. CASE ToolUnlink
  <2>1. /\ tool.pc = "unlink" /\ name' = None /\ UNCHANGED <<fleet, lockfile>>
        /\ tool' = [pc |-> "files"] /\ tool'.pc = "files"
    BY <1>8 DEF ToolUnlink
  <2>2. fleet = {Tool} BY <2>1 DEF IInv, Alone
  <2>3. 0 .. Len(object) \subseteq Nat /\ None \in 0 .. Len(object)
    BY <1>1 DEF None
  <2>4. Types' BY <1>1, <1>2, <1>3, <2>1, <2>3 DEF Types
  <2>5. Alone' BY <2>1, <2>2 DEF IInv, Alone
  <2> QED BY <1>4, <2>1, <2>2, <2>4, <2>5 DEF IInv
<1>9. CASE ToolRemoveFiles
  <2>1. /\ tool.pc = "files" /\ lockfile' = [q \in Paths |-> None]
        /\ UNCHANGED <<fleet, name>>
        /\ tool' = [pc |-> "done"] /\ tool'.pc = "done"
    BY <1>9 DEF ToolRemoveFiles
  <2>2. fleet = {Tool} BY <2>1 DEF IInv, Alone
  <2>3. None \in 0 .. Len(flock) BY <1>1 DEF None
  <2>4. Types' BY <1>1, <1>2, <1>3, <2>1, <2>3 DEF Types
  <2>5. Alone' BY <2>1, <2>2 DEF IInv, Alone, Paths
  <2> QED BY <1>4, <2>1, <2>2, <2>4, <2>5 DEF IInv
<1>10. CASE ToolDone \/ ToolStops
  <2>1. /\ fleet' = fleet \ {Tool} /\ UNCHANGED <<name, lockfile>>
        /\ tool' = [pc |-> "off"] /\ tool'.pc = "off"
    BY <1>10 DEF ToolDone, ToolStops
  <2>2. Types' BY <1>1, <1>2, <1>3, <2>1 DEF Types
  <2>3. Alone' BY <2>1 DEF IInv, Alone
  <2>4. \A p \in Everyone : p \in fleet' <=> p \in fleet
    BY <2>1 DEF Apart
  <2> QED BY <1>5, <2>1, <2>2, <2>3, <2>4 DEF IInv
<1> QED BY <1>6, <1>7, <1>8, <1>9, <1>10

-----------------------------------------------------------------------------
(***************************************************************************)
(* The theorem                                                             *)
(***************************************************************************)

\* A fleet that nobody has joined satisfies the invariant.
LEMMA InitIInv ==
    ASSUME Init, Apart
    PROVE  IInv
<1>1. /\ Out \in Processes /\ Out.pc = "out" /\ Out.file = None
      /\ Out.lane = None /\ ~Out.created
  BY DEF Out, Processes, Places, None, PolicySet
<1>2. /\ object = <<>> /\ flock = <<>> /\ name = 0 /\ fleet = {}
      /\ lockfile = [q \in Paths |-> 0] /\ proc = [p \in Everyone |-> Out]
      /\ tool = [pc |-> "off"]
  BY DEF Init, None
<1>3. <<>> \in Seq(Objects) /\ <<>> \in Seq(Holders) /\ Len(<<>>) = 0
  OBVIOUS
<1>4. Types BY <1>1, <1>2, <1>3 DEF Types
<1>5. Alone BY <1>2 DEF Alone, Paths, None
<1>6. \A p \in Everyone : Kept(p)
  <2>1. "out" \notin Filed /\ "out" \notin Inside /\ "out" \notin Mapped
          /\ "out" \notin Sharing /\ "out" \notin Private
    BY DEF Filed, Inside, Mapped, Sharing, Private
  <2> QED BY <1>1, <1>2, <2>1 DEF Kept
<1> QED BY <1>4, <1>5, <1>6 DEF IInv

\* Every step of a process keeps the invariant.
LEMMA ProcessSteps ==
    ASSUME IInv, Apart, NEW p \in Everyone,
           \/ Join(p) \/ OpenRegion(p) \/ LockRegion(p) \/ ShmOpen(p)
           \/ CreateFails(p) \/ Configure(p) \/ CheckAccess(p) \/ Truncate(p)
           \/ CheckSize(p) \/ MapRegion(p) \/ WriteHeader(p)
           \/ ValidateHeader(p) \/ Initialized(p) \/ OpenSection(p)
           \/ EnterSection(p) \/ LeaveSection(p) \/ HoldLane(p)
           \/ ReleaseLane(p) \/ HoldExisting(p) \/ Attach(p) \/ Leave(p)
           \/ Crash(p)
    PROVE  IInv'
<1>1. CASE Join(p) \/ HoldExisting(p) BY <1>1, JoinStep
<1>2. CASE OpenRegion(p) \/ OpenSection(p) BY <1>2, OpenStep
<1>3. CASE LockRegion(p) \/ EnterSection(p) BY <1>3, LockStep
<1>4. CASE ShmOpen(p) BY <1>4, ShmOpenStep
<1>5. CASE CreateFails(p)
  <2>1. proc[p].pc \in {"configure", "truncate", "map"}
    BY <1>5 DEF CreateFails
  <2>2. proc[p].pc \in Inside \ {"opened", "section"} BY <2>1 DEF Inside
  <2> QED BY <1>5, <2>2, RefusedStep DEF CreateFails
<1>6. CASE Configure(p) \/ Truncate(p) \/ WriteHeader(p)
  BY <1>6, CreatorStep
<1>7. CASE CheckAccess(p)
  <2>1. proc[p].pc = "access" BY <1>7 DEF CheckAccess, At
  <2>2. proc[p].pc \in Inside \ {"opened", "section"} BY <2>1 DEF Inside
  <2>3. CASE Fits(p, proc[p].obj)
    <3>1. UNCHANGED <<fleet, name, object, lockfile, flock, tool, setup>>
      BY <1>7, <2>3 DEF CheckAccess
    <3>2. Step(p, [proc[p] EXCEPT !.pc = IF proc[p].created THEN "truncate"
                                         ELSE "size"])
      BY <1>7, <2>3 DEF CheckAccess
    <3> QED BY <2>1, <3>1, <3>2, PassStep
  <2>4. CASE ~Fits(p, proc[p].obj)
    BY <1>7, <2>2, <2>4, RefusedStep DEF CheckAccess
  <2> QED BY <2>3, <2>4
<1>8. CASE CheckSize(p)
  <2>1. proc[p].pc = "size" BY <1>8 DEF CheckSize, At
  <2>2. proc[p].pc \in Inside \ {"opened", "section"} BY <2>1 DEF Inside
  <2>3. CASE object[proc[p].obj].size
    <3>1. /\ UNCHANGED <<fleet, name, object, lockfile, flock, tool, setup>>
          /\ Step(p, [proc[p] EXCEPT !.pc = "map"])
      BY <1>8, <2>3 DEF CheckSize
    <3> QED BY <2>1, <3>1, PassStep
  <2>4. CASE ~object[proc[p].obj].size
    BY <1>8, <2>2, <2>4, RefusedStep DEF CheckSize
  <2> QED BY <2>3, <2>4
<1>9. CASE MapRegion(p)
  <2>1. /\ proc[p].pc = "map"
        /\ UNCHANGED <<fleet, name, object, lockfile, flock, tool, setup>>
        /\ Step(p, [proc[p] EXCEPT !.pc = IF proc[p].created THEN "header"
                                          ELSE "validate"])
    BY <1>9 DEF MapRegion, At
  <2> QED BY <2>1, PassStep
<1>10. CASE ValidateHeader(p)
  <2>1. proc[p].pc = "validate" BY <1>10 DEF ValidateHeader, At
  <2>2. proc[p].pc \in Inside \ {"opened", "section"} BY <2>1 DEF Inside
  <2>3. proc[p].obj = name
    BY <2>1, Reads DEF Kept, Mapped, Inside
  <2>4. CASE object[proc[p].obj].ready
    <3>1. /\ UNCHANGED <<fleet, name, object, lockfile, flock, tool, setup>>
          /\ Step(p, [proc[p] EXCEPT !.pc = "opened"])
      BY <1>10, <2>4 DEF ValidateHeader
    <3> QED BY <2>1, <2>3, <2>4, <3>1, PassStep
  <2>5. CASE ~object[proc[p].obj].ready
    BY <1>10, <2>2, <2>5, RefusedStep DEF ValidateHeader
  <2> QED BY <2>4, <2>5
<1>11. CASE Initialized(p) \/ LeaveSection(p) BY <1>11, LeaveLockStep
<1>12. CASE HoldLane(p) BY <1>12, HoldLaneStep
<1>13. CASE ReleaseLane(p) BY <1>13, ReleaseLaneStep
<1>14. CASE Attach(p) BY <1>14, AttachStep
<1>15. CASE Leave(p) \/ Crash(p) BY <1>15, EndStep
<1> QED
  BY <1>1, <1>2, <1>3, <1>4, <1>5, <1>6, <1>7, <1>8, <1>9, <1>10, <1>11,
     <1>12, <1>13, <1>14, <1>15

\* Every step keeps the invariant.
LEMMA NextIInv ==
    ASSUME IInv, Apart, [Next]_vars
    PROVE  IInv'
<1>1. CASE UNCHANGED vars
  BY <1>1 DEF vars, IInv, Types, Alone, Kept, Objects, Processes, PolicySet
<1>2. ASSUME NEW p \in Everyone,
           \/ Join(p) \/ OpenRegion(p) \/ LockRegion(p) \/ ShmOpen(p)
           \/ CreateFails(p) \/ Configure(p) \/ CheckAccess(p) \/ Truncate(p)
           \/ CheckSize(p) \/ MapRegion(p) \/ WriteHeader(p)
           \/ ValidateHeader(p) \/ Initialized(p) \/ OpenSection(p)
           \/ EnterSection(p) \/ LeaveSection(p) \/ HoldLane(p)
           \/ ReleaseLane(p) \/ HoldExisting(p) \/ Attach(p) \/ Leave(p)
           \/ Crash(p)
      PROVE  IInv'
  BY <1>2, ProcessSteps
<1>3. CASE \/ Discover \/ TryLockFleet \/ ToolUnlink \/ ToolRemoveFiles
           \/ ToolDone \/ ToolStops
  BY <1>3, ToolStep
<1> QED BY <1>1, <1>2, <1>3 DEF Next

\* What the invariant says of segments and sections.
LEMMA InvariantKeeps ==
    ASSUME IInv
    PROVE  SegmentKept
<1>1. OneSegment
  <2> SUFFICES ASSUME NEW p \in Everyone, Uses(p)
               PROVE  proc[p].obj = name /\ object[name].ready
    BY DEF OneSegment
  <2>1. proc[p].pc \in Sharing /\ proc[p].pc \in Mapped
    BY DEF Uses, Sharing, Mapped
  <2> QED BY <2>1 DEF IInv, Kept
<1>2. SectionsExclude
  <2> SUFFICES ASSUME NEW p \in Members, NEW q \in Members, p # q
               PROVE  /\ ~(At(p, "section") /\ At(q, "section"))
                      /\ ~(proc[p].lane # None /\ proc[q].lane # None)
    BY DEF SectionsExclude
  <2>1. p \in Everyone /\ q \in Everyone BY DEF Everyone
  <2>2. ~(At(p, "section") /\ At(q, "section"))
    BY <2>1, OneInside DEF At, Inside
  <2>3. ~(proc[p].lane # None /\ proc[q].lane # None)
    BY <2>1 DEF IInv, Kept
  <2> QED BY <2>2, <2>3
<1> QED BY <1>1, <1>2 DEF SegmentKept

\* Every process that has a segment open has the one its name stands for, with
\* its header, sections of it never overlap and a lane has one holder, for any
\* members and readers, whatever ends when and whatever the tool removes
\* (open_or_create_locked, open_own_lock_file, try_lock_fleet_exclusive).
THEOREM SegmentsAreKept ==
    ASSUME Apart
    PROVE  Spec => []SegmentKept
<1>1. Init => IInv BY InitIInv
<1>2. IInv /\ [Next]_vars => IInv' BY NextIInv
<1>3. IInv => SegmentKept BY InvariantKeeps
<1> QED BY <1>1, <1>2, <1>3, PTL DEF Spec
=============================================================================
