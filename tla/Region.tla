------------------------------- MODULE Region -------------------------------
(***************************************************************************)
(* The shared segments of a fleet and the lock files beside them           *)
(* (core/src/shm.rs).  A member holds a shared lock on the fleet for as    *)
(* long as it lives, opens or creates a segment under the segment's own    *)
(* lock, and opens that lock file by its path again for every critical     *)
(* section.  A lifecycle tool removes segments and lock files, but only    *)
(* with the fleet's lock held exclusively.  What is removed by name stays  *)
(* usable by whoever has it open.                                          *)
(***************************************************************************)
EXTENDS Integers, FiniteSets, Sequences

CONSTANTS Members,    \* processes that join the fleet
          Readers,    \* readers of an arena: attach to what exists, as members
          MaxObjects, \* segments and lock files ever created
          Setup       \* what members ask for, and how often things go wrong

VARIABLES setup,
          fleet,      \* who holds the fleet's lock: members, or the tool
          name,       \* the segment its name stands for, 0 for none
          object,     \* segment -> size set, header written, policy
          lockfile,   \* the file each lock path stands for, 0 for none
          flock,      \* file -> who holds it
          proc,       \* process -> where it is
          tool,       \* where the lifecycle tool is
          used        \* history: crashes, failed calls, sections and leaves, bounded

vars == <<setup, fleet, name, object, lockfile, flock, proc, tool, used>>

Everyone == Members \cup Readers
Tool == "tool"
Nobody == "nobody"
Paths == {"region", "lane"}
None == 0
Fresh == [size |-> FALSE, ready |-> FALSE, policy |-> "owner"]
Out == [pc |-> "out", file |-> None, obj |-> None, created |-> FALSE, policy |-> "owner",
        lane |-> None]

Init ==
    /\ setup \in Setup
    /\ fleet = {} /\ name = None /\ object = <<>>
    /\ lockfile = [q \in Paths |-> None]
    /\ flock = <<>>
    /\ proc = [p \in Everyone |-> Out]
    /\ tool = [pc |-> "off"]
    /\ used = [crashes |-> 0, fails |-> 0, sections |-> 0, leaves |-> 0, runs |-> 0]

\* One more of what the setup bounds.
Once(what) ==
    /\ used[what] < setup[what]
    /\ used' = [used EXCEPT ![what] = @ + 1]

At(p, pc) == proc[p].pc = pc
Step(p, r) == proc' = [proc EXCEPT ![p] = r]

-----------------------------------------------------------------------------
(* Lock files.                                                             *)

\* open_lock_file: the file of the path, made when there is none.
Opened(path) == IF lockfile[path] # None THEN lockfile[path] ELSE Len(flock) + 1
OpenLockFile(path) ==
    /\ Len(flock) < MaxObjects \/ lockfile[path] # None
    /\ lockfile' = [lockfile EXCEPT ![path] = Opened(path)]
    /\ flock' = IF lockfile[path] # None THEN flock ELSE Append(flock, Nobody)

Locked(file, p) == flock' = [flock EXCEPT ![file] = p]
Unlocked(file) == flock' = [flock EXCEPT ![file] = Nobody]

\* The kernel lets go of what a process held, however it ended.
Dropped(p) == [f \in DOMAIN flock |-> IF flock[f] = p THEN Nobody ELSE flock[f]]

-----------------------------------------------------------------------------
(* Members.                                                                *)

\* join_fleet_membership: waits for a tool that holds the fleet.
Join(p) ==
    /\ p \in Members \cap setup.who /\ At(p, "out") /\ Tool \notin fleet
    /\ fleet' = fleet \cup {p}
    /\ \E policy \in setup.policies : Step(p, [Out EXCEPT !.pc = "joined", !.policy = policy])
    /\ UNCHANGED <<name, object, lockfile, flock, tool, used, setup>>

\* open_or_create_locked: the lock first, so that nobody sees the segment
\* between its creation and its header.
OpenRegion(p) ==
    /\ At(p, "joined") /\ OpenLockFile("region")
    /\ Step(p, [proc[p] EXCEPT !.pc = "lock", !.file = Opened("region")])
    /\ UNCHANGED <<fleet, name, object, tool, used, setup>>

LockRegion(p) ==
    /\ At(p, "lock") /\ flock[proc[p].file] = Nobody
    /\ Locked(proc[p].file, p)
    /\ Step(p, [proc[p] EXCEPT !.pc = "shm"])
    /\ UNCHANGED <<fleet, name, object, lockfile, tool, used, setup>>

\* Create exclusively, or open what a peer created.
ShmOpen(p) ==
    /\ At(p, "shm")
    /\ \/ /\ name = None /\ Len(object) < MaxObjects
          /\ object' = Append(object, Fresh)
          /\ name' = Len(object) + 1
          /\ Step(p, [proc[p] EXCEPT !.pc = "configure", !.obj = Len(object) + 1,
                                     !.created = TRUE])
       \/ /\ name # None
          /\ Step(p, [proc[p] EXCEPT !.pc = "access", !.obj = name])
          /\ UNCHANGED <<name, object>>
    /\ UNCHANGED <<fleet, lockfile, flock, tool, used, setup>>

\* An open that fails gives its lock back; only a creator removes the name.
Refused(p) ==
    /\ Unlocked(proc[p].file)
    /\ Step(p, [proc[p] EXCEPT !.pc = "refused", !.file = None, !.obj = None])
    /\ name' = IF proc[p].created THEN None ELSE name

\* A system call on the new segment fails.
CreateFails(p) ==
    /\ proc[p].pc \in {"configure", "truncate", "map"}
    /\ Once("fails")
    /\ Refused(p)
    /\ UNCHANGED <<fleet, object, lockfile, tool, setup>>

\* The group and mode of the policy, set while the segment is still private.
Configure(p) ==
    /\ At(p, "configure")
    /\ object' = [object EXCEPT ![proc[p].obj].policy = proc[p].policy]
    /\ Step(p, [proc[p] EXCEPT !.pc = "access"])
    /\ UNCHANGED <<fleet, name, lockfile, flock, tool, used, setup>>

\* Same group and no wider mode; the group of a policy is not the one a
\* segment is born with.
Fits(p, o) == object[o].policy = proc[p].policy

\* shm_object_size: an owner, group or mode that exceeds the policy is refused
\* before anything is changed.
CheckAccess(p) ==
    /\ At(p, "access")
    /\ \/ /\ Fits(p, proc[p].obj)
          /\ Step(p, [proc[p] EXCEPT !.pc = IF proc[p].created THEN "truncate" ELSE "size"])
          /\ UNCHANGED <<name, flock>>
       \/ ~Fits(p, proc[p].obj) /\ Refused(p)
    /\ UNCHANGED <<fleet, object, lockfile, tool, used, setup>>

Truncate(p) ==
    /\ At(p, "truncate")
    /\ object' = [object EXCEPT ![proc[p].obj].size = TRUE]
    /\ Step(p, [proc[p] EXCEPT !.pc = "size"])
    /\ UNCHANGED <<fleet, name, lockfile, flock, tool, used, setup>>

\* Never map past the end: a creator that died before it sized its segment
\* left one that nobody can open.
CheckSize(p) ==
    /\ At(p, "size")
    /\ \/ /\ object[proc[p].obj].size
          /\ Step(p, [proc[p] EXCEPT !.pc = "map"])
          /\ UNCHANGED <<name, flock>>
       \/ ~object[proc[p].obj].size /\ Refused(p)
    /\ UNCHANGED <<fleet, object, lockfile, tool, used, setup>>

MapRegion(p) ==
    /\ At(p, "map")
    /\ Step(p, [proc[p] EXCEPT !.pc = IF proc[p].created THEN "header" ELSE "validate"])
    /\ UNCHANGED <<fleet, name, object, lockfile, flock, tool, used, setup>>

\* The owning structure writes its header, still under the lock.
WriteHeader(p) ==
    /\ At(p, "header")
    /\ object' = [object EXCEPT ![proc[p].obj].ready = TRUE]
    /\ Step(p, [proc[p] EXCEPT !.pc = "opened"])
    /\ UNCHANGED <<fleet, name, lockfile, flock, tool, used, setup>>

ValidateHeader(p) ==
    /\ At(p, "validate")
    /\ \/ /\ object[proc[p].obj].ready
          /\ Step(p, [proc[p] EXCEPT !.pc = "opened"])
          /\ UNCHANGED <<name, flock>>
       \/ ~object[proc[p].obj].ready /\ Refused(p)
    /\ UNCHANGED <<fleet, object, lockfile, tool, used, setup>>

Initialized(p) ==
    /\ At(p, "opened")
    /\ Unlocked(proc[p].file)
    /\ Step(p, [proc[p] EXCEPT !.pc = "open", !.file = None, !.created = FALSE])
    /\ UNCHANGED <<fleet, name, object, lockfile, tool, used, setup>>

-----------------------------------------------------------------------------
(* Critical sections and lanes of an open segment.                         *)

\* open_own_lock_file: a description of its own for every section.
OpenSection(p) ==
    /\ At(p, "open") /\ Once("sections") /\ OpenLockFile("region")
    /\ Step(p, [proc[p] EXCEPT !.pc = "enter", !.file = Opened("region")])
    /\ UNCHANGED <<fleet, name, object, tool, setup>>

\* lock_exclusive: waits for the section of a peer.
EnterSection(p) ==
    /\ At(p, "enter") /\ flock[proc[p].file] = Nobody
    /\ Locked(proc[p].file, p)
    /\ Step(p, [proc[p] EXCEPT !.pc = "section"])
    /\ UNCHANGED <<fleet, name, object, lockfile, tool, used, setup>>

LeaveSection(p) ==
    /\ At(p, "section")
    /\ Unlocked(proc[p].file)
    /\ Step(p, [proc[p] EXCEPT !.pc = "open", !.file = None])
    /\ UNCHANGED <<fleet, name, object, lockfile, tool, used, setup>>

\* try_hold_lane: nobody behind the lock, or nothing.
HoldLane(p) ==
    /\ setup.lanes /\ At(p, "open") /\ proc[p].lane = None
    /\ Len(flock) < MaxObjects \/ lockfile["lane"] # None
    /\ lockfile' = [lockfile EXCEPT !["lane"] = Opened("lane")]
    /\ \/ /\ lockfile["lane"] = None
          /\ flock' = Append(flock, p)
       \/ /\ lockfile["lane"] # None /\ flock[lockfile["lane"]] = Nobody
          /\ Locked(lockfile["lane"], p)
    /\ Step(p, [proc[p] EXCEPT !.lane = Opened("lane")])
    /\ UNCHANGED <<fleet, name, object, tool, used, setup>>

ReleaseLane(p) ==
    /\ At(p, "open") /\ proc[p].lane # None
    /\ Unlocked(proc[p].lane)
    /\ Step(p, [proc[p] EXCEPT !.lane = None])
    /\ UNCHANGED <<fleet, name, object, lockfile, tool, used, setup>>

-----------------------------------------------------------------------------
(* ArenaReader: hold_existing_fleet, then open_existing.                   *)

HoldExisting(p) ==
    /\ p \in Readers \cap setup.who /\ At(p, "out") /\ Tool \notin fleet
    /\ fleet' = fleet \cup {p}
    /\ Step(p, [Out EXCEPT !.pc = "attach"])
    /\ UNCHANGED <<name, object, lockfile, flock, tool, used, setup>>

\* open_existing: no lock is taken; the owner and mode and the size decide.
Readable(p) == name # None /\ Fits(p, name) /\ object[name].size

\* Then the header does.
Attach(p) ==
    /\ At(p, "attach")
    /\ Step(p, IF Readable(p) /\ object[name].ready
               THEN [proc[p] EXCEPT !.pc = "attached", !.obj = name]
               ELSE [proc[p] EXCEPT !.pc = "refused"])
    /\ UNCHANGED <<fleet, name, object, lockfile, flock, tool, used, setup>>

\* The region is unmapped, its locks go, and the membership last.
Leave(p) ==
    /\ proc[p].pc \in {"joined", "refused", "open", "attached"}
    /\ Once("leaves")
    /\ fleet' = fleet \ {p}
    /\ flock' = Dropped(p)
    /\ Step(p, Out)
    /\ UNCHANGED <<name, object, lockfile, tool, setup>>

Crash(p) ==
    /\ p \in Members /\ ~At(p, "out")
    /\ Once("crashes")
    /\ fleet' = fleet \ {p}
    /\ flock' = Dropped(p)
    /\ Step(p, Out)
    /\ UNCHANGED <<name, object, lockfile, tool, setup>>

-----------------------------------------------------------------------------
(* The lifecycle tool: orbit clear.                                        *)

\* discover: nothing to remove, nothing to do.
Discover ==
    /\ tool.pc = "off" /\ name # None /\ Once("runs")
    /\ tool' = [pc |-> "found"]
    /\ UNCHANGED <<fleet, name, object, lockfile, flock, proc, setup>>

TryLockFleetAnyway ==
    /\ tool.pc = "found"
    /\ fleet' = fleet \cup {Tool} /\ tool' = [pc |-> "unlink"]
    /\ UNCHANGED <<name, object, lockfile, flock, proc, used, setup>>

\* try_lock_fleet_exclusive: a member alive ends it, and there is no way past.
TryLockFleet ==
    /\ tool.pc = "found"
    /\ IF fleet = {} THEN fleet' = {Tool} /\ tool' = [pc |-> "unlink"]
       ELSE UNCHANGED fleet /\ tool' = [pc |-> "off"]
    /\ UNCHANGED <<name, object, lockfile, flock, proc, used, setup>>

ToolUnlink ==
    /\ tool.pc = "unlink"
    /\ name' = None /\ tool' = [pc |-> "files"]
    /\ UNCHANGED <<fleet, object, lockfile, flock, proc, used, setup>>

\* companion_lock_files: the region's own, and one for each lane.
ToolRemoveFiles ==
    /\ tool.pc = "files"
    /\ lockfile' = [q \in Paths |-> None] /\ tool' = [pc |-> "done"]
    /\ UNCHANGED <<fleet, name, object, flock, proc, used, setup>>

ToolDone ==
    /\ tool.pc = "done"
    /\ fleet' = fleet \ {Tool} /\ tool' = [pc |-> "off"]
    /\ UNCHANGED <<name, object, lockfile, flock, proc, used, setup>>

\* The tool dies, or a call of it fails: what it had not removed stays.
ToolStops ==
    /\ tool.pc # "off" /\ Once("crashes")
    /\ fleet' = fleet \ {Tool} /\ tool' = [pc |-> "off"]
    /\ UNCHANGED <<name, object, lockfile, flock, proc, setup>>

Next ==
    \/ \E p \in Everyone :
        \/ Join(p) \/ OpenRegion(p) \/ LockRegion(p) \/ ShmOpen(p) \/ CreateFails(p)
        \/ Configure(p) \/ CheckAccess(p) \/ Truncate(p) \/ CheckSize(p) \/ MapRegion(p)
        \/ WriteHeader(p) \/ ValidateHeader(p) \/ Initialized(p)
        \/ OpenSection(p) \/ EnterSection(p) \/ LeaveSection(p)
        \/ HoldLane(p) \/ ReleaseLane(p)
        \/ HoldExisting(p) \/ Attach(p) \/ Leave(p) \/ Crash(p)
    \/ Discover \/ TryLockFleet \/ ToolUnlink \/ ToolRemoveFiles \/ ToolDone \/ ToolStops

Spec == Init /\ [][Next]_vars

-----------------------------------------------------------------------------
Uses(p) == proc[p].pc \in {"open", "enter", "section", "attached"}

\* Everyone who has the segment open has the same one, initialised, and the
\* one its name stands for: a removal never interleaves with a start, and a
\* creation is never seen half done (shm.rs, try_lock_fleet_exclusive and
\* open_or_create_locked).
OneSegment ==
    \A p \in Everyone : Uses(p) => proc[p].obj = name /\ object[name].ready

\* Two sections of one segment never overlap, and two processes never hold
\* one lane, although each opens the lock file by a path that the tool
\* removes (shm.rs:1198, "must open the same lock inode").
SectionsExclude ==
    \A p, q \in Members : p # q =>
        /\ ~(At(p, "section") /\ At(q, "section") /\ proc[p].obj = proc[q].obj)
        /\ ~(proc[p].lane # None /\ proc[q].lane # None)

\* A segment is one segment for all who use it, and excludes them from one
\* another where they ask for it.
SegmentKept == OneSegment /\ SectionsExclude
=============================================================================
