---------------------------- MODULE PipelineLock ----------------------------
(***************************************************************************)
(* The lock by which processes of the command line tools serialise their   *)
(* writes of a shared file: a directory made with mkdir, stamped with its  *)
(* owner, recovered when the owner is dead or an unstamped directory is    *)
(* old, and removed on release.  A second directory, the recover guard,    *)
(* lets one process at a time decide on a recovery.                        *)
(*                                                                         *)
(* Every call of the file system is a step: another process may come       *)
(* between any two.  A directory that was removed and made again is        *)
(* another directory; judged holds the processes whose last look was at    *)
(* the directory that is still there.  Time is abstracted: an unstamped    *)
(* directory gets old, if its maker is not about to stamp it (a guard, if  *)
(* its maker is not in the recovery), that is, a process that runs takes   *)
(* less than the grace period for these few calls.                         *)
(***************************************************************************)
EXTENDS Naturals, FiniteSets

CONSTANTS
  Absent,      \* no directory, no stamp
  Processes,
  Confirms,    \* the owner rechecks what it judged and reads its stamp back
  MaxCrashes,  \* bound: processes that die
  MaxFaults    \* bound: calls the file system refuses to a process

ASSUME ProcessesAssumption == IsFiniteSet(Processes)
ASSUME CrashesAssumption == MaxCrashes \in Nat
ASSUME RefusalsAssumption == MaxFaults \in Nat

VARIABLES
  at,      \* where each process is
  dir,     \* the lock directory
  guard,   \* the recover guard
  judged,  \* processes that looked at the present lock directory
  faults   \* refused calls so far

lockVars == <<at, dir, guard, judged, faults>>

-----------------------------------------------------------------------------

Recovering == {"JUDGE", "RECHECK", "REMOVE", "DROP", "DROP_AGAIN"}
Acquiring == {"TRY", "GUARD", "EVICT", "WAIT", "STAMP", "CONFIRM"} \cup Recovering
Place == {"OUT", "HOLD", "VERIFIED", "DEAD"} \cup Acquiring

LockDir == [maker : Processes, stamp : Processes \cup {Absent}, old : BOOLEAN]
GuardDir == [maker : Processes, old : BOOLEAN]

ASSUME NoDirAssumption == Absent \notin LockDir \cup GuardDir /\ Absent \notin Processes

Dead(p) == at[p] = "DEAD"

PipelineInit ==
  /\ at = [p \in Processes |-> "OUT"]
  /\ dir = Absent
  /\ guard = Absent
  /\ judged = {}
  /\ faults = 0

Goto(p, place) == at' = [at EXCEPT ![p] = place]

Step(p, from, to) == at[p] = from /\ Goto(p, to)

\* The directory at the path is removed, whoever made it.
RemoveLock == dir' = Absent /\ judged' = {}

\* A call is refused: Windows answers so while another process touches the
\* directory.  (Bound: a behaviour has refused calls or deaths, not both.)
Refused ==
  /\ faults < MaxFaults /\ \A q \in Processes : ~Dead(q)
  /\ faults' = faults + 1

Start(p) == Step(p, "OUT", "TRY") /\ UNCHANGED <<dir, guard, judged, faults>>

\* The lock is mkdir-ed, or somebody has it.
Mkdir(p) ==
  /\ \/ /\ dir = Absent
        /\ dir' = [maker |-> p, stamp |-> Absent, old |-> FALSE]
        /\ Step(p, "TRY", "STAMP")
     \/ dir # Absent /\ Step(p, "TRY", "GUARD") /\ UNCHANGED dir
  /\ UNCHANGED <<guard, judged, faults>>

\* The guard is mkdir-ed; an old one is evicted; else the process waits.
TakeGuard(p) ==
  /\ \/ /\ guard = Absent
        /\ guard' = [maker |-> p, old |-> FALSE]
        /\ Step(p, "GUARD", "JUDGE")
     \/ /\ guard # Absent
        /\ Step(p, "GUARD", IF guard.old THEN "EVICT" ELSE "WAIT")
        /\ UNCHANGED guard
  /\ UNCHANGED <<dir, judged, faults>>

\* The guard at the path is removed, which may be a newer one by now.
EvictGuard(p) ==
  /\ Step(p, "EVICT", "WAIT")
  /\ \/ guard' = Absent /\ UNCHANGED faults
     \/ guard' = guard /\ Refused
  /\ UNCHANGED <<dir, judged>>

\* Plausible bug: an owner that does not answer at once is taken for dead.
AlwaysStale(d) == d # Absent /\ d.stamp # Absent

\* lockRecoveryVerdict: the stamp decides; without one, the age.
Stale(d) ==
  /\ d # Absent
  /\ IF d.stamp # Absent THEN Dead(d.stamp) ELSE d.old

\* Only a verdict of "stale" goes on towards the removal; a stamp that cannot
\* be read proves nothing.
Judge(p) ==
  /\ \/ /\ Stale(dir) /\ Step(p, "JUDGE", IF Confirms THEN "RECHECK" ELSE "REMOVE")
        /\ judged' = judged \cup {p}
        /\ UNCHANGED faults
     \/ ~Stale(dir) /\ Step(p, "JUDGE", "DROP") /\ UNCHANGED <<judged, faults>>
     \/ Step(p, "JUDGE", "DROP") /\ Refused /\ UNCHANGED judged
  /\ UNCHANGED <<dir, guard>>

SameDirectory(p) == p \in judged

Recheck(p) ==
  /\ Step(p, "RECHECK", IF SameDirectory(p) THEN "REMOVE" ELSE "DROP")
  /\ UNCHANGED <<dir, guard, judged, faults>>

Recover(p) ==
  /\ \/ Step(p, "REMOVE", "DROP_AGAIN") /\ RemoveLock /\ UNCHANGED faults
     \/ Step(p, "REMOVE", "DROP") /\ Refused /\ UNCHANGED <<dir, judged>>
  /\ UNCHANGED guard

\* The guard is dropped: after a recovery the process tries at once.
DropGuard(p) ==
  /\ \/ Step(p, "DROP", "WAIT") \/ Step(p, "DROP_AGAIN", "TRY")
  /\ \/ guard' = Absent /\ UNCHANGED faults
     \/ guard' = guard /\ Refused
  /\ UNCHANGED <<dir, judged>>

\* The backoff ends, or the process gives up: the holder did not change for a
\* whole window, or the ceiling is reached.
Wait(p) ==
  /\ Step(p, "WAIT", "TRY") \/ Step(p, "WAIT", "OUT")
  /\ UNCHANGED <<dir, guard, judged, faults>>

\* Plausible bug: an owner whose process could not be identified is stamped.
NoOwner(p) == "unknown"

Owner(p) == p

\* owner.json is written into whatever directory has the name by now.
Stamp(p) ==
  /\ \/ /\ dir # Absent
        /\ dir' = [dir EXCEPT !.stamp = Owner(p)]
        /\ Step(p, "STAMP", IF Confirms THEN "CONFIRM" ELSE "HOLD")
     \/ dir = Absent /\ Step(p, "STAMP", "WAIT") /\ UNCHANGED dir
  /\ UNCHANGED <<guard, judged, faults>>

\* The stamp cannot be written: the directory is removed and the error thrown.
StampFails(p) ==
  /\ Step(p, "STAMP", "OUT") /\ Refused
  /\ RemoveLock
  /\ UNCHANGED guard

Stamped(p) == dir # Absent /\ dir.stamp = p

Confirm(p) ==
  /\ Step(p, "CONFIRM", IF Stamped(p) THEN "HOLD" ELSE "WAIT")
  /\ UNCHANGED <<dir, guard, judged, faults>>

\* release verifies that the directory is still its own.
VerifyOwner(p) ==
  /\ Step(p, "HOLD", IF Stamped(p) THEN "VERIFIED" ELSE "OUT")
  /\ UNCHANGED <<dir, guard, judged, faults>>

Release(p) ==
  /\ Step(p, "VERIFIED", "OUT")
  /\ \/ RemoveLock /\ UNCHANGED faults
     \/ Refused /\ UNCHANGED <<dir, judged>>
  /\ UNCHANGED guard

Crash(p) ==
  /\ ~Dead(p) /\ at[p] # "OUT"
  /\ faults = 0 /\ Cardinality({q \in Processes : Dead(q)}) < MaxCrashes
  /\ Goto(p, "DEAD")
  /\ UNCHANGED <<dir, guard, judged, faults>>

LockAges ==
  /\ dir # Absent /\ dir.stamp = Absent /\ ~dir.old
  /\ at[dir.maker] # "STAMP"
  /\ dir' = [dir EXCEPT !.old = TRUE]
  /\ UNCHANGED <<at, guard, judged, faults>>

\* Plausible bug: a guard is not judged by its age.
KeepsGuard == guard' = guard

GuardIsOld == guard' = [guard EXCEPT !.old = TRUE]

GuardAges ==
  /\ guard # Absent /\ ~guard.old
  /\ at[guard.maker] \notin Recovering
  /\ GuardIsOld
  /\ UNCHANGED <<at, dir, judged, faults>>

Acquire(p) ==
  \/ Mkdir(p) \/ TakeGuard(p) \/ EvictGuard(p) \/ Judge(p) \/ Recheck(p)
  \/ Recover(p) \/ DropGuard(p) \/ Wait(p) \/ Stamp(p) \/ StampFails(p)
  \/ Confirm(p)

PipelineNext ==
  \/ \E p \in Processes :
       Start(p) \/ Acquire(p) \/ VerifyOwner(p) \/ Release(p) \/ Crash(p)
  \/ LockAges \/ GuardAges

PipelineSpec == PipelineInit /\ [][PipelineNext]_lockVars

\* The tools are started again and again, a process that runs goes on and
\* leaves its critical section, and time passes.
Fairness ==
  /\ \A p \in Processes :
       WF_lockVars(Start(p)) /\ WF_lockVars(Acquire(p)) /\ WF_lockVars(VerifyOwner(p) \/ Release(p))
  /\ WF_lockVars(LockAges) /\ WF_lockVars(GuardAges)

-----------------------------------------------------------------------------

\* Every variable has its type.
PipelineTypeOK ==
  /\ at \in [Processes -> Place]
  /\ dir \in LockDir \cup {Absent}
  /\ guard \in GuardDir \cup {Absent}
  /\ judged \subseteq Processes
  /\ faults \in 0..MaxFaults

\* Two processes never write the shared file at the same time.
MutualExclusion ==
  \A p, q \in Processes : at[p] = "HOLD" /\ at[q] = "HOLD" => p = q

\* A lock or guard left behind by a dead process does not block the others for
\* ever: it goes away while some process still runs.
DeadLockIsRecovered ==
  (dir # Absent /\ dir.stamp # Absent /\ Dead(dir.stamp))
    ~> (dir = Absent \/ \A p \in Processes : Dead(p))
=============================================================================
