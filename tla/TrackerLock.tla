----------------------------- MODULE TrackerLock -----------------------------
(***************************************************************************)
(* The transaction by which merge-tracker, dedup-tracker, set-status and   *)
(* the other writers change the table of applications: take the lock, read *)
(* the whole file, write a new one beside it, rename it over the old one,  *)
(* give the lock back.                                                     *)
(*                                                                         *)
(* The lock is PipelineLock without the second look before a removal and   *)
(* without the reading back of the stamp: Confirms is FALSE.  A writer's   *)
(* change is one line of the file, so that the file is the set of the      *)
(* changes it holds.                                                       *)
(***************************************************************************)
EXTENDS PipelineLock

VARIABLES
  table,    \* the changes the file holds
  seen,     \* what a writer has read
  temps,    \* writers whose temporary file is there
  told,     \* writers that reported success
  refused   \* writers whose rename was refused to the last attempt

content == <<table, seen, temps, told, refused>>

LockInit ==
  /\ PipelineInit
  /\ table = {} /\ temps = {} /\ told = {} /\ refused = {}
  /\ seen = [p \in Processes |-> Absent]

\* A command that did not succeed is given again; what the command before it
\* had read is not read by this one.
Open(p) ==
  /\ p \notin told
  /\ Start(p)
  /\ seen' = [seen EXCEPT ![p] = Absent]
  /\ refused' = refused \ {p}
  /\ UNCHANGED <<table, temps, told>>

\* mkdir, the stamp, recovery of what a dead process left, waiting, giving up.
TakeLock(p) == Acquire(p) /\ UNCHANGED content

\* Plausible bug: the file is read before the lock is there, and only the
\* write is made under it.
WhileWaiting(p) == at[p] \in {"GUARD", "WAIT", "HOLD"}

InTransaction(p) == at[p] = "HOLD"

Unfinished(p) == p \notin told \cup refused

Read(p) ==
  /\ InTransaction(p) /\ Unfinished(p)
  /\ seen[p] = Absent
  /\ seen' = [seen EXCEPT ![p] = table]
  /\ UNCHANGED <<lockVars, table, temps, told, refused>>

\* writeFileAtomic: all of the new content, under a name of the writer's own.
WriteTemporary(p) ==
  /\ at[p] = "HOLD" /\ Unfinished(p)
  /\ seen[p] # Absent /\ p \notin temps
  /\ temps' = temps \cup {p}
  /\ UNCHANGED <<lockVars, table, seen, told, refused>>

\* The rename puts it in the place of the old file.
Replace(p) ==
  /\ at[p] = "HOLD" /\ Unfinished(p)
  /\ p \in temps
  /\ table' = seen[p] \cup {p}
  /\ temps' = temps \ {p}
  /\ told' = told \cup {p}
  /\ UNCHANGED <<lockVars, seen, refused>>

\* Another program has the file open for the whole of the eight attempts: the
\* temporary file is removed and the command fails, without a change.
ReplaceRefused(p) ==
  /\ at[p] = "HOLD" /\ Unfinished(p)
  /\ p \in temps
  /\ Refused
  /\ temps' = temps \ {p}
  /\ refused' = refused \cup {p}
  /\ UNCHANGED <<at, dir, guard, judged, table, seen, told>>

\* release, once the command is through, or from the handler of its exit.  A
\* removal that is refused leaves the lock to its age.
Close(p) ==
  /\ \/ VerifyOwner(p) /\ ~Unfinished(p)
     \/ Release(p)
  /\ UNCHANGED content

Die(p) == Crash(p) /\ UNCHANGED content

Age == (LockAges \/ GuardAges) /\ UNCHANGED content

LockNext ==
  \/ \E p \in Processes :
       \/ Open(p) \/ TakeLock(p) \/ Read(p) \/ WriteTemporary(p)
       \/ Replace(p) \/ ReplaceRefused(p) \/ Close(p) \/ Die(p)
  \/ Age

LockSpec == LockInit /\ [][LockNext]_<<lockVars, content>>

-----------------------------------------------------------------------------

\* Every variable has its type.
LockTypeOK ==
  /\ PipelineTypeOK
  /\ table \subseteq Processes /\ temps \subseteq Processes
  /\ told \subseteq Processes /\ refused \subseteq Processes
  /\ seen \in [Processes -> (SUBSET Processes) \cup {Absent}]

\* A change a command has reported stays in the table, whatever other commands
\* did at the same time, died at or had refused ("let the later writer erase
\* rows written by the earlier one" is what the lock is for).
NoUpdateIsLost == told \subseteq table
=============================================================================
