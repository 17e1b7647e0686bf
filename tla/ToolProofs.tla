------------------------------ MODULE ToolProofs ------------------------------
(***************************************************************************)
(* Proofs about the command line tools, for any contents, processes and    *)
(* bounds: the file lock and the transactions under it, the sync queue and *)
(* the units on their way to the cloud; what an import overwrites is kept, *)
(* the record of an approved run tells what happened, a chain that is      *)
(* called ready rests on what is installed, and an opportunity and its     *)
(* tracker row go together; requests that wait for a name share a lookup,  *)
(* a sweep misses no more than what was taken down explains, and an entry  *)
(* that is added is there once.                                            *)
(* The components share no variables; each has its invariant.              *)
(***************************************************************************)
EXTENDS TrackerLock, SyncQueue, SyncUnit, SkillRuntime, ArtifactChain, CompanyOpportunity,
        ProviderFetch, BoardSweep, AddEntry, FiniteSetTheorems, SequenceTheorems, TLAPS

-----------------------------------------------------------------------------
\* The lock.  For any number of processes and of refused calls, with or without
\* the recheck, two processes are never in the critical section together as long
\* as at most one process dies, and no change to the table of applications that
\* was reported is lost.  With a second death two may be: a run of MCCommandLine
\* finds it.

\* Where a process believes that the directory is its own and stamped.
Owning == {"CONFIRM", "HOLD", "VERIFIED"}

\* Whoever has the directory d: its stamp, or its maker as long as there is none.
KeeperOf(d) == IF d.stamp # Absent THEN d.stamp ELSE d.maker

Abandoned == dir # Absent /\ Dead(KeeperOf(dir))

NobodyDead == \A p \in Processes : ~Dead(p)

\* A behaviour has refused calls or a death, and a single one.
OneFailure ==
  /\ faults = 0 \/ NobodyDead
  /\ \A p, q \in Processes : Dead(p) /\ Dead(q) => p = q

\* A process that is about to stamp the directory has made it, and one that
\* believes to own it is named by the stamp.
DirectoriesAreOwned ==
  /\ \A p \in Processes :
       at[p] = "STAMP" => dir # Absent /\ dir.maker = p /\ dir.stamp = Absent
  /\ \A p \in Processes : at[p] \in Owning => Stamped(p)

\* Conversely a directory that nobody is about to stamp, or whose stamp names a
\* process that is not at work, belongs to a dead one.
KeepersAreAtWork ==
  dir # Absent =>
    /\ dir.stamp = Absent => at[dir.maker] \in {"STAMP", "DEAD"}
    /\ dir.stamp = Absent /\ dir.old => Dead(dir.maker)
    /\ dir.stamp # Absent /\ faults = 0 => at[dir.stamp] \in Owning \cup {"DEAD"}

\* The guard belongs to the one process in the recovery, and nobody evicts it.
Orderly ==
  /\ \A p \in Processes : at[p] \in Recovering => guard # Absent /\ guard.maker = p
  /\ guard # Absent => at[guard.maker] \in Recovering /\ ~guard.old
  /\ \A p \in Processes : at[p] # "EVICT"

\* Only an abandoned directory is about to be removed, and as long as there is
\* or may still be one, recoveries are orderly.
RecoveriesAreOrderly ==
  /\ \A p \in Processes : at[p] \in {"RECHECK", "REMOVE"} => Abandoned
  /\ faults = 0 /\ (NobodyDead \/ Abandoned) => Orderly

LockInv ==
  /\ PipelineTypeOK
  /\ OneFailure
  /\ DirectoriesAreOwned
  /\ KeepersAreAtWork
  /\ RecoveriesAreOrderly

-----------------------------------------------------------------------------

\* Types.

\* Every step keeps the types.
LEMMA TypesStep == PipelineTypeOK /\ [PipelineNext]_lockVars => PipelineTypeOK'
<1> SUFFICES ASSUME PipelineTypeOK, [PipelineNext]_lockVars PROVE PipelineTypeOK'
  OBVIOUS
<1> USE CrashesAssumption, RefusalsAssumption DEF Place, Acquiring, Recovering
<1>1. ASSUME NEW p \in Processes,
             Start(p) \/ Recheck(p) \/ Wait(p) \/ Confirm(p) \/ VerifyOwner(p) \/ Crash(p)
      PROVE  PipelineTypeOK'
  BY <1>1 DEF PipelineTypeOK, Start, Recheck, Wait, Confirm, VerifyOwner, Crash, Step, Goto
<1>2. ASSUME NEW p \in Processes, Mkdir(p) \/ Stamp(p) PROVE PipelineTypeOK'
  <2>1. ASSUME NEW d \in LockDir PROVE [d EXCEPT !.stamp = p] \in LockDir
    BY DEF LockDir
  <2>2. [maker |-> p, stamp |-> Absent, old |-> FALSE] \in LockDir
    BY DEF LockDir
  <2>3. dir' \in LockDir \cup {Absent}
    BY <1>2, <2>1, <2>2 DEF PipelineTypeOK, Mkdir, Stamp, Owner
  <2> QED
    BY <1>2, <2>3 DEF PipelineTypeOK, Mkdir, Stamp, Step, Goto
<1>3. ASSUME NEW p \in Processes, TakeGuard(p) PROVE PipelineTypeOK'
  <2>1. [maker |-> p, old |-> FALSE] \in GuardDir
    BY DEF GuardDir
  <2> QED
    BY <1>3, <2>1 DEF PipelineTypeOK, TakeGuard, Step, Goto
<1>4. ASSUME NEW p \in Processes, EvictGuard(p) \/ DropGuard(p) PROVE PipelineTypeOK'
  BY <1>4 DEF PipelineTypeOK, EvictGuard, DropGuard, Refused, Step, Goto
<1>5. ASSUME NEW p \in Processes, Judge(p) PROVE PipelineTypeOK'
  BY <1>5 DEF PipelineTypeOK, Judge, Refused, Step, Goto
<1>6. ASSUME NEW p \in Processes, Recover(p) \/ StampFails(p) \/ Release(p)
      PROVE  PipelineTypeOK'
  BY <1>6 DEF PipelineTypeOK, Recover, StampFails, Release, RemoveLock, Refused, Step, Goto
<1>7. CASE LockAges
  BY <1>7 DEF PipelineTypeOK, LockAges, LockDir
<1>8. CASE GuardAges
  BY <1>8 DEF PipelineTypeOK, GuardAges, GuardIsOld, GuardDir
<1>9. CASE UNCHANGED lockVars
  BY <1>9 DEF PipelineTypeOK, lockVars
<1> QED
  BY <1>1, <1>2, <1>3, <1>4, <1>5, <1>6, <1>7, <1>8, <1>9 DEF PipelineNext, Acquire

\* The variables of the lock keep their types, whatever dies and is refused.
THEOREM PipelineTypeCorrect == PipelineSpec => []PipelineTypeOK
<1>1. PipelineInit => PipelineTypeOK
  BY RefusalsAssumption DEF PipelineInit, PipelineTypeOK, Place
<1> QED
  BY <1>1, TypesStep, PTL DEF PipelineSpec

-----------------------------------------------------------------------------

\* Mutual exclusion.

\* The first death is the only one.
LEMMA OneDeath ==
  ASSUME MaxCrashes <= 1, NEW p \in Processes, Crash(p)
  PROVE  NobodyDead
<1>1. /\ IsFiniteSet({q \in Processes : Dead(q)})
      /\ Cardinality({q \in Processes : Dead(q)}) < 1
  BY ProcessesAssumption, CrashesAssumption, FS_Subset, FS_CardinalityType DEF Crash
<1>2. Cardinality({q \in Processes : Dead(q)}) = 0
  BY <1>1, FS_CardinalityType
<1>3. {q \in Processes : Dead(q)} = {}
  BY <1>1, <1>2, FS_EmptySet
<1> QED
  BY <1>3 DEF NobodyDead

\* Steps of one process that only go somewhere.
LEMMA Moves ==
  ASSUME LockInv, NEW p \in Processes,
         Start(p) \/ Recheck(p) \/ Wait(p) \/ Confirm(p) \/ VerifyOwner(p)
  PROVE  OneFailure' /\ DirectoriesAreOwned' /\ KeepersAreAtWork' /\ RecoveriesAreOrderly'
<1> USE DEF LockInv, PipelineTypeOK, Start, Recheck, Wait, Confirm, VerifyOwner, Step, Goto
<1>1. OneFailure'
  BY DEF OneFailure, NobodyDead, Dead
<1>2. DirectoriesAreOwned'
  BY DEF DirectoriesAreOwned, Owning, Stamped
<1>3. KeepersAreAtWork'
  BY DEF KeepersAreAtWork, DirectoriesAreOwned, Owning, Stamped, Dead, LockDir
<1>4. RecoveriesAreOrderly'
  <2>1. \A q \in Processes : (at'[q] = "DEAD") <=> at[q] = "DEAD"
    OBVIOUS
  <2>2. dir' = dir /\ guard' = guard /\ faults' = faults
    OBVIOUS
  <2>3. (Abandoned' <=> Abandoned) /\ (NobodyDead' <=> NobodyDead)
    BY <2>1, <2>2 DEF Abandoned, KeeperOf, NobodyDead, Dead, LockDir
  <2>4. \A q \in Processes : at'[q] \in {"RECHECK", "REMOVE"} => at[q] = at'[q] \/ at[q] = "RECHECK"
    OBVIOUS
  <2>5. Orderly => Orderly'
    <3>1. \A q \in Processes : at'[q] \in Recovering <=> at[q] \in Recovering
      BY DEF Recovering
    <3>2. \A q \in Processes : at'[q] = "EVICT" => at[q] = "EVICT"
      OBVIOUS
    <3> QED
      BY <2>2, <3>1, <3>2 DEF Orderly, GuardDir
  <2> QED
    BY <2>2, <2>3, <2>4, <2>5 DEF RecoveriesAreOrderly
<1> QED
  BY <1>1, <1>2, <1>3, <1>4

LEMMA Mkdirs ==
  ASSUME LockInv, NEW p \in Processes, Mkdir(p)
  PROVE  OneFailure' /\ DirectoriesAreOwned' /\ KeepersAreAtWork' /\ RecoveriesAreOrderly'
<1> USE DEF LockInv, PipelineTypeOK, Mkdir, Step, Goto
<1>1. OneFailure'
  BY DEF OneFailure, NobodyDead, Dead
<1>2. DirectoriesAreOwned'
  <2>1. CASE dir = Absent
    <3>1. \A q \in Processes \ {p} : at'[q] # "STAMP" /\ at'[q] \notin Owning
      BY <2>1 DEF DirectoriesAreOwned, Stamped
    <3>2. at'[p] = "STAMP" /\ dir' # Absent /\ dir'.maker = p /\ dir'.stamp = Absent
      <4>1. [maker |-> p, stamp |-> Absent, old |-> FALSE] \in LockDir
        BY DEF LockDir
      <4>2. dir' = [maker |-> p, stamp |-> Absent, old |-> FALSE] /\ at'[p] = "STAMP"
        BY <2>1
      <4>3. dir' # Absent
        BY <4>1, <4>2, NoDirAssumption
      <4> QED
        BY <4>2, <4>3
    <3> QED
      BY <3>1, <3>2 DEF DirectoriesAreOwned, Owning
  <2>2. CASE dir # Absent
    BY <2>2 DEF DirectoriesAreOwned, Owning, Stamped
  <2> QED
    BY <2>1, <2>2
<1>3. KeepersAreAtWork'
  BY DEF KeepersAreAtWork, DirectoriesAreOwned, Owning, Stamped, Dead, LockDir
<1>4. RecoveriesAreOrderly'
  <2>1. /\ \A q \in Processes : (at'[q] = "DEAD") <=> at[q] = "DEAD"
        /\ guard' = guard /\ faults' = faults
    OBVIOUS
  <2>2. Orderly => Orderly'
    <3>1. \A q \in Processes : at'[q] \in Recovering <=> at[q] \in Recovering
      BY DEF Recovering
    <3>2. \A q \in Processes : at'[q] = "EVICT" => at[q] = "EVICT"
      OBVIOUS
    <3> QED
      BY <2>1, <3>1, <3>2 DEF Orderly, GuardDir
  <2>3. \A q \in Processes : at'[q] \in {"RECHECK", "REMOVE"} => at[q] = at'[q]
    OBVIOUS
  <2>4. NobodyDead' <=> NobodyDead
    BY <2>1 DEF NobodyDead, Dead
  <2>5. Abandoned => Abandoned'
    <3> SUFFICES ASSUME Abandoned PROVE Abandoned'
      OBVIOUS
    <3>1. dir' = dir
      BY DEF Abandoned
    <3> QED
      BY <2>1, <3>1 DEF Abandoned, KeeperOf, Dead, LockDir
  <2>6. Abandoned' => Abandoned
    <3> SUFFICES ASSUME Abandoned' PROVE Abandoned
      OBVIOUS
    <3>1. ~(at'[p] = "DEAD")
      OBVIOUS
    <3>2. dir' = dir
      BY <3>1 DEF Abandoned, KeeperOf, Dead
    <3> QED
      BY <2>1, <3>2 DEF Abandoned, KeeperOf, Dead, LockDir
  <2> QED
    BY <2>1, <2>2, <2>3, <2>4, <2>5, <2>6 DEF RecoveriesAreOrderly
<1> QED
  BY <1>1, <1>2, <1>3, <1>4

LEMMA Stamps ==
  ASSUME LockInv, NEW p \in Processes, Stamp(p)
  PROVE  OneFailure' /\ DirectoriesAreOwned' /\ KeepersAreAtWork' /\ RecoveriesAreOrderly'
<1> USE DEF LockInv, PipelineTypeOK, Stamp, Step, Goto, Owner
<1>0. dir # Absent /\ dir.maker = p /\ dir.stamp = Absent /\ dir' = [dir EXCEPT !.stamp = p]
  BY DEF DirectoriesAreOwned
<1>1. dir' # Absent /\ dir'.maker = p /\ dir'.stamp = p /\ p # Absent
  BY <1>0, NoDirAssumption DEF LockDir
<1>2. \A q \in Processes \ {p} : at[q] # "STAMP" /\ at[q] \notin Owning
  BY <1>0, <1>1, NoDirAssumption DEF DirectoriesAreOwned, Stamped
<1>3. at'[p] \in Owning /\ at[p] = "STAMP" /\ \A q \in Processes \ {p} : at'[q] = at[q]
  BY <1>0 DEF Owning
<1>4. guard' = guard /\ faults' = faults
  OBVIOUS
<1> HIDE DEF LockInv, Stamp, PipelineTypeOK
<1>5. OneFailure'
  BY <1>3, <1>4 DEF LockInv, OneFailure, NobodyDead, Dead, Owning
<1>6. DirectoriesAreOwned'
  BY <1>1, <1>2, <1>3 DEF DirectoriesAreOwned, Owning, Stamped
<1>7. KeepersAreAtWork'
  BY <1>1, <1>3 DEF KeepersAreAtWork
<1>8. RecoveriesAreOrderly'
  <2>1. ~Abandoned /\ ~Abandoned'
    BY <1>0, <1>1, <1>3 DEF Abandoned, KeeperOf, Dead, Owning
  <2>2. NobodyDead' => NobodyDead
    BY <1>3 DEF NobodyDead, Dead
  <2>3. ASSUME Orderly PROVE Orderly'
    <3>1. \A q \in Processes : at'[q] \in Recovering <=> at[q] \in Recovering
      BY <1>3 DEF Recovering, Owning
    <3>2. \A q \in Processes : at'[q] = "EVICT" => at[q] = "EVICT"
      BY <1>3 DEF Owning
    <3> QED
      BY <2>3, <1>4, <3>1, <3>2 DEF Orderly, GuardDir, LockInv, PipelineTypeOK
  <2> QED
    BY <1>3, <1>4, <2>1, <2>2, <2>3 DEF RecoveriesAreOrderly, LockInv, Owning
<1> QED
  BY <1>5, <1>6, <1>7, <1>8

\* A step that neither touches the directory nor the rank of a process.
LEMMA QuietStep ==
  ASSUME LockInv, NEW p \in Processes,
         NEW to \in Place \ (Owning \cup {"STAMP", "DEAD"}),
         at[p] \notin Owning \cup {"STAMP", "DEAD"}, Goto(p, to),
         dir' = dir, faults' = faults \/ Refused
  PROVE  /\ OneFailure' /\ DirectoriesAreOwned' /\ KeepersAreAtWork'
         /\ (Abandoned' <=> Abandoned) /\ (NobodyDead' <=> NobodyDead)
         /\ faults' = 0 => faults = 0
<1> USE RefusalsAssumption DEF LockInv, PipelineTypeOK, Goto
<1>1. \A q \in Processes \cup {Absent} :
        (at'[q] = "DEAD" <=> at[q] = "DEAD") \/ q \notin Processes
  OBVIOUS
<1>2. NobodyDead' <=> NobodyDead
  BY <1>1 DEF NobodyDead, Dead
<1>3. Abandoned' <=> Abandoned
  BY <1>1 DEF Abandoned, KeeperOf, Dead, LockDir
<1>4. faults' = 0 => faults = 0
  BY DEF Refused
<1>5. OneFailure'
  BY <1>1, <1>2 DEF OneFailure, NobodyDead, Dead, Refused
<1>6. DirectoriesAreOwned'
  BY DEF DirectoriesAreOwned, Owning, Stamped
<1>7. KeepersAreAtWork'
  BY <1>4 DEF KeepersAreAtWork, Owning, Dead, LockDir
<1> QED
  BY <1>2, <1>3, <1>4, <1>5, <1>6, <1>7

LEMMA TakesGuard ==
  ASSUME LockInv, NEW p \in Processes, TakeGuard(p)
  PROVE  OneFailure' /\ DirectoriesAreOwned' /\ KeepersAreAtWork' /\ RecoveriesAreOrderly'
<1> USE DEF LockInv, PipelineTypeOK, TakeGuard, Step, Goto
<1>0. at[p] = "GUARD" /\ at'[p] \in {"JUDGE", "EVICT", "WAIT"} /\ Goto(p, at'[p])
      /\ dir' = dir /\ faults' = faults
  OBVIOUS
<1>1. /\ OneFailure' /\ DirectoriesAreOwned' /\ KeepersAreAtWork'
      /\ (Abandoned' <=> Abandoned) /\ (NobodyDead' <=> NobodyDead)
  BY <1>0, QuietStep DEF Owning, Place, Acquiring, Recovering
<1>2. ASSUME Orderly PROVE Orderly'
  <2>1. CASE guard = Absent
    <3>1. [maker |-> p, old |-> FALSE] \in GuardDir /\ guard' = [maker |-> p, old |-> FALSE]
      BY <2>1 DEF GuardDir
    <3>2. guard' # Absent /\ guard'.maker = p /\ ~guard'.old
      BY <3>1, NoDirAssumption
    <3>3. at'[p] \in Recovering /\ \A q \in Processes \ {p} : at'[q] \notin Recovering
      BY <1>2, <2>1 DEF Orderly, Recovering
    <3>4. \A q \in Processes : at'[q] # "EVICT"
      BY <1>2, <2>1 DEF Orderly
    <3> QED
      BY <3>2, <3>3, <3>4 DEF Orderly
  <2>2. CASE guard # Absent
    <3>1. at' = [at EXCEPT ![p] = "WAIT"] /\ guard' = guard
      BY <1>2, <2>2 DEF Orderly
    <3>2. \A q \in Processes : at'[q] \in Recovering <=> at[q] \in Recovering
      BY <1>0, <3>1 DEF Recovering
    <3>3. \A q \in Processes : at'[q] # "EVICT"
      BY <1>2, <3>1 DEF Orderly
    <3>4. guard.maker \in Processes
      BY <2>2 DEF GuardDir
    <3> QED
      BY <1>2, <3>1, <3>2, <3>3, <3>4 DEF Orderly
  <2> QED
    BY <2>1, <2>2
<1>3. \A q \in Processes : at'[q] \in {"RECHECK", "REMOVE"} => at[q] = at'[q]
  BY <1>0
<1> QED
  BY <1>0, <1>1, <1>2, <1>3 DEF RecoveriesAreOrderly

LEMMA EvictsGuard ==
  ASSUME LockInv, NEW p \in Processes, EvictGuard(p)
  PROVE  OneFailure' /\ DirectoriesAreOwned' /\ KeepersAreAtWork' /\ RecoveriesAreOrderly'
<1> USE DEF LockInv, PipelineTypeOK, EvictGuard, Step
<1>0. at[p] = "EVICT" /\ Goto(p, "WAIT") /\ dir' = dir /\ (faults' = faults \/ Refused)
  OBVIOUS
<1>1. /\ OneFailure' /\ DirectoriesAreOwned' /\ KeepersAreAtWork'
      /\ (Abandoned' <=> Abandoned) /\ (NobodyDead' <=> NobodyDead)
      /\ faults' = 0 => faults = 0
  BY <1>0, QuietStep DEF Owning, Place, Acquiring, Recovering
<1>2. ~Orderly
  BY <1>0 DEF Orderly
<1>3. \A q \in Processes : at'[q] \in {"RECHECK", "REMOVE"} => at[q] = at'[q]
  BY <1>0 DEF Goto
<1> QED
  BY <1>1, <1>2, <1>3 DEF RecoveriesAreOrderly

LEMMA Judges ==
  ASSUME LockInv, NEW p \in Processes, Judge(p)
  PROVE  OneFailure' /\ DirectoriesAreOwned' /\ KeepersAreAtWork' /\ RecoveriesAreOrderly'
<1> USE DEF LockInv, PipelineTypeOK, Judge, Step
<1>0. at[p] = "JUDGE" /\ at'[p] \in {"RECHECK", "REMOVE", "DROP"} /\ Goto(p, at'[p])
      /\ dir' = dir /\ guard' = guard /\ (faults' = faults \/ Refused)
  BY DEF Goto
<1>1. /\ OneFailure' /\ DirectoriesAreOwned' /\ KeepersAreAtWork'
      /\ (Abandoned' <=> Abandoned) /\ (NobodyDead' <=> NobodyDead)
      /\ faults' = 0 => faults = 0
  BY <1>0, QuietStep DEF Owning, Place, Acquiring, Recovering
<1>2. Stale(dir) => Abandoned
  BY DEF Stale, Abandoned, KeeperOf, KeepersAreAtWork
<1>3. at'[p] = "DROP" \/ Stale(dir)
  BY DEF Goto
<1>4. \A q \in Processes : at'[q] \in {"RECHECK", "REMOVE"} => Abandoned
  BY <1>0, <1>2, <1>3 DEF Goto, RecoveriesAreOrderly
<1>5. ASSUME Orderly PROVE Orderly'
  <2>1. \A q \in Processes : at'[q] \in Recovering <=> at[q] \in Recovering
    BY <1>0 DEF Goto, Recovering
  <2>2. \A q \in Processes : at'[q] # "EVICT"
    BY <1>0, <1>5 DEF Orderly, Goto
  <2> QED
    BY <1>0, <1>5, <2>1, <2>2 DEF Orderly, GuardDir
<1> QED
  BY <1>1, <1>4, <1>5 DEF RecoveriesAreOrderly

LEMMA Recovers ==
  ASSUME LockInv, NEW p \in Processes, Recover(p)
  PROVE  OneFailure' /\ DirectoriesAreOwned' /\ KeepersAreAtWork' /\ RecoveriesAreOrderly'
<1> USE DEF LockInv, PipelineTypeOK
<1>1. at[p] = "REMOVE" /\ Abandoned /\ ~NobodyDead /\ faults = 0 /\ Orderly
  <2>1. at[p] = "REMOVE" /\ Abandoned
    BY DEF Recover, Step, RecoveriesAreOrderly
  <2>2. ~NobodyDead
    BY <2>1 DEF Abandoned, KeeperOf, NobodyDead, LockDir
  <2> QED
    BY <2>1, <2>2 DEF OneFailure, RecoveriesAreOrderly
<1>2. Goto(p, "DROP_AGAIN") /\ dir' = Absent /\ guard' = guard /\ faults' = faults
  BY <1>1 DEF Recover, RemoveLock, Refused, NobodyDead, Step
<1>3. \A q \in Processes : at'[q] # "STAMP" /\ at'[q] \notin Owning
  <2>1. \A q \in Processes : at[q] # "STAMP" /\ at[q] \notin Owning
    BY <1>1, NoDirAssumption DEF DirectoriesAreOwned, Stamped, Abandoned, KeeperOf, Dead, Owning
  <2> QED
    BY <1>2, <2>1 DEF Goto, Owning
<1>4. \A q \in Processes : (at'[q] = "DEAD" <=> at[q] = "DEAD")
  BY <1>1, <1>2 DEF Goto
<1>5. OneFailure'
  BY <1>2, <1>4 DEF OneFailure, NobodyDead, Dead
<1>6. DirectoriesAreOwned' /\ KeepersAreAtWork'
  BY <1>2, <1>3 DEF DirectoriesAreOwned, KeepersAreAtWork
<1>7. \A q \in Processes : at'[q] \notin {"RECHECK", "REMOVE"}
  BY <1>1, <1>2 DEF Orderly, Recovering, Goto
<1>8. ~NobodyDead' /\ ~Abandoned'
  BY <1>1, <1>2, <1>4 DEF NobodyDead, Abandoned, Dead
<1> QED
  BY <1>5, <1>6, <1>7, <1>8 DEF RecoveriesAreOrderly

LEMMA DropsGuard ==
  ASSUME LockInv, NEW p \in Processes, DropGuard(p)
  PROVE  OneFailure' /\ DirectoriesAreOwned' /\ KeepersAreAtWork' /\ RecoveriesAreOrderly'
<1> USE DEF LockInv, PipelineTypeOK, DropGuard, Step
<1>0. at[p] \in {"DROP", "DROP_AGAIN"} /\ at'[p] \in {"WAIT", "TRY"} /\ Goto(p, at'[p])
      /\ dir' = dir /\ ((guard' = Absent /\ faults' = faults) \/ Refused)
  BY DEF Goto
<1>1. /\ OneFailure' /\ DirectoriesAreOwned' /\ KeepersAreAtWork'
      /\ (Abandoned' <=> Abandoned) /\ (NobodyDead' <=> NobodyDead)
      /\ faults' = 0 => faults = 0
  BY <1>0, QuietStep DEF Owning, Place, Acquiring, Recovering
<1>2. ASSUME faults' = 0, Orderly PROVE Orderly'
  <2>1. guard' = Absent
    BY <1>0, <1>2 DEF Refused
  <2>2. guard.maker = p /\ \A q \in Processes : at[q] \in Recovering => guard.maker = q
    BY <1>0, <1>2 DEF Orderly, Recovering
  <2>3. \A q \in Processes : at'[q] \notin Recovering /\ at'[q] # "EVICT"
    BY <1>0, <1>2, <2>2 DEF Orderly, Goto, Recovering
  <2> QED
    BY <2>1, <2>3 DEF Orderly
<1>3. \A q \in Processes : at'[q] \in {"RECHECK", "REMOVE"} => at[q] = at'[q]
  BY <1>0 DEF Goto
<1> QED
  BY <1>1, <1>2, <1>3 DEF RecoveriesAreOrderly

LEMMA Fails ==
  ASSUME LockInv, NEW p \in Processes, StampFails(p)
  PROVE  OneFailure' /\ DirectoriesAreOwned' /\ KeepersAreAtWork' /\ RecoveriesAreOrderly'
<1> USE DEF LockInv, PipelineTypeOK
<1>1. at[p] = "STAMP" /\ Goto(p, "OUT") /\ dir' = Absent
  BY DEF StampFails, Step, RemoveLock
<1>2. NobodyDead /\ faults' # 0
  BY RefusalsAssumption DEF StampFails, Refused, NobodyDead
<1>3. NobodyDead'
  BY <1>1, <1>2 DEF NobodyDead, Dead, Goto
<1>4. OneFailure'
  BY <1>3 DEF OneFailure, NobodyDead
<1>5. \A q \in Processes \ {p} : at[q] # "STAMP" /\ at[q] \notin Owning
  BY <1>1, NoDirAssumption DEF DirectoriesAreOwned, Stamped
<1>6. DirectoriesAreOwned' /\ KeepersAreAtWork'
  BY <1>1, <1>5 DEF DirectoriesAreOwned, KeepersAreAtWork, Goto, Owning
<1>7. ~Abandoned
  BY <1>2 DEF Abandoned, KeeperOf, NobodyDead, LockDir
<1>8. \A q \in Processes : at'[q] \notin {"RECHECK", "REMOVE"}
  BY <1>1, <1>7 DEF RecoveriesAreOrderly, Goto
<1> QED
  BY <1>2, <1>4, <1>6, <1>8 DEF RecoveriesAreOrderly

LEMMA Releases ==
  ASSUME LockInv, NEW p \in Processes, Release(p)
  PROVE  OneFailure' /\ DirectoriesAreOwned' /\ KeepersAreAtWork' /\ RecoveriesAreOrderly'
<1> USE DEF LockInv, PipelineTypeOK
<1>1. at[p] = "VERIFIED" /\ Goto(p, "OUT") /\ guard' = guard
  BY DEF Release, Step
<1>2. Stamped(p) /\ p # Absent
  BY <1>1, NoDirAssumption DEF DirectoriesAreOwned, Owning
<1>3. \A q \in Processes : (at'[q] = "DEAD" <=> at[q] = "DEAD")
  BY <1>1 DEF Goto
<1>4. (NobodyDead' <=> NobodyDead) /\ ~Abandoned
  BY <1>1, <1>2, <1>3 DEF NobodyDead, Abandoned, KeeperOf, Dead, Stamped
<1>5. \A q \in Processes \ {p} : at[q] # "STAMP" /\ at[q] \notin Owning
  BY <1>2 DEF DirectoriesAreOwned, Stamped
<1>6. \A q \in Processes \ {p} : at'[q] # "STAMP" /\ at'[q] \notin Owning
  BY <1>1, <1>5 DEF Goto
<1>7. at'[p] # "STAMP" /\ at'[p] \notin Owning
  BY <1>1 DEF Goto, Owning
<1>8. \A q \in Processes : at'[q] \notin {"RECHECK", "REMOVE"}
  BY <1>1, <1>4 DEF RecoveriesAreOrderly, Goto
<1>9. Orderly => Orderly'
  <2>1. \A q \in Processes : at'[q] \in Recovering <=> at[q] \in Recovering
    BY <1>1 DEF Goto, Recovering
  <2>2. \A q \in Processes : at'[q] = "EVICT" => at[q] = "EVICT"
    BY <1>1 DEF Goto
  <2> QED
    BY <1>1, <2>1, <2>2 DEF Orderly, GuardDir
<1>10. DirectoriesAreOwned'
  BY <1>6, <1>7 DEF DirectoriesAreOwned
<1>11. CASE RemoveLock /\ faults' = faults
  <2>1. ~Abandoned' /\ KeepersAreAtWork'
    BY <1>11 DEF RemoveLock, Abandoned, KeepersAreAtWork
  <2>2. OneFailure'
    BY <1>3, <1>11 DEF OneFailure, NobodyDead, Dead
  <2> QED
    BY <2>1, <2>2, <1>4, <1>8, <1>9, <1>10, <1>11 DEF RecoveriesAreOrderly
<1>12. CASE Refused /\ dir' = dir
  <2>1. NobodyDead /\ faults' # 0
    BY <1>12, RefusalsAssumption DEF Refused, NobodyDead
  <2>2. OneFailure'
    BY <1>3, <2>1 DEF OneFailure, NobodyDead, Dead
  <2>3. KeepersAreAtWork'
    BY <1>2, <1>12, <2>1 DEF KeepersAreAtWork, Stamped
  <2> QED
    BY <2>1, <2>2, <2>3, <1>8, <1>10 DEF RecoveriesAreOrderly
<1> QED
  BY <1>11, <1>12 DEF Release

LEMMA Crashes ==
  ASSUME MaxCrashes <= 1, LockInv, NEW p \in Processes, Crash(p)
  PROVE  OneFailure' /\ DirectoriesAreOwned' /\ KeepersAreAtWork' /\ RecoveriesAreOrderly'
<1> USE DEF LockInv, PipelineTypeOK
<1>1. NobodyDead
  BY OneDeath
<1>2. faults = 0 /\ faults' = faults /\ dir' = dir /\ guard' = guard
      /\ at' = [at EXCEPT ![p] = "DEAD"]
  BY DEF Crash, Goto
<1>3. Orderly /\ ~Abandoned
  BY <1>1, <1>2 DEF RecoveriesAreOrderly, Abandoned, KeeperOf, NobodyDead, LockDir
<1>4. \A q \in Processes : (at'[q] = "DEAD" <=> q = p)
  BY <1>1, <1>2 DEF NobodyDead, Dead
<1>5. OneFailure'
  BY <1>2, <1>4 DEF OneFailure, Dead
<1>6. DirectoriesAreOwned'
  BY <1>2 DEF DirectoriesAreOwned, Owning, Stamped
<1>7. KeepersAreAtWork'
  BY <1>2 DEF KeepersAreAtWork, Owning, Dead, LockDir
<1>8. \A q \in Processes : at'[q] \notin {"RECHECK", "REMOVE"}
  BY <1>2, <1>3 DEF RecoveriesAreOrderly
<1>9. ASSUME Abandoned' PROVE Orderly'
  <2>1. dir # Absent /\ KeeperOf(dir) = p
    BY <1>2, <1>4, <1>9 DEF Abandoned, KeeperOf, Dead, LockDir
  <2>2. at[p] \notin Recovering
    BY <1>1, <1>2, <2>1 DEF KeepersAreAtWork, KeeperOf, Recovering, Owning, NobodyDead, Dead
  <2>3. \A q \in Processes : at'[q] \in Recovering <=> at[q] \in Recovering
    BY <1>2, <2>2 DEF Recovering
  <2>4. \A q \in Processes : at'[q] # "EVICT"
    BY <1>2, <1>3 DEF Orderly
  <2> QED
    BY <1>2, <1>3, <2>3, <2>4 DEF Orderly, GuardDir
<1>10. ~NobodyDead'
  BY <1>4 DEF NobodyDead, Dead
<1> QED
  BY <1>5, <1>6, <1>7, <1>8, <1>9, <1>10 DEF RecoveriesAreOrderly

LEMMA Ages ==
  ASSUME LockInv, LockAges \/ GuardAges
  PROVE  OneFailure' /\ DirectoriesAreOwned' /\ KeepersAreAtWork' /\ RecoveriesAreOrderly'
<1> USE DEF LockInv, PipelineTypeOK
<1>1. CASE LockAges
  <2>1. /\ dir # Absent /\ dir.stamp = Absent /\ at[dir.maker] # "STAMP"
        /\ dir' = [dir EXCEPT !.old = TRUE] /\ at' = at /\ guard' = guard /\ faults' = faults
    BY <1>1 DEF LockAges
  <2>2. dir' # Absent /\ dir'.stamp = Absent /\ dir'.maker = dir.maker
    <3>1. dir' \in LockDir
      BY <2>1 DEF LockDir
    <3> QED
      BY <2>1, <3>1, NoDirAssumption DEF LockDir
  <2>3. Dead(dir.maker)
    BY <2>1 DEF KeepersAreAtWork, Dead
  <2>4. Abandoned' /\ Abandoned
    BY <2>1, <2>2, <2>3 DEF Abandoned, KeeperOf, Dead
  <2>5. OneFailure' /\ DirectoriesAreOwned' /\ KeepersAreAtWork'
    BY <2>1, <2>2, <2>3
       DEF OneFailure, NobodyDead, Dead, DirectoriesAreOwned, Stamped, KeepersAreAtWork
  <2>6. RecoveriesAreOrderly'
    BY <2>1, <2>4 DEF RecoveriesAreOrderly, Orderly
  <2> QED
    BY <2>5, <2>6
<1>2. CASE GuardAges
  <2>1. at' = at /\ dir' = dir /\ faults' = faults /\ ~Orderly
    BY <1>2 DEF GuardAges, Orderly
  <2> QED
    BY <2>1 DEF OneFailure, NobodyDead, Dead, DirectoriesAreOwned, Stamped, KeepersAreAtWork,
                RecoveriesAreOrderly, Abandoned, KeeperOf
<1> QED
  BY <1>1, <1>2

LEMMA LockStarts == PipelineInit => LockInv
<1> SUFFICES ASSUME PipelineInit PROVE LockInv
  OBVIOUS
<1>1. PipelineTypeOK
  BY RefusalsAssumption DEF PipelineInit, PipelineTypeOK, Place
<1>2. \A p \in Processes : at[p] = "OUT"
  BY DEF PipelineInit
<1>3. OneFailure /\ DirectoriesAreOwned /\ KeepersAreAtWork /\ RecoveriesAreOrderly
  BY <1>2 DEF PipelineInit, OneFailure, NobodyDead, Dead, DirectoriesAreOwned, Owning,
              KeepersAreAtWork, RecoveriesAreOrderly, Orderly, Recovering
<1> QED
  BY <1>1, <1>3 DEF LockInv

LEMMA LockStep ==
  ASSUME MaxCrashes <= 1, LockInv, [PipelineNext]_lockVars
  PROVE  LockInv'
<1>1. PipelineTypeOK'
  BY TypesStep DEF LockInv
<1>2. OneFailure' /\ DirectoriesAreOwned' /\ KeepersAreAtWork' /\ RecoveriesAreOrderly'
  <2>1. CASE UNCHANGED lockVars
    BY <2>1 DEF lockVars, LockInv, OneFailure, NobodyDead, Dead, DirectoriesAreOwned, Stamped,
                KeepersAreAtWork, RecoveriesAreOrderly, Orderly, Abandoned, KeeperOf
  <2>2. CASE PipelineNext
    BY <2>2, Moves, Mkdirs, Stamps, TakesGuard, EvictsGuard, Judges, Recovers, DropsGuard,
       Fails, Releases, Crashes, Ages DEF PipelineNext, Acquire
  <2> QED
    BY <2>1, <2>2
<1> QED
  BY <1>1, <1>2 DEF LockInv

\* Who holds the lock is named by the stamp, and there is one stamp.
LEMMA HolderIsAlone == LockInv => MutualExclusion
BY DEF LockInv, DirectoriesAreOwned, Owning, Stamped, MutualExclusion

\* The inductive invariant: the directory has one keeper, only a dead keeper's is
\* removed, and as long as one may be removed the guard keeps others away.
THEOREM LockInvariance == ASSUME MaxCrashes <= 1 PROVE PipelineSpec => []LockInv
<1>1. LockInv /\ [PipelineNext]_lockVars => LockInv'
  BY LockStep
<1> QED
  BY <1>1, LockStarts, PTL DEF PipelineSpec

\* Two processes never write the shared file together: as long as at most one
\* dies, however many there are, whatever calls are refused, and whether the
\* owner rechecks and reads back (pipeline-lock.mjs) or not (tracker-utils.mjs).
THEOREM OneWriterAtATime == ASSUME MaxCrashes <= 1 PROVE PipelineSpec => []MutualExclusion
BY LockInvariance, HolderIsAlone, PTL

-----------------------------------------------------------------------------

\* Transactions.

\* What a writer has read under the lock is what the table still holds, only one
\* that is at it has a temporary file, and one that has no lock has read nothing.
TransactionsAreTrue ==
  /\ \A p \in Processes : at[p] \in Acquiring => seen[p] = Absent
  /\ \A p \in temps : at[p] = "DEAD" \/ (at[p] = "HOLD" /\ Unfinished(p) /\ seen[p] # Absent)
  /\ \A p \in Processes : at[p] = "HOLD" /\ Unfinished(p) /\ seen[p] # Absent => seen[p] = table

TransactionInv ==
  /\ LockInv /\ LockTypeOK
  /\ TransactionsAreTrue
  /\ NoUpdateIsLost

\* A refused rename is no step of the lock, and does it no harm.
LEMMA RefusedRename ==
  ASSUME LockInv, Refused, UNCHANGED <<at, dir, guard, judged>>
  PROVE  LockInv'
<1> USE RefusalsAssumption
    DEF LockInv, PipelineTypeOK, Refused
<1>1. NobodyDead /\ faults' # 0 /\ faults' \in 0 .. MaxFaults
  BY DEF NobodyDead
<1>2. OneFailure' /\ DirectoriesAreOwned' /\ KeepersAreAtWork'
  BY <1>1 DEF OneFailure, NobodyDead, Dead, DirectoriesAreOwned, Stamped, KeepersAreAtWork
<1>3. RecoveriesAreOrderly'
  BY <1>1 DEF RecoveriesAreOrderly, Abandoned, KeeperOf, Dead
<1> QED
  BY <1>1, <1>2, <1>3

\* Whoever is on the way to the lock stays on it, gets it or gives up.
LEMMA OnTheWay ==
  ASSUME PipelineTypeOK, NEW p \in Processes, Acquire(p)
  PROVE  /\ at[p] \in Acquiring /\ at'[p] \in Acquiring \cup {"HOLD", "OUT"}
         /\ at' = [at EXCEPT ![p] = at'[p]]
<1> USE DEF PipelineTypeOK, Acquiring, Recovering, Step, Goto
<1>1. ASSUME Mkdir(p) \/ TakeGuard(p) \/ EvictGuard(p) \/ Judge(p) \/ Recheck(p) \/ Recover(p)
      PROVE  /\ at[p] \in Acquiring /\ at'[p] \in Acquiring
             /\ at' = [at EXCEPT ![p] = at'[p]]
  BY <1>1 DEF Mkdir, TakeGuard, EvictGuard, Judge, Recheck, Recover
<1>2. ASSUME DropGuard(p) \/ Wait(p) \/ Stamp(p) \/ StampFails(p) \/ Confirm(p)
      PROVE  /\ at[p] \in Acquiring /\ at'[p] \in Acquiring \cup {"HOLD", "OUT"}
             /\ at' = [at EXCEPT ![p] = at'[p]]
  BY <1>2 DEF DropGuard, Wait, Stamp, StampFails, Confirm
<1> QED
  BY <1>1, <1>2 DEF Acquire

\* A step keeps the lock sound and makes no second holder.
LEMMA LockKept ==
  ASSUME MaxCrashes <= 1, LockInv, LockNext \/ UNCHANGED <<lockVars, content>>
  PROVE  LockInv'
<1>1. CASE \E p \in Processes : ReplaceRefused(p)
  BY <1>1, RefusedRename DEF ReplaceRefused
<1>2. CASE ~\E p \in Processes : ReplaceRefused(p)
  <2>1. [PipelineNext]_lockVars
    BY <1>2 DEF LockNext, PipelineNext, Open, TakeLock, Read, WriteTemporary, Replace, Close,
                Die, Age, lockVars
  <2> QED
    BY <2>1, LockStep
<1> QED
  BY <1>1, <1>2

\* Every step keeps the types of the content and the invariant about it.
LEMMA TransactionStep ==
  ASSUME MaxCrashes <= 1, TransactionInv, LockNext \/ UNCHANGED <<lockVars, content>>
  PROVE  TransactionInv'
<1>1. LockInv'
  BY LockKept DEF TransactionInv
<1> USE DEF TransactionInv, LockTypeOK, LockInv, PipelineTypeOK
<1>2. \A p, q \in Processes : at[p] = "HOLD" /\ at[q] = "HOLD" => p = q
  BY HolderIsAlone DEF MutualExclusion
<1>3. ASSUME NEW p \in Processes, Open(p)
      PROVE  LockTypeOK' /\ TransactionsAreTrue' /\ NoUpdateIsLost'
  <2> USE <1>3, <1>1 DEF Open, Start, Step, Goto
  <2>1. at[p] = "OUT" /\ p \notin temps
    BY DEF TransactionsAreTrue
  <2>2. LockTypeOK'
    <3>1. seen' = [seen EXCEPT ![p] = Absent] /\ refused' = refused \ {p}
          /\ table' = table /\ temps' = temps /\ told' = told
      OBVIOUS
    <3>2. seen' \in [Processes -> (SUBSET Processes) \cup {Absent}]
      BY <3>1
    <3> QED
      BY <3>1, <3>2
  <2>3. \A q \in Processes \ {p} :
          at'[q] = at[q] /\ seen'[q] = seen[q] /\ (Unfinished(q)' <=> Unfinished(q))
    BY DEF Unfinished
  <2>4. at'[p] = "TRY" /\ seen'[p] = Absent /\ temps' = temps /\ table' = table
    OBVIOUS
  <2>5. TransactionsAreTrue'
    BY <2>1, <2>3, <2>4 DEF TransactionsAreTrue, Unfinished
  <2>6. NoUpdateIsLost'
    BY DEF NoUpdateIsLost
  <2> QED
    BY <2>2, <2>5, <2>6
<1>4. ASSUME NEW p \in Processes, TakeLock(p)
      PROVE  LockTypeOK' /\ TransactionsAreTrue' /\ NoUpdateIsLost'
  <2>1. /\ at[p] \in Acquiring /\ at'[p] \in Acquiring \cup {"HOLD", "OUT"}
        /\ at' = [at EXCEPT ![p] = at'[p]] /\ UNCHANGED content
    BY <1>4, OnTheWay DEF TakeLock
  <2>2. p \notin temps /\ seen[p] = Absent
    BY <2>1 DEF TransactionsAreTrue, Acquiring, Recovering
  <2> QED
    BY <1>1, <2>1, <2>2 DEF TransactionsAreTrue, NoUpdateIsLost, Unfinished, content
<1>5. ASSUME NEW p \in Processes, Read(p) \/ WriteTemporary(p)
      PROVE  LockTypeOK' /\ TransactionsAreTrue' /\ NoUpdateIsLost'
  BY <1>5, <1>1 DEF Read, WriteTemporary, InTransaction, TransactionsAreTrue, NoUpdateIsLost,
                    Unfinished, Acquiring, Recovering, lockVars
<1>6. ASSUME NEW p \in Processes, Replace(p)
      PROVE  LockTypeOK' /\ TransactionsAreTrue' /\ NoUpdateIsLost'
  <2> USE <1>6, <1>1 DEF Replace, lockVars
  <2>1. seen[p] = table /\ table' = table \cup {p}
    BY DEF TransactionsAreTrue
  <2>2. \A q \in Processes \ {p} : at[q] # "HOLD"
    BY <1>2
  <2> QED
    BY <2>1, <2>2 DEF TransactionsAreTrue, NoUpdateIsLost, Unfinished
<1>7. ASSUME NEW p \in Processes, ReplaceRefused(p)
      PROVE  LockTypeOK' /\ TransactionsAreTrue' /\ NoUpdateIsLost'
  BY <1>7, <1>1 DEF ReplaceRefused, TransactionsAreTrue, NoUpdateIsLost, Unfinished
<1>8. ASSUME NEW p \in Processes, Close(p) \/ Die(p)
      PROVE  LockTypeOK' /\ TransactionsAreTrue' /\ NoUpdateIsLost'
  BY <1>8, <1>1 DEF Close, Die, VerifyOwner, Release, Crash, Step, Goto, TransactionsAreTrue,
                    NoUpdateIsLost, Unfinished, Acquiring, Recovering, content
<1>9. CASE Age \/ UNCHANGED <<lockVars, content>>
  BY <1>9, <1>1 DEF Age, LockAges, GuardAges, lockVars, content, TransactionsAreTrue,
                    NoUpdateIsLost, Unfinished
<1>10. LockTypeOK' /\ TransactionsAreTrue' /\ NoUpdateIsLost'
  BY <1>3, <1>4, <1>5, <1>6, <1>7, <1>8, <1>9 DEF LockNext
<1> QED
  BY <1>1, <1>10

\* The inductive invariant of the transactions.
THEOREM TransactionInvariance == ASSUME MaxCrashes <= 1 PROVE LockSpec => []TransactionInv
<1>1. LockInit => TransactionInv
  <2> SUFFICES ASSUME LockInit PROVE TransactionInv
    OBVIOUS
  <2>1. LockInv /\ \A p \in Processes : at[p] = "OUT"
    BY LockStarts DEF LockInit, PipelineInit
  <2>2. table = {} /\ temps = {} /\ told = {} /\ refused = {}
        /\ seen \in [Processes -> (SUBSET Processes) \cup {Absent}] /\ \A p \in Processes : seen[p] = Absent
    BY DEF LockInit
  <2> QED
    BY <2>1, <2>2 DEF LockInv, TransactionInv, LockTypeOK, TransactionsAreTrue, NoUpdateIsLost
<1>2. TransactionInv /\ [LockNext]_<<lockVars, content>> => TransactionInv'
  BY TransactionStep
<1> QED
  BY <1>1, <1>2, PTL DEF LockSpec

\* A change a writer has reported stays in the table of applications, however many
\* writers there are, whichever dies and whatever renames and removals are refused.
THEOREM NoUpdateLost == ASSUME MaxCrashes <= 1 PROVE LockSpec => []NoUpdateIsLost
<1>1. TransactionInv => NoUpdateIsLost
  BY DEF TransactionInv
<1> QED
  BY <1>1, TransactionInvariance, PTL

-----------------------------------------------------------------------------
\* The sync queue stays consistent for any objects, hashes and limits, and for any
\* number of commands that load and replace the file in any order: a consistent
\* queue is changed by one command into a consistent queue, and every copy that a
\* command has loaded was the file once, so that it is consistent as well.

\* What every single command preserves.
Good(q) ==
  /\ q \in Queue
  /\ OneEntryPerObject(q)
  /\ TombstonesBlock(q)
  /\ AuditTellsEntries(q)

\* The inductive invariant: the file and all copies are good queues.
IInv ==
  /\ Good(queue) /\ WithinLimits(queue)
  /\ loaded \in [Commands -> Queue \cup {None}]
  /\ \A c \in Commands : loaded[c] # None => Good(loaded[c])

-----------------------------------------------------------------------------

\* Recording an event changes one entry and the audit, which tells the new
\* entry as it told the others.
LEMMA RecordedIsTold ==
  ASSUME NEW q \in Queue, NEW key \in Keys, NEW event \in Event,
         NEW entry \in Entry \cup {None},
         (event = "cancel") <=> (entry = None),
         entry # None => entry.last = event,
         AuditTellsEntries(q)
  PROVE  LET r == Recorded(q, key, event, entry)
         IN  /\ r \in Queue
             /\ r.tombstones = q.tombstones
             /\ r.entries = [q.entries EXCEPT ![key] = entry]
             /\ AuditTellsEntries(r)
<1> DEFINE r == Recorded(q, key, event, entry)
           new == [event |-> event, key |-> key]
           n == Len(q.audit)
<1>1. /\ r.entries = [q.entries EXCEPT ![key] = entry]
      /\ r.tombstones = q.tombstones
      /\ r.audit = Append(q.audit, new)
  BY DEF Recorded
<1>2. /\ q.entries \in [Keys -> Entry \cup {None}]
      /\ q.tombstones \in SUBSET Keys
      /\ q.audit \in Seq([event : Event, key : Keys])
  BY DEF Queue
<1>a. new \in [event : Event, key : Keys]
  OBVIOUS
<1>b. r.entries \in [Keys -> Entry \cup {None}]
  BY <1>1, <1>2
<1>c. r.audit \in Seq([event : Event, key : Keys])
  BY <1>1, <1>2, <1>a
<1>d. r \in Queue
  BY <1>1, <1>2, <1>b, <1>c DEF Recorded, Queue
<1>e. /\ n \in Nat
      /\ Len(r.audit) = n + 1
      /\ r.audit[n + 1] = new
      /\ \A i \in 1..n : r.audit[i] = q.audit[i]
  BY <1>1, <1>2, <1>a
<1>f. Len(q.audit) = n
  OBVIOUS
<1>3. \A k \in Keys : k # key => r.entries[k] = q.entries[k]
  BY <1>1, <1>2
<1>4. r.entries[key] = entry
  BY <1>1, <1>2
<1> HIDE DEF r, n
<1>5. ASSUME NEW k \in Keys, NEW i \in 1..Len(r.audit), Latest(r, k, i)
      PROVE  IF r.audit[i].event = "cancel" THEN r.entries[k] = None
             ELSE r.entries[k] # None /\ r.entries[k].last = r.audit[i].event
  <2>1. CASE k = key
    <3>1. i = n + 1
      BY <1>e, <1>5, <2>1 DEF Latest
    <3> QED
      BY <1>e, <1>4, <2>1, <3>1, NoneAssumption
  <2>2. CASE k # key
    <3>1. i \in 1..n
      BY <1>e, <1>5, <2>2 DEF Latest
    <3>2. q.audit[i].key = k
      BY <1>e, <1>5, <3>1 DEF Latest
    <3>3. \A j \in 1..n : q.audit[j].key = k => j <= i
      BY <1>e, <1>5, <3>1 DEF Latest
    <3>4. Latest(q, k, i)
      BY <1>f, <3>2, <3>3 DEF Latest
    <3> QED
      BY <1>e, <1>3, <1>f, <2>2, <3>1, <3>4 DEF AuditTellsEntries
  <2> QED
    BY <2>1, <2>2
<1>6. ASSUME NEW k \in Present(r)
      PROVE  \E i \in 1..Len(r.audit) : r.audit[i].key = k
  <2>1. CASE k = key
    BY <1>e, <2>1
  <2>2. CASE k # key
    <3>1. k \in Present(q)
      BY <1>3, <2>2 DEF Present
    <3>2. PICK i \in 1..n : q.audit[i].key = k
      BY <1>f, <3>1 DEF AuditTellsEntries
    <3> QED
      BY <1>e, <3>2
  <2> QED
    BY <2>1, <2>2
<1> QED
  BY <1>1, <1>d, <1>5, <1>6 DEF AuditTellsEntries, r

\* A new entry: the guards say that its object has no other entry and that no
\* tombstone blocks it.
LEMMA EnqueueIsGood ==
  ASSUME NEW q, Good(q), NEW key \in Keys,
         ~tombstoneBlock(q, key), NoEntryOfObject(q, key)
  PROVE  Good(Recorded(q, key, "enqueue",
           [status |-> "pending", attempts |-> 0, last |-> "enqueue"]))
<1> DEFINE new == [status |-> "pending", attempts |-> 0, last |-> "enqueue"]
           r == Recorded(q, key, "enqueue", new)
<1>1. new \in Entry /\ new # None /\ "enqueue" \in Event
  BY NoneAssumption DEF Entry, Status, Event
<1>2. /\ r \in Queue
      /\ r.tombstones = q.tombstones
      /\ r.entries = [q.entries EXCEPT ![key] = new]
      /\ AuditTellsEntries(r)
  BY <1>1, RecordedIsTold DEF Good
<1>3. /\ r.entries[key] = new
      /\ \A k \in Keys : k # key => r.entries[k] = q.entries[k]
  BY <1>2 DEF Good, Queue
<1>4. \A k \in Present(r) : k # key => k \in Present(q) /\ k[1] # key[1]
  <2> SUFFICES ASSUME NEW k \in Present(r), k # key
               PROVE  k \in Present(q) /\ k[1] # key[1]
    OBVIOUS
  <2>1. k \in Present(q)
    BY <1>3 DEF Present
  <2>2. k \in Keys /\ k[2] \in Hashes /\ k = <<k[1], k[2]>> /\ q.entries[k] # None
    BY <2>1 DEF Present, Keys
  <2> QED
    BY <2>1, <2>2 DEF NoEntryOfObject
<1> HIDE DEF r
<1>5. OneEntryPerObject(r)
  BY <1>4 DEF OneEntryPerObject, Good, Present
<1>6. TombstonesBlock(r)
  BY <1>2, <1>3, <1>4 DEF TombstonesBlock, Good, tombstoneBlock, Tombstoned, Present
<1> QED
  BY <1>2, <1>5, <1>6 DEF Good, r

\* An entry that changes its status, but not to "tombstoned".
LEMMA MoveIsGood ==
  ASSUME NEW q, Good(q), NEW key \in Present(q), q.entries[key].status # "tombstoned",
         NEW event \in Event \ {"cancel"},
         NEW new \in Entry, new.last = event, new.status # "tombstoned"
  PROVE  Good(Recorded(q, key, event, new))
<1> DEFINE r == Recorded(q, key, event, new)
<1>1. key \in Keys /\ new # None
  BY NoneAssumption DEF Present
<1>2. /\ r \in Queue
      /\ r.tombstones = q.tombstones
      /\ r.entries = [q.entries EXCEPT ![key] = new]
      /\ AuditTellsEntries(r)
  BY <1>1, RecordedIsTold DEF Good
<1>3. /\ r.entries[key] = new
      /\ \A k \in Keys : k # key => r.entries[k] = q.entries[k]
  BY <1>1, <1>2 DEF Good, Queue
<1> HIDE DEF r
<1>4. Present(r) = Present(q)
  BY <1>1, <1>3 DEF Present
<1>5. OneEntryPerObject(r)
  BY <1>4 DEF OneEntryPerObject, Good
<1>6. TombstonesBlock(r)
  BY <1>1, <1>2, <1>3, <1>4 DEF TombstonesBlock, Good, Tombstoned, Present
<1> QED
  BY <1>2, <1>5, <1>6 DEF Good, r

\* A cancelled entry.
LEMMA CancelIsGood ==
  ASSUME NEW q, Good(q), NEW key \in Present(q)
  PROVE  Good(Cancelled(q, key))
<1> DEFINE r == Recorded(q, key, "cancel", None)
<1>1. key \in Keys /\ "cancel" \in Event
  BY DEF Present, Event
<1>2. /\ r \in Queue
      /\ r.tombstones = q.tombstones
      /\ r.entries = [q.entries EXCEPT ![key] = None]
      /\ AuditTellsEntries(r)
  BY <1>1, RecordedIsTold DEF Good
<1>3. /\ r.entries[key] = None
      /\ \A k \in Keys : k # key => r.entries[k] = q.entries[k]
  BY <1>1, <1>2 DEF Good, Queue
<1> HIDE DEF r
<1>4. Present(r) = Present(q) \ {key}
  BY <1>1, <1>3 DEF Present
<1>5. OneEntryPerObject(r)
  BY <1>4 DEF OneEntryPerObject, Good
<1>6. TombstonesBlock(r)
  BY <1>1, <1>2, <1>3, <1>4 DEF TombstonesBlock, Good, Tombstoned, Present
<1> QED
  BY <1>2, <1>5, <1>6 DEF Good, r, Cancelled

\* An entry whose content was deleted on the web.  That no other entry of the
\* object is caught by the new tombstone follows from OneEntryPerObject.
LEMMA DeletionIsGood ==
  ASSUME NEW q, Good(q), NEW key \in Present(q)
  PROVE  Good([Moved(q, key, "web-deleted", "tombstoned")
                EXCEPT !.tombstones = q.tombstones \cup {key}])
<1> DEFINE new == [q.entries[key] EXCEPT !.status = "tombstoned", !.last = "web-deleted"]
           m == Recorded(q, key, "web-deleted", new)
           r == [m EXCEPT !.tombstones = q.tombstones \cup {key}]
<1>1. key \in Keys /\ "web-deleted" \in Event /\ q.entries[key] \in Entry
  BY DEF Present, Event, Mark, Good, Queue
<1>2. /\ new \in Entry
      /\ new.last = "web-deleted"
      /\ new.status = "tombstoned"
  BY <1>1 DEF Entry, Status
<1>3. new # None
  BY <1>2, NoneAssumption
<1> HIDE DEF new
<1>4. /\ m \in Queue
      /\ m.entries = [q.entries EXCEPT ![key] = new]
      /\ AuditTellsEntries(m)
  BY <1>1, <1>2, <1>3, RecordedIsTold DEF Good
<1> HIDE DEF m
<1>5. q.tombstones \cup {key} \in SUBSET Keys
  BY <1>1 DEF Good, Queue
<1>6. /\ r.entries = m.entries
      /\ r.audit = m.audit
      /\ r.tombstones = q.tombstones \cup {key}
      /\ r \in Queue
  BY <1>4, <1>5 DEF Queue
<1>7. /\ r.entries[key] = new
      /\ \A k \in Keys : k # key => r.entries[k] = q.entries[k]
  BY <1>1, <1>4, <1>6 DEF Good, Queue
<1> HIDE DEF r
<1>8. Present(r) = Present(q)
  BY <1>1, <1>3, <1>7 DEF Present
<1>9. OneEntryPerObject(r)
  BY <1>8 DEF OneEntryPerObject, Good
<1>10. TombstonesBlock(r)
  <2>1. \A k \in Present(r) : k \in r.tombstones <=> r.entries[k].status = "tombstoned"
    BY <1>1, <1>2, <1>6, <1>7, <1>8 DEF TombstonesBlock, Good, Present
  <2>2. ASSUME NEW k \in Present(r), k[1] \in Traces, Tombstoned(r, k[1])
        PROVE  k \in r.tombstones
    <3>1. CASE k[1] = key[1]
      BY <1>6, <1>8, <3>1 DEF OneEntryPerObject, Good
    <3>2. CASE k[1] # key[1]
      <4>1. PICK h \in Hashes : <<k[1], h>> \in r.tombstones
        BY <2>2 DEF Tombstoned
      <4>2. <<k[1], h>> \in q.tombstones
        BY <1>6, <3>2, <4>1
      <4> QED
        BY <1>6, <1>8, <2>2, <4>2 DEF TombstonesBlock, Good, Tombstoned
    <3> QED
      BY <3>1, <3>2
  <2> QED
    BY <2>1, <2>2 DEF TombstonesBlock
<1>11. AuditTellsEntries(r)
  BY <1>4, <1>6 DEF AuditTellsEntries, Latest, Present
<1> QED
  BY <1>6, <1>9, <1>10, <1>11 DEF Good, r, m, new, Moved

-----------------------------------------------------------------------------

\* A mark other than "web-deleted" leaves the tombstones as they are.
LEMMA MarkIsGood ==
  ASSUME NEW q, Good(q), NEW key \in Present(q), NEW event \in Mark,
         q.entries[key].status \in MarkFrom[event]
  PROVE  Good([Moved(q, key, event, MarkTo[event])
                EXCEPT !.tombstones = TombstonesAfter(q, key, event)])
<1>1. CASE event = "web-deleted"
  <2>1. MarkTo[event] = "tombstoned"
    BY <1>1 DEF MarkTo, Mark
  <2>2. TombstonesAfter(q, key, event) = q.tombstones \cup {key}
    BY <1>1 DEF TombstonesAfter
  <2> QED
    BY <1>1, <2>1, <2>2, DeletionIsGood
<1>2. CASE event # "web-deleted"
  <2> DEFINE to == MarkTo[event]
             new == [q.entries[key] EXCEPT !.status = to, !.last = event]
             m == Recorded(q, key, event, new)
  <2>1. to \in Status /\ to # "tombstoned"
    BY <1>2 DEF MarkTo, Mark, Status
  <2>2. q.entries[key].status # "tombstoned"
    BY <1>2 DEF MarkFrom, Mark
  <2>3. q.entries[key] \in Entry
    BY DEF Present, Good, Queue
  <2>4. event \in Event \ {"cancel"}
    BY DEF Event, Mark
  <2> HIDE DEF to
  <2>5. /\ new \in Entry
        /\ new.last = event
        /\ new.status # "tombstoned"
    BY <2>1, <2>3, <2>4 DEF Entry
  <2> HIDE DEF new
  <2>6. Good(m)
    BY <2>2, <2>4, <2>5, MoveIsGood
  <2>7. [m EXCEPT !.tombstones = q.tombstones] = m
    <3>1. m \in Queue
      BY <2>6 DEF Good
    <3>2. m.tombstones = q.tombstones
      BY DEF Recorded
    <3> HIDE DEF m
    <3> QED
      BY <3>1, <3>2 DEF Queue
  <2>8. TombstonesAfter(q, key, event) = q.tombstones
    BY <1>2 DEF TombstonesAfter
  <2> QED
    BY <2>6, <2>7, <2>8 DEF Moved, m, new, to
<1> QED
  BY <1>1, <1>2

\* An entry that is pending again.
LEMMA RetryIsGood ==
  ASSUME NEW q, Good(q), NEW key \in Present(q), NEW attempts \in Nat,
         q.entries[key].status # "tombstoned"
  PROVE  Good(Recorded(q, key, "retry",
           [status |-> "pending", attempts |-> attempts, last |-> "retry"]))
<1> DEFINE new == [status |-> "pending", attempts |-> attempts, last |-> "retry"]
<1>1. "retry" \in Event \ {"cancel"}
  BY DEF Event
<1>2. new \in Entry /\ new.last = "retry" /\ new.status # "tombstoned"
  BY <1>1 DEF Entry, Status
<1> HIDE DEF new
<1>3. Good(Recorded(q, key, "retry", new))
  BY <1>1, <1>2, MoveIsGood
<1> QED
  BY <1>3 DEF new

\* The empty queue is good, and within any limits.
LEMMA EmptyIsGood ==
  Good(emptySyncQueue) /\ WithinLimits(emptySyncQueue)
<1> DEFINE q == emptySyncQueue
<1>1. /\ q.entries = [k \in Keys |-> None]
      /\ q.tombstones = {}
      /\ q.audit = <<>>
  BY DEF emptySyncQueue
<1>2. q \in Queue
  BY DEF emptySyncQueue, Queue
<1> HIDE DEF q
<1>3. Present(q) = {}
  BY <1>1 DEF Present
<1>4. Len(q.audit) = 0
  BY <1>1
<1>5. OneEntryPerObject(q) /\ TombstonesBlock(q) /\ AuditTellsEntries(q)
  BY <1>3, <1>4 DEF OneEntryPerObject, TombstonesBlock, AuditTellsEntries, Latest
<1>6. WithinLimits(q)
  BY <1>1, <1>3, <1>4, FS_EmptySet, LimitsAssumption DEF WithinLimits
<1> QED
  BY <1>2, <1>5, <1>6 DEF Good, q

-----------------------------------------------------------------------------

\* Replacing the file by a good queue keeps the invariant.
LEMMA InstallKeepsIInv ==
  ASSUME IInv, NEW c \in Commands, NEW q, Good(q), Install(c, q)
  PROVE  IInv'
<1>1. Good(queue') /\ WithinLimits(queue')
  BY DEF Install
<1>2. loaded' \in [Commands -> Queue \cup {None}]
  BY DEF IInv, Install
<1>3. \A d \in Commands : loaded'[d] # None => Good(loaded'[d])
  BY DEF IInv, Install
<1> QED
  BY <1>1, <1>2, <1>3 DEF IInv, Good, WithinLimits, OneEntryPerObject,
     TombstonesBlock, AuditTellsEntries, Latest, Present, Tombstoned

\* So does a step that leaves the file, if the copies are good.
LEMMA FileStays ==
  ASSUME IInv, UNCHANGED queue,
         loaded' \in [Commands -> Queue \cup {None}],
         \A c \in Commands : loaded'[c] # None => loaded'[c] = queue \/ loaded'[c] = loaded[c]
  PROVE  IInv'
<1>1. Good(queue') /\ WithinLimits(queue')
  BY DEF IInv
<1>2. \A d \in Commands : loaded'[d] # None => Good(loaded'[d])
  BY DEF IInv
<1> QED
  BY <1>1, <1>2 DEF IInv, Good, WithinLimits, OneEntryPerObject,
     TombstonesBlock, AuditTellsEntries, Latest, Present, Tombstoned

\* Every step keeps the invariant: each command turns the good copy it loaded
\* into a good queue.
LEMMA NextKeepsIInv ==
  ASSUME IInv, [Next]_vars
  PROVE  IInv'
<1> USE DEF IInv
<1>1. ASSUME NEW c \in Commands, Load(c)
      PROVE  IInv'
  <2>1. loaded' \in [Commands -> Queue \cup {None}]
    BY <1>1 DEF Load, Good
  <2>2. \A d \in Commands : loaded'[d] = queue \/ loaded'[d] = loaded[d]
    BY <1>1 DEF Load
  <2>3. UNCHANGED queue
    BY <1>1 DEF Load
  <2> QED
    BY <2>1, <2>2, <2>3, FileStays
<1>2. ASSUME NEW c \in Commands, Refuse(c)
      PROVE  IInv'
  BY <1>2, FileStays DEF Refuse
<1>3. ASSUME NEW c \in Commands, Mutate(c)
      PROVE  IInv'
  <2> DEFINE q == loaded[c]
  <2>1. Good(q)
    BY <1>3 DEF Mutate
  <2>2. PICK key \in Keys :
          \/ enqueue(c, key)
          \/ /\ q.entries[key] # None
             /\ \/ retry(c, key) \/ cancel(c, key) \/ reconfirm(c, key)
                \/ \E event \in Mark : mark(c, key, event)
    BY <1>3 DEF Mutate
  <2>3. CASE enqueue(c, key)
    <3>1. /\ ~tombstoneBlock(q, key) /\ NoEntryOfObject(q, key)
          /\ Install(c, Recorded(q, key, "enqueue",
               [status |-> "pending", attempts |-> 0, last |-> "enqueue"]))
      BY <2>3 DEF enqueue
    <3> QED
      BY <2>1, <3>1, EnqueueIsGood, InstallKeepsIInv
  <2>4. CASE q.entries[key] # None /\ retry(c, key)
    <3>1. key \in Present(q) /\ q.entries[key] \in Entry
      BY <2>1, <2>4 DEF Present, Good, Queue
    <3>2. q.entries[key].attempts + 1 \in Nat
      BY <3>1 DEF Entry
    <3>3. /\ q.entries[key].status # "tombstoned"
          /\ Install(c, Recorded(q, key, "retry",
               [status |-> "pending", attempts |-> q.entries[key].attempts + 1,
                last |-> "retry"]))
      BY <2>4 DEF retry, RetryAccepted, requireStatusForRetry
    <3> QED
      BY <2>1, <3>1, <3>2, <3>3, RetryIsGood, InstallKeepsIInv
  <2>5. CASE q.entries[key] # None /\ cancel(c, key)
    <3>1. key \in Present(q) /\ Install(c, Cancelled(q, key))
      BY <2>5 DEF Present, cancel
    <3> QED
      BY <2>1, <3>1, CancelIsGood, InstallKeepsIInv
  <2>6. CASE q.entries[key] # None /\ reconfirm(c, key)
    <3> DEFINE e == q.entries[key]
               new == [e EXCEPT !.status = "pending", !.last = "reconfirm"]
    <3>1. key \in Present(q) /\ e \in Entry
      BY <2>1, <2>6 DEF Present, Good, Queue
    <3>2. "pending" \in Status /\ "reconfirm" \in Event \ {"cancel"}
      BY DEF Status, Event
    <3>3. new \in Entry /\ new.last = "reconfirm" /\ new.status # "tombstoned"
      BY <3>1, <3>2 DEF Entry
    <3>4. e.status # "tombstoned"
      BY <2>6 DEF reconfirm
    <3>5. Install(c, Recorded(q, key, "reconfirm", new))
      BY <2>6 DEF reconfirm, Moved
    <3> HIDE DEF new
    <3>6. Good(Recorded(q, key, "reconfirm", new))
      BY <2>1, <3>1, <3>2, <3>3, <3>4, MoveIsGood
    <3> QED
      BY <3>5, <3>6, InstallKeepsIInv
  <2>7. CASE q.entries[key] # None /\ \E event \in Mark : mark(c, key, event)
    <3>1. PICK event \in Mark : mark(c, key, event)
      BY <2>7
    <3>2. /\ key \in Present(q)
          /\ q.entries[key].status \in MarkFrom[event]
          /\ Install(c, [Moved(q, key, event, MarkTo[event])
                EXCEPT !.tombstones = TombstonesAfter(q, key, event)])
      BY <2>7, <3>1 DEF mark, Present
    <3> QED
      BY <2>1, <3>2, MarkIsGood, InstallKeepsIInv
  <2> QED
    BY <2>2, <2>3, <2>4, <2>5, <2>6, <2>7
<1>4. CASE UNCHANGED vars
  BY <1>4, FileStays DEF vars
<1> QED
  BY <1>1, <1>2, <1>3, <1>4 DEF Next

\* The invariant of the queue, for any number of commands at once.
THEOREM QueueInvariance == Spec => []IInv
<1>1. Init => IInv
  BY EmptyIsGood DEF Init, IInv
<1>2. IInv /\ [Next]_vars => IInv'
  BY NextKeepsIInv
<1> QED
  BY <1>1, <1>2, PTL DEF Spec

\* data/sync-queue.json is always of its type and within its limits.
THEOREM QueueTypeCorrect == Spec => []TypeOK
<1>1. IInv => TypeOK
  BY DEF IInv, Good, TypeOK
<1> QED
  BY <1>1, QueueInvariance, PTL

\* Commands that overwrite each other's result may lose one of the two, but
\* never leave a file no sequence of commands could have written: one entry
\* per object, nothing deleted on the web on its way there, and an audit that
\* tells every entry.
THEOREM QueueConsistent == Spec => []Consistent
<1>1. IInv => Consistent
  BY DEF IInv, Good, Consistent
<1> QED
  BY <1>1, QueueInvariance, PTL

\* What a command writes has the tombstones of what it loaded.
LEMMA CommandsKeepTombstones ==
  ASSUME NEW c \in Commands, Mutate(c)
  PROVE  /\ loaded[c].tombstones \subseteq queue'.tombstones
         /\ loaded[c] # None /\ loaded' = [loaded EXCEPT ![c] = None]
<1> DEFINE q == loaded[c]
<1>1. PICK key \in Keys :
        \/ enqueue(c, key)
        \/ retry(c, key) \/ cancel(c, key) \/ reconfirm(c, key)
        \/ \E event \in Mark : mark(c, key, event)
  BY DEF Mutate
<1>2. q # None
  BY DEF Mutate
<1>3. ASSUME NEW event, NEW entry, Install(c, Recorded(q, key, event, entry))
      PROVE  queue'.tombstones = q.tombstones /\ loaded' = [loaded EXCEPT ![c] = None]
  BY <1>3 DEF Install, Recorded
<1>4. CASE enqueue(c, key)
  BY <1>2, <1>3, <1>4 DEF enqueue
<1>5. CASE retry(c, key)
  BY <1>2, <1>3, <1>5 DEF retry
<1>6. CASE cancel(c, key)
  BY <1>2, <1>3, <1>6 DEF cancel, Cancelled
<1>7. CASE reconfirm(c, key)
  BY <1>2, <1>3, <1>7 DEF reconfirm, Moved
<1>8. ASSUME NEW event \in Mark, mark(c, key, event)
      PROVE  q.tombstones \subseteq queue'.tombstones /\ loaded' = [loaded EXCEPT ![c] = None]
  <2> DEFINE next == [Moved(q, key, event, MarkTo[event])
                       EXCEPT !.tombstones = TombstonesAfter(q, key, event)]
  <2>1. queue' = next /\ loaded' = [loaded EXCEPT ![c] = None]
    BY <1>8 DEF mark, Install
  <2>2. next.tombstones = TombstonesAfter(q, key, event)
    BY DEF Moved, Recorded
  <2>3. q.tombstones \subseteq TombstonesAfter(q, key, event)
    BY DEF TombstonesAfter
  <2> QED
    BY <2>1, <2>2, <2>3
<1> QED
  BY <1>1, <1>2, <1>4, <1>5, <1>6, <1>7, <1>8

\* What was deleted on the web stays deleted, for any number of commands at once,
\* unless a command that had loaded the file before writes it back: withMutation
\* takes no lock, and nothing else takes a tombstone out.
THEOREM TombstonesStay == Spec => TombstonesAreKept
<1>1. IInv /\ [Next]_vars =>
        [\A k \in queue.tombstones \ queue'.tombstones :
           \E c \in Commands : loaded[c] # loaded'[c] /\ k \notin loaded[c].tombstones]_vars
  <2> SUFFICES ASSUME IInv, [Next]_vars, NEW k \in queue.tombstones \ queue'.tombstones
               PROVE  \E c \in Commands : loaded[c] # loaded'[c] /\ k \notin loaded[c].tombstones
    OBVIOUS
  <2>1. loaded \in [Commands -> Queue \cup {None}]
    BY DEF IInv, Good
  <2>2. queue' # queue
    OBVIOUS
  <2>3. PICK c \in Commands : Mutate(c)
    BY <2>2 DEF Next, Load, Refuse, vars
  <2>4. k \notin loaded[c].tombstones /\ loaded[c] # loaded'[c]
    BY <2>1, <2>3, CommandsKeepTombstones
  <2> QED
    BY <2>4
<1> QED
  BY <1>1, QueueInvariance, PTL DEF Spec, TombstonesAreKept

-----------------------------------------------------------------------------
\* The units, for any devices and any number of units and deletions: what the
\* cloud shows was confirmed, was not deleted, and is built upon once.

\* A unit as it was built, but for its summary, which may have been damaged.
SoundUnit(u) ==
  /\ u.unitType = "opportunity" =>
       /\ u.contentHash \in Summaries
       /\ u.basis \in Summaries \cup {Nothing}
       /\ u.seen \in {Nothing, u.contentHash}
  /\ u.unitType = "trace" => u.contentHash \in Decisions /\ u.sourceDevice \in Devices

UnitsAreSound == \A u \in sent : SoundUnit(u)

\* A step of the chain is that of a unit that was sent.
StepsWereSent ==
  \A a \in became : \E u \in sent :
    u.unitType = "opportunity" /\ u.contentHash = a[2] /\ u.basis = a[1]

\* What is shown was accepted, what was built upon was accepted before, and
\* nobody has built upon what is shown.
ChainGrowsAtItsEnd ==
  /\ IF cloud = Nothing THEN became = {} ELSE \E b \in became : b[2] = cloud
  /\ \A a \in became : a[1] # Nothing => \E b \in became : b[2] = a[1]
  /\ OnOneBasis => \A a \in became : a[1] # Nothing => a[1] # cloud

UnitInv ==
  /\ UnitTypeOK
  /\ UnitsAreSound
  /\ StepsWereSent
  /\ ChainGrowsAtItsEnd
  /\ SnapshotsFormAChain

-----------------------------------------------------------------------------

LEMMA UnitStarts == UnitInit => UnitInv
<1> SUFFICES ASSUME UnitInit PROVE UnitInv
  OBVIOUS
<1> USE SummariesAssumption DEF UnitInit
<1>1. UnitTypeOK
  BY DEF UnitTypeOK
<1>2. UnitsAreSound /\ StepsWereSent /\ ChainGrowsAtItsEnd /\ SnapshotsFormAChain
  BY DEF UnitsAreSound, StepsWereSent, ChainGrowsAtItsEnd, SnapshotsFormAChain
<1> QED
  BY <1>1, <1>2 DEF UnitInv

\* More units do not make one basis of two.
LEMMA MoreUnits ==
  ASSUME UnitInv, sent \subseteq sent', UnitTypeOK', UnitsAreSound',
         UNCHANGED <<cloud, tombstones, became>>
  PROVE  UnitInv'
<1> USE DEF UnitInv
<1>1. OnOneBasis' => OnOneBasis
  BY DEF OnOneBasis
<1>2. StepsWereSent'
  BY DEF StepsWereSent
<1>3. ChainGrowsAtItsEnd' /\ SnapshotsFormAChain'
  BY <1>1 DEF ChainGrowsAtItsEnd, SnapshotsFormAChain
<1> QED
  BY <1>2, <1>3

LEMMA Builds ==
  ASSUME UnitInv, NEW d \in Devices,
         BuildOpportunity(d) \/ \E decision \in Decisions : BuildTrace(d, decision)
  PROVE  UnitInv'
<1> USE SummariesAssumption DEF UnitInv, UnitTypeOK
<1>1. CASE BuildOpportunity(d)
  <2>1. PICK noted \in {Nothing, facts[d]} :
          sent' = sent \cup {Unit("opportunity", d, facts[d], known[d], noted)}
    BY <1>1 DEF BuildOpportunity, canonicalHash
  <2>2. SoundUnit(Unit("opportunity", d, facts[d], known[d], noted))
    BY DEF SoundUnit, Unit, canonicalHash
  <2>3. UnitsAreSound' /\ UnitTypeOK'
    BY <1>1, <2>1, <2>2 DEF UnitsAreSound, BuildOpportunity
  <2> QED
    BY <1>1, <2>1, <2>3, MoreUnits DEF BuildOpportunity
<1>2. ASSUME NEW decision \in Decisions, BuildTrace(d, decision) PROVE UnitInv'
  <2>1. sent' = sent \cup {Unit("trace", d, decision, Nothing, decision)}
    BY <1>2 DEF BuildTrace
  <2>2. SoundUnit(Unit("trace", d, decision, Nothing, decision))
    BY DEF SoundUnit, Unit, canonicalHash
  <2>3. UnitsAreSound' /\ UnitTypeOK'
    BY <1>2, <2>1, <2>2 DEF UnitsAreSound, BuildTrace
  <2> QED
    BY <1>2, <2>1, <2>3, MoreUnits DEF BuildTrace
<1> QED
  BY <1>1, <1>2

\* A damaged unit still has the hash and the basis of before.
LEMMA Damages ==
  ASSUME UnitInv, NEW u \in sent, Damage(u)
  PROVE  UnitInv'
<1> USE DEF UnitInv
<1>1. PICK v : v = [u EXCEPT !.summary = Forged]
  OBVIOUS
<1>2. /\ v.unitType = u.unitType /\ v.contentHash = u.contentHash
      /\ v.basis = u.basis /\ v.seen = u.seen /\ v.sourceDevice = u.sourceDevice
  BY <1>1
<1>3. sent' = (sent \ {u}) \cup {v} /\ UNCHANGED <<cloud, tombstones, became>>
  BY <1>1 DEF Damage
<1>4. UnitTypeOK'
  BY DEF Damage, UnitTypeOK
<1>5. UnitsAreSound'
  BY <1>2, <1>3 DEF UnitsAreSound, SoundUnit
<1>6. StepsWereSent'
  BY <1>2, <1>3 DEF StepsWereSent
<1>7. OnOneBasis' => OnOneBasis
  BY <1>2, <1>3 DEF OnOneBasis
<1>8. ChainGrowsAtItsEnd' /\ SnapshotsFormAChain'
  BY <1>3, <1>7 DEF ChainGrowsAtItsEnd, SnapshotsFormAChain
<1> QED
  BY <1>4, <1>5, <1>6, <1>8

\* What arrives and is accepted is a summary the user confirmed, and what it
\* replaces, if anything, nobody has built upon.
LEMMA Arrives ==
  ASSUME UnitInv, NEW u \in sent, ArriveOpportunity(u)
  PROVE  UnitInv'
<1> USE SummariesAssumption DEF UnitInv
<1>1. /\ u.unitType = "opportunity" /\ u.contentHash \in Summaries
      /\ u.basis \in Summaries \cup {Nothing} /\ u.summary = u.contentHash
  BY DEF ArriveOpportunity, UnitsAreSound, SoundUnit, ValidUnit, canonicalHash
<1>2. u.basis = cloud /\ u.contentHash # cloud /\ u.contentHash \notin tombstones
  <2>1. u.contentHash \notin tombstones
    BY DEF ArriveOpportunity, ClassifyDeleted
  <2>2. CASE cloud = Nothing
    BY <1>1, <2>1, <2>2 DEF ArriveOpportunity, ClassifyOpportunity
  <2>3. CASE cloud # Nothing
    BY <2>1, <2>3 DEF ArriveOpportunity, ClassifyOpportunity
  <2> QED
    BY <2>2, <2>3
<1>3. PICK x \in Summaries \cup {Nothing}, y \in Summaries :
        x = cloud /\ y = u.contentHash /\ x # y /\ x = u.basis
  BY <1>1, <1>2
<1>4. /\ cloud' = y /\ became' = became \cup {<<x, y>>}
      /\ UNCHANGED <<facts, preview, known, damaged, sent, records, tombstones>>
  BY <1>1, <1>3 DEF ArriveOpportunity
<1>5. UnitTypeOK'
  BY <1>3, <1>4 DEF UnitTypeOK
<1>6. UnitsAreSound'
  BY <1>4 DEF UnitsAreSound, SoundUnit
<1>7. StepsWereSent'
  BY <1>1, <1>3, <1>4 DEF StepsWereSent
<1>8. \A a \in became : a = <<a[1], a[2]>>
  BY DEF UnitTypeOK
<1>9. ASSUME OnOneBasis PROVE \A a \in became : a[1] # Nothing => a[1] # x /\ a[1] # y
  <2> SUFFICES ASSUME NEW a \in became, a[1] # Nothing, a[1] = y PROVE FALSE
    BY <1>3, <1>9 DEF ChainGrowsAtItsEnd
  <2>1. PICK b \in became : b[2] = y
    BY DEF ChainGrowsAtItsEnd
  <2>2. PICK v \in sent : v.unitType = "opportunity" /\ v.contentHash = y /\ v.basis = b[1]
    BY <2>1 DEF StepsWereSent
  <2>3. b[1] = x
    BY <1>1, <1>3, <1>9, <2>2 DEF OnOneBasis
  <2>4. x # Nothing
    BY <1>3, <2>1 DEF ChainGrowsAtItsEnd
  <2> QED
    BY <1>3, <1>9, <2>1, <2>3, <2>4 DEF ChainGrowsAtItsEnd
<1>10. OnOneBasis' <=> OnOneBasis
  BY <1>4 DEF OnOneBasis
<1>11. ChainGrowsAtItsEnd'
  <2>1. cloud' # Nothing /\ <<x, y>> \in became' /\ <<x, y>>[2] = cloud'
    BY <1>3, <1>4
  <2>2. x = Nothing \/ \E b \in became : b[2] = x
    BY <1>3 DEF ChainGrowsAtItsEnd
  <2>3. \A a \in became' : a[1] # Nothing => \E b \in became' : b[2] = a[1]
    BY <1>4, <2>2 DEF ChainGrowsAtItsEnd
  <2>4. OnOneBasis' => \A a \in became' : a[1] # Nothing => a[1] # cloud'
    BY <1>3, <1>4, <1>9, <1>10
  <2> QED
    BY <2>1, <2>3, <2>4 DEF ChainGrowsAtItsEnd
<1>12. SnapshotsFormAChain'
  <2>1. OnOneBasis' => \A a, b \in became' : a[1] = b[1] /\ a[1] # Nothing => a = b
    BY <1>4, <1>9, <1>10 DEF SnapshotsFormAChain
  <2>2. cloud' \notin tombstones'
    BY <1>2, <1>3, <1>4
  <2> QED
    BY <2>1, <2>2 DEF SnapshotsFormAChain
<1> QED
  BY <1>5, <1>6, <1>7, <1>11, <1>12

LEMMA UnitStep == UnitInv /\ [UnitNext]_unitVars => UnitInv'
<1> SUFFICES ASSUME UnitInv, [UnitNext]_unitVars PROVE UnitInv'
  OBVIOUS
<1> USE SummariesAssumption DEF UnitInv
<1>1. ASSUME NEW d \in Devices, EditFacts(d) \/ Preview(d) PROVE UnitInv'
  <2>1. UnitTypeOK'
    BY <1>1 DEF EditFacts, Preview, UnitTypeOK
  <2>2. sent' = sent /\ UNCHANGED <<cloud, tombstones, became>>
    BY <1>1 DEF EditFacts, Preview
  <2> QED
    BY <2>1, <2>2, MoreUnits DEF UnitsAreSound, SoundUnit
<1>2. ASSUME NEW u \in sent, ArriveTrace(u) PROVE UnitInv'
  <2>1. u.sourceDevice \in Devices /\ u.summary \in Decisions
    BY <1>2 DEF ArriveTrace, ValidUnit, canonicalHash, UnitsAreSound, SoundUnit
  <2>2. UnitTypeOK'
    BY <1>2, <2>1 DEF ArriveTrace, UnitTypeOK
  <2>3. sent' = sent /\ UNCHANGED <<cloud, tombstones, became>>
    BY <1>2 DEF ArriveTrace
  <2> QED
    BY <2>2, <2>3, MoreUnits DEF UnitsAreSound, SoundUnit
<1>3. CASE DeleteOnWeb
  <2>1. /\ cloud # Nothing /\ cloud' = Nothing /\ became' = {} /\ tombstones' = tombstones \cup {cloud}
        /\ UNCHANGED <<facts, preview, known, damaged, sent, records>>
    BY <1>3 DEF DeleteOnWeb
  <2>2. UnitTypeOK'
    BY <2>1 DEF UnitTypeOK
  <2>3. UnitsAreSound' /\ StepsWereSent' /\ ChainGrowsAtItsEnd'
    BY <2>1 DEF UnitsAreSound, SoundUnit, StepsWereSent, ChainGrowsAtItsEnd
  <2>4. SnapshotsFormAChain'
    BY <2>1 DEF SnapshotsFormAChain, UnitTypeOK
  <2> QED
    BY <2>2, <2>3, <2>4
<1>4. CASE UNCHANGED unitVars
  <2>1. UnitTypeOK' /\ sent' = sent /\ UNCHANGED <<cloud, tombstones, became>>
    BY <1>4 DEF unitVars, UnitTypeOK
  <2> QED
    BY <2>1, MoreUnits DEF UnitsAreSound, SoundUnit
<1> HIDE DEF UnitInv
<1> QED
  BY <1>1, <1>2, <1>3, <1>4, Builds, Damages, Arrives DEF UnitNext

\* The inductive invariant: the chain of accepted snapshots ends in what is shown.
THEOREM UnitInvariance == UnitSpec => []UnitInv
BY UnitStarts, UnitStep, PTL DEF UnitSpec

\* The state of facts, previews, cloud and records keeps its types.
THEOREM UnitTypeCorrect == UnitSpec => []UnitTypeOK
<1>1. UnitInv => UnitTypeOK
  BY DEF UnitInv
<1> QED
  BY <1>1, UnitInvariance, PTL

\* However units of any number of devices are delayed, repeated and damaged: no
\* snapshot is lost to one that did not know of it, a deleted one does not come
\* back, and what is shown is what the user was shown when they confirmed it.
THEOREM CloudTrue == UnitSpec => []CloudIsTrue
<1>1. UnitInv => CloudIsTrue
  BY DEF UnitInv, CloudIsTrue, ShownWasConfirmed, UnitsAreSound, SoundUnit, ValidUnit, canonicalHash
<1> QED
  BY <1>1, UnitInvariance, PTL
-----------------------------------------------------------------------------
\* The import of a package and its document, see ContractImport.

\* Calls of an import: each once, copies before writes, and of a file that is
\* copied there is also a write.
Todos == Seq({"copy", "write"} \X Files)

Ordered(todo) ==
  /\ todo \in Todos
  /\ \A i, j \in DOMAIN todo : i < j /\ todo[j][1] = "copy" => todo[i][1] = "copy"
  /\ \A i, j \in DOMAIN todo : todo[i] = todo[j] => i = j
  /\ \A f \in Files : <<"copy", f>> \in ToSet(todo) => <<"write", f>> \in ToSet(todo)

LEMMA CallsOf ==
  ASSUME NEW call \in {"copy", "write"}, NEW S \in SUBSET Files
  PROVE  /\ Calls(call, S) \in Seq({call} \X Files)
         /\ Len(Calls(call, S)) \in {0, 1, 2}
         /\ ToSet(Calls(call, S)) = {call} \X S
         /\ \A i, j \in DOMAIN Calls(call, S) : Calls(call, S)[i] = Calls(call, S)[j] => i = j
<1>1. CASE S = {}
  BY <1>1 DEF Calls, ToSet, Files
<1>2. CASE S = {"package"}
  BY <1>2 DEF Calls, ToSet, Files
<1>3. CASE S = {"document"}
  BY <1>3 DEF Calls, ToSet, Files
<1>4. CASE S = {"package", "document"}
  BY <1>4 DEF Calls, ToSet, Files
<1> QED
  BY <1>1, <1>2, <1>3, <1>4 DEF Files

LEMMA PlanIsOrdered ==
  ASSUME NEW c
  PROVE  /\ Ordered(Plan(c))
         /\ ToSet(Plan(c)) = ({"copy"} \X Overwritten(c)) \cup ({"write"} \X Changed(c))
<1> DEFINE A == Calls("copy", Overwritten(c))
           B == Calls("write", Changed(c))
<1>1. Overwritten(c) \in SUBSET Changed(c) /\ Changed(c) \in SUBSET Files
  BY DEF Overwritten, Changed
<1>2. /\ A \in Seq({"copy"} \X Files) /\ ToSet(A) = {"copy"} \X Overwritten(c)
      /\ \A i, j \in DOMAIN A : A[i] = A[j] => i = j
  BY <1>1, CallsOf
<1>3. /\ B \in Seq({"write"} \X Files) /\ ToSet(B) = {"write"} \X Changed(c)
      /\ \A i, j \in DOMAIN B : B[i] = B[j] => i = j
  BY <1>1, CallsOf
<1> HIDE DEF A, B
<1>4. A \o B \in Todos
  BY <1>2, <1>3 DEF Todos
<1>5. /\ Len(A) \in Nat /\ Len(B) \in Nat
      /\ DOMAIN A = 1 .. Len(A) /\ DOMAIN B = 1 .. Len(B)
      /\ DOMAIN (A \o B) = 1 .. Len(A) + Len(B)
      /\ \A i \in 1 .. Len(A) + Len(B) : (A \o B)[i] = IF i <= Len(A) THEN A[i] ELSE B[i - Len(A)]
  BY <1>2, <1>3
<1>6. /\ \A i \in DOMAIN A : A[i][1] = "copy"
      /\ \A i \in DOMAIN B : B[i][1] = "write"
  BY <1>2, <1>3
<1>7. \A i, j \in DOMAIN (A \o B) : i < j /\ (A \o B)[j][1] = "copy" => (A \o B)[i][1] = "copy"
  BY <1>5, <1>6
<1>8. \A i, j \in DOMAIN (A \o B) : (A \o B)[i] = (A \o B)[j] => i = j
  BY <1>2, <1>3, <1>5, <1>6
<1>9. ToSet(A \o B) = ToSet(A) \cup ToSet(B)
  <2>1. ToSet(A \o B) \subseteq ToSet(A) \cup ToSet(B)
    BY <1>5 DEF ToSet
  <2>2. ToSet(A) \subseteq ToSet(A \o B)
    BY <1>5 DEF ToSet
  <2>3. ToSet(B) \subseteq ToSet(A \o B)
    <3>1. \A i \in DOMAIN B : i + Len(A) \in DOMAIN (A \o B) /\ (A \o B)[i + Len(A)] = B[i]
      BY <1>5
    <3> QED
      BY <3>1 DEF ToSet
  <2> QED
    BY <2>1, <2>2, <2>3
<1>10. Plan(c) = A \o B
  BY DEF Plan, A, B
<1>11. ToSet(Plan(c)) = ({"copy"} \X Overwritten(c)) \cup ({"write"} \X Changed(c))
  BY <1>2, <1>3, <1>9, <1>10
<1>12. \A f \in Files : <<"copy", f>> \in ToSet(Plan(c)) => <<"write", f>> \in ToSet(Plan(c))
  BY <1>1, <1>11
<1> QED
  BY <1>4, <1>7, <1>8, <1>10, <1>11, <1>12 DEF Ordered

\* What is left after the first call.
LEMMA TailIsOrdered ==
  ASSUME NEW todo, Ordered(todo), todo # <<>>
  PROVE  /\ Head(todo) \in {"copy", "write"} \X Files
         /\ Ordered(Tail(todo))
         /\ ToSet(Tail(todo)) = ToSet(todo) \ {Head(todo)}
         /\ Head(todo) \in ToSet(todo)
         /\ Head(todo)[1] = "write" => \A f \in Files : <<"copy", f>> \notin ToSet(todo)
<1>1. /\ todo \in Todos /\ Len(todo) \in Nat /\ Len(todo) >= 1 /\ DOMAIN todo = 1 .. Len(todo)
      /\ Head(todo) = todo[1]
      /\ Tail(todo) \in Todos /\ DOMAIN Tail(todo) = 1 .. Len(todo) - 1
      /\ \A i \in 1 .. Len(todo) - 1 : Tail(todo)[i] = todo[i + 1]
  BY DEF Ordered, Todos
<1>2. ToSet(Tail(todo)) = ToSet(todo) \ {Head(todo)}
  <2>1. ToSet(Tail(todo)) \subseteq ToSet(todo) \ {Head(todo)}
    BY <1>1 DEF ToSet, Ordered
  <2>2. ASSUME NEW i \in DOMAIN todo, todo[i] # Head(todo) PROVE todo[i] \in ToSet(Tail(todo))
    <3>1. i - 1 \in 1 .. Len(todo) - 1 /\ Tail(todo)[i - 1] = todo[i]
      BY <1>1, <2>2
    <3> QED
      BY <1>1, <3>1 DEF ToSet
  <2> QED
    BY <2>1, <2>2 DEF ToSet
<1>3. Head(todo)[1] = "write" => \A f \in Files : <<"copy", f>> \notin ToSet(todo)
  BY <1>1 DEF ToSet, Ordered
<1>4. \A i, j \in DOMAIN Tail(todo) : i < j /\ Tail(todo)[j][1] = "copy" => Tail(todo)[i][1] = "copy"
  BY <1>1 DEF Ordered
<1>5. \A i, j \in DOMAIN Tail(todo) : Tail(todo)[i] = Tail(todo)[j] => i = j
  BY <1>1 DEF Ordered
<1>6. \A f \in Files : <<"copy", f>> \in ToSet(Tail(todo)) => <<"write", f>> \in ToSet(Tail(todo))
  BY <1>2, <1>3 DEF Ordered
<1>7. Head(todo) \in {"copy", "write"} \X Files /\ Head(todo) \in ToSet(todo)
  BY <1>1 DEF ToSet, Todos
<1> QED
  BY <1>1, <1>2, <1>3, <1>4, <1>5, <1>6, <1>7 DEF Ordered

\* The copies kept of s and x end in x, and what was among s is one place farther
\* from the end, unless it was as many places from there as copies are kept.
KeepsCopies(kept, s, x) ==
  /\ kept \in Seq(Texts) /\ Len(kept) \in 1 .. MaxBackups /\ kept # <<>>
  /\ kept[Len(kept)] = x
  /\ \A k \in 1 .. Len(s) : Len(s) - k + 1 < MaxBackups =>
       \E l \in 1 .. Len(kept) : kept[l] = s[k] /\ Len(kept) - l = Len(s) - k + 1

LEMMA KeptCopies ==
  ASSUME NEW s \in Seq(Texts), NEW x \in Texts, MaxBackups \in Nat, Len(s) <= MaxBackups,
         MaxBackups >= 1
  PROVE  KeepsCopies(Kept(Append(s, x)), s, x)
<1> DEFINE S == Texts
           kept == Kept(Append(s, x))
<1> DEFINE t == Append(s, x)
<1>1. /\ t \in Seq(S) /\ Len(t) = Len(s) + 1 /\ Len(s) \in Nat /\ t[Len(t)] = x
      /\ \A k \in 1 .. Len(s) : t[k] = s[k]
  OBVIOUS
<1> HIDE DEF t
<1>2. CASE Len(t) > MaxBackups
  <2>1. Kept(t) = Tail(t)
    BY <1>2 DEF Kept
  <2>2. /\ Tail(t) \in Seq(S) /\ Len(Tail(t)) = Len(s)
        /\ \A k \in 1 .. Len(s) : Tail(t)[k] = t[k + 1]
    BY <1>1
  <2>3. Len(s) = MaxBackups
    BY <1>1, <1>2
  <2>4. \A k \in 1 .. Len(s) : Len(s) - k + 1 < MaxBackups =>
          k - 1 \in 1 .. Len(s) /\ Tail(t)[k - 1] = s[k]
    BY <1>1, <2>2, <2>3
  <2>5. \A k \in 1 .. Len(s) : Len(s) - k + 1 < MaxBackups =>
          \E l \in 1 .. Len(s) : Tail(t)[l] = s[k] /\ Len(s) - l = Len(s) - k + 1
    <3> SUFFICES ASSUME NEW k \in 1 .. Len(s), Len(s) - k + 1 < MaxBackups
                 PROVE  \E l \in 1 .. Len(s) : Tail(t)[l] = s[k] /\ Len(s) - l = Len(s) - k + 1
      OBVIOUS
    <3>1. k - 1 \in 1 .. Len(s) /\ Tail(t)[k - 1] = s[k]
      BY <2>4
    <3>2. Len(s) - (k - 1) = Len(s) - k + 1
      BY <1>1
    <3> QED
      BY <3>1, <3>2
  <2>6. kept = Tail(t) /\ Len(kept) = Len(s)
    BY <2>1, <2>2 DEF t
  <2> HIDE DEF kept, S
  <2>7. kept \in Seq(S) /\ Len(kept) \in 1 .. MaxBackups /\ kept # <<>>
    BY <1>1, <2>2, <2>3, <2>6, EmptySeq
  <2>8. kept[Len(kept)] = x
    BY <1>1, <2>2, <2>3, <2>6
  <2> QED
    BY <2>5, <2>6, <2>7, <2>8 DEF KeepsCopies, kept, S
<1>3. CASE ~(Len(t) > MaxBackups)
  <2>1. kept = t
    BY <1>3 DEF Kept, t
  <2>2. \A k \in 1 .. Len(s) : k \in 1 .. Len(t) /\ t[k] = s[k] /\ Len(t) - k = Len(s) - k + 1
    BY <1>1
  <2>3. Len(t) \in 1 .. MaxBackups /\ t # <<>>
    BY <1>1, <1>3, EmptySeq
  <2> HIDE DEF kept, S
  <2> QED
    BY <1>1, <2>1, <2>2, <2>3 DEF KeepsCopies, kept, S
<1> QED
  BY <1>2, <1>3

\* More copies are kept than imports can make of one file before it is written:
\* one of each process at work and one of each that was stopped.
BackupsSuffice ==
  /\ MaxBackups \in Nat /\ MaxStops \in Nat /\ IsFiniteSet(Importers)
  /\ Cardinality(Importers) + MaxStops < MaxBackups
  /\ NoText \notin Contents \cup Manual

Waiting(p, f) == <<"write", f>> \in ToSet(import[p].todo)

Copying(p, f) == <<"copy", f>> \in ToSet(import[p].todo)

\* Importers that have copied the file as it is, or found none, and will write it.
Copied(f) == {p \in Importers : Waiting(p, f) /\ ~Copying(p, f)}

ImportsOrdered ==
  /\ import \in [Importers -> [todo : Todos, incoming : Contents \cup {NoText}]]
  /\ \A p \in Importers : Ordered(import[p].todo)
  /\ \A p \in Importers : import[p].todo # <<>> => import[p].incoming \in Contents

ImportTyped ==
  /\ file \in [Files -> Texts] /\ replaced \in [Files -> Texts]
  /\ \A f \in Files : backups[f] \in Seq(Texts) /\ Len(backups[f]) <= MaxBackups
  /\ DOMAIN backups = Files
  /\ ImportsOrdered
  /\ stops \in 0 .. MaxStops

\* Whoever is past the copy of a file has it as the newest copy.
CopyIsNewest(f) ==
  file[f] # NoText =>
    \A p \in Copied(f) : backups[f] # <<>> /\ backups[f][Len(backups[f])] = file[f]

\* The text that was overwritten is as many places from the newest copy as
\* copies may have been made since.
ReplacedIsNear(f) ==
  replaced[f] # NoText =>
    \E k \in 1 .. Len(backups[f]) :
      backups[f][k] = replaced[f] /\ Len(backups[f]) - k <= Cardinality(Copied(f)) + stops

ImportInv ==
  /\ ImportTyped
  /\ \A f \in Files : file[f] = NoText => replaced[f] = NoText
  /\ \A f \in Files \ crossed : CopyIsNewest(f) /\ ReplacedIsNear(f)

LEMMA ImportStarts == BackupsSuffice /\ ImportInit => ImportInv
<1> SUFFICES ASSUME BackupsSuffice, ImportInit PROVE ImportInv
  OBVIOUS
<1>1. Ordered(<<>>)
  BY DEF Ordered, ToSet, Todos
<1>2. ImportTyped
  BY <1>1 DEF ImportInit, ImportTyped, ImportsOrdered, Texts, Todos, Idle, BackupsSuffice
<1> QED
  BY <1>2 DEF ImportInit, ImportInv, CopyIsNewest, ReplacedIsNear

LEMMA CopiedIsFinite ==
  ASSUME BackupsSuffice, NEW f
  PROVE  /\ IsFiniteSet(Copied(f)) /\ Cardinality(Copied(f)) \in Nat
         /\ Cardinality(Copied(f)) <= Cardinality(Importers)
BY FS_Subset, FS_CardinalityType DEF BackupsSuffice, Copied

LEMMA Begins ==
  ASSUME BackupsSuffice, ImportInv, NEW p \in Importers, NEW c \in Contents, NEW replace,
         Begin(p, c, replace)
  PROVE  ImportInv'
<1>1. /\ import[p] = Idle
      /\ import' = [import EXCEPT ![p] = [todo |-> Plan(c), incoming |-> c]]
      /\ UNCHANGED <<file, backups, replaced, crossed, stops>>
  BY DEF Begin
<1>2. /\ import'[p].todo = Plan(c) /\ import'[p].incoming = c
      /\ \A q \in Importers : q # p => import'[q] = import[q]
  BY <1>1 DEF ImportInv, ImportTyped, ImportsOrdered
<1>3. ImportTyped'
  BY <1>1, <1>2, PlanIsOrdered DEF ImportInv, ImportTyped, ImportsOrdered, Ordered
<1>4. \A f \in Files : ~Waiting(p, f)
  BY <1>1 DEF Waiting, Idle, ToSet
<1>5. ASSUME NEW f \in Files \ crossed PROVE CopyIsNewest(f)' /\ ReplacedIsNear(f)'
  <2>1. Copied(f) \subseteq Copied(f)'
    BY <1>2, <1>4 DEF Copied, Waiting, Copying
  <2>2. p \in Copied(f)' => file[f] = NoText
    BY <1>2, PlanIsOrdered DEF Copied, Waiting, Copying, Overwritten
  <2>3. \A q \in Copied(f)' : q # p => q \in Copied(f)
    BY <1>2 DEF Copied, Waiting, Copying
  <2>4. CopyIsNewest(f)'
    BY <1>1, <2>2, <2>3 DEF ImportInv, CopyIsNewest
  <2>5. Cardinality(Copied(f)) <= Cardinality(Copied(f)')
    <3>1. IsFiniteSet(Copied(f)')
      BY FS_Subset DEF BackupsSuffice, Copied
    <3> QED
      BY <2>1, <3>1, FS_Subset
  <2>6. ReplacedIsNear(f)'
    <3>1. Cardinality(Copied(f)') \in Nat /\ Cardinality(Copied(f)) \in Nat
      <4>1. IsFiniteSet(Copied(f)') /\ IsFiniteSet(Copied(f))
        BY FS_Subset DEF BackupsSuffice, Copied
      <4> QED
        BY <4>1, FS_CardinalityType
    <3>2. stops \in Nat /\ Len(backups[f]) \in Nat
      BY DEF ImportInv, ImportTyped, ImportsOrdered, BackupsSuffice
    <3> QED
      BY <1>1, <2>5, <3>1, <3>2 DEF ImportInv, ReplacedIsNear
  <2> QED
    BY <2>4, <2>6
<1> QED
  BY <1>1, <1>3, <1>5 DEF ImportInv

\* What is left of an import after a call.
LEMMA Advances ==
  ASSUME ImportsOrdered, NEW p \in Importers, import[p].todo # <<>>,
         import' = [import EXCEPT ![p] = Advanced(p)]
  PROVE  /\ ImportsOrdered'
         /\ \A q \in Importers : q # p => import'[q] = import[q]
         /\ ToSet(import'[p].todo) = ToSet(import[p].todo) \ {Next1(p)}
         /\ Next1(p) \in {"copy", "write"} \X Files
         /\ Next1(p) \in ToSet(import[p].todo)
         /\ Next1(p)[1] = "write" => \A f \in Files : ~Copying(p, f)
         /\ Next1(p)[1] = "copy" => Waiting(p, Next1(p)[2])
<1> DEFINE todo == import[p].todo
<1>1. Ordered(todo) /\ todo \in Todos /\ Len(todo) \in Nat
  BY DEF ImportInv, ImportTyped, ImportsOrdered, Todos
<1>2. /\ Head(todo) \in {"copy", "write"} \X Files
      /\ Ordered(Tail(todo)) /\ Tail(todo) \in Todos
      /\ ToSet(Tail(todo)) = ToSet(todo) \ {Head(todo)}
      /\ Head(todo) \in ToSet(todo)
      /\ Head(todo)[1] = "write" => \A f \in Files : <<"copy", f>> \notin ToSet(todo)
  BY <1>1, TailIsOrdered DEF Ordered
<1>3. Len(todo) = 1 => Tail(todo) = <<>>
  <2>1. Len(todo) = 1 => Len(Tail(todo)) = 0
    BY <1>1 DEF Todos
  <2> QED
    BY <1>2, <2>1, EmptySeq DEF Todos
<1>4. /\ Advanced(p).todo = Tail(todo)
      /\ Advanced(p) \in [todo : Todos, incoming : Contents \cup {NoText}]
      /\ Advanced(p).todo # <<>> => Advanced(p).incoming \in Contents
  <2>1. CASE Len(todo) = 1
    BY <1>2, <1>3, <2>1 DEF Advanced, Idle
  <2>2. CASE Len(todo) # 1
    BY <1>2, <2>2 DEF Advanced, ImportInv, ImportTyped, ImportsOrdered
  <2> QED
    BY <2>1, <2>2
<1>5. import'[p] = Advanced(p) /\ \A q \in Importers : q # p => import'[q] = import[q]
  BY DEF ImportInv, ImportTyped, ImportsOrdered
<1>6. Next1(p)[1] = "copy" => Waiting(p, Next1(p)[2])
  <2>1. Head(todo)[1] = "copy" => Head(todo) = <<"copy", Head(todo)[2]>> /\ Head(todo)[2] \in Files
    BY <1>2
  <2> QED
    BY <1>1, <1>2, <2>1 DEF Waiting, Ordered, Next1
<1> QED
  BY <1>2, <1>4, <1>5, <1>6 DEF ImportInv, ImportTyped, ImportsOrdered, Next1, Copying

LEMMA BacksUp ==
  ASSUME BackupsSuffice, ImportInv, NEW p \in Importers, BackUp(p)
  PROVE  ImportInv'
<1>0. PICK f \in Files : Next1(p) = <<"copy", f>>
  <2>1. import[p].todo # <<>> /\ Next1(p)[1] = "copy" /\ import' = [import EXCEPT ![p] = Advanced(p)]
    BY DEF BackUp
  <2>2. Next1(p) \in {"copy", "write"} \X Files
    BY <2>1, Advances DEF ImportInv, ImportTyped
  <2> QED
    BY <2>1, <2>2
<1>1. /\ import[p].todo # <<>> /\ Next1(p)[1] = "copy"
      /\ backups' = [backups EXCEPT ![f] = Kept(Append(@, file[f]))]
      /\ import' = [import EXCEPT ![p] = Advanced(p)]
      /\ UNCHANGED <<file, replaced, crossed, stops>>
  BY <1>0 DEF BackUp
<1>2. /\ ImportsOrdered'
      /\ \A q \in Importers : q # p => import'[q] = import[q]
      /\ ToSet(import'[p].todo) = ToSet(import[p].todo) \ {Next1(p)}
      /\ Next1(p) \in {"copy", "write"} \X Files
      /\ Next1(p) \in ToSet(import[p].todo)
      /\ Waiting(p, f)
  <2>1. Next1(p)[1] = "copy" /\ Next1(p)[2] = f
    BY <1>0
  <2> QED
    BY <1>1, <2>1, Advances DEF ImportInv, ImportTyped
<1>3. f \in Files /\ Next1(p) = <<"copy", f>> /\ Copying(p, f)
  BY <1>0, <1>1, <1>2 DEF Copying
<1>4. /\ MaxBackups >= 1 /\ MaxBackups \in Nat /\ stops \in Nat /\ stops <= MaxStops /\ MaxStops \in Nat
      /\ Cardinality(Importers) \in Nat
  BY FS_CardinalityType DEF BackupsSuffice, ImportInv, ImportTyped, ImportsOrdered
<1>5. /\ backups[f] \in Seq(Texts) /\ Len(backups[f]) <= MaxBackups /\ Len(backups[f]) \in Nat
      /\ file[f] \in Texts
      /\ backups'[f] = Kept(Append(backups[f], file[f]))
      /\ \A g \in Files : g # f => backups'[g] = backups[g]
      /\ DOMAIN backups' = Files
  BY <1>1, <1>3 DEF ImportInv, ImportTyped, ImportsOrdered
<1>6. KeepsCopies(backups'[f], backups[f], file[f])
  BY <1>4, <1>5, KeptCopies
<1>7. ImportTyped'
  BY <1>1, <1>2, <1>5, <1>6 DEF KeepsCopies, ImportInv, ImportTyped, ImportsOrdered
<1>8. ASSUME NEW g \in Files \ crossed, g # f PROVE CopyIsNewest(g)' /\ ReplacedIsNear(g)'
  <2>1. \A q \in Importers :
          (<<"write", g>> \in ToSet(import'[q].todo) <=> <<"write", g>> \in ToSet(import[q].todo))
          /\ (<<"copy", g>> \in ToSet(import'[q].todo) <=> <<"copy", g>> \in ToSet(import[q].todo))
    BY <1>2, <1>3, <1>8
  <2>2. Copied(g)' = Copied(g)
    BY <2>1 DEF Copied, Waiting, Copying
  <2> QED
    BY <1>1, <1>5, <1>8, <2>2 DEF ImportInv, CopyIsNewest, ReplacedIsNear
<1>9. ASSUME f \notin crossed PROVE CopyIsNewest(f)' /\ ReplacedIsNear(f)'
  <2>1. p \notin Copied(f) /\ Copied(f)' = Copied(f) \cup {p}
    <3>1. /\ <<"write", f>> \in ToSet(import'[p].todo)
          /\ <<"copy", f>> \notin ToSet(import'[p].todo)
      BY <1>2, <1>3 DEF Waiting
    <3>2. \A q \in Importers : q # p => import'[q] = import[q]
      BY <1>2
    <3> QED
      BY <1>3, <3>1, <3>2 DEF Copied, Waiting, Copying
  <2>2. /\ IsFiniteSet(Copied(f)) /\ IsFiniteSet(Copied(f)')
        /\ Copied(f)' \subseteq Importers
    BY FS_Subset DEF BackupsSuffice, Copied
  <2>3. /\ Cardinality(Copied(f)') = Cardinality(Copied(f)) + 1
        /\ Cardinality(Copied(f)) \in Nat
        /\ Cardinality(Copied(f)') <= Cardinality(Importers)
    BY <2>1, <2>2, FS_AddElement, FS_CardinalityType, FS_Subset DEF BackupsSuffice
  <2>4. CopyIsNewest(f)'
    BY <1>1, <1>6 DEF CopyIsNewest, KeepsCopies
  <2>5. ASSUME replaced[f] # NoText
        PROVE  \E l \in 1 .. Len(backups'[f]) :
                 /\ backups'[f][l] = replaced[f]
                 /\ Len(backups'[f]) - l <= Cardinality(Copied(f)') + stops
    <3>1. PICK k \in 1 .. Len(backups[f]) :
            backups[f][k] = replaced[f] /\ Len(backups[f]) - k <= Cardinality(Copied(f)) + stops
      BY <1>3, <1>9, <2>5 DEF ImportInv, ReplacedIsNear
    <3>2. Len(backups[f]) - k + 1 < MaxBackups
      BY <1>4, <1>5, <2>3, <3>1 DEF BackupsSuffice
    <3>3. PICK l \in 1 .. Len(backups'[f]) :
            backups'[f][l] = backups[f][k] /\ Len(backups'[f]) - l = Len(backups[f]) - k + 1
      BY <1>6, <3>2 DEF KeepsCopies
    <3>4. Len(backups'[f]) - l <= Cardinality(Copied(f)') + stops
      BY <1>4, <1>5, <1>6, <2>3, <3>1, <3>3 DEF KeepsCopies
    <3> QED
      BY <3>1, <3>3, <3>4
  <2>6. ReplacedIsNear(f)'
    BY <1>1, <2>5 DEF ReplacedIsNear
  <2> QED
    BY <2>4, <2>6
<1>10. \A g \in Files \ crossed : CopyIsNewest(g)' /\ ReplacedIsNear(g)'
  BY <1>8, <1>9
<1> QED
  BY <1>1, <1>7, <1>10 DEF ImportInv

\* Nobody else is left with what a write has changed, or it counts as crossed.
LEMMA WritesInTurn ==
  ASSUME BackupsSuffice, ImportInv, NEW p \in Importers, Write(p)
  PROVE  ImportInv'
<1>0. PICK f \in Files : Next1(p) = <<"write", f>>
  <2>1. import[p].todo # <<>> /\ Next1(p)[1] = "write" /\ import' = [import EXCEPT ![p] = Advanced(p)]
    BY DEF Write
  <2>2. Next1(p) \in {"copy", "write"} \X Files
    BY <2>1, Advances DEF ImportInv, ImportTyped
  <2> QED
    BY <2>1, <2>2
<1>1. /\ import[p].todo # <<>> /\ Next1(p)[1] = "write" /\ Next1(p)[2] = f
      /\ file' = [file EXCEPT ![f] = import[p].incoming]
      /\ replaced' = [replaced EXCEPT ![f] = IF file[f] = NoText THEN @ ELSE file[f]]
      /\ crossed' = crossed \cup Pending(f, Importers \ {p})
      /\ import' = [import EXCEPT ![p] = Advanced(p)]
      /\ UNCHANGED <<backups, stops>>
  BY <1>0 DEF Write
<1>2. /\ ImportsOrdered'
      /\ \A q \in Importers : q # p => import'[q] = import[q]
      /\ ToSet(import'[p].todo) = ToSet(import[p].todo) \ {Next1(p)}
      /\ Next1(p) \in ToSet(import[p].todo)
      /\ \A g \in Files : ~Copying(p, g)
  BY <1>1, Advances DEF ImportInv, ImportTyped
<1>3. Waiting(p, f) /\ ~Copying(p, f)
  BY <1>0, <1>2 DEF Waiting
<1>4. /\ import[p].incoming \in Contents /\ import[p].incoming # NoText
      /\ file[f] \in Texts
  BY <1>1 DEF ImportInv, ImportTyped, ImportsOrdered, BackupsSuffice
<1>5. /\ file'[f] # NoText
      /\ replaced'[f] = (IF file[f] = NoText THEN replaced[f] ELSE file[f])
      /\ \A g \in Files : g # f => file'[g] = file[g] /\ replaced'[g] = replaced[g]
  BY <1>1, <1>4 DEF ImportInv, ImportTyped, ImportsOrdered
<1>6. ImportTyped'
  BY <1>1, <1>2, <1>4 DEF ImportInv, ImportTyped, ImportsOrdered, Texts
<1>7. \A g \in Files : file'[g] = NoText => replaced'[g] = NoText
  BY <1>5 DEF ImportInv
<1>8. ASSUME NEW g \in Files \ crossed', g # f PROVE CopyIsNewest(g)' /\ ReplacedIsNear(g)'
  <2>1. \A q \in Importers :
          (<<"write", g>> \in ToSet(import'[q].todo) <=> <<"write", g>> \in ToSet(import[q].todo))
          /\ (<<"copy", g>> \in ToSet(import'[q].todo) <=> <<"copy", g>> \in ToSet(import[q].todo))
    BY <1>0, <1>2, <1>8
  <2>2. Copied(g)' = Copied(g)
    BY <2>1 DEF Copied, Waiting, Copying
  <2>3. g \notin crossed
    BY <1>1, <1>8
  <2> QED
    BY <1>1, <1>5, <1>8, <2>2, <2>3 DEF ImportInv, CopyIsNewest, ReplacedIsNear
<1>9. ASSUME f \notin crossed' PROVE CopyIsNewest(f)' /\ ReplacedIsNear(f)'
  <2>1. f \notin crossed /\ Pending(f, Importers \ {p}) = {}
    BY <1>1, <1>9 DEF Pending
  <2>2. \A q \in Importers : q # p => ~Waiting(q, f)
    BY <2>1 DEF Pending, Waiting
  <2>3. Copied(f)' = {}
    <3>1. <<"write", f>> \notin ToSet(import'[p].todo)
      BY <1>0, <1>2
    <3>2. \A q \in Importers : q # p => import'[q] = import[q]
      BY <1>2
    <3> QED
      BY <2>2, <3>1, <3>2 DEF Copied, Waiting
  <2>4. CopyIsNewest(f)'
    BY <2>3 DEF CopyIsNewest
  <2>5. ReplacedIsNear(f)'
    <3>1. CASE file[f] = NoText
      BY <1>5, <3>1 DEF ImportInv, ReplacedIsNear
    <3>2. CASE file[f] # NoText
      <4>1. backups[f] # <<>> /\ backups[f][Len(backups[f])] = file[f]
        BY <1>3, <2>1, <3>2 DEF ImportInv, CopyIsNewest, Copied
      <4>2. backups[f] \in Seq(Texts)
        BY DEF ImportInv, ImportTyped, ImportsOrdered
      <4>3. Len(backups[f]) \in 1 .. Len(backups[f]) /\ Len(backups[f]) - Len(backups[f]) = 0
        BY <4>1, <4>2, EmptySeq, LenProperties
      <4>4. Cardinality(Copied(f)') = 0 /\ stops \in Nat
        BY <2>3, FS_EmptySet DEF ImportInv, ImportTyped, ImportsOrdered, BackupsSuffice
      <4>5. 0 <= Cardinality(Copied(f)') + stops
        BY <4>4
      <4> QED
        BY <1>1, <1>5, <3>2, <4>1, <4>3, <4>5 DEF ReplacedIsNear
    <3> QED
      BY <3>1, <3>2
  <2> QED
    BY <2>4, <2>5
<1>10. \A g \in Files \ crossed' : CopyIsNewest(g)' /\ ReplacedIsNear(g)'
  BY <1>8, <1>9
<1> QED
  BY <1>6, <1>7, <1>10 DEF ImportInv

\* An import that dies, or is given up with the run it is a part of.
LEMMA GivesUpWriting ==
  ASSUME BackupsSuffice, ImportInv, NEW p \in Importers,
         stops < MaxStops, stops' = stops + 1, import' = [import EXCEPT ![p] = Idle],
         UNCHANGED <<file, backups, replaced, crossed>>
  PROVE  ImportInv'
<1>1. /\ stops' = stops + 1 /\ stops < MaxStops
      /\ import' = [import EXCEPT ![p] = Idle]
      /\ UNCHANGED <<file, backups, replaced, crossed>>
  OBVIOUS
<1>2. /\ import'[p] = Idle
      /\ \A q \in Importers : q # p => import'[q] = import[q]
  BY <1>1 DEF ImportInv, ImportTyped, ImportsOrdered
<1>3. Ordered(<<>>) /\ <<>> \in Todos
  BY DEF Ordered, ToSet, Todos
<1>4. stops \in Nat /\ stops' \in 0 .. MaxStops
  BY <1>1 DEF ImportInv, ImportTyped, ImportsOrdered, BackupsSuffice
<1>5. ImportTyped'
  BY <1>1, <1>2, <1>3, <1>4 DEF ImportInv, ImportTyped, ImportsOrdered, Idle
<1>6. ASSUME NEW f \in Files \ crossed PROVE CopyIsNewest(f)' /\ ReplacedIsNear(f)'
  <2>1. Copied(f)' = Copied(f) \ {p}
    <3>1. <<"write", f>> \notin ToSet(import'[p].todo)
      BY <1>2 DEF Idle, ToSet
    <3>2. \A q \in Importers : q # p => import'[q] = import[q]
      BY <1>2
    <3> QED
      BY <3>1, <3>2 DEF Copied, Waiting, Copying
  <2>2. /\ IsFiniteSet(Copied(f)) /\ Cardinality(Copied(f)) \in Nat
        /\ Cardinality(Copied(f)') \in Nat
        /\ Cardinality(Copied(f)) <= Cardinality(Copied(f)') + 1
    <3>1. IsFiniteSet(Copied(f)) /\ Cardinality(Copied(f)) \in Nat
      BY CopiedIsFinite
    <3>2. Cardinality(Copied(f) \ {p}) = IF p \in Copied(f) THEN Cardinality(Copied(f)) - 1 ELSE Cardinality(Copied(f))
      BY <3>1, FS_RemoveElement
    <3>3. IsFiniteSet(Copied(f) \ {p})
      BY <3>1, FS_Subset
    <3>4. Cardinality(Copied(f) \ {p}) \in Nat
      BY <3>3, FS_CardinalityType
    <3> QED
      BY <2>1, <3>1, <3>2, <3>4
  <2>3. CopyIsNewest(f)'
    BY <1>1, <2>1 DEF ImportInv, CopyIsNewest
  <2>4. ReplacedIsNear(f)'
    <3>1. Len(backups[f]) \in Nat
      BY DEF ImportInv, ImportTyped, ImportsOrdered
    <3> QED
      BY <1>1, <1>4, <2>2, <3>1 DEF ImportInv, ReplacedIsNear
  <2> QED
    BY <2>3, <2>4
<1> QED
  BY <1>1, <1>5, <1>6 DEF ImportInv

LEMMA Stops ==
  ASSUME BackupsSuffice, ImportInv, NEW p \in Importers, Stop(p)
  PROVE  ImportInv'
BY GivesUpWriting DEF Stop

LEMMA Edits ==
  ASSUME BackupsSuffice, ImportInv, NEW text \in Manual, Edit(text)
  PROVE  ImportInv'
<1>1. /\ file["document"] # NoText
      /\ file' = [file EXCEPT !["document"] = text]
      /\ crossed' = crossed \cup Pending("document", Importers)
      /\ UNCHANGED <<backups, import, replaced, stops>>
  BY DEF Edit
<1>2. /\ "document" \in Files /\ text \in Texts /\ text # NoText
      /\ file'["document"] = text
      /\ \A g \in Files : g # "document" => file'[g] = file[g]
  BY <1>1 DEF ImportInv, ImportTyped, ImportsOrdered, Files, Texts, BackupsSuffice
<1>3. ImportTyped'
  BY <1>1, <1>2 DEF ImportInv, ImportTyped, ImportsOrdered
<1>4. ASSUME NEW g \in Files \ crossed' PROVE CopyIsNewest(g)' /\ ReplacedIsNear(g)'
  <2>1. g \notin crossed /\ Copied(g)' = Copied(g)
    BY <1>1, <1>4 DEF Copied, Waiting, Copying
  <2>2. ReplacedIsNear(g)'
    BY <1>1, <2>1 DEF ImportInv, ReplacedIsNear
  <2>3. CASE g = "document"
    <3>1. Copied(g) = {}
      BY <1>1, <1>4, <2>3 DEF Pending, Copied, Waiting
    <3> QED
      BY <2>1, <2>2, <3>1 DEF CopyIsNewest
  <2>4. CASE g # "document"
    BY <1>1, <1>2, <2>1, <2>2, <2>4 DEF ImportInv, CopyIsNewest
  <2> QED
    BY <2>3, <2>4
<1> QED
  BY <1>1, <1>2, <1>3, <1>4 DEF ImportInv

LEMMA ImportStep ==
  ASSUME BackupsSuffice, ImportInv, [ImportNext]_importVars
  PROVE  ImportInv'
<1>1. CASE UNCHANGED importVars
  BY <1>1 DEF importVars, ImportInv, ImportTyped, ImportsOrdered, CopyIsNewest, ReplacedIsNear, Copied,
     Waiting, Copying
<1> QED
  BY <1>1, Begins, BacksUp, WritesInTurn, Stops, Edits DEF ImportNext

\* More copies are kept of a file than were made since its text was overwritten.
LEMMA NearIsKept ==
  ASSUME BackupsSuffice, ImportInv
  PROVE  OverwrittenIsKept
<1> SUFFICES ASSUME NEW f \in Files \ crossed, replaced[f] # NoText
             PROVE  replaced[f] \in ToSet(backups[f])
  BY DEF OverwrittenIsKept
<1>1. PICK k \in 1 .. Len(backups[f]) : backups[f][k] = replaced[f]
  BY DEF ImportInv, ReplacedIsNear
<1>2. DOMAIN backups[f] = 1 .. Len(backups[f])
  BY DEF ImportInv, ImportTyped, ImportsOrdered
<1> QED
  BY <1>1, <1>2 DEF ToSet

\* What the imports of scam-check.mjs and the like preserve: the newest copy of a
\* file is the text an import is about to overwrite, and the text overwritten last
\* is at most as many copies away as imports are under way or were stopped.
THEOREM ImportInvariant == ASSUME BackupsSuffice PROVE ImportSpec => []ImportInv
<1>1. ImportInit => ImportInv
  BY ImportStarts
<1>2. ImportInv /\ [ImportNext]_importVars => ImportInv'
  BY ImportStep
<1> QED
  BY <1>1, <1>2, PTL DEF ImportSpec

\* The text an import overwrote last is among the backups, for any number of
\* processes, contents and stopped imports of which the backups can take one more
\* each: `backupFile` drops the oldest copies.
THEOREM OverwrittenStays == ASSUME BackupsSuffice PROVE ImportSpec => []OverwrittenIsKept
<1>1. ImportInv => OverwrittenIsKept
  BY NearIsKept
<1> QED
  BY <1>1, ImportInvariant, PTL

-----------------------------------------------------------------------------
\* Runs of approved plans, see SkillRuntime.

\* A record is something, and the plan that is only recorded is no contract.
RecordsAreApart ==
  /\ Ledger \notin Contents
  /\ \A plan, status, before, after, error :
       RunRecord(plan, status, before, after, error) # NoText

Runs == [at : {"idle", "checked", "prepared", "dispatched", "failed"},
         plan : Contents \cup {NoText}, replace : BOOLEAN, before : [Files -> Texts] \cup {NoText}]

RunTyped ==
  /\ file \in [Files -> Texts]
  /\ ImportsOrdered
  /\ contract \in Contents
  /\ run \in [Importers -> Runs]
  /\ disturbed \in BOOLEAN

\* A run does not begin while its process is in an import, and knows what it reads.
RunsAreReady ==
  \A p \in Running :
    /\ run[p].plan \in Contents
    /\ run[p].at \in {"checked", "prepared"} => import[p] = Idle
    /\ run[p].at \in {"prepared", "dispatched", "failed"} => run[p].before \in [Files -> Texts]

\* A run that nothing disturbs is the only one.  Its contract is the approved one,
\* from its preparation on its record says so, and a target its tool has not to
\* write any more has the approved content.
RunIsUndisturbed(p) ==
  /\ \A q \in Running : q = p
  /\ run[p].at \in {"checked", "prepared"} => contract = run[p].plan
  /\ run[p].at \in {"prepared", "dispatched"} => SamePlan(run[p].plan) /\ record.status = "prepared"
  /\ run[p].at = "dispatched" =>
       /\ import[p].todo # <<>> => import[p].incoming = run[p].plan
       /\ \A f \in Files : file[f] = run[p].plan \/ Waiting(p, f)

\* A record can be read, or is refused for its error.
RecordFits == RecordReads \/ ErrorIsRefused

RecordIsOfContent ==
  record # NoText /\ record.status = "dispatched" => record.after = [f \in Files |-> record.plan]

RunInv ==
  /\ RunTyped /\ RunsAreReady /\ RecordFits
  /\ ~disturbed => RecordIsOfContent /\ \A p \in Running : RunIsUndisturbed(p)

LEMMA RunStarts == RunInit => RunInv
<1> SUFFICES ASSUME RunInit PROVE RunInv
  OBVIOUS
<1>1. Ordered(<<>>) /\ <<>> \in Todos
  BY DEF Ordered, ToSet, Todos
<1>2. RunTyped
  BY <1>1 DEF RunInit, ImportInit, NothingRuns, RunTyped, ImportsOrdered, Texts, Idle, NoRun, Runs
<1>3. Running = {} /\ record = NoText
  BY DEF RunInit, NothingRuns, Running, NoRun
<1> QED
  BY <1>2, <1>3 DEF RunInv, RunsAreReady, RecordFits, RecordReads, ErrorIsRefused, RecordIsOfContent

\* The record of a run can be read, but for its error.
LEMMA RecordsRead ==
  ASSUME RecordsAreApart, NEW plan \in Contents, NEW before, DOMAIN before = Files,
         NEW status \in {"prepared", "dispatched", "failed"},
         NEW after, after = NoText \/ DOMAIN after = Files,
         status = "prepared" => after = NoText,
         NEW error \in ErrorsOf(status),
         record' = RunRecord(plan, status, before, after, error)
  PROVE  /\ RecordFits' /\ record' # NoText
         /\ record'.plan = plan /\ record'.status = status /\ record'.after = after
<1>1. /\ record' # NoText
      /\ record'.plan = plan /\ record'.status = status /\ record'.after = after
      /\ record'.before = before
      /\ record'.tools = (IF status \in {"dispatched", "failed"} THEN 1 ELSE 0)
      /\ record'.writes = Writes(before, after)
      /\ record'.results = ToolResults(status)
      /\ record'.error = error
  BY DEF RunRecord, RecordsAreApart
<1>2. status = "prepared" => Writes(before, after) = 0
  BY DEF Writes
<1>3. plan # Ledger
  BY DEF RecordsAreApart
<1>4. ResultsRead(record)'
  BY <1>1 DEF ResultsRead, ToolResults
<1>5. SnapshotReads(record)'
  BY <1>1 DEF SnapshotReads
<1>6. ClaimsFit(record)'
  <2>1. record'.plan # Ledger
    BY <1>1, <1>3
  <2>2. CASE status = "prepared"
    BY <1>1, <1>2, <2>1, <2>2 DEF ClaimsFit, ToolResults, ErrorsOf
  <2>3. CASE status = "dispatched"
    BY <1>1, <2>1, <2>3 DEF ClaimsFit, ToolResults, ErrorsOf
  <2>4. CASE status = "failed"
    BY <1>1, <2>1, <2>4 DEF ClaimsFit, ToolResults, ErrorsOf
  <2> QED
    BY <2>2, <2>3, <2>4
<1>7. ~ErrorReads(record)' => status = "failed"
  BY <1>1 DEF ErrorReads, ErrorsOf
<1> QED
  BY <1>1, <1>4, <1>5, <1>6, <1>7 DEF RecordFits, RecordReads, ErrorIsRefused

\* What does not touch targets, contract and record is no matter of the run.
LEMMA RunsStay ==
  ASSUME RunInv, UNCHANGED <<file, contract, record, run>>, ImportsOrdered',
         disturbed' \in BOOLEAN, disturbed => disturbed',
         ~disturbed' => \A p \in Running : import'[p] = import[p],
         \A p \in Running : import'[p] = import[p] \/ run[p].at \notin {"checked", "prepared"}
  PROVE  RunInv'
<1>1. Running' = Running
  BY DEF Running
<1>2. RunTyped'
  BY DEF RunInv, RunTyped
<1>3. RunsAreReady'
  BY <1>1 DEF RunInv, RunsAreReady
<1>4. RecordFits' /\ (RecordIsOfContent' <=> RecordIsOfContent)
  BY DEF RunInv, RecordFits, RecordReads, ErrorIsRefused, RecordIsOfContent
<1>5. ASSUME ~disturbed', NEW p \in Running PROVE RunIsUndisturbed(p)'
  <2>1. RunIsUndisturbed(p) /\ import'[p] = import[p]
    BY <1>5 DEF RunInv
  <2> QED
    BY <1>1, <2>1 DEF RunIsUndisturbed, SamePlan, Waiting
<1> QED
  BY <1>1, <1>2, <1>3, <1>4, <1>5 DEF RunInv

LEMMA Approves ==
  ASSUME RecordsAreApart, RunInv, NEW p \in Importers, NEW replace, RecordApproval(p, replace)
  PROVE  RunInv'
<1>1. /\ record' = RunRecord(Ledger, "recorded", NoText, NoText, "none")
      /\ disturbed' = (disturbed \/ Running # {})
      /\ UNCHANGED <<contract, run, file, import>>
  BY DEF RecordApproval, importVars
<1>2. /\ record'.plan = Ledger /\ record'.status = "recorded" /\ record'.tools = 0
      /\ record'.writes = 0
  BY <1>1 DEF RunRecord, Writes
<1>3. RecordFits' /\ RecordIsOfContent'
  BY <1>2 DEF RecordFits, RecordReads, ErrorIsRefused, ClaimsFit, RecordIsOfContent
<1>4. Running' = Running
  BY <1>1 DEF Running
<1>5. RunTyped' /\ RunsAreReady'
  BY <1>1, <1>4 DEF RunInv, RunTyped, RunsAreReady, ImportsOrdered
<1>6. ~disturbed' => Running' = {}
  BY <1>1, <1>4
<1> QED
  BY <1>3, <1>5, <1>6 DEF RunInv

LEMMA Checks ==
  ASSUME RunInv, NEW p \in Importers, NEW plan \in Contents, NEW replace \in BOOLEAN,
         Check(p, plan, replace)
  PROVE  RunInv'
<1> DEFINE new == [at |-> "checked", plan |-> plan, replace |-> replace, before |-> NoText]
<1>1. /\ import[p] = Idle /\ contract = plan
      /\ run' = [run EXCEPT ![p] = new]
      /\ disturbed' = (disturbed \/ Running # {})
      /\ UNCHANGED <<contract, record, file, import>>
  BY DEF Check, importVars
<1>2. new \in Runs
  BY DEF Runs
<1>3. /\ run'[p].at = "checked" /\ run'[p].plan = plan
      /\ \A q \in Importers : q # p => run'[q] = run[q]
      /\ run' \in [Importers -> Runs]
  BY <1>1, <1>2 DEF RunInv, RunTyped
<1> HIDE DEF new
<1>4. Running' = Running \cup {p}
  BY <1>3 DEF Running
<1>5. RunTyped'
  BY <1>1, <1>3 DEF RunInv, RunTyped, ImportsOrdered
<1>6. RunsAreReady'
  BY <1>1, <1>3, <1>4 DEF RunInv, RunsAreReady, Running
<1>7. RecordFits' /\ (RecordIsOfContent' <=> RecordIsOfContent)
  BY <1>1 DEF RunInv, RecordFits, RecordReads, ErrorIsRefused, RecordIsOfContent
<1>8. ASSUME ~disturbed' PROVE RunIsUndisturbed(p)' /\ Running' = {p}
  BY <1>1, <1>3, <1>4, <1>8 DEF RunIsUndisturbed
<1> QED
  BY <1>1, <1>5, <1>6, <1>7, <1>8 DEF RunInv

\* A run that has ended says nothing any more.
LEMMA RunEnds ==
  ASSUME RunInv, NEW p \in Importers, run' = [run EXCEPT ![p] = NoRun],
         UNCHANGED <<file, contract, disturbed>>, ImportsOrdered',
         \A q \in Importers : q # p => import'[q] = import[q],
         RecordFits',
         record' = record \/ (p \in Running /\ (~disturbed => RecordIsOfContent'))
  PROVE  RunInv'
<1>1. /\ run'[p] = NoRun /\ run'[p].at = "idle"
      /\ \A q \in Importers : q # p => run'[q] = run[q]
      /\ run' \in [Importers -> Runs]
  BY DEF RunInv, RunTyped, NoRun, Runs
<1>2. Running' = Running \ {p}
  BY <1>1 DEF Running
<1>3. RunTyped'
  BY <1>1 DEF RunInv, RunTyped
<1>4. RunsAreReady'
  BY <1>1, <1>2 DEF RunInv, RunsAreReady, Running
<1>5. ASSUME ~disturbed PROVE RecordIsOfContent'
  BY <1>5 DEF RunInv, RecordIsOfContent
<1>6. ASSUME ~disturbed, NEW q \in Running' PROVE RunIsUndisturbed(q)'
  <2>1. q \in Running /\ q # p /\ RunIsUndisturbed(q) /\ p \notin Running
    BY <1>2, <1>6 DEF RunInv, RunIsUndisturbed
  <2>2. run'[q] = run[q] /\ import'[q] = import[q] /\ record' = record
    BY <1>1, <2>1 DEF Running
  <2> QED
    BY <1>2, <2>1, <2>2 DEF RunIsUndisturbed, SamePlan, Waiting
<1> QED
  BY <1>3, <1>4, <1>5, <1>6 DEF RunInv

\* A run goes on: it stays the only one, where nothing disturbs it.
LEMMA RunGoesOn ==
  ASSUME RunInv, NEW p \in Running, NEW came \in {"prepared", "dispatched", "failed"},
         NEW before \in [Files -> Texts],
         run' = [run EXCEPT ![p].at = came, ![p].before = before],
         UNCHANGED <<contract, disturbed>>, file' \in [Files -> Texts], ImportsOrdered',
         \A q \in Importers : q # p => import'[q] = import[q],
         came = "prepared" => import'[p] = Idle,
         RecordFits', ~disturbed => RecordIsOfContent',
         ~disturbed /\ came = "prepared" => contract = run[p].plan,
         ~disturbed /\ came \in {"prepared", "dispatched"} =>
           record' # NoText /\ record'.plan = run[p].plan /\ record'.status = "prepared",
         ~disturbed /\ came = "dispatched" =>
           /\ import'[p].todo # <<>> => import'[p].incoming = run[p].plan
           /\ \A f \in Files : file'[f] = run[p].plan \/ <<"write", f>> \in ToSet(import'[p].todo)
  PROVE  RunInv'
<1>0. p \in Importers
  BY DEF Running
<1>1. /\ run'[p].at = came /\ run'[p].plan = run[p].plan /\ run'[p].before = before
      /\ \A q \in Importers : q # p => run'[q] = run[q]
      /\ run' \in [Importers -> Runs]
  <2>1. run \in [Importers -> Runs]
    BY DEF RunInv, RunTyped
  <2>2. run' = [run EXCEPT ![p] = [run[p] EXCEPT !.at = came, !.before = before]]
    OBVIOUS
  <2>3. [run[p] EXCEPT !.at = came, !.before = before] \in Runs
    BY <1>0, <2>1 DEF Runs
  <2> QED
    BY <1>0, <2>1, <2>2, <2>3 DEF Runs
<1>2. Running' = Running
  BY <1>1 DEF Running
<1>3. RunTyped'
  BY <1>1 DEF RunInv, RunTyped
<1>4. RunsAreReady'
  BY <1>0, <1>1, <1>2 DEF RunInv, RunsAreReady, Running
<1>5. ASSUME ~disturbed PROVE Running = {p} /\ RunIsUndisturbed(p)'
  <2>1. \A q \in Running : q = p
    BY <1>5 DEF RunInv, RunIsUndisturbed
  <2> QED
    BY <1>1, <1>2, <1>5, <2>1 DEF RunIsUndisturbed, SamePlan, Waiting
<1> QED
  BY <1>2, <1>3, <1>4, <1>5 DEF RunInv

LEMMA Prepares ==
  ASSUME RecordsAreApart, RunInv, NEW p \in Importers, Prepare(p)
  PROVE  RunInv'
<1>1. /\ run[p].at = "checked" /\ p \in Running
      /\ UNCHANGED <<contract, disturbed, file, import>>
  BY DEF Prepare, Running, importVars
<1>2. ImportsOrdered' /\ file' \in [Files -> Texts]
  BY <1>1 DEF RunInv, RunTyped, ImportsOrdered
<1>3. CASE /\ run' = [run EXCEPT ![p].at = "prepared", ![p].before = file]
           /\ record' = RunRecord(run[p].plan, "prepared", file, NoText, "none")
  <2>1. run[p].plan \in Contents /\ import[p] = Idle /\ DOMAIN file = Files
    BY <1>1 DEF RunInv, RunsAreReady, RunTyped
  <2>2. /\ RecordFits' /\ record' # NoText
        /\ record'.plan = run[p].plan /\ record'.status = "prepared"
    BY <1>3, <2>1, RecordsRead DEF ErrorsOf
  <2>3. ~disturbed => contract = run[p].plan
    BY <1>1 DEF RunInv, RunIsUndisturbed
  <2>4. RecordIsOfContent'
    BY <2>2 DEF RecordIsOfContent
  <2> QED
    BY <1>1, <1>2, <1>3, <2>1, <2>2, <2>3, <2>4, RunGoesOn DEF RunInv, RunTyped
<1>4. CASE run' = [run EXCEPT ![p] = NoRun] /\ record' = record
  <2>1. RecordFits'
    BY <1>4 DEF RunInv, RecordFits, RecordReads, ErrorIsRefused
  <2> QED
    BY <1>1, <1>2, <1>4, <2>1, RunEnds
<1> QED
  BY <1>3, <1>4 DEF Prepare

\* An import that begins has a write for every file of another content.
LEMMA BeginsToWrite ==
  ASSUME ImportsOrdered, NEW p \in Importers, NEW c \in Contents, NEW replace, Begin(p, c, replace)
  PROVE  /\ ImportsOrdered'
         /\ import[p] = Idle /\ import'[p].incoming = c
         /\ \A f \in Files : file[f] = c \/ <<"write", f>> \in ToSet(import'[p].todo)
         /\ \A q \in Importers : q # p => import'[q] = import[q]
<1>1. import[p] = Idle /\ import' = [import EXCEPT ![p] = [todo |-> Plan(c), incoming |-> c]]
  BY DEF Begin
<1>2. /\ import'[p] = [todo |-> Plan(c), incoming |-> c]
      /\ \A q \in Importers : q # p => import'[q] = import[q]
  BY <1>1 DEF ImportsOrdered
<1>3. Ordered(Plan(c)) /\ ToSet(Plan(c)) = ({"copy"} \X Overwritten(c)) \cup ({"write"} \X Changed(c))
  BY PlanIsOrdered
<1>4. ImportsOrdered'
  BY <1>1, <1>2, <1>3 DEF ImportsOrdered, Ordered
<1>5. \A f \in Files : file[f] = c \/ <<"write", f>> \in ToSet(Plan(c))
  BY <1>3 DEF Changed
<1> QED
  BY <1>1, <1>2, <1>4, <1>5

LEMMA Dispatches ==
  ASSUME RecordsAreApart, RunInv, NEW p \in Importers, Dispatch(p)
  PROVE  RunInv'
<1>1. /\ run[p].at = "prepared" /\ p \in Running
      /\ run' = [run EXCEPT ![p].at = IF Accepts(contract, run[p].replace) THEN "dispatched" ELSE "failed"]
      /\ UNCHANGED <<contract, record, disturbed>>
  BY DEF Dispatch, Running
<1>2. /\ run[p].before \in [Files -> Texts] /\ import[p] = Idle
  BY <1>1 DEF RunInv, RunsAreReady
<1>3. PICK came \in {"dispatched", "failed"} :
        came = IF Accepts(contract, run[p].replace) THEN "dispatched" ELSE "failed"
  OBVIOUS
<1>4. run' = [run EXCEPT ![p].at = came, ![p].before = run[p].before]
  BY <1>1, <1>3 DEF RunInv, RunTyped, Runs
<1>5. /\ RecordFits' /\ (~disturbed => RecordIsOfContent')
      /\ ~disturbed => contract = run[p].plan
      /\ ~disturbed => record' # NoText /\ record'.plan = run[p].plan /\ record'.status = "prepared"
  BY <1>1 DEF RunInv, RecordFits, RecordReads, ErrorIsRefused, RecordIsOfContent, RunIsUndisturbed, SamePlan
<1>6. /\ ImportsOrdered' /\ file' = file
      /\ \A q \in Importers : q # p => import'[q] = import[q]
      /\ import'[p].todo # <<>> => import'[p].incoming = contract
      /\ came = "dispatched" =>
           \A f \in Files : file'[f] = contract \/ <<"write", f>> \in ToSet(import'[p].todo)
  <2>1. CASE Begin(p, contract, run[p].replace)
    <3>1. contract \in Contents /\ ImportsOrdered /\ file' = file
      BY <2>1 DEF RunInv, RunTyped, Begin
    <3> QED
      BY <2>1, <3>1, BeginsToWrite
  <2>2. CASE (Changed(contract) = {} \/ ~Accepts(contract, run[p].replace)) /\ UNCHANGED importVars
    <3>1. /\ file' = file /\ import' = import /\ ImportsOrdered'
      BY <2>2 DEF importVars, RunInv, RunTyped, ImportsOrdered
    <3>2. came = "dispatched" => \A f \in Files : file[f] = contract
      BY <1>3, <2>2 DEF Changed
    <3>3. import'[p].todo = <<>>
      BY <1>2, <3>1 DEF Idle
    <3> QED
      BY <3>1, <3>2, <3>3
  <2> QED
    BY <2>1, <2>2 DEF Dispatch
<1>7. file' \in [Files -> Texts]
  BY <1>6 DEF RunInv, RunTyped
<1>8. ~disturbed /\ came = "dispatched" =>
        /\ import'[p].todo # <<>> => import'[p].incoming = run[p].plan
        /\ \A f \in Files : file'[f] = run[p].plan \/ <<"write", f>> \in ToSet(import'[p].todo)
  BY <1>5, <1>6
<1>9. UNCHANGED <<contract, disturbed>> /\ came # "prepared"
  BY <1>1
<1> QED
  BY <1>1, <1>2, <1>4, <1>5, <1>6, <1>7, <1>8, <1>9, RunGoesOn

\* A call of an import leaves its other calls as they are.
LEMMA ToolWorks ==
  ASSUME RunInv, NEW p \in Importers, Tool(p)
  PROVE  RunInv'
<1>1. /\ import[p].todo # <<>> /\ import' = [import EXCEPT ![p] = Advanced(p)]
      /\ disturbed' = (disturbed \/ Running \ {p} # {})
      /\ UNCHANGED <<contract, record, run>>
  BY DEF Tool, BackUp, Write
<1>2. /\ ImportsOrdered'
      /\ \A q \in Importers : q # p => import'[q] = import[q]
      /\ ToSet(import'[p].todo) = ToSet(import[p].todo) \ {Next1(p)}
      /\ Next1(p) \in {"copy", "write"} \X Files
      /\ Next1(p) \in ToSet(import[p].todo)
  BY <1>1, Advances DEF RunInv, RunTyped
<1>3. import[p].incoming \in Contents
  BY <1>1 DEF RunInv, RunTyped, ImportsOrdered
<1>4. /\ file' \in [Files -> Texts]
      /\ \A f \in Files : file'[f] = file[f] \/ (Next1(p) = <<"write", f>> /\ file'[f] = import[p].incoming)
      /\ \A f \in Files : Next1(p) = <<"write", f>> => file'[f] = import[p].incoming
  <2>1. CASE BackUp(p)
    BY <2>1, <1>2 DEF BackUp, RunInv, RunTyped
  <2>2. CASE Write(p)
    <3>1. PICK g \in Files : Next1(p) = <<"write", g>>
      BY <1>2, <2>2 DEF Write
    <3>2. file' = [file EXCEPT ![g] = import[p].incoming]
      BY <2>2, <3>1 DEF Write
    <3> QED
      BY <1>3, <3>1, <3>2 DEF RunInv, RunTyped, Texts
  <2> QED
    BY <2>1, <2>2 DEF Tool
<1>5. Running' = Running
  BY <1>1 DEF Running
<1>6. RunTyped'
  BY <1>1, <1>2, <1>4 DEF RunInv, RunTyped
<1>7. import[p] # Idle
  BY <1>1 DEF Idle
<1>8. RunsAreReady'
  BY <1>1, <1>2, <1>5, <1>7 DEF RunInv, RunsAreReady, Running
<1>9. RecordFits' /\ (RecordIsOfContent' <=> RecordIsOfContent)
  BY <1>1 DEF RunInv, RecordFits, RecordReads, ErrorIsRefused, RecordIsOfContent
<1>10. ASSUME ~disturbed', NEW q \in Running PROVE RunIsUndisturbed(q)'
  <2>1. q = p /\ ~disturbed /\ RunIsUndisturbed(p)
    BY <1>1, <1>10 DEF RunInv
  <2>2. run[p].at \notin {"checked", "prepared"}
    BY <1>7, <1>10, <2>1 DEF RunInv, RunsAreReady
  <2>3. CASE run[p].at = "dispatched"
    <3>1. /\ import[p].incoming = run[p].plan
          /\ \A f \in Files : file[f] = run[p].plan \/ <<"write", f>> \in ToSet(import[p].todo)
      BY <1>1, <2>1, <2>3 DEF RunIsUndisturbed, Waiting
    <3>2. \A f \in Files : file'[f] = run[p].plan \/ <<"write", f>> \in ToSet(import'[p].todo)
      BY <1>2, <1>4, <3>1
    <3>3. import'[p].todo # <<>> => import'[p].incoming = run[p].plan
      <4>1. import'[p] = Advanced(p)
        BY <1>1 DEF RunInv, RunTyped, ImportsOrdered
      <4>2. import'[p].todo # <<>> => import'[p].incoming = import[p].incoming
        BY <4>1 DEF Advanced, Idle, RunInv, RunTyped, ImportsOrdered
      <4> QED
        BY <3>1, <4>2
    <3> QED
      BY <1>1, <1>5, <1>10, <2>1, <2>2, <2>3, <3>2, <3>3 DEF RunIsUndisturbed, SamePlan, Waiting, RunInv
  <2>4. CASE run[p].at # "dispatched"
    BY <1>1, <1>5, <1>10, <2>1, <2>2, <2>4 DEF RunIsUndisturbed, SamePlan, RunInv
  <2> QED
    BY <2>1, <2>3, <2>4
<1> QED
  BY <1>1, <1>5, <1>6, <1>8, <1>9, <1>10 DEF RunInv

\* What a run dispatched has been written in full when its tool is done.
LEMMA Finishes ==
  ASSUME RecordsAreApart, RunInv, NEW p \in Importers, Finish(p)
  PROVE  RunInv'
<1>1. /\ run[p].at \in {"dispatched", "failed"} /\ p \in Running /\ import[p] = Idle
      /\ run' = [run EXCEPT ![p] = NoRun]
      /\ UNCHANGED <<contract, disturbed, file, import>>
  BY DEF Finish, Running, importVars
<1>0. PICK error \in ErrorsOf(run[p].at) :
        record' = RunRecord(run[p].plan, run[p].at, run[p].before, file, error)
  BY DEF Finish
<1>2. /\ run[p].plan \in Contents /\ DOMAIN run[p].before = Files
      /\ file \in [Files -> Texts]
  BY <1>1 DEF RunInv, RunsAreReady, RunTyped
<1>3. PICK status \in {"prepared", "dispatched", "failed"} : status = run[p].at
  BY <1>1
<1>4. /\ RecordFits' /\ record'.plan = run[p].plan /\ record'.status = run[p].at
      /\ record'.after = file
  BY <1>0, <1>1, <1>2, <1>3, RecordsRead
<1>5. ASSUME ~disturbed, run[p].at = "dispatched" PROVE file = [f \in Files |-> run[p].plan]
  <2>1. \A f \in Files : file[f] = run[p].plan \/ <<"write", f>> \in ToSet(import[p].todo)
    BY <1>1, <1>5 DEF RunInv, RunIsUndisturbed, Waiting
  <2>2. ToSet(import[p].todo) = {}
    BY <1>1 DEF Idle, ToSet
  <2> QED
    BY <1>2, <2>1, <2>2
<1>6. ~disturbed => RecordIsOfContent'
  BY <1>4, <1>5 DEF RecordIsOfContent
<1>7. ImportsOrdered'
  BY <1>1 DEF RunInv, RunTyped, ImportsOrdered
<1> QED
  BY <1>1, <1>4, <1>6, <1>7, RunEnds

LEMMA FailsWithoutLook ==
  ASSUME RecordsAreApart, RunInv, NEW p \in Importers, FailsUnseen(p)
  PROVE  RunInv'
<1>1. /\ run[p].at = "failed" /\ p \in Running
      /\ run' = [run EXCEPT ![p] = NoRun]
      /\ UNCHANGED <<contract, disturbed, file, import>>
  BY DEF FailsUnseen, Running, importVars
<1>0. PICK error \in ErrorsOf("failed") :
        record' = RunRecord(run[p].plan, "failed", run[p].before, NoText, error)
  BY DEF FailsUnseen
<1>2. run[p].plan \in Contents /\ DOMAIN run[p].before = Files
  BY <1>1 DEF RunInv, RunsAreReady
<1>3. PICK status \in {"prepared", "dispatched", "failed"} : status = "failed"
  OBVIOUS
<1>4. RecordFits' /\ record'.status = "failed"
  BY <1>0, <1>1, <1>2, <1>3, RecordsRead
<1>5. RecordIsOfContent'
  BY <1>4 DEF RecordIsOfContent
<1>6. ImportsOrdered'
  BY <1>1 DEF RunInv, RunTyped, ImportsOrdered
<1> QED
  BY <1>1, <1>4, <1>5, <1>6, RunEnds

\* An import that is given up has nothing to do any more.
LEMMA Ceases ==
  ASSUME ImportsOrdered, NEW p \in Importers, import' = [import EXCEPT ![p] = Idle]
  PROVE  /\ ImportsOrdered' /\ import'[p] = Idle
         /\ \A q \in Importers : q # p => import'[q] = import[q]
<1>1. Ordered(<<>>) /\ <<>> \in Todos
  BY DEF Ordered, ToSet, Todos
<1> QED
  BY <1>1 DEF ImportsOrdered, Idle

LEMMA ToolGivesUp ==
  ASSUME RecordsAreApart, RunInv, NEW p \in Importers, ToolFails(p)
  PROVE  RunInv'
<1>1. /\ run[p].at = "dispatched" /\ p \in Running
      /\ run' = [run EXCEPT ![p].at = "failed"]
      /\ import' = [import EXCEPT ![p] = Idle]
      /\ UNCHANGED <<contract, record, disturbed, file>>
  BY DEF ToolFails, Stop, Running
<1>2. /\ run[p].before \in [Files -> Texts] /\ ImportsOrdered /\ file' \in [Files -> Texts]
  BY <1>1 DEF RunInv, RunsAreReady, RunTyped
<1>3. PICK came \in {"prepared", "dispatched", "failed"} : came = "failed"
  OBVIOUS
<1>4. run' = [run EXCEPT ![p].at = came, ![p].before = run[p].before]
  BY <1>1, <1>3 DEF RunInv, RunTyped, Runs
<1>5. ImportsOrdered' /\ \A q \in Importers : q # p => import'[q] = import[q]
  BY <1>1, <1>2, Ceases
<1>6. RecordFits' /\ (~disturbed => RecordIsOfContent')
  BY <1>1 DEF RunInv, RecordFits, RecordReads, ErrorIsRefused, RecordIsOfContent
<1>7. came # "prepared" /\ came # "dispatched" /\ UNCHANGED <<contract, disturbed>>
  BY <1>1, <1>3
<1> QED
  BY <1>1, <1>2, <1>4, <1>5, <1>6, <1>7, RunGoesOn

LEMMA RunIsGivenUp ==
  ASSUME RunInv, NEW p \in Importers, RunStops(p)
  PROVE  RunInv'
<1>1. /\ run' = [run EXCEPT ![p] = NoRun]
      /\ import' = [import EXCEPT ![p] = Idle]
      /\ UNCHANGED <<contract, record, disturbed, file>>
  BY DEF RunStops
<1>2. ImportsOrdered' /\ \A q \in Importers : q # p => import'[q] = import[q]
  BY <1>1, Ceases DEF RunInv, RunTyped
<1>3. RecordFits'
  BY <1>1 DEF RunInv, RecordFits, RecordReads, ErrorIsRefused
<1> QED
  BY <1>1, <1>2, <1>3, RunEnds

LEMMA Exchanged ==
  ASSUME RunInv, Exchange
  PROVE  RunInv'
<1>1. /\ contract' \in Contents
      /\ disturbed' = (disturbed \/ Running # {})
      /\ UNCHANGED <<record, run, file, import>>
  BY DEF Exchange, importVars
<1>2. Running' = Running
  BY <1>1 DEF Running
<1>3. RunTyped' /\ RunsAreReady'
  BY <1>1, <1>2 DEF RunInv, RunTyped, RunsAreReady, ImportsOrdered
<1>4. RecordFits' /\ (RecordIsOfContent' <=> RecordIsOfContent)
  BY <1>1 DEF RunInv, RecordFits, RecordReads, ErrorIsRefused, RecordIsOfContent
<1>5. ~disturbed' => Running' = {} /\ ~disturbed
  BY <1>1, <1>2
<1> QED
  BY <1>3, <1>4, <1>5 DEF RunInv

LEMMA OthersWork ==
  ASSUME RunInv, Others
  PROVE  RunInv'
<1>1. /\ disturbed' = (disturbed \/ Running # {})
      /\ UNCHANGED <<contract, record, run>>
  BY DEF Others
<1>2. Running' = Running
  BY <1>1 DEF Running
<1>3. RecordFits' /\ (RecordIsOfContent' <=> RecordIsOfContent)
  BY <1>1 DEF RunInv, RecordFits, RecordReads, ErrorIsRefused, RecordIsOfContent
<1>4. ~disturbed' => Running' = {} /\ ~disturbed
  BY <1>1, <1>2
<1> DEFINE Spared == /\ file' \in [Files -> Texts] /\ ImportsOrdered'
                     /\ \A q \in Running : import'[q] = import[q]
<1>5. Spared
  <2>1. ASSUME NEW p \in Importers, run[p] = NoRun, Stop(p) PROVE Spared
    <3>1. ImportsOrdered' /\ \A q \in Importers : q # p => import'[q] = import[q]
      BY <2>1, Ceases DEF Stop, RunInv, RunTyped
    <3> QED
      BY <2>1, <3>1 DEF Stop, RunInv, RunTyped, Running, NoRun
  <2>2. ASSUME NEW p \in Importers, run[p] = NoRun,
               NEW c \in Contents, NEW replace \in BOOLEAN, Begin(p, c, replace)
        PROVE  Spared
    <3>1. ImportsOrdered' /\ \A q \in Importers : q # p => import'[q] = import[q]
      BY <2>2, BeginsToWrite DEF RunInv, RunTyped
    <3> QED
      BY <2>2, <3>1 DEF Begin, RunInv, RunTyped, Running, NoRun
  <2>3. ASSUME NEW text \in Manual, Edit(text) PROVE Spared
    BY <2>3 DEF Edit, RunInv, RunTyped, ImportsOrdered, Texts
  <2> QED
    BY <2>1, <2>2, <2>3 DEF Others
<1>6. RunTyped' /\ RunsAreReady'
  BY <1>1, <1>2, <1>5 DEF RunInv, RunTyped, RunsAreReady
<1> QED
  BY <1>3, <1>4, <1>6 DEF RunInv

LEMMA RunStep ==
  ASSUME RecordsAreApart, RunInv, [RunNext]_<<importVars, runVars>>
  PROVE  RunInv'
<1>1. CASE UNCHANGED <<importVars, runVars>>
  <2>1. UNCHANGED <<file, import, contract, record, run, disturbed>>
    BY <1>1 DEF importVars, runVars
  <2>2. ImportsOrdered'
    BY <2>1 DEF RunInv, RunTyped, ImportsOrdered
  <2> QED
    BY <2>1, <2>2, RunsStay DEF RunInv, RunTyped
<1>2. ASSUME NEW p \in Importers, NEW replace \in BOOLEAN, RecordApproval(p, replace) PROVE RunInv'
  BY <1>2, Approves
<1>3. ASSUME NEW p \in Importers, NEW replace \in BOOLEAN, NEW plan \in Contents,
             Check(p, plan, replace)
      PROVE  RunInv'
  BY <1>3, Checks
<1>4. ASSUME NEW p \in Importers, Prepare(p) PROVE RunInv'
  BY <1>4, Prepares
<1>5. ASSUME NEW p \in Importers, Dispatch(p) PROVE RunInv'
  BY <1>5, Dispatches
<1>6. ASSUME NEW p \in Importers, Tool(p) PROVE RunInv'
  BY <1>6, ToolWorks
<1>7. ASSUME NEW p \in Importers, ToolFails(p) PROVE RunInv'
  BY <1>7, ToolGivesUp
<1>8. ASSUME NEW p \in Importers, Finish(p) PROVE RunInv'
  BY <1>8, Finishes
<1>9. ASSUME NEW p \in Importers, FailsUnseen(p) PROVE RunInv'
  BY <1>9, FailsWithoutLook
<1>10. ASSUME NEW p \in Importers, RunStops(p) PROVE RunInv'
  BY <1>10, RunIsGivenUp
<1>11. CASE Exchange
  BY <1>11, Exchanged
<1>12. CASE Others
  BY <1>12, OthersWork
<1> QED
  BY <1>1, <1>2, <1>3, <1>4, <1>5, <1>6, <1>7, <1>8, <1>9, <1>10, <1>11, <1>12 DEF RunNext

\* What the runs of `skill-runtime.mjs run` preserve: a run that nothing disturbs
\* is the only one, its contract is the approved one, its record says "prepared"
\* while targets change, and a target its tool has nothing to write to has the
\* approved content.
THEOREM RunInvariant == ASSUME RecordsAreApart PROVE RunSpec => []RunInv
<1>1. RunInit => RunInv
  BY RunStarts
<1>2. RunInv /\ [RunNext]_<<importVars, runVars>> => RunInv'
  BY RunStep
<1> QED
  BY <1>1, <1>2, PTL DEF RunSpec

\* What the record of a run says happened did, and it can be read again unless it
\* is that of a failure with an error no reader takes, for any number of processes
\* and contents, however runs die or fail.
THEOREM RecordsAreTrue == ASSUME RecordsAreApart PROVE RunSpec => []RecordIsTrue
<1>1. RunInv => RecordIsTrue
  BY DEF RunInv, RecordIsTrue, RecordFits, RecordIsOfContent, RunIsUndisturbed
<1> QED
  BY <1>1, RunInvariant, PTL

\* A run changes files as an import does.
LEMMA RunsImport ==
  ASSUME BackupsSuffice, ImportInv, contract \in Contents, [RunNext]_<<importVars, runVars>>
  PROVE  ImportInv'
<1>1. CASE UNCHANGED importVars
  BY <1>1, ImportStep
<1>2. ASSUME NEW p \in Importers, Dispatch(p) PROVE ImportInv'
  BY <1>1, <1>2, Begins DEF Dispatch
<1>3. ASSUME NEW p \in Importers, Tool(p) PROVE ImportInv'
  BY <1>3, BacksUp, WritesInTurn DEF Tool
<1>4. ASSUME NEW p \in Importers, ToolFails(p) PROVE ImportInv'
  BY <1>4, Stops DEF ToolFails
<1>5. ASSUME NEW p \in Importers, RunStops(p) PROVE ImportInv'
  BY <1>5, GivesUpWriting DEF RunStops
<1>6. CASE Others
  BY <1>6, Begins, Stops, Edits DEF Others
<1> QED
  BY <1>1, <1>2, <1>3, <1>4, <1>5, <1>6
  DEF RunNext, RecordApproval, Check, Prepare, Finish, FailsUnseen, Exchange

\* Both at once, for the imports of runs and those beside them: nothing that was
\* overwritten is lost, and no record claims what did not happen.
THEOREM NothingHides ==
  ASSUME BackupsSuffice, RecordsAreApart PROVE RunSpec => []NothingIsHidden
<1>1. RunInit => ImportInv
  BY ImportStarts DEF RunInit
<1>2. RunInv /\ ImportInv /\ [RunNext]_<<importVars, runVars>> => ImportInv'
  BY RunsImport DEF RunInv, RunTyped
<1>3. RunSpec => []ImportInv
  BY <1>1, <1>2, RunInvariant, PTL DEF RunSpec
<1>4. ImportInv => OverwrittenIsKept
  BY NearIsKept
<1> QED
  BY <1>3, <1>4, RecordsAreTrue, PTL DEF NothingIsHidden

-----------------------------------------------------------------------------
\* The chain of packages, see ArtifactChain.

\* What is installed is what the tools write: plans over materials, and a cv.md
\* of sections that came from materials or by hand.
ChainTyped ==
  /\ chain \in Chains
  /\ DOMAIN package = Kinds /\ DOMAIN document = Kinds
  /\ package["evidence"] \in Packages \cup {Missing}
  /\ package["materials"] \in Materials \cup {Missing}
  /\ package["final"] \in Plans \cup {Missing}
  /\ document["final"] \in Cvs \cup {Missing}
  /\ document["evidence"] = Missing /\ document["library"] = Missing
  /\ cut \in BOOLEAN

\* The inductive invariant.
ChainInv == ChainTyped /\ NoOrphanSections

\* An import changes its package and its document, or the package alone.
LEMMA Installs ==
  ASSUME ChainTyped, NEW k \in Kinds, NEW c, NEW text, NEW replace, InstallPackage(k, c, text, replace)
  PROVE  /\ chain' = chain
         /\ DOMAIN package' = Kinds /\ DOMAIN document' = Kinds
         /\ package'[k] = c
         /\ \A l \in Kinds \ {k} : package'[l] = package[l] /\ document'[l] = document[l]
         /\ \/ document'[k] = text /\ cut' = cut
            \/ /\ document' = document /\ package[k] # c
               /\ cut' = (cut \/ (k = "final" /\ package[k] # Missing))
BY DEF InstallPackage, ChainTyped

\* An import of anything but the plan keeps the invariant.
LEMMA InstallsOther ==
  ASSUME ChainInv, NEW k \in Kinds \ {"final"}, NEW c, NEW text, NEW replace,
         InstallPackage(k, c, text, replace),
         k = "evidence" => c \in Packages,
         k = "materials" => c \in Materials,
         k \in {"evidence", "library"} => text = Missing
  PROVE  ChainInv'
<1>1. /\ chain' = chain
      /\ DOMAIN package' = Kinds /\ DOMAIN document' = Kinds
      /\ package'[k] = c
      /\ \A l \in Kinds \ {k} : package'[l] = package[l] /\ document'[l] = document[l]
      /\ document'[k] = text \/ document' = document
      /\ cut' = cut
  BY Installs DEF ChainInv, ChainTyped
<1>2. {"evidence", "materials", "final", "library"} \subseteq Kinds
  BY DEF Kinds
<1>3. package'["final"] = package["final"] /\ document'["final"] = document["final"]
  BY <1>1, <1>2
<1>4. /\ package'["evidence"] \in Packages \cup {Missing}
      /\ package'["materials"] \in Materials \cup {Missing}
  BY <1>1, <1>2 DEF ChainInv, ChainTyped
<1>5. document'["evidence"] = Missing /\ document'["library"] = Missing
  BY <1>1, <1>2 DEF ChainInv, ChainTyped
<1>6. ChainTyped'
  BY <1>1, <1>3, <1>4, <1>5 DEF ChainInv, ChainTyped
<1>7. NoOrphanSections'
  BY <1>1, <1>3 DEF ChainInv, NoOrphanSections
<1> QED
  BY <1>6, <1>7 DEF ChainInv

\* What a plan leaves of cv.md.
LEMMA Renders ==
  ASSUME NEW plan \in Plans, NEW cv \in Cvs \cup {Missing}, NEW previous \in Plans \cup {Missing}
  PROVE  /\ RenderedCv(cv, plan, previous) \in Cvs
         /\ \A s \in Sections :
              RenderedCv(cv, plan, previous)[s] \in Materials /\ s \notin plan.sections =>
                /\ cv # Missing /\ cv[s] \in Materials
                /\ previous = Missing \/ s \notin previous.sections
<1>1. plan.materials \in Materials
  BY DEF Plans
<1>2. \A s \in Sections : cv # Missing => cv[s] \in Materials \cup {Hand, Twice, Missing}
  BY DEF Cvs
<1>3. \A s \in Sections :
        RenderedCv(cv, plan, previous)[s] \in Materials \cup {Hand, Twice, Missing}
  BY <1>1, <1>2 DEF RenderedCv
<1>4. RenderedCv(cv, plan, previous) \in Cvs
  BY <1>3 DEF Cvs, RenderedCv
<1>5. Missing \notin Materials
  BY TextsAssumption
<1> QED
  BY <1>4, <1>5 DEF RenderedCv

\* A plan that replaces another takes the sections only that one had out of cv.md.
LEMMA ImportsPlan ==
  ASSUME ChainInv, NEW sections \in SUBSET Sections \ {{}}, NEW replace, ImportFinal(sections, replace)
  PROVE  ChainInv'
<1> DEFINE c == [materials |-> package["materials"], sections |-> sections]
           text == RenderedCv(document["final"], c, package["final"])
<1>1. FinalValid(c) /\ InstallPackage("final", c, text, replace)
  BY DEF ImportFinal
<1>2. {"evidence", "materials", "final", "library"} \subseteq Kinds
  BY DEF Kinds
<1>3. package["materials"] \in Materials
  BY <1>1 DEF FinalValid, HasMaterials, MaterialsState, ChainInv, ChainTyped
<1>4. c \in Plans
  BY <1>3 DEF Plans
<1> HIDE DEF c
<1>5. /\ text \in Cvs
      /\ \A s \in Sections :
           text[s] \in Materials /\ s \notin c.sections =>
             /\ document["final"] # Missing /\ document["final"][s] \in Materials
             /\ package["final"] = Missing \/ s \notin package["final"].sections
  BY <1>4, Renders DEF ChainInv, ChainTyped
<1> HIDE DEF text
<1>6. /\ chain' = chain
      /\ DOMAIN package' = Kinds /\ DOMAIN document' = Kinds
      /\ package'["final"] = c
      /\ \A l \in Kinds \ {"final"} : package'[l] = package[l] /\ document'[l] = document[l]
      /\ \/ document'["final"] = text /\ cut' = cut
         \/ /\ document' = document /\ package["final"] # c
            /\ cut' = (cut \/ package["final"] # Missing)
  BY <1>1, <1>2, Installs DEF ChainInv
<1>7. ChainTyped'
  BY <1>2, <1>4, <1>5, <1>6 DEF ChainInv, ChainTyped
<1>8. c # Missing
  BY <1>4, TextsAssumption
<1>9. NoOrphanSections'
  <2> SUFFICES ASSUME ~cut', document'["final"] # Missing, NEW s \in Sections,
                      document'["final"][s] \in Materials
               PROVE  s \in c.sections
    BY <1>6, <1>8 DEF NoOrphanSections
  <2>1. CASE document'["final"] = text /\ cut' = cut
    BY <1>5, <2>1 DEF ChainInv, NoOrphanSections
  <2>2. CASE document' = document /\ cut' = (cut \/ package["final"] # Missing)
    BY <2>2 DEF ChainInv, NoOrphanSections
  <2> QED
    BY <1>6, <2>1, <2>2
<1> QED
  BY <1>7, <1>9 DEF ChainInv

LEMMA Discards ==
  ASSUME ChainInv, NEW k \in Kinds, Discard(k)
  PROVE  ChainInv'
<1>1. ChainTyped'
  BY DEF ChainInv, ChainTyped, Discard, Kinds
<1>2. NoOrphanSections'
  <2>1. CASE k = "final"
    BY <2>1 DEF Discard, NoOrphanSections
  <2>2. CASE k # "final"
    <3>1. package'["final"] = package["final"] /\ document' = document /\ (cut' <=> cut)
      BY <2>2 DEF Discard, ChainInv, ChainTyped, Kinds
    <3> QED
      BY <3>1 DEF ChainInv, NoOrphanSections
  <2> QED
    BY <2>1, <2>2
<1> QED
  BY <1>1, <1>2 DEF ChainInv

LEMMA Rewrites ==
  ASSUME ChainInv,
         \/ \E k \in WithDocument \ {"final"} : document[k] # Missing /\ Rewrite(k, Hand)
         \/ \E s \in Sections, text \in {Hand, Twice, Missing} : RewriteSection(s, text)
  PROVE  ChainInv'
<1>1. CASE \E k \in WithDocument \ {"final"} : document[k] # Missing /\ Rewrite(k, Hand)
  <2>1. PICK k \in WithDocument \ {"final"} : Rewrite(k, Hand)
    BY <1>1
  <2>2. /\ document' = [document EXCEPT ![k] = Hand]
        /\ UNCHANGED <<chain, package, cut>>
    BY <2>1 DEF Rewrite
  <2>3. /\ DOMAIN document' = Kinds
        /\ document'["final"] = document["final"]
        /\ document'["evidence"] = Missing /\ document'["library"] = Missing
    BY <2>2 DEF ChainInv, ChainTyped, WithDocument, Kinds
  <2> QED
    BY <2>2, <2>3 DEF ChainInv, ChainTyped, NoOrphanSections
<1>2. ASSUME NEW s \in Sections, NEW text \in {Hand, Twice, Missing}, RewriteSection(s, text)
      PROVE  ChainInv'
  <2> DEFINE cv == [document["final"] EXCEPT ![s] = text]
  <2>1. /\ document["final"] # Missing
        /\ document' = [document EXCEPT !["final"] = cv]
        /\ UNCHANGED <<chain, package, cut>>
    BY <1>2 DEF RewriteSection, Rewrite
  <2>2. document["final"] \in Cvs
    BY <2>1 DEF ChainInv, ChainTyped
  <2>3. cv \in Cvs
    BY <2>2 DEF Cvs
  <2>4. \A t \in Sections : cv[t] \in Materials => document["final"][t] \in Materials
    BY <2>2, TextsAssumption DEF Cvs
  <2> HIDE DEF cv
  <2>5. /\ DOMAIN document' = Kinds
        /\ document'["final"] = cv
        /\ document'["evidence"] = Missing /\ document'["library"] = Missing
    BY <2>1 DEF ChainInv, ChainTyped, Kinds
  <2>6. ChainTyped'
    BY <2>1, <2>3, <2>5 DEF ChainInv, ChainTyped
  <2>7. NoOrphanSections'
    BY <2>1, <2>4, <2>5 DEF ChainInv, NoOrphanSections
  <2> QED
    BY <2>6, <2>7 DEF ChainInv
<1> QED
  BY <1>1, <1>2

LEMMA ChainStep ==
  ASSUME ChainInv, [ChainNext]_chainVars
  PROVE  ChainInv'
<1> USE DEF Kinds
<1>1. ASSUME NEW replace \in BOOLEAN, NEW c \in Packages, ImportEvidence(c, replace)
      PROVE  ChainInv'
  BY <1>1, InstallsOther DEF ImportEvidence
<1>2. ASSUME NEW replace \in BOOLEAN, NEW c \in Materials, ImportMaterials(c, replace)
      PROVE  ChainInv'
  BY <1>2, InstallsOther DEF ImportMaterials
<1>3. ASSUME NEW replace \in BOOLEAN, NEW sections \in SUBSET Sections \ {{}},
             ImportFinal(sections, replace)
      PROVE  ChainInv'
  BY <1>3, ImportsPlan
<1>4. ASSUME NEW replace \in BOOLEAN, NEW toMaterials \in BOOLEAN, NEW toFinal \in BOOLEAN,
             ImportRender(toMaterials, toFinal, replace)
      PROVE  ChainInv'
  BY <1>4, InstallsOther DEF ImportRender
<1>5. ASSUME NEW replace \in BOOLEAN, NEW toFinal \in BOOLEAN, NEW toRender \in BOOLEAN,
             NEW wording, NEW draft \in BOOLEAN,
             ImportLibrary(toFinal, toRender, wording, draft, replace)
      PROVE  ChainInv'
  BY <1>5, InstallsOther DEF ImportLibrary
<1>6. ASSUME NEW replace \in BOOLEAN, ImportAnalysis(replace) PROVE ChainInv'
  BY <1>6, InstallsOther DEF ImportAnalysis
<1>7. ASSUME NEW replace \in BOOLEAN, ImportPrep(replace) PROVE ChainInv'
  BY <1>7, InstallsOther DEF ImportPrep
<1>8. ASSUME NEW replace \in BOOLEAN, NEW prep \in BOOLEAN, ImportReview(prep, replace)
      PROVE  ChainInv'
  BY <1>8, InstallsOther DEF ImportReview
<1>9. ASSUME NEW replace \in BOOLEAN, ImportFeedback(replace) PROVE ChainInv'
  BY <1>9, InstallsOther DEF ImportFeedback
<1>10. ASSUME NEW k \in Kinds, Discard(k) PROVE ChainInv'
  BY <1>10, Discards
<1>11. CASE UNCHANGED chainVars
  BY <1>11 DEF chainVars, ChainInv, ChainTyped, NoOrphanSections
<1> QED
  BY <1>1, <1>2, <1>3, <1>4, <1>5, <1>6, <1>7, <1>8, <1>9, <1>10, <1>11, Rewrites DEF ChainNext

LEMMA ChainStarts == ChainInit => ChainInv
BY DEF ChainInit, ChainInv, ChainTyped, NoOrphanSections, Kinds

\* The states the audit asks for, from the worst on.
Troubles == {"invalid", "missing", "blocked", "drifted", "unbound"}

\* The worst of some states is "ready" when there is no trouble among them, and a
\* trouble otherwise.
LEMMA WorstOf ==
  ASSUME NEW states
  PROVE  /\ Worst(states) \in Troubles \cup {"ready"}
         /\ Worst(states) = "ready" => states \cap Troubles = {}
<1> DEFINE order == <<"invalid", "missing", "blocked", "drifted", "unbound">>
           met == {i \in DOMAIN order : order[i] \in states}
<1>1. \A i \in DOMAIN order : order[i] \in Troubles
  BY DEF Troubles
<1>2. met # {} => \E i \in met : \A j \in met : i <= j
  <2>1. DOMAIN order = 1 .. 5
    OBVIOUS
  <2>2. CASE 1 \in met
    BY <2>1, <2>2
  <2>3. CASE 1 \notin met /\ 2 \in met
    BY <2>1, <2>3
  <2>4. CASE {1, 2} \cap met = {} /\ 3 \in met
    BY <2>1, <2>4
  <2>5. CASE {1, 2, 3} \cap met = {} /\ 4 \in met
    BY <2>1, <2>5
  <2>6. CASE {1, 2, 3, 4} \cap met = {} /\ 5 \in met
    BY <2>1, <2>6
  <2> HIDE DEF order
  <2> QED
    BY <2>1, <2>2, <2>3, <2>4, <2>5, <2>6
<1>3. met # {} => (CHOOSE i \in met : \A j \in met : i <= j) \in DOMAIN order
  BY <1>2
<1>4. Worst(states) = IF met = {} THEN "ready" ELSE order[CHOOSE i \in met : \A j \in met : i <= j]
  BY DEF Worst
<1>5. "ready" \notin Troubles
  BY DEF Troubles
<1>6. Troubles = {order[1], order[2], order[3], order[4], order[5]} /\ DOMAIN order = 1 .. 5
  BY DEF Troubles
<1>7. Worst(states) \in Troubles \cup {"ready"}
  BY <1>1, <1>3, <1>4
<1>8. ASSUME Worst(states) = "ready" PROVE states \cap Troubles = {}
  <2>1. met = {}
    BY <1>1, <1>3, <1>4, <1>5, <1>8
  <2> QED
    BY <1>6, <2>1
<1> QED
  BY <1>7, <1>8

\* A chain the audit calls ready has each of its parts ready.
LEMMA AuditIsReady ==
  ASSUME AuditState = "ready"
  PROVE  /\ HasMaterials
         /\ document["materials"] = package["materials"]
         /\ package["final"] # Missing /\ package["final"].materials = package["materials"]
         /\ AuditedPlan = package["final"]
         /\ document["final"] # Missing
         /\ RenderedCv(document["final"], package["final"], Missing) = document["final"]
         /\ AuditRender = "ready" /\ AuditLibrary = "ready"
<1> DEFINE states == {MaterialsState, AuditStory, AuditPlan, AuditCv, AuditRender, AuditLibrary}
<1>1. Worst(states) = "ready"
  BY DEF AuditState
<1>2. states \cap Troubles = {}
  BY <1>1, WorstOf
<1>3. HasMaterials
  BY <1>2 DEF HasMaterials, MaterialsState, Troubles
<1>4. document["materials"] = package["materials"]
  BY <1>2 DEF AuditStory, Troubles
<1>5. package["final"] # Missing /\ AuditedPlan # Missing
  BY <1>2, <1>3 DEF AuditPlan, Troubles
<1>6. package["final"].materials = package["materials"] /\ AuditedPlan = package["final"]
  BY <1>5 DEF AuditedPlan
<1>7. /\ document["final"] # Missing
      /\ RenderedCv(document["final"], package["final"], Missing) = document["final"]
  BY <1>2, <1>5, <1>6 DEF AuditCv, Troubles
<1>8. AuditRender = "ready"
  <2>1. AuditRender \in Troubles \cup {"ready"}
    BY WorstOf DEF AuditRender, Troubles
  <2> QED
    BY <1>2, <2>1
<1>9. AuditLibrary = "ready"
  <2>1. AuditLibrary \in Troubles \cup {"ready"}
    BY WorstOf DEF AuditLibrary, Troubles
  <2> QED
    BY <1>2, <2>1
<1> QED
  BY <1>3, <1>4, <1>5, <1>6, <1>7, <1>8, <1>9

\* A render the audit calls ready is one the render tool calls ready.
LEMMA RenderIsReady ==
  ASSUME AuditState = "ready"
  PROVE  InspectRender = "ready" /\ DocumentIsCurrent("render")
<1> DEFINE c == package["render"]
           states == ({MaterialsBinding(c)} \ {"unbound"}) \cup {FinalBinding(c)}
                     \cup (IF DocumentIsCurrent("render") THEN {} ELSE {"drifted"})
<1>1. package["render"] # Missing /\ Worst(states) = "ready"
  BY AuditIsReady DEF AuditRender
<1>2. states \cap Troubles = {}
  BY <1>1, WorstOf
<1>3. DocumentIsCurrent("render")
  BY <1>2 DEF Troubles
<1>4. FinalBinding(c) \notin Troubles /\ (MaterialsBinding(c) = "unbound" \/ MaterialsBinding(c) \notin Troubles)
  BY <1>2
<1>5. BoundToMaterials(c)
  BY <1>4 DEF MaterialsBinding, BoundToMaterials, Troubles
<1>6. c.plan = AuditedPlan /\ c.cv = document["final"] /\ document["final"] # Missing
  BY <1>4 DEF FinalBinding, Troubles
<1>7. BoundToFinal(c)
  BY <1>6, AuditIsReady DEF BoundToFinal
<1>8. ProvenanceLoads
  BY AuditIsReady DEF ProvenanceLoads, HasMaterials, FinalValid
<1>9. Readable("render")
  BY <1>5, <1>7, <1>8 DEF Readable, Valid, RenderValid
<1> QED
  BY <1>1, <1>3, <1>8, <1>9 DEF InspectRender, Reported

\* The version the user sends out is cv.md, and each section of the plan in it is
\* that of the installed materials.
LEMMA LibraryIsReady ==
  ASSUME ChainTyped, AuditState = "ready"
  PROVE  /\ package["library"].content = document["final"]
         /\ \A s \in package["library"].plan.sections :
              package["library"].content[s] = package["materials"]
<1> DEFINE c == package["library"]
           states == {FinalBinding(c), RenderBinding(c)}
                     \cup (IF c.draft THEN {"blocked"} ELSE {})
                     \cup (IF document["final"] \in {Missing, c.content} THEN {} ELSE {"drifted"})
<1>1. Worst(states) = "ready"
  BY AuditIsReady DEF AuditLibrary
<1>2. states \cap Troubles = {}
  BY <1>1, WorstOf
<1>3. c.content = document["final"]
  BY <1>2, AuditIsReady DEF Troubles
<1>4. c.plan = package["final"]
  BY <1>2, AuditIsReady DEF FinalBinding, Troubles
<1>5. package["final"] \in Plans /\ package["final"].sections \subseteq Sections
  BY AuditIsReady DEF ChainTyped, Plans
<1>6. \A s \in package["final"].sections :
        RenderedCv(document["final"], package["final"], Missing)[s] = package["materials"]
  BY <1>5, AuditIsReady DEF RenderedCv
<1> QED
  BY <1>3, <1>4, <1>6, AuditIsReady

\* What is called ready rests on what is installed.
LEMMA ReadyRestsOnFiles ==
  ASSUME ChainTyped
  PROVE  ReadyIsGrounded
<1>1. ASSUME ~AuditThrows, AuditState = "ready"
      PROVE  /\ HasMaterials /\ DocumentIsCurrent("materials")
             /\ InspectFinal = "ready" /\ CvIsCurrent
             /\ InspectRender = "ready" /\ DocumentIsCurrent("render")
             /\ package["library"].content = document["final"]
             /\ \A s \in package["library"].plan.sections :
                  package["library"].content[s] = package["materials"]
  <2>1. InspectFinal = "ready"
    BY <1>1, AuditIsReady
    DEF InspectFinal, HasMaterials, Reported, Readable, Valid, FinalValid
  <2>2. package["final"] \in Plans /\ package["final"].sections \subseteq Sections
    BY <1>1, AuditIsReady DEF ChainTyped, Plans
  <2>3. package["materials"] \in Materials
    BY <1>1, AuditIsReady DEF ChainTyped, HasMaterials, MaterialsState
  <2>4. \A s \in package["final"].sections : document["final"][s] = package["materials"]
    BY <1>1, <2>2, AuditIsReady DEF RenderedCv
  <2>5. CvIsCurrent
    BY <1>1, <2>3, <2>4, AuditIsReady, TextsAssumption DEF CvIsCurrent
  <2> QED
    BY <1>1, <2>1, <2>5, AuditIsReady, RenderIsReady, LibraryIsReady DEF DocumentIsCurrent
<1>2. ASSUME InspectFeedback = "ready"
      PROVE  /\ package["review"].materials = package["materials"]
             /\ package["review"].prep => package["prep"].materials = package["materials"]
             /\ package["materials"] \in Citing => package["feedback"].evidence \in Supporting
  <2>1. /\ HasMaterials
        /\ package["feedback"] # Missing /\ Readable("feedback")
        /\ InspectReview = "ready"
    BY <1>2 DEF InspectFeedback, Reported
  <2>2. FeedbackValid(package["feedback"])
    BY <2>1 DEF Readable, Valid
  <2>3. /\ package["review"] # Missing /\ Readable("review") /\ PrepsLoad
    BY <2>1 DEF InspectReview, Reported
  <2>4. ReviewValid(package["review"])
    BY <2>3 DEF Readable, Valid
  <2>5. package["materials"] \in Citing => package["evidence"] \in Supporting
    BY <2>1 DEF HasMaterials, MaterialsState, MaterialsValid
  <2>6. package["feedback"].evidence = package["evidence"]
    BY <2>2 DEF FeedbackValid
  <2>7. package["review"].prep => package["prep"] # Missing
    BY <2>4 DEF ReviewValid, PrepIsThere
  <2> QED
    BY <2>3, <2>4, <2>5, <2>6, <2>7 DEF ReviewValid, PrepsLoad, PrepValid
<1> QED
  BY <1>1, <1>2 DEF ReadyIsGrounded

\* What is installed comes from the import tools, and cv.md has no section of a
\* plan that is not the installed one's, whatever resume-final.mjs, edits and
\* removals follow each other.
THEOREM ChainInvariant == ChainSpec => []ChainInv
<1>1. ChainInv /\ [ChainNext]_chainVars => ChainInv'
  BY ChainStep
<1> QED
  BY <1>1, ChainStarts, PTL DEF ChainSpec

\* Whenever the audit of resume-fact-chain.mjs says "ready", materials, plan,
\* render and library are of each other and of the files beside them; so with
\* capability feedback; and no section of a replaced plan stays in cv.md.
THEOREM ReadyIsSound == ChainSpec => []ChainIsSound
<1>1. ChainInv => ChainIsSound
  BY ReadyRestsOnFiles DEF ChainInv, ChainIsSound
<1> QED
  BY <1>1, ChainInvariant, PTL

-----------------------------------------------------------------------------
\* Opportunities and their rows, see CompanyOpportunity.

CompanyPackages ==
  [key : NaturalKeys, analysis : Nat, nodes : NodeLists, artifacts : SUBSET Mounts,
   status : Statuses]

\* The first state is one of the states; Unset is nothing else and has no elements.
CompanyIdsAreApart ==
  /\ Initial \in Statuses
  /\ Unset \notin Openings \cup CompanyPackages
  /\ \A d : <<d>> # Unset
  /\ \A x : x \notin Unset

IsRow(r) ==
  /\ DOMAIN r = {"num", "marker", "key", "status"}
  /\ r = [num |-> r.num, marker |-> r.marker, key |-> r.key, status |-> r.status]
  /\ r.marker \in Openings \cup {Unset} /\ r.key \in NaturalKeys /\ r.status \in Statuses

IsDraft(d) == d.id \in Openings /\ d.nodes \in NodeLists \cup {Unset}

CompanyTyped ==
  /\ analysis \in Nat /\ hands \in Nat /\ deaths \in Nat
  /\ opportunity \in [Openings -> CompanyPackages \cup {Unset}]
  /\ \A r \in Rows : IsRow(r)
  /\ \A d \in drafts : IsDraft(d)
  /\ chosen \in [Openings -> Statuses]
  /\ DOMAIN mounted = Mounts

\* A row that is lost is written again with the status of its package: where an
\* opportunity has no row, that status is the user's.
LostStatusIsKept ==
  \A o \in Installed : (\A r \in Rows : r.marker # o) => opportunity[o].status = chosen[o]

\* A plan has one draft, a recorded mount has a draft and, unless its node was
\* taken out since, its package.
MountsHaveDrafts ==
  /\ \A d, e \in drafts : d.plan = e.plan => d = e
  /\ \A m \in Mounts : mounted[m] # Unset => \E d \in drafts : d.plan = m
  /\ \A d \in drafts :
       d.plan \in Mounts /\ mounted[d.plan] # Unset /\ d.plan \notin dropped => d.id \in Installed

CompanyInv ==
  CompanyTyped /\ RowsFollowPackages /\ LostStatusIsKept /\ MountsAreKept /\ MountsHaveDrafts

LEMMA CompanyStarts == CompanyIdsAreApart /\ CompanyInit => CompanyInv
BY DEF CompanyIdsAreApart, CompanyInit, CompanyInv, CompanyTyped, RowsFollowPackages,
       LostStatusIsKept, MountsAreKept, MountsHaveDrafts, Installed, Rows, LinkedRows

\* What a step leaves of a package keeps the mounts, if the artifacts it takes
\* out are noted as dropped.
LEMMA ArtifactsMove ==
  ASSUME CompanyIdsAreApart, CompanyInv, NEW o \in Openings,
         NEW brought \in CompanyPackages \cup {Unset},
         opportunity' = [opportunity EXCEPT ![o] = brought],
         UNCHANGED <<drafts, mounted>>, deaths' >= deaths, deaths' \in Nat,
         brought # Unset => brought.artifacts \subseteq (IF opportunity[o] = Unset THEN {} ELSE opportunity[o].artifacts),
         dropped \subseteq dropped',
         opportunity[o] # Unset => \A m \in opportunity[o].artifacts :
           m \in dropped' \/ (brought # Unset /\ m \in brought.artifacts)
  PROVE  MountsAreKept' /\ MountsHaveDrafts'
<1>1. /\ opportunity'[o] = brought
      /\ \A p \in Openings : p # o => opportunity'[p] = opportunity[p]
  BY DEF CompanyInv, CompanyTyped
<1>2. ASSUME NEW d \in drafts, d.plan \in Mounts, mounted[d.plan] # Unset, d.plan \notin dropped'
      PROVE  opportunity'[d.id] # Unset /\ d.plan \in opportunity'[d.id].artifacts
  <2>1. d.id \in Installed /\ d.plan \in opportunity[d.id].artifacts
    BY <1>2 DEF CompanyInv, MountsAreKept, MountsHaveDrafts
  <2> QED
    BY <1>1, <1>2, <2>1 DEF Installed
<1>3. ASSUME deaths' = 0, NEW p \in Openings, opportunity'[p] # Unset,
             NEW m \in opportunity'[p].artifacts
      PROVE  mounted[m] # Unset
  <2>1. deaths = 0
    BY <1>3 DEF CompanyInv, CompanyTyped
  <2>2. opportunity[p] # Unset /\ m \in opportunity[p].artifacts
    BY <1>1, <1>3
  <2> QED
    BY <2>1, <2>2 DEF CompanyInv, MountsAreKept, Installed
<1>4. MountsAreKept'
  BY <1>2, <1>3 DEF MountsAreKept, Installed
<1>5. MountsHaveDrafts'
  BY <1>2 DEF MountsHaveDrafts, CompanyInv, Installed, CompanyTyped, IsDraft
<1> QED
  BY <1>4, <1>5

\* An import writes a package under its own identity, and the row of the id with
\* the status of that package.
LEMMA Imports ==
  ASSUME CompanyIdsAreApart, CompanyInv, NEW o \in Openings, NEW key \in NaturalKeys,
         NEW nodes \in NodeLists, NEW read \in 1 .. analysis, NEW replace,
         Import(o, key, nodes, read, replace)
  PROVE  CompanyInv'
<1> DEFINE rows == LinkedRows(o, key)
           status == TrackerStatus(o, rows)
           desired == [key |-> key, analysis |-> read, nodes |-> nodes, status |-> status,
                       artifacts |-> MergedArtifacts(nodes, o)]
           row == TrackerRow(o, key, rows, status)
<1>1. /\ IdentityIsFree(o, key)
      /\ ConflictingRows(o, key) = {}
      /\ rows # {} => opportunity[o] # Unset
      /\ opportunity' = [opportunity EXCEPT ![o] = desired]
      /\ chosen' = [chosen EXCEPT ![o] = IF opportunity[o] = Unset THEN Initial ELSE @]
      /\ dropped' = Dropped(o, NodesOf[nodes])
      /\ \/ /\ tracker' = tracker /\ rows # {} /\ deaths' = deaths
         \/ /\ tracker' = (Rows \ rows) \cup {row} /\ deaths' = deaths
         \/ /\ tracker' = tracker /\ deaths' = deaths + 1
      /\ UNCHANGED <<analysis, drafts, mutated, mounted, hands>>
  BY DEF Import, Dies
<1>2. \A r \in Rows : r.marker = o <=> r.key = key
  BY <1>1 DEF ConflictingRows
<1>3. \A r \in Rows : r \in rows <=> r.marker = o
  BY <1>2 DEF LinkedRows
<1>4. rows \subseteq Rows /\ \A r, s \in rows : r = s
  BY <1>3 DEF LinkedRows, CompanyInv, RowsFollowPackages, CompanyIdsAreApart
<1>5. rows # {} => (CHOOSE r \in rows : TRUE) \in rows
  OBVIOUS
<1>6. /\ rows # {} => status = chosen[o]
      /\ rows = {} /\ opportunity[o] # Unset => status = chosen[o]
      /\ rows = {} /\ opportunity[o] = Unset => status = Initial
  <2>1. CASE rows # {}
    BY <1>3, <1>4, <1>5, <2>1
    DEF TrackerStatus, CompanyInv, RowsFollowPackages, CompanyIdsAreApart
  <2>2. CASE rows = {} /\ opportunity[o] # Unset
    BY <1>3, <2>2 DEF TrackerStatus, CompanyInv, LostStatusIsKept, Installed
  <2>3. CASE rows = {} /\ opportunity[o] = Unset
    BY <2>3 DEF TrackerStatus
  <2> QED
    BY <2>1, <2>2, <2>3
<1>7. /\ chosen'[o] = status /\ status \in Statuses
      /\ \A p \in Openings : p # o => chosen'[p] = chosen[p]
      /\ chosen' \in [Openings -> Statuses]
  BY <1>1, <1>6 DEF CompanyInv, CompanyTyped, CompanyIdsAreApart
<1>8. /\ row.marker = o /\ row.key = key /\ row.status = status /\ IsRow(row)
  <2>1. rows # {} => (CHOOSE r \in rows : TRUE).status = status
    BY DEF TrackerStatus
  <2> QED
    BY <1>7, <2>1 DEF TrackerRow, IsRow
<1>9. MergedArtifacts(nodes, o) \in SUBSET Mounts
  BY DEF MergedArtifacts, CompanyInv, CompanyTyped, CompanyPackages
<1>10. desired \in CompanyPackages
  BY <1>7, <1>9 DEF CompanyPackages, CompanyInv, CompanyTyped
<1>11. desired.artifacts = MergedArtifacts(nodes, o) /\ desired.key = key /\ desired.status = status
  OBVIOUS
<1>12. desired # Unset
  BY <1>10 DEF CompanyIdsAreApart
<1> HIDE DEF desired, row, status, rows
<1>13. /\ opportunity'[o] = desired
       /\ \A p \in Openings : p # o => opportunity'[p] = opportunity[p]
       /\ opportunity' \in [Openings -> CompanyPackages \cup {Unset}]
  BY <1>1, <1>10 DEF CompanyInv, CompanyTyped
<1>14. Installed' = Installed \cup {o}
  BY <1>12, <1>13 DEF Installed
<1>15. /\ Rows' = Rows \/ Rows' = (Rows \ rows) \cup {row}
       /\ ~(Rows' = (Rows \ rows) \cup {row}) => rows # {} \/ deaths' # 0
       /\ deaths' >= deaths /\ deaths' \in Nat
  <2>1. (Rows \ rows) \cup {row} # Unset
    BY DEF CompanyIdsAreApart
  <2>2. tracker' = (Rows \ rows) \cup {row} => Rows' = (Rows \ rows) \cup {row}
    BY <2>1 DEF Rows
  <2>3. tracker' = tracker => Rows' = Rows
    BY DEF Rows
  <2> QED
    BY <1>1, <2>2, <2>3 DEF CompanyInv, CompanyTyped
<1>16. CompanyTyped'
  BY <1>1, <1>7, <1>8, <1>13, <1>15 DEF CompanyInv, CompanyTyped
<1>17. \A r \in Rows' : r = row \/ r \in Rows
  BY <1>15
<1>18. \A r \in Rows' : r.marker = o => (r = row \/ (Rows' = Rows /\ r \in rows))
  BY <1>3, <1>15
<1>19. RowsFollowPackages'
  <2>1. \A p, q \in Installed' : p # q => opportunity'[p].key # opportunity'[q].key
    BY <1>1, <1>11, <1>13, <1>14 DEF IdentityIsFree, CompanyInv, RowsFollowPackages, Installed
  <2>2. \A r, s \in Rows' : r.marker # Unset /\ r.marker = s.marker => r = s
    BY <1>3, <1>8, <1>15 DEF CompanyInv, RowsFollowPackages
  <2>3. \A r \in Rows' : r.marker # Unset => r.status = chosen'[r.marker]
    <3> SUFFICES ASSUME NEW r \in Rows', r.marker # Unset PROVE r.status = chosen'[r.marker]
      OBVIOUS
    <3>1. CASE r = row
      BY <1>7, <1>8, <3>1
    <3>2. CASE r \in Rows /\ r.marker = o
      BY <1>3, <1>6, <1>7, <3>2 DEF CompanyInv, RowsFollowPackages
    <3>3. CASE r \in Rows /\ r.marker # o
      BY <1>7, <3>3 DEF CompanyInv, RowsFollowPackages, CompanyTyped, IsRow
    <3> QED
      BY <1>17, <3>1, <3>2, <3>3
  <2>4. hands' = 0 => \A r \in Rows' : r.marker \in Installed' /\ opportunity'[r.marker].key = r.key
    BY <1>1, <1>2, <1>8, <1>11, <1>13, <1>14, <1>17 DEF CompanyInv, RowsFollowPackages, Installed
  <2>5. ASSUME hands' = 0, deaths' = 0, NEW p \in Installed' PROVE LinkedRows(p, opportunity[p].key)' # {}
    <3>1. CASE p = o
      <4>1. \E r \in Rows' : r.marker = o /\ r.key = key
        BY <1>2, <1>3, <1>4, <1>8, <1>15, <2>5
      <4> QED
        BY <1>11, <1>13, <3>1, <4>1 DEF LinkedRows
    <3>2. CASE p # o
      <4>1. p \in Installed /\ hands = 0 /\ deaths = 0 /\ opportunity'[p] = opportunity[p]
        BY <1>1, <1>13, <1>14, <1>15, <2>5, <3>2 DEF CompanyInv, CompanyTyped, Installed
      <4>2. PICK r \in Rows : r.marker = p /\ r.key = opportunity[p].key
        BY <4>1 DEF CompanyInv, RowsFollowPackages, LinkedRows
      <4>3. r \in Rows'
        BY <1>3, <1>15, <3>2, <4>2
      <4> QED
        BY <4>1, <4>2, <4>3 DEF LinkedRows
    <3> QED
      BY <3>1, <3>2
  <2> QED
    BY <2>1, <2>2, <2>3, <2>4, <2>5 DEF RowsFollowPackages
<1>20. LostStatusIsKept'
  <2> SUFFICES ASSUME NEW p \in Installed', \A r \in Rows' : r.marker # p
               PROVE  opportunity'[p].status = chosen'[p]
    BY DEF LostStatusIsKept
  <2>1. CASE p = o
    BY <1>7, <1>11, <1>13, <2>1
  <2>2. CASE p # o
    <3>1. \A r \in Rows : r.marker # p
      BY <1>3, <1>15, <2>2
    <3> QED
      BY <1>7, <1>13, <1>14, <2>2, <3>1 DEF CompanyInv, LostStatusIsKept, Installed
  <2> QED
    BY <2>1, <2>2
<1>21. MountsAreKept' /\ MountsHaveDrafts'
  <2>1. dropped \subseteq dropped'
    BY <1>1 DEF Dropped
  <2>2. desired.artifacts \subseteq (IF opportunity[o] = Unset THEN {} ELSE opportunity[o].artifacts)
    BY <1>11 DEF MergedArtifacts
  <2>3. opportunity[o] # Unset => \A m \in opportunity[o].artifacts : m \in dropped' \/ m \in desired.artifacts
    BY <1>1, <1>11 DEF MergedArtifacts, Dropped
  <2> QED
    BY <1>1, <1>10, <1>12, <1>15, <2>1, <2>2, <2>3, ArtifactsMove
<1> QED
  BY <1>16, <1>19, <1>20, <1>21 DEF CompanyInv

\* A plan that is installed changes nodes and artifacts of a package, and neither
\* its identity nor its status.
LEMMA PackageChanges ==
  ASSUME CompanyIdsAreApart, CompanyInv, NEW o \in Installed, NEW brought \in CompanyPackages,
         brought.key = opportunity[o].key, brought.status = opportunity[o].status,
         opportunity' = [opportunity EXCEPT ![o] = brought],
         UNCHANGED <<analysis, tracker, drafts, chosen, hands>>,
         deaths' \in {deaths, deaths + 1},
         DOMAIN mounted' = Mounts
  PROVE  CompanyTyped' /\ RowsFollowPackages' /\ LostStatusIsKept'
<1>1. o \in Openings /\ opportunity[o] # Unset /\ brought # Unset
  BY DEF Installed, CompanyIdsAreApart
<1>2. /\ opportunity'[o] = brought
      /\ \A p \in Openings : p # o => opportunity'[p] = opportunity[p]
      /\ opportunity' \in [Openings -> CompanyPackages \cup {Unset}]
  BY <1>1 DEF CompanyInv, CompanyTyped
<1>3. /\ Installed' = Installed
      /\ \A p \in Installed : opportunity'[p].key = opportunity[p].key
                              /\ opportunity'[p].status = opportunity[p].status
  BY <1>1, <1>2 DEF Installed
<1>4. Rows' = Rows /\ deaths' \in Nat /\ (deaths' = 0 => deaths = 0)
  BY DEF Rows, CompanyInv, CompanyTyped
<1>5. CompanyTyped'
  BY <1>2, <1>4 DEF CompanyInv, CompanyTyped
<1>6. RowsFollowPackages'
  <2>1. \A p \in Installed : LinkedRows(p, opportunity[p].key)' = LinkedRows(p, opportunity[p].key)
    BY <1>3, <1>4 DEF LinkedRows
  <2> QED
    BY <1>3, <1>4, <2>1 DEF CompanyInv, RowsFollowPackages
<1>7. LostStatusIsKept'
  BY <1>3, <1>4 DEF CompanyInv, LostStatusIsKept
<1> QED
  BY <1>5, <1>6, <1>7

LEMMA Mutates ==
  ASSUME CompanyIdsAreApart, CompanyInv, NEW d \in drafts, MutateNodes(d)
  PROVE  CompanyInv'
<1> DEFINE o == d.id
           brought == [opportunity[o] EXCEPT !.nodes = d.nodes,
                                             !.artifacts = MergedArtifacts(d.nodes, o)]
<1>1. /\ o \in Installed /\ IsMutation(d)
      /\ opportunity' = [opportunity EXCEPT ![o] = brought]
      /\ dropped' = Dropped(o, NodesOf[brought.nodes])
      /\ deaths' = deaths \/ deaths' = deaths + 1
      /\ UNCHANGED <<analysis, tracker, drafts, mounted, chosen, hands>>
  BY DEF MutateNodes, Dies
<1>2. opportunity[o] \in CompanyPackages /\ opportunity[o] # Unset
  BY <1>1 DEF Installed, CompanyInv, CompanyTyped
<1>3. d.nodes \in NodeLists
  BY <1>1 DEF IsMutation, CompanyInv, CompanyTyped, IsDraft
<1>4. /\ MergedArtifacts(d.nodes, o) \subseteq opportunity[o].artifacts
      /\ MergedArtifacts(d.nodes, o) \in SUBSET Mounts
  BY <1>2 DEF MergedArtifacts, CompanyPackages
<1>5. /\ brought \in CompanyPackages
      /\ brought.key = opportunity[o].key /\ brought.status = opportunity[o].status
      /\ brought.nodes = d.nodes /\ brought.artifacts = MergedArtifacts(d.nodes, o)
  BY <1>2, <1>3, <1>4 DEF CompanyPackages
<1>6. /\ dropped \subseteq dropped'
      /\ \A m \in opportunity[o].artifacts : m \in dropped' \/ m \in brought.artifacts
  BY <1>1, <1>2, <1>5 DEF Dropped, MergedArtifacts
<1> HIDE DEF brought
<1>7. CompanyTyped' /\ RowsFollowPackages' /\ LostStatusIsKept'
  <2>1. DOMAIN mounted' = Mounts /\ deaths' \in {deaths, deaths + 1}
    BY <1>1 DEF CompanyInv, CompanyTyped
  <2> QED
    BY <1>1, <1>5, <2>1, PackageChanges
<1>8. MountsAreKept' /\ MountsHaveDrafts'
  <2>1. deaths' \in Nat /\ deaths' >= deaths /\ o \in Openings
    BY <1>1 DEF CompanyInv, CompanyTyped, Installed
  <2>2. brought.artifacts \subseteq (IF opportunity[o] = Unset THEN {} ELSE opportunity[o].artifacts)
    BY <1>2, <1>4, <1>5
  <2>3. brought # Unset
    BY <1>5 DEF CompanyIdsAreApart
  <2> QED
    BY <1>1, <1>5, <1>6, <2>1, <2>2, <2>3, ArtifactsMove
<1> QED
  BY <1>7, <1>8 DEF CompanyInv

\* A mount that is recorded is in its package, and one that dies is not recorded.
LEMMA MountLands ==
  ASSUME CompanyIdsAreApart, CompanyInv, NEW d \in drafts, Mount(d)
  PROVE  CompanyInv'
<1> DEFINE o == d.id
           brought == [opportunity[o] EXCEPT !.artifacts = @ \cup {d.plan}]
<1>1. /\ o \in Installed /\ d.plan \in Mounts
      /\ mounted[d.plan] = Unset
      /\ opportunity' = [opportunity EXCEPT ![o] = brought]
      /\ \/ mounted' = [mounted EXCEPT ![d.plan] = <<d>>] /\ deaths' = deaths
         \/ mounted' = mounted /\ deaths' = deaths + 1
      /\ UNCHANGED <<analysis, tracker, drafts, chosen, dropped, hands>>
  BY DEF Mount, Dies
<1>2. opportunity[o] \in CompanyPackages /\ opportunity[o] # Unset /\ o \in Openings
  BY <1>1 DEF Installed, CompanyInv, CompanyTyped
<1>3. /\ brought \in CompanyPackages
      /\ brought.key = opportunity[o].key /\ brought.status = opportunity[o].status
      /\ brought.artifacts = opportunity[o].artifacts \cup {d.plan}
  BY <1>1, <1>2 DEF CompanyPackages
<1>4. brought # Unset
  BY <1>3 DEF CompanyIdsAreApart
<1> HIDE DEF brought
<1>5. /\ DOMAIN mounted' = Mounts /\ deaths' \in {deaths, deaths + 1}
      /\ \A m \in Mounts : m # d.plan => mounted'[m] = mounted[m]
      /\ mounted[d.plan] # Unset => mounted'[d.plan] # Unset
      /\ deaths' = 0 => deaths = 0 /\ mounted'[d.plan] # Unset
  <2>1. <<d>> # Unset
    BY DEF CompanyIdsAreApart
  <2>2. DOMAIN mounted = Mounts /\ deaths \in Nat
    BY DEF CompanyInv, CompanyTyped
  <2>3. CASE mounted' = [mounted EXCEPT ![d.plan] = <<d>>] /\ deaths' = deaths
    BY <1>1, <2>1, <2>2, <2>3
  <2>4. CASE mounted' = mounted /\ deaths' = deaths + 1
    BY <1>1, <2>2, <2>4
  <2> QED
    BY <1>1, <2>3, <2>4
<1>6. CompanyTyped' /\ RowsFollowPackages' /\ LostStatusIsKept'
  BY <1>1, <1>3, <1>5, PackageChanges
<1>7. /\ opportunity'[o] = brought
      /\ \A p \in Openings : p # o => opportunity'[p] = opportunity[p]
      /\ Installed' = Installed
  BY <1>1, <1>2, <1>4 DEF CompanyInv, CompanyTyped, Installed
<1>8. \A p \in Installed : opportunity[p].artifacts \subseteq opportunity'[p].artifacts
  BY <1>3, <1>7 DEF Installed
<1>9. \A e \in drafts : e.plan = d.plan => e = d
  BY DEF CompanyInv, MountsHaveDrafts
<1>10. MountsAreKept'
  <2>1. ASSUME NEW e \in drafts, e.plan \in Mounts, mounted'[e.plan] # Unset, e.plan \notin dropped
        PROVE  e.plan \in opportunity'[e.id].artifacts /\ e.id \in Installed
    <3>1. CASE e = d
      BY <1>1, <1>3, <1>7, <3>1
    <3>2. CASE e # d
      BY <1>5, <1>8, <1>9, <2>1, <3>2 DEF CompanyInv, MountsAreKept, MountsHaveDrafts
    <3> QED
      BY <3>1, <3>2
  <2>2. ASSUME deaths' = 0, NEW p \in Installed, NEW m \in opportunity'[p].artifacts
        PROVE  mounted'[m] # Unset
    <3>1. m = d.plan \/ m \in opportunity[p].artifacts
      BY <1>3, <1>7, <2>2 DEF Installed
    <3>2. opportunity[p].artifacts \subseteq Mounts
      BY DEF Installed, CompanyInv, CompanyTyped, CompanyPackages
    <3> QED
      BY <1>5, <2>2, <3>1, <3>2 DEF CompanyInv, MountsAreKept
  <2> QED
    BY <1>1, <1>7, <2>1, <2>2 DEF MountsAreKept
<1>11. MountsHaveDrafts'
  <2>1. ASSUME NEW e \in drafts, e.plan \in Mounts, mounted'[e.plan] # Unset, e.plan \notin dropped
        PROVE  e.id \in Installed
    BY <1>1, <1>5, <1>9, <2>1 DEF CompanyInv, MountsHaveDrafts
  <2>2. \A m \in Mounts : mounted'[m] # Unset => \E e \in drafts : e.plan = m
    BY <1>5 DEF CompanyInv, MountsHaveDrafts
  <2> QED
    BY <1>1, <1>7, <2>1, <2>2 DEF CompanyInv, MountsHaveDrafts
<1> QED
  BY <1>6, <1>10, <1>11 DEF CompanyInv

\* A plan is confirmed once.
LEMMA Drafts ==
  ASSUME CompanyIdsAreApart, CompanyInv, NEW o \in Installed, NEW d, IsDraft(d), d.id = o,
         drafts' = drafts \cup {d}, \A e \in drafts : e.plan # d.plan,
         UNCHANGED <<analysis, files, chosen, dropped, commands, hands, deaths>>
  PROVE  CompanyInv'
<1>1. UNCHANGED <<opportunity, tracker, mounted>>
  BY DEF files
<1>2. Installed' = Installed /\ Rows' = Rows
  BY <1>1 DEF Installed, Rows
<1>3. CompanyTyped'
  BY <1>1, <1>2 DEF CompanyInv, CompanyTyped
<1>4. RowsFollowPackages' /\ LostStatusIsKept'
  BY <1>1, <1>2 DEF CompanyInv, RowsFollowPackages, LostStatusIsKept, LinkedRows
<1>5. d.plan \in Mounts => mounted[d.plan] = Unset
  BY DEF CompanyInv, MountsHaveDrafts
<1>6. MountsAreKept' /\ MountsHaveDrafts'
  BY <1>1, <1>2, <1>5 DEF CompanyInv, MountsAreKept, MountsHaveDrafts
<1> QED
  BY <1>3, <1>4, <1>6 DEF CompanyInv

\* What is done to the rows leaves packages and plans alone.
LEMMA RowsChange ==
  ASSUME CompanyInv, UNCHANGED <<analysis, opportunity, drafts, mounted, dropped, deaths>>,
         hands' \in Nat, \A r \in Rows' : IsRow(r), chosen' \in [Openings -> Statuses]
  PROVE  CompanyTyped' /\ MountsAreKept' /\ MountsHaveDrafts'
<1>1. Installed' = Installed
  BY DEF Installed
<1>2. CompanyTyped'
  BY DEF CompanyInv, CompanyTyped
<1> QED
  BY <1>1, <1>2 DEF CompanyInv, MountsAreKept, MountsHaveDrafts

LEMMA StatusIsSet ==
  ASSUME CompanyIdsAreApart, CompanyInv, NEW r \in Rows, NEW status \in Statuses, SetStatus(r, status)
  PROVE  CompanyInv'
<1> DEFINE s == [r EXCEPT !.status = status]
<1>1. /\ tracker' = (tracker \ {r}) \cup {s}
      /\ chosen' = [o \in Openings |-> IF o = r.marker THEN status ELSE chosen[o]]
      /\ UNCHANGED <<analysis, opportunity, drafts, mounted, dropped, hands, deaths>>
  BY DEF SetStatus
<1>2. IsRow(r)
  BY DEF CompanyInv, CompanyTyped
<1>3. s = [num |-> r.num, marker |-> r.marker, key |-> r.key, status |-> status]
  BY <1>2 DEF IsRow
<1>4. IsRow(s) /\ s.marker = r.marker /\ s.key = r.key /\ s.status = status
  BY <1>2, <1>3 DEF IsRow
<1> HIDE DEF s
<1>5. Rows' = (Rows \ {r}) \cup {s}
  BY <1>1 DEF Rows, CompanyIdsAreApart
<1>6. Installed' = Installed
  BY <1>1 DEF Installed
<1>7. chosen' \in [Openings -> Statuses] /\ (\A p \in Rows' : IsRow(p)) /\ hands' \in Nat
  BY <1>1, <1>4, <1>5 DEF CompanyInv, CompanyTyped
<1>8. CompanyTyped' /\ MountsAreKept' /\ MountsHaveDrafts'
  BY <1>1, <1>7, RowsChange
<1>9. RowsFollowPackages'
  <2>1. \A p, q \in Installed' : p # q => opportunity'[p].key # opportunity'[q].key
    BY <1>1, <1>6 DEF CompanyInv, RowsFollowPackages
  <2>2. \A p, q \in Rows' : p.marker # Unset /\ p.marker = q.marker => p = q
    BY <1>4, <1>5 DEF CompanyInv, RowsFollowPackages
  <2>3. \A p \in Rows' : p.marker # Unset => p.status = chosen'[p.marker]
    BY <1>1, <1>4, <1>5, <1>7 DEF CompanyInv, RowsFollowPackages, IsRow
  <2>4. hands' = 0 => \A p \in Rows' : p.marker \in Installed' /\ opportunity'[p.marker].key = p.key
    BY <1>1, <1>4, <1>5, <1>6 DEF CompanyInv, RowsFollowPackages
  <2>5. hands' = 0 /\ deaths' = 0 => \A o \in Installed' : LinkedRows(o, opportunity[o].key)' # {}
    BY <1>1, <1>4, <1>5, <1>6 DEF CompanyInv, RowsFollowPackages, LinkedRows
  <2> QED
    BY <2>1, <2>2, <2>3, <2>4, <2>5 DEF RowsFollowPackages
<1>10. LostStatusIsKept'
  BY <1>1, <1>4, <1>5, <1>6 DEF CompanyInv, LostStatusIsKept, Installed
<1> QED
  BY <1>8, <1>9, <1>10 DEF CompanyInv

LEMMA RowIsRemoved ==
  ASSUME CompanyIdsAreApart, CompanyInv, NEW r \in Rows, RemoveRow(r)
  PROVE  CompanyInv'
<1>1. /\ tracker' = tracker \ {r}
      /\ chosen' = [o \in Openings |->
           IF o = r.marker /\ o \in Installed THEN opportunity[o].status ELSE chosen[o]]
      /\ hands' = hands + 1
      /\ UNCHANGED <<analysis, opportunity, drafts, mounted, dropped, deaths>>
  BY DEF RemoveRow, ByHand
<1>2. Rows' = Rows \ {r}
  BY <1>1 DEF Rows, CompanyIdsAreApart
<1>3. Installed' = Installed
  BY <1>1 DEF Installed
<1>4. \A o \in Installed : opportunity[o].status \in Statuses
  BY DEF Installed, CompanyInv, CompanyTyped, CompanyPackages
<1>5. /\ chosen' \in [Openings -> Statuses]
      /\ (\A p \in Rows' : IsRow(p)) /\ hands' \in Nat /\ hands' # 0
  BY <1>1, <1>2, <1>4 DEF CompanyInv, CompanyTyped
<1>6. CompanyTyped' /\ MountsAreKept' /\ MountsHaveDrafts'
  BY <1>1, <1>5, RowsChange
<1>7. \A p \in Rows' : p.marker # Unset => p.marker # r.marker /\ p.marker \in Openings
  BY <1>2, <1>5 DEF CompanyInv, RowsFollowPackages, IsRow
<1>8. RowsFollowPackages'
  BY <1>1, <1>2, <1>3, <1>5, <1>7 DEF CompanyInv, RowsFollowPackages
<1>9. LostStatusIsKept'
  BY <1>1, <1>2, <1>3 DEF CompanyInv, LostStatusIsKept, Installed
<1> QED
  BY <1>6, <1>8, <1>9 DEF CompanyInv

LEMMA RowIsAdded ==
  ASSUME CompanyIdsAreApart, CompanyInv, NEW key \in NaturalKeys, AddRow(key)
  PROVE  CompanyInv'
<1> DEFINE r == [num |-> NextNumber, marker |-> Unset, key |-> key, status |-> Initial]
<1>1. /\ tracker' = Rows \cup {r}
      /\ hands' = hands + 1
      /\ UNCHANGED <<analysis, opportunity, drafts, mounted, chosen, dropped, deaths>>
  BY DEF AddRow, ByHand
<1>2. IsRow(r) /\ r.marker = Unset
  BY DEF IsRow, CompanyIdsAreApart
<1> HIDE DEF r
<1>3. Rows' = Rows \cup {r}
  BY <1>1 DEF Rows, CompanyIdsAreApart
<1>4. Installed' = Installed
  BY <1>1 DEF Installed
<1>5. /\ chosen' \in [Openings -> Statuses]
      /\ (\A p \in Rows' : IsRow(p)) /\ hands' \in Nat /\ hands' # 0
  BY <1>1, <1>2, <1>3 DEF CompanyInv, CompanyTyped
<1>6. CompanyTyped' /\ MountsAreKept' /\ MountsHaveDrafts'
  BY <1>1, <1>5, RowsChange
<1>7. RowsFollowPackages'
  BY <1>1, <1>2, <1>3, <1>4, <1>5 DEF CompanyInv, RowsFollowPackages
<1>8. LostStatusIsKept'
  BY <1>1, <1>2, <1>3, <1>4 DEF CompanyInv, LostStatusIsKept, Installed
<1> QED
  BY <1>6, <1>7, <1>8 DEF CompanyInv

LEMMA PackageIsRemoved ==
  ASSUME CompanyIdsAreApart, CompanyInv, NEW o \in Openings, RemovePackage(o)
  PROVE  CompanyInv'
<1>1. /\ o \in Installed
      /\ opportunity' = [opportunity EXCEPT ![o] = Unset]
      /\ dropped' = Dropped(o, {})
      /\ hands' = hands + 1
      /\ UNCHANGED <<analysis, tracker, drafts, mounted, chosen, deaths>>
  BY DEF RemovePackage, ByHand
<1>2. Rows' = Rows
  BY <1>1 DEF Rows
<1>3. /\ Installed' = Installed \ {o}
      /\ \A p \in Installed' : opportunity'[p] = opportunity[p]
  BY <1>1 DEF Installed, CompanyInv, CompanyTyped
<1>4. hands' \in Nat /\ hands' # 0
  BY <1>1 DEF CompanyInv, CompanyTyped
<1>5. CompanyTyped'
  BY <1>1, <1>2, <1>4 DEF CompanyInv, CompanyTyped
<1>6. RowsFollowPackages' /\ LostStatusIsKept'
  BY <1>1, <1>2, <1>3, <1>4 DEF CompanyInv, RowsFollowPackages, LostStatusIsKept
<1>7. /\ dropped \subseteq dropped'
      /\ \A m \in opportunity[o].artifacts : m \in dropped'
      /\ deaths' \in Nat /\ deaths' >= deaths
  BY <1>1 DEF Dropped, Installed, CompanyInv, CompanyTyped
<1>8. MountsAreKept' /\ MountsHaveDrafts'
  BY <1>1, <1>7, ArtifactsMove
<1> QED
  BY <1>5, <1>6, <1>8 DEF CompanyInv

LEMMA CompanyStep ==
  ASSUME CompanyIdsAreApart, CompanyInv, [CompanyNext]_companyVars
  PROVE  CompanyInv'
<1>1. ASSUME NEW o \in Openings, NEW key \in NaturalKeys, NEW nodes \in NodeLists,
             NEW read \in 1 .. analysis, NEW replace \in BOOLEAN, Import(o, key, nodes, read, replace)
      PROVE  CompanyInv'
  BY <1>1, Imports
<1>2. ASSUME NEW o \in Openings, NEW m \in Mutations, NEW nodes \in NodeLists,
             DraftMutation(o, m, nodes)
      PROVE  CompanyInv'
  <2> DEFINE d == NodePlan(o, m, nodes)
  <2>1. d.plan = m /\ d.id = o /\ IsDraft(d)
    BY DEF NodePlan, IsDraft
  <2> HIDE DEF d
  <2>2. /\ o \in Installed /\ drafts' = drafts \cup {d}
        /\ \A e \in drafts : e.plan # m
        /\ UNCHANGED <<analysis, files, chosen, dropped, commands, hands, deaths>>
    BY <1>2 DEF DraftMutation, d
  <2> QED
    BY <2>1, <2>2, Drafts
<1>3. ASSUME NEW o \in Openings, NEW m \in Mounts, DraftMount(o, m)
      PROVE  CompanyInv'
  <2> DEFINE d == [plan |-> m, id |-> o, nodes |-> Unset, expected |-> ContentHash(opportunity[o])]
  <2>1. d.plan = m /\ d.id = o /\ IsDraft(d)
    BY DEF IsDraft
  <2>2. /\ o \in Installed /\ drafts' = drafts \cup {d}
        /\ \A e \in drafts : e.plan # m
        /\ UNCHANGED <<analysis, files, chosen, dropped, commands, hands, deaths>>
    BY <1>3 DEF DraftMount
  <2> HIDE DEF d
  <2> QED
    BY <2>1, <2>2, Drafts
<1>4. ASSUME NEW o \in Openings, RemovePackage(o) PROVE CompanyInv'
  BY <1>4, PackageIsRemoved
<1>5. ASSUME NEW d \in drafts, MutateNodes(d) PROVE CompanyInv'
  BY <1>5, Mutates
<1>6. ASSUME NEW d \in drafts, Mount(d) PROVE CompanyInv'
  BY <1>6, MountLands
<1>7. ASSUME NEW r \in Rows, RemoveRow(r) PROVE CompanyInv'
  BY <1>7, RowIsRemoved
<1>8. ASSUME NEW r \in Rows, NEW status \in Statuses, SetStatus(r, status) PROVE CompanyInv'
  BY <1>8, StatusIsSet
<1>9. ASSUME NEW key \in NaturalKeys, AddRow(key) PROVE CompanyInv'
  BY <1>9, RowIsAdded
<1>10. ASSUME ReplaceAnalysis \/ UNCHANGED companyVars PROVE CompanyInv'
  <2>1. /\ UNCHANGED <<opportunity, tracker, mounted, drafts, chosen, dropped, hands, deaths>>
        /\ analysis' \in Nat
    BY <1>10 DEF ReplaceAnalysis, companyVars, files, CompanyInv, CompanyTyped
  <2>2. Installed' = Installed /\ Rows' = Rows
    BY <2>1 DEF Installed, Rows
  <2>3. CompanyTyped'
    BY <2>1, <2>2 DEF CompanyInv, CompanyTyped
  <2>4. RowsFollowPackages' /\ LostStatusIsKept' /\ MountsAreKept' /\ MountsHaveDrafts'
    BY <2>1, <2>2 DEF CompanyInv, RowsFollowPackages, LostStatusIsKept, MountsAreKept,
       MountsHaveDrafts, LinkedRows
  <2> QED
    BY <2>3, <2>4 DEF CompanyInv
<1> QED
  BY <1>1, <1>2, <1>3, <1>4, <1>5, <1>6, <1>7, <1>8, <1>9, <1>10 DEF CompanyNext

\* What the commands of company-opportunity.mjs preserve, with deaths between
\* their two writes and edits by hand: besides the properties, a row that is lost
\* has its status in the package, and a recorded mount has its plan.
THEOREM CompanyInvariant == ASSUME CompanyIdsAreApart PROVE CompanySpec => []CompanyInv
<1>1. CompanyInit => CompanyInv
  BY CompanyStarts
<1>2. CompanyInv /\ [CompanyNext]_companyVars => CompanyInv'
  BY CompanyStep
<1> QED
  BY <1>1, <1>2, PTL DEF CompanySpec

\* Package and row tell of the same opportunity, and a mounted artifact stays
\* with its node, for any number of opportunities, plans and commands.
THEOREM PackagesHaveRows ==
  ASSUME CompanyIdsAreApart PROVE CompanySpec => []OpportunitiesAreKept
<1>1. CompanyInv => OpportunitiesAreKept
  BY DEF CompanyInv, OpportunitiesAreKept
<1> QED
  BY <1>1, CompanyInvariant, PTL
-----------------------------------------------------------------------------
\* Lookups of host names.  Whatever requests begin, give up and try again, they
\* share the lookups they need: each attempt is on its way to be called back at
\* most once, and exactly once while it looks up a name.

FetchTypes ==
  /\ request \in [Requests -> [at : {"idle", "lookup", "connected", "sleeping", "ended"},
                               attempt : Nat]]
  /\ cache \in Seq([host : Hosts, answer : Answers, left : Nat])
  /\ inflight \in [Hosts -> Seq(Requests \X Nat)]
  /\ delivering \subseteq (Requests \X Nat) \X Answers
  /\ lookups \in Seq(Hosts) /\ resolving \subseteq Hosts
  /\ tokens \in Nat /\ burst \in Nat /\ timer \in {"off", "set", "due"}

\* An attempt is one of those its policy allows, and the first is yet to come as
\* long as a request is idle.
AttemptsAreAllowed ==
  \A r \in Requests :
    /\ request[r].attempt \in 0 .. AttemptsOf[r]
    /\ request[r].at = "sleeping" => request[r].attempt < AttemptsOf[r]
    /\ request[r].at = "idle" => request[r].attempt = 0

Waits(a) == a \in ToSet(inflight[HostOf[a[1]]])

IsHit(a) == \E hit \in delivering : hit[1] = a

\* What is on its way was begun, and waits for the lookup of its own name.
AttemptsWereBegun ==
  /\ \A h \in Hosts : \A a \in ToSet(inflight[h]) :
       HostOf[a[1]] = h /\ a[2] \in 1 .. request[a[1]].attempt
  /\ \A hit \in delivering : hit[1][2] \in 1 .. request[hit[1][1]].attempt

\* It is on its way once.
OnItsWayOnce ==
  /\ \A h \in Hosts : IsInjective(inflight[h])
  /\ \A x, y \in delivering : x[1] = y[1] => x = y
  /\ \A hit \in delivering : ~Waits(hit[1])

NobodyIsForgotten ==
  \A r \in Requests :
    request[r].at = "lookup" => Waits(AttemptOf(r)) \/ IsHit(AttemptOf(r))

\* The tokens that are left and those that were taken since the last tick.
TokensAreCounted == burst + tokens <= Capacity

FetchInv ==
  /\ FetchTypes /\ AttemptsAreAllowed
  /\ AttemptsWereBegun /\ OnItsWayOnce /\ NobodyIsForgotten
  /\ LookupIsShared /\ FailuresPassSoon /\ TokensAreCounted

LEMMA AppendedSeq ==
  ASSUME NEW S, NEW s \in Seq(S), NEW e \in S
  PROVE  /\ Append(s, e) \in Seq(S)
         /\ ToSet(Append(s, e)) = ToSet(s) \cup {e}
         /\ IsInjective(s) /\ e \notin ToSet(s) => IsInjective(Append(s, e))
<1> DEFINE t == Append(s, e)
<1>1. /\ t \in Seq(S) /\ Len(t) = Len(s) + 1 /\ Len(s) \in Nat
      /\ DOMAIN s = 1 .. Len(s) /\ DOMAIN t = 1 .. Len(s) + 1
      /\ t[Len(s) + 1] = e
      /\ \A i \in 1 .. Len(s) : t[i] = s[i]
  OBVIOUS
<1> HIDE DEF t
<1>2. ToSet(t) = ToSet(s) \cup {e}
  <2>1. \A x \in ToSet(t) : x \in ToSet(s) \cup {e}
    <3> SUFFICES ASSUME NEW i \in 1 .. Len(s) + 1  PROVE t[i] \in ToSet(s) \cup {e}
      BY <1>1 DEF ToSet
    <3>1. i \in 1 .. Len(s) \/ i = Len(s) + 1  BY <1>1
    <3> QED  BY <3>1, <1>1 DEF ToSet
  <2>2. \A x \in ToSet(s) : x \in ToSet(t)
    <3> SUFFICES ASSUME NEW i \in 1 .. Len(s)  PROVE s[i] \in ToSet(t)
      BY <1>1 DEF ToSet
    <3>1. i \in 1 .. Len(s) + 1 /\ t[i] = s[i]  BY <1>1
    <3> QED  BY <3>1, <1>1 DEF ToSet
  <2>3. e \in ToSet(t)
    <3>1. Len(s) + 1 \in 1 .. Len(s) + 1  BY <1>1
    <3> QED  BY <3>1, <1>1 DEF ToSet
  <2> QED  BY <2>1, <2>2, <2>3
<1>3. ASSUME IsInjective(s), e \notin ToSet(s)  PROVE IsInjective(t)
  <2> SUFFICES ASSUME NEW i \in 1 .. Len(s) + 1, NEW j \in 1 .. Len(s) + 1, t[i] = t[j]
               PROVE  i = j
    BY <1>1 DEF IsInjective
  <2>1. \A k \in 1 .. Len(s) : s[k] # e  BY <1>1, <1>3 DEF ToSet
  <2>2. \A k, l \in 1 .. Len(s) : s[k] = s[l] => k = l  BY <1>1, <1>3 DEF IsInjective
  <2>3. /\ i \in 1 .. Len(s) \/ i = Len(s) + 1
        /\ j \in 1 .. Len(s) \/ j = Len(s) + 1
    BY <1>1
  <2> QED  BY <1>1, <2>1, <2>2, <2>3
<1> QED  BY <1>1, <1>2, <1>3 DEF t

LEMMA CutSeq ==
  ASSUME NEW S, NEW s \in Seq(S), NEW n \in 0 .. Len(s), IsInjective(s)
  PROVE  LET a == SubSeq(s, 1, n)
             b == SubSeq(s, n + 1, Len(s))
         IN  /\ a \in Seq(S) /\ b \in Seq(S)
             /\ ToSet(a) \cup ToSet(b) = ToSet(s)
             /\ ToSet(a) \cap ToSet(b) = {}
             /\ IsInjective(b)
<1> DEFINE a == SubSeq(s, 1, n)
           b == SubSeq(s, n + 1, Len(s))
<1>1. Len(s) \in Nat /\ n \in Nat /\ n <= Len(s) /\ DOMAIN s = 1 .. Len(s)  OBVIOUS
<1>2. /\ a \in Seq(S) /\ DOMAIN a = 1 .. n
      /\ \A i \in 1 .. n : a[i] = s[i]
  <2>1. /\ a \in Seq(S) /\ Len(a) = n /\ \A i \in 1 .. n : a[i] = s[i]  BY <1>1
  <2> QED  BY <2>1
<1>3. /\ b \in Seq(S) /\ DOMAIN b = 1 .. Len(s) - n
      /\ \A i \in 1 .. Len(s) - n : b[i] = s[n + i]
  <2>1. b \in Seq(S)  BY <1>1
  <2>2. Len(b) = Len(s) - n
    <3>1. CASE n + 1 <= Len(s)  BY <3>1, <1>1
    <3>2. CASE ~(n + 1 <= Len(s))
      <4>1. \A k, l \in Nat : k <= l /\ ~(k + 1 <= l) => k = l  OBVIOUS
      <4>2. n = Len(s)  BY <4>1, <3>2, <1>1
      <4>3. Len(b) = 0 /\ Len(s) - n = 0  BY <4>2, <1>1
      <4> QED  BY <4>3
    <3> QED  BY <3>1, <3>2
  <2>3. \A i \in 1 .. Len(s) - n : b[i] = s[n + i]  BY <1>1
  <2> QED  BY <2>1, <2>2, <2>3
<1>4. \A i, j \in 1 .. Len(s) : s[i] = s[j] => i = j  BY <1>1 DEF IsInjective
<1> HIDE DEF a, b
<1>5. \A x \in ToSet(a) : \E i \in 1 .. n : x = s[i]  BY <1>2 DEF ToSet
<1>6. \A x \in ToSet(b) : \E i \in 1 .. Len(s) : i > n /\ x = s[i]
  <2> SUFFICES ASSUME NEW i \in 1 .. Len(s) - n
               PROVE  \E k \in 1 .. Len(s) : k > n /\ b[i] = s[k]
    BY <1>3 DEF ToSet
  <2>1. n + i \in 1 .. Len(s) /\ n + i > n  BY <1>1
  <2> QED  BY <2>1, <1>3
<1>7. \A i \in 1 .. Len(s) : s[i] \in ToSet(a) \cup ToSet(b)
  <2> TAKE i \in 1 .. Len(s)
  <2>1. CASE i <= n
    <3>1. i \in 1 .. n  BY <2>1, <1>1
    <3> QED  BY <3>1, <1>2 DEF ToSet
  <2>2. CASE i > n
    <3>1. i - n \in 1 .. Len(s) - n /\ n + (i - n) = i  BY <2>2, <1>1
    <3>2. b[i - n] = s[i]  BY <3>1, <1>3
    <3> QED  BY <3>1, <3>2, <1>3 DEF ToSet
  <2> QED  BY <2>1, <2>2, <1>1
<1>8. ToSet(a) \cup ToSet(b) = ToSet(s)
  <2>1. \A x \in ToSet(a) : x \in ToSet(s)  BY <1>5, <1>1 DEF ToSet
  <2>2. \A x \in ToSet(b) : x \in ToSet(s)  BY <1>6, <1>1 DEF ToSet
  <2>3. \A x \in ToSet(s) : x \in ToSet(a) \cup ToSet(b)  BY <1>7, <1>1 DEF ToSet
  <2> QED  BY <2>1, <2>2, <2>3
<1>9. ToSet(a) \cap ToSet(b) = {}
  <2> SUFFICES ASSUME NEW x, x \in ToSet(a), x \in ToSet(b)  PROVE FALSE
    OBVIOUS
  <2>1. PICK i \in 1 .. n : x = s[i]  BY <1>5
  <2>2. PICK j \in 1 .. Len(s) : j > n /\ x = s[j]  BY <1>6
  <2>3. i \in 1 .. Len(s) /\ i # j  BY <2>1, <2>2, <1>1
  <2> QED  BY <2>1, <2>2, <2>3, <1>4
<1>10. IsInjective(b)
  <2> SUFFICES ASSUME NEW i \in 1 .. Len(s) - n, NEW j \in 1 .. Len(s) - n, b[i] = b[j]
               PROVE  i = j
    BY <1>3 DEF IsInjective
  <2>1. /\ n + i \in 1 .. Len(s) /\ n + j \in 1 .. Len(s)
        /\ s[n + i] = s[n + j]
    BY <1>1, <1>3
  <2>2. n + i = n + j  BY <2>1, <1>4
  <2> QED  BY <2>2, <1>1
<1> QED  BY <1>2, <1>3, <1>8, <1>9, <1>10 DEF a, b

\* A tick, and what the bucket gives out.
LEMMA TickKeeps ==
  ASSUME FetchInv, Tick
  PROVE  FetchInv'
<1>1. /\ UNCHANGED <<request, inflight, delivering, lookups, resolving>>
      /\ tokens' = Refilled /\ burst' = 0
      /\ timer' = IF timer = "set" THEN "due" ELSE timer
      /\ cache' = [i \in DOMAIN cache |->
           [cache[i] EXCEPT !.left = IF @ = 0 THEN 0 ELSE @ - 1]]
  BY DEF Tick
<1>2. FetchTypes /\ TokensAreCounted /\ FailuresPassSoon  BY DEF FetchInv
<1>3. tokens' \in Nat /\ burst' \in Nat /\ timer' \in {"off", "set", "due"} /\ TokensAreCounted'
  <2>1. Refilled \in Nat /\ Refilled <= Capacity
    BY <1>2, FetchAssumption DEF FetchTypes, TokensAreCounted, Refilled
  <2>2. TokensAreCounted'  BY <1>1, <2>1, FetchAssumption DEF TokensAreCounted
  <2> QED  BY <1>1, <1>2, <2>1, <2>2 DEF FetchTypes
<1>4. /\ cache \in Seq([host : Hosts, answer : Answers, left : Nat])
      /\ DOMAIN cache = 1 .. Len(cache) /\ Len(cache) \in Nat
      /\ \A i \in DOMAIN cache : cache[i] \in [host : Hosts, answer : Answers, left : Nat]
  <2>1. cache \in Seq([host : Hosts, answer : Answers, left : Nat])  BY <1>2 DEF FetchTypes
  <2>2. DOMAIN cache = 1 .. Len(cache) /\ Len(cache) \in Nat  BY <2>1
  <2>3. ASSUME NEW i \in 1 .. Len(cache)
        PROVE  cache[i] \in [host : Hosts, answer : Answers, left : Nat]
    BY <2>1, ElementOfSeq
  <2> QED  BY <2>1, <2>2, <2>3
<1>5. /\ DOMAIN cache' = DOMAIN cache
      /\ \A i \in DOMAIN cache :
           /\ cache'[i] \in [host : Hosts, answer : Answers, left : Nat]
           /\ cache'[i].host = cache[i].host /\ cache'[i].answer = cache[i].answer
           /\ cache'[i].left <= cache[i].left
  <2>1. DOMAIN cache' = DOMAIN cache  BY <1>1
  <2> SUFFICES ASSUME NEW i \in DOMAIN cache
               PROVE  /\ cache'[i] \in [host : Hosts, answer : Answers, left : Nat]
                      /\ cache'[i].host = cache[i].host /\ cache'[i].answer = cache[i].answer
                      /\ cache'[i].left <= cache[i].left
    BY <2>1
  <2>2. cache'[i] = [cache[i] EXCEPT !.left = IF cache[i].left = 0 THEN 0 ELSE cache[i].left - 1]
    BY <1>1
  <2> QED  BY <2>2, <1>4
<1>6. cache' \in Seq([host : Hosts, answer : Answers, left : Nat]) /\ Len(cache') = Len(cache)
  <2>1. cache' \in [1 .. Len(cache) -> [host : Hosts, answer : Answers, left : Nat]]
    BY <1>1, <1>4, <1>5
  <2> QED  BY <2>1, <1>4
<1>7. FailuresPassSoon'
  <2>1. \A i \in DOMAIN cache :
          cache'[i].left <= IF cache'[i].answer = "EREFUSED" THEN NegativeTtl ELSE Ttl
    BY <1>2, <1>4, <1>5, FetchAssumption DEF FailuresPassSoon
  <2> QED  BY <2>1, <1>2, <1>5, <1>6 DEF FailuresPassSoon
<1>8. FetchTypes'  BY <1>1, <1>2, <1>3, <1>6 DEF FetchTypes
<1>9. AttemptsAreAllowed' /\ AttemptsWereBegun' /\ OnItsWayOnce' /\ NobodyIsForgotten' /\ LookupIsShared'
  BY <1>1 DEF FetchInv, AttemptsAreAllowed, AttemptsWereBegun, OnItsWayOnce, NobodyIsForgotten,
     LookupIsShared, Waits, IsHit, AttemptOf
<1> QED  BY <1>3, <1>7, <1>8, <1>9 DEF FetchInv

LEMMA PumpKeeps ==
  ASSUME FetchInv, Pump
  PROVE  FetchInv'
<1> DEFINE n == IF Len(lookups) <= tokens THEN Len(lookups) ELSE tokens
           a == SubSeq(lookups, 1, n)
           b == SubSeq(lookups, n + 1, Len(lookups))
<1>1. /\ UNCHANGED <<request, cache, inflight, delivering>>
      /\ resolving' = resolving \cup ToSet(a) /\ lookups' = b
      /\ tokens' = tokens - n /\ burst' = burst + n
      /\ timer' \in {"off", "set", "due"}
  BY DEF Pump
<1>2. /\ FetchTypes /\ LookupIsShared /\ TokensAreCounted  BY DEF FetchInv
<1>3. lookups \in Seq(Hosts) /\ Len(lookups) \in Nat /\ tokens \in Nat /\ burst \in Nat
  BY <1>2 DEF FetchTypes
<1>4. n \in 0 .. Len(lookups) /\ n <= tokens  BY <1>3
<1> HIDE DEF n
<1>5. /\ a \in Seq(Hosts) /\ b \in Seq(Hosts)
      /\ ToSet(a) \cup ToSet(b) = ToSet(lookups) /\ ToSet(a) \cap ToSet(b) = {}
      /\ IsInjective(b)
  BY <1>3, <1>4, <1>2, CutSeq DEF LookupIsShared
<1> HIDE DEF a, b
<1>6. tokens' \in Nat /\ burst' \in Nat /\ TokensAreCounted'
  <2>1. n \in Nat /\ Capacity \in Nat  BY <1>3, <1>4, FetchAssumption
  <2> QED  BY <1>1, <1>2, <1>3, <1>4, <2>1 DEF TokensAreCounted
<1>7. ToSet(a) \subseteq Hosts
  BY <1>5 DEF ToSet
<1>8. FetchTypes'
  BY <1>1, <1>2, <1>5, <1>6, <1>7 DEF FetchTypes
<1>9. LookupIsShared'
  <2>1. ToSet(lookups') \cap resolving' = {}
    BY <1>1, <1>2, <1>5 DEF LookupIsShared
  <2>2. ToSet(lookups') \cup resolving' = ToSet(lookups) \cup resolving  BY <1>1, <1>5
  <2> QED  BY <1>1, <1>2, <1>5, <2>1, <2>2 DEF LookupIsShared
<1>10. /\ AttemptsAreAllowed' /\ AttemptsWereBegun' /\ OnItsWayOnce' /\ NobodyIsForgotten'
       /\ FailuresPassSoon'
  BY <1>1 DEF FetchInv, AttemptsAreAllowed, AttemptsWereBegun, OnItsWayOnce, NobodyIsForgotten,
     FailuresPassSoon, Waits, IsHit, AttemptOf
<1> QED  BY <1>6, <1>8, <1>9, <1>10 DEF FetchInv

\* A request that fails may try again as long as its policy allows it.
LEMMA RetriedIsAllowed ==
  ASSUME FetchTypes, AttemptsAreAllowed, NEW r \in Requests
  PROVE  /\ Retried(r) \in [at : {"idle", "lookup", "connected", "sleeping", "ended"}, attempt : Nat]
         /\ Retried(r).attempt = request[r].attempt
         /\ Retried(r).at \in {"ended", "sleeping"}
         /\ Retried(r).at = "sleeping" => request[r].attempt < AttemptsOf[r]
<1>1. request[r] \in [at : {"idle", "lookup", "connected", "sleeping", "ended"}, attempt : Nat]
  BY DEF FetchTypes
<1>2. request[r].attempt \in 0 .. AttemptsOf[r] /\ AttemptsOf[r] \in Nat
  BY FetchAssumption DEF AttemptsAreAllowed
<1>3. /\ Retried(r).attempt = request[r].attempt
      /\ Retried(r).at = IF request[r].attempt = AttemptsOf[r] THEN "ended" ELSE "sleeping"
      /\ Retried(r) \in [at : {"idle", "lookup", "connected", "sleeping", "ended"}, attempt : Nat]
  BY <1>1 DEF Retried
<1> QED  BY <1>2, <1>3

\* A step in which requests go on without a new attempt.
LEMMA GoingOnKeeps ==
  ASSUME FetchInv,
         UNCHANGED <<cache, inflight, delivering, lookups, resolving, tokens, timer, burst>>,
         request' \in [Requests -> [at : {"idle", "lookup", "connected", "sleeping", "ended"},
                                    attempt : Nat]],
         \A r \in Requests :
           \/ request'[r] = request[r]
           \/ /\ request'[r].attempt = request[r].attempt
              /\ request'[r].at \in {"connected", "sleeping", "ended"}
              /\ request'[r].at = "sleeping" => request[r].attempt < AttemptsOf[r]
  PROVE  FetchInv'
<1>1. FetchTypes'  BY DEF FetchInv, FetchTypes
<1>2. \A r \in Requests : request'[r].attempt = request[r].attempt  OBVIOUS
<1>3. AttemptsAreAllowed'  BY DEF FetchInv, AttemptsAreAllowed
<1>4. AttemptsWereBegun'
  <2>1. \A h \in Hosts : \A a \in ToSet(inflight[h]) : a[1] \in Requests
    BY DEF FetchInv, FetchTypes, ToSet
  <2>2. \A hit \in delivering : hit[1][1] \in Requests  BY DEF FetchInv, FetchTypes
  <2> QED  BY <1>2, <2>1, <2>2 DEF FetchInv, AttemptsWereBegun
<1>5. OnItsWayOnce' /\ FailuresPassSoon' /\ LookupIsShared' /\ TokensAreCounted'
  BY DEF FetchInv, OnItsWayOnce, FailuresPassSoon, LookupIsShared, TokensAreCounted, Waits
<1>6. NobodyIsForgotten'
  BY DEF FetchInv, NobodyIsForgotten, Waits, IsHit, AttemptOf
<1> QED  BY <1>1, <1>3, <1>4, <1>5, <1>6 DEF FetchInv

LEMMA RequestsKeep ==
  ASSUME FetchInv, NEW r \in Requests, Respond(r) \/ Abort(r)
  PROVE  FetchInv'
<1>1. FetchTypes /\ AttemptsAreAllowed  BY DEF FetchInv
<1>2. UNCHANGED <<cache, inflight, delivering, lookups, resolving, tokens, timer, burst>>
  BY DEF Respond, Abort
<1>3. \/ request' = [request EXCEPT ![r].at = "ended"]
      \/ request' = [request EXCEPT ![r] = Retried(r)]
  BY DEF Respond, Abort
<1>4. request \in [Requests -> [at : {"idle", "lookup", "connected", "sleeping", "ended"},
                                attempt : Nat]]
  BY <1>1 DEF FetchTypes
<1>5. CASE request' = [request EXCEPT ![r].at = "ended"]
  BY <1>2, <1>4, <1>5, GoingOnKeeps
<1>6. CASE request' = [request EXCEPT ![r] = Retried(r)]
  BY <1>1, <1>2, <1>4, <1>6, GoingOnKeeps, RetriedIsAllowed
<1> QED  BY <1>3, <1>5, <1>6

\* Calling attempts back: a request that looked up a name for one of them goes on.
LEMMA CalledBackGoOn ==
  ASSUME FetchInv, NEW A, NEW answer, CallBack(A, answer)
  PROVE  /\ request' \in [Requests -> [at : {"idle", "lookup", "connected", "sleeping", "ended"},
                                       attempt : Nat]]
         /\ \A r \in Requests :
              \/ request'[r] = request[r] /\ ~(request[r].at = "lookup" /\ AttemptOf(r) \in A)
              \/ /\ request'[r].attempt = request[r].attempt
                 /\ request'[r].at \in {"connected", "sleeping", "ended"}
                 /\ request'[r].at = "sleeping" => request[r].attempt < AttemptsOf[r]
<1> DEFINE Sort == [at : {"idle", "lookup", "connected", "sleeping", "ended"}, attempt : Nat]
<1>1. FetchTypes /\ AttemptsAreAllowed  BY DEF FetchInv
<1>2. request \in [Requests -> Sort]  BY <1>1 DEF FetchTypes
<1>3. request' = [r \in Requests |->
        IF request[r].at = "lookup" /\ AttemptOf(r) \in A
        THEN Connected(r, answer) ELSE request[r]]
  BY DEF CallBack
<1>4. ASSUME NEW r \in Requests
      PROVE  /\ Connected(r, answer) \in Sort
             /\ Connected(r, answer).attempt = request[r].attempt
             /\ Connected(r, answer).at \in {"connected", "sleeping", "ended"}
             /\ Connected(r, answer).at = "sleeping" => request[r].attempt < AttemptsOf[r]
  <2>1. CASE Guarded(r, answer)
    <3>1. Connected(r, answer) = [request[r] EXCEPT !.at = "connected"]  BY <2>1 DEF Connected
    <3>2. request[r] \in Sort  BY <1>2
    <3> QED  BY <3>1, <3>2
  <2>2. CASE ~Guarded(r, answer)
    <3>1. Connected(r, answer) = Retried(r)  BY <2>2 DEF Connected
    <3> QED  BY <3>1, <1>1, RetriedIsAllowed
  <2> QED  BY <2>1, <2>2
<1> HIDE DEF Sort
<1>5. \A r \in Requests :
        request'[r] = IF request[r].at = "lookup" /\ AttemptOf(r) \in A
                      THEN Connected(r, answer) ELSE request[r]
  BY <1>3
<1>6. request' \in [Requests -> Sort]  BY <1>2, <1>3, <1>4
<1> QED  BY <1>4, <1>5, <1>6 DEF Sort

\* They are not on their way any more, and the others still are.
LEMMA AnsweringKeeps ==
  ASSUME FetchInv, NEW A, NEW answer, CallBack(A, answer),
         inflight' \in [Hosts -> Seq(Requests \X Nat)],
         \A h \in Hosts : inflight'[h] \in {inflight[h], <<>>},
         delivering' \subseteq delivering,
         \A r \in Requests : Waits(AttemptOf(r)) /\ AttemptOf(r) \notin A
                               => AttemptOf(r) \in ToSet(inflight'[HostOf[r]]),
         \A hit \in delivering : hit[1] \notin A => hit \in delivering'
  PROVE  /\ request' \in [Requests -> [at : {"idle", "lookup", "connected", "sleeping", "ended"},
                                       attempt : Nat]]
         /\ AttemptsAreAllowed' /\ AttemptsWereBegun' /\ OnItsWayOnce' /\ NobodyIsForgotten'
<1>1. FetchTypes /\ AttemptsAreAllowed /\ AttemptsWereBegun /\ OnItsWayOnce /\ NobodyIsForgotten
  BY DEF FetchInv
<1>2. /\ request' \in [Requests -> [at : {"idle", "lookup", "connected", "sleeping", "ended"},
                                    attempt : Nat]]
      /\ \A r \in Requests :
           \/ request'[r] = request[r] /\ ~(request[r].at = "lookup" /\ AttemptOf(r) \in A)
           \/ /\ request'[r].attempt = request[r].attempt
              /\ request'[r].at \in {"connected", "sleeping", "ended"}
              /\ request'[r].at = "sleeping" => request[r].attempt < AttemptsOf[r]
  BY CalledBackGoOn
<1>3. \A r \in Requests : request'[r].attempt = request[r].attempt  BY <1>2
<1>4. AttemptsAreAllowed'  BY <1>1, <1>2 DEF AttemptsAreAllowed
<1>5. ToSet(<<>>) = {} /\ IsInjective(<<>>)  BY DEF ToSet, IsInjective
<1>6. \A h \in Hosts : ToSet(inflight'[h]) \subseteq ToSet(inflight[h])  BY <1>5
<1>7. \A h \in Hosts : \A a \in ToSet(inflight[h]) : a[1] \in Requests
  <2> SUFFICES ASSUME NEW h \in Hosts, NEW i \in DOMAIN inflight[h]
               PROVE  inflight[h][i][1] \in Requests
    BY DEF ToSet
  <2>1. inflight[h] \in Seq(Requests \X Nat)  BY <1>1 DEF FetchTypes
  <2>2. inflight[h][i] \in Requests \X Nat  BY <2>1
  <2> QED  BY <2>2
<1>8. \A hit \in delivering : hit[1][1] \in Requests  BY <1>1 DEF FetchTypes
<1>9. AttemptsWereBegun'
  BY <1>1, <1>3, <1>6, <1>7, <1>8 DEF AttemptsWereBegun
<1>10. OnItsWayOnce'
  <2>1. \A h \in Hosts : IsInjective(inflight'[h])  BY <1>1, <1>5 DEF OnItsWayOnce
  <2>2. \A hit \in delivering' : ~Waits(hit[1])'
    <3> SUFFICES ASSUME NEW hit \in delivering',
                        hit[1] \in ToSet(inflight'[HostOf[hit[1][1]]])
                 PROVE  FALSE
      BY DEF Waits
    <3>1. HostOf[hit[1][1]] \in Hosts  BY <1>8 DEF Hosts
    <3>2. hit[1] \in ToSet(inflight[HostOf[hit[1][1]]])  BY <3>1, <1>6
    <3> QED  BY <3>2, <1>1 DEF OnItsWayOnce, Waits
  <2> QED  BY <2>1, <2>2, <1>1 DEF OnItsWayOnce
<1>11. NobodyIsForgotten'
  <2> SUFFICES ASSUME NEW r \in Requests, request'[r].at = "lookup"
               PROVE  Waits(AttemptOf(r))' \/ IsHit(AttemptOf(r))'
    BY DEF NobodyIsForgotten
  <2>1. request'[r] = request[r] /\ AttemptOf(r) \notin A  BY <1>2
  <2>2. AttemptOf(r)' = AttemptOf(r) /\ AttemptOf(r)[1] = r  BY <2>1 DEF AttemptOf
  <2>3. Waits(AttemptOf(r)) \/ IsHit(AttemptOf(r))  BY <2>1, <1>1 DEF NobodyIsForgotten
  <2>4. CASE Waits(AttemptOf(r))  BY <2>1, <2>2, <2>4 DEF Waits
  <2>5. CASE IsHit(AttemptOf(r))
    <3>1. PICK hit \in delivering : hit[1] = AttemptOf(r)  BY <2>5 DEF IsHit
    <3>2. hit \in delivering'  BY <3>1, <2>1
    <3> QED  BY <3>1, <3>2, <2>2 DEF IsHit
  <2> QED  BY <2>3, <2>4, <2>5
<1> QED  BY <1>2, <1>4, <1>9, <1>10, <1>11

\* An answer out of the cache.
LEMMA DeliverKeeps ==
  ASSUME FetchInv, NEW hit \in delivering, Deliver(hit)
  PROVE  FetchInv'
<1>1. /\ UNCHANGED <<cache, inflight, lookups, resolving, tokens, timer, burst>>
      /\ delivering' = delivering \ {hit} /\ CallBack({hit[1]}, hit[2])
  BY DEF Deliver
<1>2. FetchTypes /\ OnItsWayOnce  BY DEF FetchInv
<1>3. \A r \in Requests : Waits(AttemptOf(r)) => AttemptOf(r) \in ToSet(inflight'[HostOf[r]])
  BY <1>1 DEF Waits, AttemptOf
<1>4. inflight' \in [Hosts -> Seq(Requests \X Nat)]  BY <1>1, <1>2 DEF FetchTypes
<1>5. \A x \in delivering : x[1] \notin {hit[1]} => x \in delivering'  BY <1>1
<1>6. /\ request' \in [Requests -> [at : {"idle", "lookup", "connected", "sleeping", "ended"},
                                    attempt : Nat]]
      /\ AttemptsAreAllowed' /\ AttemptsWereBegun' /\ OnItsWayOnce' /\ NobodyIsForgotten'
  BY <1>1, <1>3, <1>4, <1>5, AnsweringKeeps
<1>7. FetchTypes'  BY <1>1, <1>2, <1>6 DEF FetchTypes
<1>8. LookupIsShared' /\ FailuresPassSoon' /\ TokensAreCounted'
  BY <1>1 DEF FetchInv, LookupIsShared, FailuresPassSoon, TokensAreCounted
<1> QED  BY <1>6, <1>7, <1>8 DEF FetchInv

\* What is remembered is of the answer, and of one name an entry at most.
LEMMA RememberedOnce ==
  ASSUME FetchTypes, FailuresPassSoon, NEW h \in Hosts, NEW answer \in Answers,
         cache' = Remember(h, answer)
  PROVE  /\ cache' \in Seq([host : Hosts, answer : Answers, left : Nat])
         /\ FailuresPassSoon'
<1> DEFINE CacheEntry == [host : Hosts, answer : Answers, left : Nat]
           kept == IF Len(cache) >= MaxNames THEN Tail(cache) ELSE cache
           entry == [host |-> h, answer |-> answer, left |-> TtlOf(answer)]
           place == {i \in DOMAIN kept : kept[i].host = h}
           Limit(e) == IF e.answer = "EREFUSED" THEN NegativeTtl ELSE Ttl
           Fine(e) == e.answer # "ENOTFOUND" /\ e.left <= Limit(e)
           Pinless(c) == /\ Len(c) <= MaxNames
                         /\ \A i, j \in DOMAIN c : c[i].host = c[j].host => i = j
                         /\ \A i \in DOMAIN c : Fine(c[i])
<1>1. cache \in Seq(CacheEntry) /\ Pinless(cache)  BY DEF FetchTypes, FailuresPassSoon
<1>2. TtlOf(answer) \in Nat /\ (answer = "ENOTFOUND" => TtlOf(answer) = 0)
      /\ (answer = "EREFUSED" => TtlOf(answer) = NegativeTtl)
      /\ (answer \notin {"ENOTFOUND", "EREFUSED"} => TtlOf(answer) = Ttl)
  BY FetchAssumption DEF TtlOf
<1>3. entry \in CacheEntry /\ entry.host = h
      /\ entry.answer = answer /\ entry.left = TtlOf(answer)
  BY <1>2
<1>4. TtlOf(answer) # 0 => Fine(entry)
  BY <1>2, <1>3, FetchAssumption DEF Answers
<1>5. /\ kept \in Seq(CacheEntry) /\ Len(kept) \in Nat /\ DOMAIN kept = 1 .. Len(kept)
      /\ Len(kept) < MaxNames /\ Pinless(kept)
  <2>1. CASE Len(cache) >= MaxNames
    <3>1. cache # <<>> /\ Len(cache) \in Nat /\ Len(cache) = MaxNames
      BY <1>1, <2>1, FetchAssumption
    <3>2. /\ kept \in Seq(CacheEntry) /\ Len(kept) = Len(cache) - 1
          /\ \A i \in 1 .. Len(cache) - 1 : kept[i] = cache[i + 1]
      BY <1>1, <2>1, <3>1
    <3> HIDE DEF kept
    <3>3. DOMAIN kept = 1 .. Len(cache) - 1 /\ DOMAIN cache = 1 .. Len(cache)
      BY <1>1, <3>2
    <3>4. \A i \in DOMAIN kept : i + 1 \in DOMAIN cache /\ kept[i] = cache[i + 1]
      BY <3>1, <3>2, <3>3
    <3>5. \A i \in DOMAIN kept : Fine(kept[i])
      <4> HIDE DEF Fine
      <4> QED  BY <1>1, <3>4
    <3>6. ASSUME NEW i \in DOMAIN kept, NEW j \in DOMAIN kept, kept[i].host = kept[j].host
          PROVE  i = j
      <4>1. i + 1 = j + 1  BY <3>4, <3>6, <1>1
      <4> QED  BY <4>1, <3>3, <3>1
    <3> QED  BY <3>1, <3>2, <3>3, <3>5, <3>6, FetchAssumption
  <2>2. CASE ~(Len(cache) >= MaxNames)  BY <1>1, <2>2, FetchAssumption
  <2> QED  BY <2>1, <2>2
<1>6. Pinless(cache') /\ cache' \in Seq(CacheEntry)
  <2> HIDE DEF kept, entry, Fine
  <2>1. CASE TtlOf(answer) = 0
    <3>1. cache' = cache  BY <2>1 DEF Remember
    <3> QED  BY <3>1, <1>1
  <2>2. CASE TtlOf(answer) # 0 /\ place = {}
    <3>1. cache' = Append(kept, entry)  BY <2>2 DEF Remember, kept, entry
    <3>2. /\ cache' \in Seq(CacheEntry) /\ Len(cache') = Len(kept) + 1
          /\ DOMAIN cache' = 1 .. Len(kept) + 1 /\ cache'[Len(kept) + 1] = entry
          /\ \A i \in 1 .. Len(kept) : cache'[i] = kept[i]
      BY <3>1, <1>3, <1>5
    <3>3. \A i \in 1 .. Len(kept) : kept[i].host # h  BY <2>2, <1>5
    <3>4. \A i \in DOMAIN cache' : i \in 1 .. Len(kept) \/ i = Len(kept) + 1  BY <3>2, <1>5
    <3>5. \A i, j \in DOMAIN cache' : cache'[i].host = cache'[j].host => i = j
      BY <3>2, <3>3, <3>4, <1>3, <1>5
    <3>6. \A i \in DOMAIN cache' : Fine(cache'[i])  BY <3>2, <3>4, <2>2, <1>4, <1>5
    <3> QED  BY <3>2, <3>5, <3>6, <1>5, FetchAssumption
  <2>3. CASE TtlOf(answer) # 0 /\ place # {}
    <3>1. cache' = [i \in DOMAIN kept |-> IF i \in place THEN entry ELSE kept[i]]
      BY <2>3 DEF Remember, kept, entry
    <3>2. \A i \in DOMAIN kept : kept[i] \in CacheEntry  BY <1>5, ElementOfSeq
    <3>3. /\ DOMAIN cache' = DOMAIN kept
          /\ \A i \in DOMAIN kept : cache'[i] = IF i \in place THEN entry ELSE kept[i]
      BY <3>1
    <3>4. \A i \in DOMAIN kept : cache'[i] \in CacheEntry /\ cache'[i].host = kept[i].host /\ Fine(cache'[i])
      BY <3>2, <3>3, <1>3, <1>4, <1>5, <2>3
    <3>5. cache' \in [1 .. Len(kept) -> CacheEntry]  BY <3>1, <3>3, <3>4, <1>5
    <3>6. cache' \in Seq(CacheEntry) /\ Len(cache') = Len(kept)  BY <3>5, <1>5
    <3> QED  BY <3>3, <3>4, <3>6, <1>5, FetchAssumption
  <2> QED  BY <2>1, <2>2, <2>3
<1> QED  BY <1>6 DEF FailuresPassSoon

\* An answer of the resolver.
LEMMA ResolveKeeps ==
  ASSUME FetchInv, NEW h \in Hosts, NEW answer \in Answers, Resolve(h, answer)
  PROVE  FetchInv'
<1>1. /\ UNCHANGED <<delivering, lookups, tokens, timer, burst>>
      /\ h \in resolving /\ resolving' = resolving \ {h}
      /\ inflight' = [inflight EXCEPT ![h] = <<>>] /\ cache' = Remember(h, answer)
      /\ CallBack(ToSet(inflight[h]), answer)
  BY DEF Resolve
<1>2. FetchTypes /\ OnItsWayOnce /\ LookupIsShared /\ FailuresPassSoon  BY DEF FetchInv
<1>3. inflight \in [Hosts -> Seq(Requests \X Nat)]  BY <1>2 DEF FetchTypes
<1>4. /\ inflight' \in [Hosts -> Seq(Requests \X Nat)]
      /\ inflight'[h] = <<>>
      /\ \A g \in Hosts : g # h => inflight'[g] = inflight[g]
  BY <1>1, <1>3
<1>5. \A g \in Hosts : inflight'[g] \in {inflight[g], <<>>}  BY <1>4
<1>6. ASSUME NEW r \in Requests, Waits(AttemptOf(r)), AttemptOf(r) \notin ToSet(inflight[h])
      PROVE  AttemptOf(r) \in ToSet(inflight'[HostOf[r]])
  <2>1. AttemptOf(r) \in ToSet(inflight[HostOf[r]]) /\ HostOf[r] \in Hosts
    BY <1>6 DEF Waits, AttemptOf, Hosts
  <2>2. HostOf[r] # h  BY <2>1, <1>6
  <2> QED  BY <2>1, <2>2, <1>4
<1>7. \A hit \in delivering : hit \in delivering'  BY <1>1
<1>8. /\ request' \in [Requests -> [at : {"idle", "lookup", "connected", "sleeping", "ended"},
                                    attempt : Nat]]
      /\ AttemptsAreAllowed' /\ AttemptsWereBegun' /\ OnItsWayOnce' /\ NobodyIsForgotten'
  <2>1. delivering' \subseteq delivering  BY <1>1
  <2> QED  BY <1>1, <1>4, <1>5, <1>6, <1>7, <2>1, AnsweringKeeps
<1>9. cache' \in Seq([host : Hosts, answer : Answers, left : Nat]) /\ FailuresPassSoon'
  BY <1>1, <1>2, RememberedOnce
<1>10. FetchTypes'  BY <1>1, <1>2, <1>4, <1>8, <1>9 DEF FetchTypes
<1>11. LookupIsShared'
  <2>1. h \notin ToSet(lookups)  BY <1>1, <1>2 DEF LookupIsShared
  <2>2. \A g \in Hosts : inflight'[g] # <<>> <=> g # h /\ inflight[g] # <<>>  BY <1>4
  <2>3. \A g \in Hosts : inflight[g] # <<>> <=> g \in ToSet(lookups) \cup resolving
    BY <1>2 DEF LookupIsShared
  <2>4. ToSet(lookups) \cup resolving \subseteq Hosts  BY <1>2 DEF LookupIsShared
  <2>5. {g \in Hosts : inflight'[g] # <<>>} = ToSet(lookups) \cup resolving'
    BY <2>1, <2>2, <2>3, <2>4, <1>1
  <2> QED  BY <2>5, <1>1, <1>2 DEF LookupIsShared
<1>12. TokensAreCounted'  BY <1>1 DEF FetchInv, TokensAreCounted
<1> QED  BY <1>8, <1>9, <1>10, <1>11, <1>12 DEF FetchInv

\* A request begins an attempt: it is one more, and nobody waits for it yet.
LEMMA AttemptIsNew ==
  ASSUME FetchInv, NEW r \in Requests, Fetch(r),
         NEW n, n = request[r].attempt + 1
  PROVE  /\ request' \in [Requests -> [at : {"idle", "lookup", "connected", "sleeping", "ended"},
                                       attempt : Nat]]
         /\ request'[r] = [at |-> "lookup", attempt |-> n]
         /\ \A q \in Requests : q # r => request'[q] = request[q]
         /\ \A q \in Requests : \A k \in 1 .. request[q].attempt : k \in 1 .. request'[q].attempt
         /\ n \in Nat /\ n \in 1 .. request'[r].attempt /\ AttemptOf(r)' = <<r, n>>
         /\ \A h \in Hosts : <<r, n>> \notin ToSet(inflight[h])
         /\ ~IsHit(<<r, n>>)
         /\ AttemptsAreAllowed'
<1>1. FetchTypes /\ AttemptsAreAllowed /\ AttemptsWereBegun  BY DEF FetchInv
<1>2. request[r].attempt \in Nat /\ AttemptsOf[r] \in Nat \ {0}
  BY <1>1, FetchAssumption DEF FetchTypes
<1>3. request' = [request EXCEPT ![r] = [at |-> "lookup", attempt |-> n]]
  BY DEF Fetch
<1>4. n \in Nat /\ n \in 1 .. AttemptsOf[r] /\ n \in 1 .. n
  <2>1. request[r].at \in {"idle", "sleeping"}  BY DEF Fetch
  <2>2. request[r].attempt < AttemptsOf[r]  BY <2>1, <1>1, <1>2 DEF AttemptsAreAllowed
  <2> QED  BY <2>2, <1>2
<1>5. request \in [Requests -> [at : {"idle", "lookup", "connected", "sleeping", "ended"},
                                attempt : Nat]]
  BY <1>1 DEF FetchTypes
<1>6. /\ request' \in [Requests -> [at : {"idle", "lookup", "connected", "sleeping", "ended"},
                                    attempt : Nat]]
      /\ request'[r] = [at |-> "lookup", attempt |-> n]
      /\ \A q \in Requests : q # r => request'[q] = request[q]
  BY <1>3, <1>4, <1>5
<1>7. \A k \in 1 .. request[r].attempt : k \in 1 .. n  BY <1>2
<1>8. n \notin 1 .. request[r].attempt  BY <1>2, <1>4
<1>9. \A h \in Hosts : <<r, n>> \notin ToSet(inflight[h])
  BY <1>1, <1>8 DEF AttemptsWereBegun
<1>10. ~IsHit(<<r, n>>)  BY <1>1, <1>8 DEF AttemptsWereBegun, IsHit
<1>11. AttemptsAreAllowed'
  BY <1>1, <1>2, <1>4, <1>6 DEF AttemptsAreAllowed
<1> QED  BY <1>4, <1>6, <1>7, <1>9, <1>10, <1>11 DEF AttemptOf

\* What was on its way still is of an attempt that was begun.
LEMMA OthersWereBegun ==
  ASSUME FetchInv,
         \A q \in Requests : \A k \in 1 .. request[q].attempt : k \in 1 .. request'[q].attempt
  PROVE  /\ \A h \in Hosts : \A a \in ToSet(inflight[h]) :
              HostOf[a[1]] = h /\ a[2] \in 1 .. request'[a[1]].attempt
         /\ \A hit \in delivering : hit[1][2] \in 1 .. request'[hit[1][1]].attempt
<1>1. FetchTypes /\ AttemptsWereBegun  BY DEF FetchInv
<1>2. \A g \in Hosts : \A b \in ToSet(inflight[g]) : b[1] \in Requests
  <2> SUFFICES ASSUME NEW g \in Hosts, NEW i \in DOMAIN inflight[g]
               PROVE  inflight[g][i][1] \in Requests
    BY DEF ToSet
  <2>1. inflight[g] \in Seq(Requests \X Nat)  BY <1>1 DEF FetchTypes
  <2>2. inflight[g][i] \in Requests \X Nat  BY <2>1
  <2> QED  BY <2>2
<1>3. \A hit \in delivering : hit[1][1] \in Requests  BY <1>1 DEF FetchTypes
<1> QED  BY <1>1, <1>2, <1>3 DEF AttemptsWereBegun

\* The name is in the cache.
LEMMA HitKeeps ==
  ASSUME FetchInv, NEW r \in Requests, Fetch(r), Hits(HostOf[r]) # {}
  PROVE  FetchInv'
<1>1. PICK n : n = request[r].attempt + 1  OBVIOUS
<1> DEFINE a == <<r, n>>
<1>2. /\ request' \in [Requests -> [at : {"idle", "lookup", "connected", "sleeping", "ended"},
                                    attempt : Nat]]
      /\ request'[r] = [at |-> "lookup", attempt |-> n]
      /\ \A q \in Requests : q # r => request'[q] = request[q]
      /\ \A q \in Requests : \A k \in 1 .. request[q].attempt : k \in 1 .. request'[q].attempt
      /\ n \in Nat /\ n \in 1 .. request'[r].attempt /\ AttemptOf(r)' = a
      /\ \A h \in Hosts : a \notin ToSet(inflight[h])
      /\ ~IsHit(a)
      /\ AttemptsAreAllowed'
  BY <1>1, AttemptIsNew
<1>3. FetchTypes /\ OnItsWayOnce /\ NobodyIsForgotten  BY DEF FetchInv
<1>4. UNCHANGED <<cache, inflight, lookups, resolving, tokens, timer, burst>>
  BY DEF Fetch, Lookup
<1>5. PICK answer \in Hits(HostOf[r]) : delivering' = delivering \cup {<<a, answer>>}
  BY <1>2 DEF Fetch, Lookup
<1>6. answer \in Answers
  <2>1. PICK i \in DOMAIN cache : cache[i].answer = answer  BY <1>5 DEF Hits, EntriesOf
  <2>2. cache \in Seq([host : Hosts, answer : Answers, left : Nat])  BY <1>3 DEF FetchTypes
  <2>3. i \in 1 .. Len(cache)  BY <2>1, <2>2
  <2>4. cache[i] \in [host : Hosts, answer : Answers, left : Nat]  BY <2>2, <2>3, ElementOfSeq
  <2> QED  BY <2>1, <2>4
<1>7. FetchTypes'
  <2>1. <<a, answer>> \in (Requests \X Nat) \X Answers  BY <1>2, <1>6
  <2>2. delivering' \subseteq (Requests \X Nat) \X Answers  BY <2>1, <1>3, <1>5 DEF FetchTypes
  <2> QED  BY <2>2, <1>2, <1>3, <1>4 DEF FetchTypes
<1>8. AttemptsWereBegun'
  BY <1>2, <1>4, <1>5, OthersWereBegun DEF AttemptsWereBegun
<1>9. OnItsWayOnce'
  <2>1. \A x, y \in delivering' : x[1] = y[1] => x = y
    BY <1>2, <1>3, <1>5 DEF OnItsWayOnce, IsHit
  <2>2. \A hit \in delivering : ~Waits(hit[1])'  BY <1>3, <1>4 DEF OnItsWayOnce, Waits
  <2>3. ~Waits(a)'
    <3>1. a[1] = r /\ HostOf[r] \in Hosts  BY DEF Hosts
    <3> QED  BY <3>1, <1>2, <1>4 DEF Waits
  <2>4. \A hit \in delivering' : hit \in delivering \/ hit[1] = a  BY <1>5
  <2>5. \A hit \in delivering' : ~Waits(hit[1])'  BY <2>2, <2>3, <2>4 DEF Waits
  <2> QED  BY <2>1, <2>5, <1>3, <1>4 DEF OnItsWayOnce
<1>10. NobodyIsForgotten'
  <2> SUFFICES ASSUME NEW q \in Requests, request'[q].at = "lookup"
               PROVE  Waits(AttemptOf(q))' \/ IsHit(AttemptOf(q))'
    BY DEF NobodyIsForgotten
  <2>1. CASE q = r
    <3>1. <<a, answer>> \in delivering' /\ <<a, answer>>[1] = AttemptOf(q)'
      BY <2>1, <1>2, <1>5
    <3> QED  BY <3>1 DEF IsHit
  <2>2. CASE q # r
    <3>1. request'[q] = request[q] /\ AttemptOf(q)' = AttemptOf(q)
      BY <2>2, <1>2 DEF AttemptOf
    <3>2. Waits(AttemptOf(q)) \/ IsHit(AttemptOf(q))  BY <3>1, <1>3 DEF NobodyIsForgotten
    <3> QED  BY <3>1, <3>2, <1>4, <1>5 DEF Waits, IsHit
  <2> QED  BY <2>1, <2>2
<1>11. LookupIsShared' /\ FailuresPassSoon' /\ TokensAreCounted'
  BY <1>4 DEF FetchInv, LookupIsShared, FailuresPassSoon, TokensAreCounted
<1> QED  BY <1>2, <1>7, <1>8, <1>9, <1>10, <1>11 DEF FetchInv

\* It is not: the attempt waits, and is the first to ask unless others wait.
LEMMA MissKeeps ==
  ASSUME FetchInv, NEW r \in Requests, Fetch(r), Hits(HostOf[r]) = {}
  PROVE  FetchInv'
<1>1. PICK n : n = request[r].attempt + 1  OBVIOUS
<1> DEFINE a == <<r, n>>
<1>2. PICK h \in Hosts : h = HostOf[r]  BY DEF Hosts
<1>3. /\ request' \in [Requests -> [at : {"idle", "lookup", "connected", "sleeping", "ended"},
                                    attempt : Nat]]
      /\ request'[r] = [at |-> "lookup", attempt |-> n]
      /\ \A q \in Requests : q # r => request'[q] = request[q]
      /\ \A q \in Requests : \A k \in 1 .. request[q].attempt : k \in 1 .. request'[q].attempt
      /\ n \in Nat /\ n \in 1 .. request'[r].attempt /\ AttemptOf(r)' = a
      /\ \A g \in Hosts : a \notin ToSet(inflight[g])
      /\ ~IsHit(a)
      /\ AttemptsAreAllowed'
  BY <1>1, AttemptIsNew
<1>4. /\ FetchTypes /\ OnItsWayOnce /\ NobodyIsForgotten /\ LookupIsShared /\ TokensAreCounted
  BY DEF FetchInv
<1>5. /\ UNCHANGED <<cache, delivering>>
      /\ inflight' = [inflight EXCEPT ![h] = Append(@, a)]
      /\ IF Coalesces(h) THEN UNCHANGED <<lookups, resolving, tokens, timer, burst>> ELSE Take(h)
  BY <1>2, <1>3 DEF Fetch, Lookup
<1>6. inflight \in [Hosts -> Seq(Requests \X Nat)] /\ inflight[h] \in Seq(Requests \X Nat)
  BY <1>4 DEF FetchTypes
<1>7. /\ inflight'[h] \in Seq(Requests \X Nat)
      /\ ToSet(inflight'[h]) = ToSet(inflight[h]) \cup {a}
      /\ IsInjective(inflight'[h])
      /\ inflight'[h] # <<>>
  <2>1. a \in Requests \X Nat  BY <1>3
  <2> HIDE DEF a
  <2>2. inflight'[h] = Append(inflight[h], a)  BY <1>5, <1>6
  <2>3. /\ Append(inflight[h], a) \in Seq(Requests \X Nat)
        /\ ToSet(Append(inflight[h], a)) = ToSet(inflight[h]) \cup {a}
        /\ IsInjective(inflight[h]) /\ a \notin ToSet(inflight[h])
             => IsInjective(Append(inflight[h], a))
    BY <2>1, <1>6, AppendedSeq
  <2>4. ToSet(<<>>) = {}  BY DEF ToSet
  <2>5. Append(inflight[h], a) # <<>>  BY <2>3, <2>4
  <2> QED  BY <2>2, <2>3, <2>5, <1>3, <1>4 DEF OnItsWayOnce
<1>8. \A g \in Hosts : g # h => inflight'[g] = inflight[g]  BY <1>5, <1>6
<1>9. inflight' \in [Hosts -> Seq(Requests \X Nat)]
  <2>1. DOMAIN inflight' = Hosts /\ \A g \in Hosts : inflight'[g] \in Seq(Requests \X Nat)
    BY <1>5, <1>6, <1>7, <1>8
  <2> QED  BY <2>1, <1>5
<1>10. \A g \in Hosts : \A b : b \in ToSet(inflight'[g]) <=> b \in ToSet(inflight[g]) \/ (g = h /\ b = a)
  BY <1>7, <1>8
<1>11. AttemptsWereBegun'
  <2>1. /\ \A g \in Hosts : \A b \in ToSet(inflight[g]) :
             HostOf[b[1]] = g /\ b[2] \in 1 .. request'[b[1]].attempt
        /\ \A hit \in delivering : hit[1][2] \in 1 .. request'[hit[1][1]].attempt
    BY <1>3, OthersWereBegun
  <2>2. a[1] = r /\ a[2] = n  OBVIOUS
  <2> HIDE DEF a
  <2>3. HostOf[a[1]] = h /\ a[2] \in 1 .. request'[a[1]].attempt  BY <2>2, <1>2, <1>3
  <2>4. \A g \in Hosts : \A b \in ToSet(inflight'[g]) :
          HostOf[b[1]] = g /\ b[2] \in 1 .. request'[b[1]].attempt
    BY <2>1, <2>3, <1>10
  <2> QED  BY <2>1, <2>4, <1>5 DEF AttemptsWereBegun
<1>12. OnItsWayOnce'
  <2>1. \A g \in Hosts : IsInjective(inflight'[g])  BY <1>4, <1>7, <1>8 DEF OnItsWayOnce
  <2>2. ASSUME NEW hit \in delivering  PROVE hit[1] \notin ToSet(inflight'[HostOf[hit[1][1]]])
    <3>1. hit[1][1] \in Requests  BY <1>4 DEF FetchTypes
    <3>2. HostOf[hit[1][1]] \in Hosts  BY <3>1 DEF Hosts
    <3>3. hit[1] # a  BY <1>3 DEF IsHit
    <3> QED  BY <3>2, <3>3, <1>4, <1>10 DEF OnItsWayOnce, Waits
  <2> QED  BY <2>1, <2>2, <1>4, <1>5 DEF OnItsWayOnce, Waits
<1>13. NobodyIsForgotten'
  <2> SUFFICES ASSUME NEW q \in Requests, request'[q].at = "lookup"
               PROVE  Waits(AttemptOf(q))' \/ IsHit(AttemptOf(q))'
    BY DEF NobodyIsForgotten
  <2>1. CASE q = r
    <3>1. a \in ToSet(inflight'[h])  BY <1>10
    <3> QED  BY <2>1, <3>1, <1>2, <1>3 DEF Waits
  <2>2. CASE q # r
    <3>1. request'[q] = request[q] /\ AttemptOf(q)' = AttemptOf(q) /\ AttemptOf(q)[1] = q
      BY <2>2, <1>3 DEF AttemptOf
    <3>2. Waits(AttemptOf(q)) \/ IsHit(AttemptOf(q))  BY <3>1, <1>4 DEF NobodyIsForgotten
    <3>3. HostOf[q] \in Hosts  BY DEF Hosts
    <3> QED  BY <3>1, <3>2, <3>3, <1>5, <1>10 DEF Waits, IsHit
  <2> QED  BY <2>1, <2>2
<1>14. /\ lookups' \in Seq(Hosts) /\ resolving' \subseteq Hosts
       /\ tokens' \in Nat /\ burst' \in Nat /\ timer' \in {"off", "set", "due"}
       /\ LookupIsShared' /\ TokensAreCounted'
  <2>1. /\ lookups \in Seq(Hosts) /\ resolving \subseteq Hosts
        /\ tokens \in Nat /\ burst \in Nat /\ timer \in {"off", "set", "due"}
        /\ IsInjective(lookups) /\ ToSet(lookups) \cap resolving = {}
        /\ \A g : g \in ToSet(lookups) \cup resolving <=> g \in Hosts /\ inflight[g] # <<>>
        /\ burst + tokens <= Capacity /\ Capacity \in Nat
    BY <1>4, FetchAssumption DEF FetchTypes, LookupIsShared, TokensAreCounted
  <2>2. \A g \in Hosts : inflight'[g] # <<>> <=> g = h \/ inflight[g] # <<>>  BY <1>7, <1>8
  <2>3. CASE Coalesces(h)
    <3>1. inflight[h] # <<>>  BY <2>3 DEF Coalesces
    <3>2. UNCHANGED <<lookups, resolving, tokens, timer, burst>>  BY <2>3, <1>5
    <3>3. {g \in Hosts : inflight'[g] # <<>>} = {g \in Hosts : inflight[g] # <<>>}
      BY <2>2, <3>1
    <3> QED  BY <3>2, <3>3, <2>1, <1>4 DEF LookupIsShared, TokensAreCounted
  <2>4. CASE ~Coalesces(h)
    <3>1. inflight[h] = <<>>  BY <2>4 DEF Coalesces
    <3>2. h \notin ToSet(lookups) /\ h \notin resolving  BY <2>1, <3>1
    <3>3. CASE lookups = <<>> /\ tokens >= 1
      <4>1. /\ tokens' = tokens - 1 /\ burst' = burst + 1
            /\ resolving' = resolving \cup {h} /\ UNCHANGED <<lookups, timer>>
        BY <2>4, <3>3, <1>5 DEF Take
      <4>2. tokens' \in Nat /\ burst' \in Nat /\ burst' + tokens' <= Capacity
        BY <4>1, <3>3, <2>1
      <4>3. ToSet(lookups') \cap resolving' = {}  BY <4>1, <3>2, <2>1
      <4>4. {g \in Hosts : inflight'[g] # <<>>} = ToSet(lookups') \cup resolving'
        BY <4>1, <2>1, <2>2
      <4> QED  BY <4>1, <4>2, <4>3, <4>4, <2>1 DEF LookupIsShared, TokensAreCounted
    <3>4. CASE ~(lookups = <<>> /\ tokens >= 1)
      <4>1. /\ lookups' = Append(lookups, h) /\ timer' = Schedule
            /\ UNCHANGED <<tokens, burst, resolving>>
        BY <2>4, <3>4, <1>5 DEF Take
      <4>2. /\ lookups' \in Seq(Hosts) /\ IsInjective(lookups')
            /\ ToSet(lookups') = ToSet(lookups) \cup {h}
        BY <4>1, <3>2, <2>1, AppendedSeq
      <4>3. timer' \in {"off", "set", "due"}  BY <4>1, <2>1 DEF Schedule
      <4>4. ToSet(lookups') \cap resolving' = {}  BY <4>1, <4>2, <3>2, <2>1
      <4>5. {g \in Hosts : inflight'[g] # <<>>} = ToSet(lookups') \cup resolving'
        BY <4>1, <4>2, <2>1, <2>2
      <4> QED  BY <4>1, <4>2, <4>3, <4>4, <4>5, <2>1 DEF LookupIsShared, TokensAreCounted
    <3> QED  BY <3>3, <3>4
  <2> QED  BY <2>3, <2>4
<1>15. FetchTypes'  BY <1>3, <1>4, <1>5, <1>9, <1>14 DEF FetchTypes
<1>16. FailuresPassSoon'  BY <1>5 DEF FetchInv, FailuresPassSoon
<1> QED  BY <1>3, <1>11, <1>12, <1>13, <1>14, <1>15, <1>16 DEF FetchInv

\* Before anything is asked for, the invariant holds, and every step keeps it.
LEMMA LookupsStay ==
  /\ FetchInit => FetchInv
  /\ FetchInv /\ [FetchNext]_fetchVars => FetchInv'
<1>1. ASSUME FetchInit  PROVE FetchInv
  <2>1. ToSet(<<>>) = {} /\ IsInjective(<<>>)  BY DEF ToSet, IsInjective
  <2>2. /\ request = [r \in Requests |-> [at |-> "idle", attempt |-> 0]]
        /\ cache = <<>> /\ inflight = [h \in Hosts |-> <<>>]
        /\ delivering = {} /\ lookups = <<>> /\ resolving = {}
        /\ tokens = Capacity /\ timer = "off" /\ burst = 0
    BY <1>1 DEF FetchInit
  <2>3. FetchTypes  BY <2>2, FetchAssumption DEF FetchTypes
  <2>4. AttemptsAreAllowed /\ NobodyIsForgotten
    BY <2>2, FetchAssumption DEF AttemptsAreAllowed, NobodyIsForgotten
  <2>5. AttemptsWereBegun /\ OnItsWayOnce  BY <2>1, <2>2 DEF AttemptsWereBegun, OnItsWayOnce
  <2>6. LookupIsShared  BY <2>1, <2>2 DEF LookupIsShared
  <2>7. FailuresPassSoon /\ TokensAreCounted
    BY <2>2, FetchAssumption DEF FailuresPassSoon, TokensAreCounted
  <2> QED  BY <2>3, <2>4, <2>5, <2>6, <2>7 DEF FetchInv
<1>2. ASSUME FetchInv, [FetchNext]_fetchVars  PROVE FetchInv'
  <2>1. ASSUME NEW r \in Requests, Fetch(r)  PROVE FetchInv'
    BY <2>1, <1>2, HitKeeps, MissKeeps
  <2>2. CASE \E r \in Requests : Retry(r) \/ FirstFetch(r)
    BY <2>1, <2>2 DEF Retry, FirstFetch
  <2>3. CASE \E r \in Requests : Respond(r) \/ Abort(r)  BY <2>3, <1>2, RequestsKeep
  <2>4. CASE \E h \in Hosts, answer \in Answers : Resolve(h, answer)
    BY <2>4, <1>2, ResolveKeeps
  <2>5. CASE \E hit \in delivering : Deliver(hit)  BY <2>5, <1>2, DeliverKeeps
  <2>6. CASE Pump  BY <2>6, <1>2, PumpKeeps
  <2>7. CASE Tick  BY <2>7, <1>2, TickKeeps
  <2>8. CASE UNCHANGED fetchVars
    BY <2>8, <1>2 DEF fetchVars, FetchInv, FetchTypes, AttemptsAreAllowed, AttemptsWereBegun,
       OnItsWayOnce, NobodyIsForgotten, LookupIsShared, FailuresPassSoon, TokensAreCounted,
       Waits, IsHit, AttemptOf
  <2> QED  BY <2>2, <2>3, <2>4, <2>5, <2>6, <2>7, <2>8, <1>2 DEF FetchNext, Progress
<1> QED  BY <1>1, <1>2

\* What the invariant is for: see FetchIsFair and FetchTypeOK.
LEMMA InvariantIsFair == FetchInv => FetchIsFair /\ FetchTypeOK
<1> SUFFICES ASSUME FetchInv  PROVE FetchIsFair /\ FetchTypeOK
  OBVIOUS
<1>1. FetchTypes /\ AttemptsAreAllowed /\ AttemptsWereBegun /\ OnItsWayOnce /\ NobodyIsForgotten
  BY DEF FetchInv
<1>2. CalledBackOnce
  <2> SUFFICES ASSUME NEW r \in Requests
               PROVE  LET s == inflight[HostOf[r]]
                          waits == {i \in DOMAIN s : s[i] = AttemptOf(r)}
                          hits == {hit \in delivering : hit[1] = AttemptOf(r)}
                      IN  /\ request[r].at = "lookup" => \/ hits = {} /\ \E i \in waits : waits = {i}
                                                         \/ waits = {} /\ \E hit \in hits : hits = {hit}
                          /\ request[r].at = "idle" => waits = {} /\ hits = {}
    BY DEF CalledBackOnce
  <2> DEFINE s == inflight[HostOf[r]]
             a == AttemptOf(r)
             waits == {i \in DOMAIN s : s[i] = a}
             hits == {hit \in delivering : hit[1] = a}
  <2>1. a[1] = r /\ a[2] = request[r].attempt /\ HostOf[r] \in Hosts  BY DEF AttemptOf, Hosts
  <2>2. waits # {} <=> Waits(a)  BY <2>1 DEF Waits, ToSet
  <2>3. hits # {} <=> IsHit(a)  BY DEF IsHit
  <2>4. \A i, j \in waits : i = j  BY <1>1, <2>1 DEF OnItsWayOnce, IsInjective
  <2>5. \A x, y \in hits : x = y  BY <1>1 DEF OnItsWayOnce
  <2>6. IsHit(a) => ~Waits(a)  BY <1>1 DEF OnItsWayOnce, IsHit
  <2>7. ASSUME request[r].at = "idle"  PROVE ~Waits(a) /\ ~IsHit(a)
    <3>1. a[2] \notin 1 .. request[a[1]].attempt
      BY <2>1, <2>7, <1>1 DEF AttemptsAreAllowed
    <3>2. ~Waits(a)  BY <3>1, <2>1, <1>1 DEF AttemptsWereBegun, Waits
    <3>3. ~IsHit(a)  BY <3>1, <1>1 DEF AttemptsWereBegun, IsHit
    <3> QED  BY <3>2, <3>3
  <2>8. request[r].at = "lookup" => Waits(a) \/ IsHit(a)  BY <1>1 DEF NobodyIsForgotten
  <2> HIDE DEF s, a, waits, hits
  <2>9. waits # {} => \E i \in waits : waits = {i}  BY <2>4
  <2>10. hits # {} => \E hit \in hits : hits = {hit}  BY <2>5
  <2>11. /\ request[r].at = "lookup" => \/ hits = {} /\ \E i \in waits : waits = {i}
                                        \/ waits = {} /\ \E hit \in hits : hits = {hit}
         /\ request[r].at = "idle" => waits = {} /\ hits = {}
    BY <2>2, <2>3, <2>6, <2>7, <2>8, <2>9, <2>10
  <2> QED  BY <2>11 DEF waits, hits, s, a
<1>3. LookupsArePaced
  BY FetchAssumption DEF FetchInv, FetchTypes, TokensAreCounted, LookupsArePaced
<1>4. FetchTypeOK
  <2>1. \A r \in Requests : request[r].at \in {"idle", "lookup", "connected", "sleeping", "ended"}
    BY <1>1 DEF FetchTypes
  <2>2. \A i \in DOMAIN cache : cache[i].host \in Hosts /\ cache[i].answer \in Answers
    <3> TAKE i \in DOMAIN cache
    <3>1. cache \in Seq([host : Hosts, answer : Answers, left : Nat])  BY <1>1 DEF FetchTypes
    <3>2. i \in 1 .. Len(cache)  BY <3>1
    <3>3. cache[i] \in [host : Hosts, answer : Answers, left : Nat]  BY <3>1, <3>2, ElementOfSeq
    <3> QED  BY <3>3
  <2>3. ToSet(lookups) \cup resolving \subseteq Hosts  BY DEF FetchInv, LookupIsShared
  <2> QED  BY <2>1, <2>2, <2>3, <1>1 DEF FetchTypeOK, FetchTypes, AttemptsAreAllowed
<1> QED  BY <1>2, <1>3, <1>4 DEF FetchInv, FetchIsFair

\* For any number of requests, names and attempts, whatever tokens and entries
\* there are and in whatever order answers come or time runs out: those who wait
\* for a name share one lookup, each attempt is called back once, no failure is
\* pinned in the cache, and the resolver is paced.
THEOREM LookupsAreFair == FetchSpec => []FetchIsFair
<1> QED  BY LookupsStay, InvariantIsFair, PTL DEF FetchSpec

\* The types of the requests of a sweep.
THEOREM FetchTypeCorrect == FetchSpec => []FetchTypeOK
<1> QED  BY LookupsStay, InvariantIsFair, PTL DEF FetchSpec

-----------------------------------------------------------------------------
\* A set of numbers has a least one: were there none, the numbers below all of it
\* would be closed under successor, and finitely many.
LEMMA LeastNumber ==
  ASSUME NEW S \in SUBSET Nat, S # {}
  PROVE  \E x \in S : \A y \in S : x <= y
  <1> SUFFICES ASSUME \A x \in S : \E y \in S : ~(x <= y)  PROVE FALSE
    OBVIOUS
  <1>1. PICK k \in S : TRUE  BY Zenon
  <1> DEFINE U == {n \in 0 .. k : \A m \in S : n < m}
             T == U \ {0}
  <1>2. k \in Nat /\ \A m \in S : m \in Nat  OBVIOUS
  <1>3. IsFiniteSet(U)
    <2>1. IsFiniteSet(0 .. k)  BY <1>2, FS_Interval
    <2> QED  BY <2>1, FS_Subset
  <1>4. 0 \in U
    <2>1. 0 \notin S  BY <1>2
    <2> QED  BY <1>2, <2>1
  <1>5. IsFiniteSet(T) /\ Cardinality(T) = Cardinality(U) - 1
    BY Zenon, <1>3, <1>4, FS_RemoveElement
  <1>6. Cardinality(U) \in Nat  BY <1>3, FS_CardinalityType
  <1>7. \A n \in U : n + 1 \in T
    <2> SUFFICES ASSUME NEW n \in U  PROVE n + 1 \in T
      OBVIOUS
    <2>1. n \in Nat /\ n < k /\ n + 1 \in 0 .. k  BY <1>1, <1>2
    <2>2. n + 1 \notin S
      <3> SUFFICES ASSUME n + 1 \in S  PROVE FALSE
        OBVIOUS
      <3>1. PICK y \in S : ~(n + 1 <= y)  OBVIOUS
      <3>2. n < y  OBVIOUS
      <3> QED  BY <1>2, <2>1, <3>1, <3>2
    <2>3. \A m \in S : n + 1 < m  BY <1>2, <2>1, <2>2
    <2> QED  BY <2>1, <2>3
  <1> DEFINE f == [n \in U |-> n + 1]
  <1>8. f \in [U -> T]  BY <1>7
  <1>9. PICK x, y \in U : x # y /\ f[x] = f[y]
    <2>1. Cardinality(T) < Cardinality(U)  BY <1>5, <1>6
    <2> HIDE DEF U, T, f
    <2> QED  BY <1>3, <1>5, <1>8, <2>1, FS_PigeonHole
  <1> QED  BY <1>2, <1>9

\* In s, q is shown before p, or it is p.
Shown(s, q, p) == \E i, j \in DOMAIN s : i <= j /\ s[i] = q /\ s[j] = p

LEMMA TakenOut ==
  ASSUME NEW S, NEW s \in Seq(S), IsInjective(s), NEW k \in DOMAIN s
  PROVE  LET t == RemoveAt(s, k)
         IN  /\ t \in Seq(S) /\ IsInjective(t) /\ ToSet(t) = ToSet(s) \ {s[k]}
             /\ \A p, q : p # s[k] /\ q # s[k] => (Shown(t, q, p) <=> Shown(s, q, p))
<1> DEFINE t == RemoveAt(s, k)
           a == SubSeq(s, 1, k - 1)
           b == SubSeq(s, k + 1, Len(s))
<1>1. /\ Len(s) \in Nat /\ DOMAIN s = 1 .. Len(s) /\ k \in Nat /\ 1 <= k /\ k <= Len(s)
      /\ \A i, j \in 1 .. Len(s) : s[i] = s[j] => i = j
  BY DEF IsInjective
<1>2. a \in Seq(S) /\ Len(a) = k - 1 /\ \A i \in 1 .. k - 1 : a[i] = s[i]
  BY <1>1
<1>3. b \in Seq(S) /\ Len(b) = Len(s) - k /\ \A i \in 1 .. Len(s) - k : b[i] = s[k + i]
  BY <1>1
<1>4. t = a \o b  BY DEF RemoveAt
<1> HIDE DEF a, b, t
<1>5. t \in Seq(S) /\ Len(t) = Len(s) - 1
  <2>1. t \in Seq(S) /\ Len(t) = Len(a) + Len(b)  BY <1>2, <1>3, <1>4, ConcatProperties
  <2>2. Len(a) + Len(b) = (k - 1) + (Len(s) - k)  BY <1>2, <1>3
  <2>3. (k - 1) + (Len(s) - k) = Len(s) - 1  BY <1>1
  <2> QED  BY <2>1, <2>2, <2>3
<1>6. \A i \in 1 .. Len(s) - 1 : t[i] = IF i < k THEN s[i] ELSE s[i + 1]
  <2> TAKE i \in 1 .. Len(s) - 1
  <2>1. CASE i < k
    <3>1. i \in 1 .. k - 1  BY <2>1, <1>1
    <3> QED  BY <2>1, <3>1, <1>1, <1>2, <1>3, <1>4
  <2>2. CASE ~(i < k)
    <3>1. i - (k - 1) \in 1 .. Len(s) - k /\ k + (i - (k - 1)) = i + 1  BY <2>2, <1>1
    <3>2. t[i] = b[i - (k - 1)]  BY <2>2, <1>1, <1>2, <1>3, <1>4
    <3> QED  BY <2>2, <3>1, <3>2, <1>3
  <2> QED  BY <2>1, <2>2
<1> DEFINE To(i) == IF i < k THEN i ELSE i + 1
<1>7. DOMAIN t = 1 .. Len(s) - 1  BY <1>5, <1>1
<1>8. \A i \in 1 .. Len(s) - 1 : To(i) \in 1 .. Len(s) \ {k} /\ t[i] = s[To(i)]
  BY <1>1, <1>6
<1>9. \A i, j \in 1 .. Len(s) - 1 : i <= j <=> To(i) <= To(j)
  BY <1>1
<1>10. \A i \in 1 .. Len(s) \ {k} : \E j \in 1 .. Len(s) - 1 : To(j) = i
  <2> TAKE i \in 1 .. Len(s) \ {k}
  <2>1. CASE i < k
    <3>1. i \in 1 .. Len(s) - 1 /\ To(i) = i  BY <2>1, <1>1
    <3> QED  BY <3>1
  <2>2. CASE ~(i < k)
    <3>1. i - 1 \in 1 .. Len(s) - 1 /\ To(i - 1) = i  BY <2>2, <1>1
    <3> QED  BY <3>1
  <2> QED  BY <2>1, <2>2
<1> HIDE DEF To
<1>11. IsInjective(t)
  <2> SUFFICES ASSUME NEW i \in 1 .. Len(s) - 1, NEW j \in 1 .. Len(s) - 1, t[i] = t[j]
               PROVE  i = j
    BY <1>7 DEF IsInjective
  <2>1. To(i) = To(j)  BY <1>1, <1>8
  <2>2. To(i) \in 1 .. Len(s)  BY <1>8
  <2>3. i <= j /\ j <= i  BY <2>1, <2>2, <1>9
  <2> QED  BY <2>3
<1>12. ToSet(t) = ToSet(s) \ {s[k]}
  <2>1. \A x \in ToSet(t) : x \in ToSet(s) \ {s[k]}
    <3> SUFFICES ASSUME NEW i \in 1 .. Len(s) - 1  PROVE t[i] \in ToSet(s) \ {s[k]}
      BY <1>7 DEF ToSet
    <3>1. To(i) \in 1 .. Len(s) /\ To(i) # k /\ t[i] = s[To(i)]  BY <1>8
    <3> QED  BY <3>1, <1>1 DEF ToSet
  <2>2. \A x \in ToSet(s) \ {s[k]} : x \in ToSet(t)
    <3> SUFFICES ASSUME NEW i \in 1 .. Len(s), s[i] # s[k]  PROVE s[i] \in ToSet(t)
      BY <1>1 DEF ToSet
    <3>1. PICK j \in 1 .. Len(s) - 1 : To(j) = i  BY <1>10
    <3> QED  BY <3>1, <1>7, <1>8 DEF ToSet
  <2> QED  BY <2>1, <2>2
<1>13. ASSUME NEW p, NEW q, p # s[k], q # s[k]
       PROVE  Shown(t, q, p) <=> Shown(s, q, p)
  <2>1. ASSUME Shown(t, q, p)  PROVE Shown(s, q, p)
    <3>1. PICK i, j \in 1 .. Len(s) - 1 : i <= j /\ t[i] = q /\ t[j] = p
      BY <2>1, <1>7 DEF Shown
    <3>2. To(i) <= To(j) /\ To(i) \in 1 .. Len(s) /\ To(j) \in 1 .. Len(s)
      BY <3>1, <1>8, <1>9
    <3>3. s[To(i)] = q /\ s[To(j)] = p  BY <3>1, <1>8
    <3> QED  BY <3>2, <3>3, <1>1 DEF Shown
  <2>2. ASSUME Shown(s, q, p)  PROVE Shown(t, q, p)
    <3>1. PICK i, j \in 1 .. Len(s) : i <= j /\ s[i] = q /\ s[j] = p
      BY <2>2, <1>1 DEF Shown
    <3>2. PICK l \in 1 .. Len(s) - 1 : To(l) = i  BY <3>1, <1>10, <1>13
    <3>3. PICK m \in 1 .. Len(s) - 1 : To(m) = j  BY <3>1, <1>10, <1>13
    <3>4. l <= m /\ t[l] = q /\ t[m] = p  BY <3>1, <3>2, <3>3, <1>8, <1>9
    <3> QED  BY <3>4, <1>7 DEF Shown
  <2> QED  BY <2>1, <2>2
<1> QED  BY <1>5, <1>11, <1>12, <1>13 DEF t

LEMMA PutInFront ==
  ASSUME NEW S, NEW s \in Seq(S), IsInjective(s), NEW e \in S, e \notin ToSet(s)
  PROVE  LET t == <<e>> \o s
         IN  /\ t \in Seq(S) /\ IsInjective(t) /\ ToSet(t) = ToSet(s) \cup {e}
             /\ \A p, q : Shown(s, q, p) => Shown(t, q, p)
<1> DEFINE t == <<e>> \o s
<1>1. /\ Len(s) \in Nat /\ DOMAIN s = 1 .. Len(s)
      /\ \A i, j \in 1 .. Len(s) : s[i] = s[j] => i = j
      /\ \A i \in 1 .. Len(s) : s[i] # e
  BY DEF IsInjective, ToSet
<1>2. t \in Seq(S) /\ DOMAIN t = 1 .. Len(s) + 1 /\ t[1] = e
  OBVIOUS
<1>3. \A i \in 1 .. Len(s) : i + 1 \in 1 .. Len(s) + 1 /\ t[i + 1] = s[i]
  BY <1>1
<1>4. \A i \in 1 .. Len(s) + 1 : i = 1 \/ (i - 1 \in 1 .. Len(s) /\ t[i] = s[i - 1])
  BY <1>1
<1> HIDE DEF t
<1>5. IsInjective(t)
  <2> SUFFICES ASSUME NEW i \in 1 .. Len(s) + 1, NEW j \in 1 .. Len(s) + 1, t[i] = t[j]
               PROVE  i = j
    BY <1>2 DEF IsInjective
  <2>1. CASE i = 1  BY <2>1, <1>1, <1>2, <1>4
  <2>2. CASE j = 1  BY <2>2, <1>1, <1>2, <1>4
  <2>3. CASE i # 1 /\ j # 1
    <3>1. i - 1 = j - 1  BY <2>3, <1>1, <1>4
    <3> QED  BY <3>1
  <2> QED  BY <2>1, <2>2, <2>3
<1>6. ToSet(t) = ToSet(s) \cup {e}
  <2>1. \A x \in ToSet(t) : x \in ToSet(s) \cup {e}  BY <1>1, <1>2, <1>4 DEF ToSet
  <2>2. \A x \in ToSet(s) : x \in ToSet(t)  BY <1>1, <1>2, <1>3 DEF ToSet
  <2>3. e \in ToSet(t)
    <3>1. 1 \in 1 .. Len(s) + 1  BY <1>1
    <3> QED  BY <3>1, <1>2 DEF ToSet
  <2> QED  BY <2>1, <2>2, <2>3
<1>7. ASSUME NEW p, NEW q, Shown(s, q, p)  PROVE Shown(t, q, p)
  <2>1. PICK i, j \in 1 .. Len(s) : i <= j /\ s[i] = q /\ s[j] = p
    BY <1>1, <1>7 DEF Shown
  <2>2. i + 1 <= j + 1 /\ t[i + 1] = q /\ t[j + 1] = p  BY <2>1, <1>3
  <2>3. i + 1 \in DOMAIN t /\ j + 1 \in DOMAIN t  BY <1>2, <1>3
  <2> QED  BY <2>2, <2>3 DEF Shown
<1> QED  BY <1>2, <1>5, <1>6, <1>7 DEF t

\* Sweeps.  Whatever is published, renewed and taken down between two requests,
\* and however the board answers: a posting that stayed is overlooked only when
\* it came before the page that is next, and that takes a posting that was taken
\* down.

BoardTypes ==
  /\ portal \in Portals
  /\ board \in Seq(Postings) /\ IsInjective(board)
  /\ found \subseteq Postings /\ stayed \subseteq ToSet(board)
  /\ sweep \in [keyword : 1 .. Len(Keywords) + 1, page : 1 .. MaxPages,
                attempt : 0 .. EmptyRetries, total : Nat, succeeded : BOOLEAN]
  /\ ended \in {"no", "list", "thrown"}
  /\ shortened \subseteq {"cap", "empty", "total", "failure"}
  /\ removals \in Nat /\ blips \in Nat

\* The places on the pages before the one that is next.
Passed == (sweep.page - 1) * PageSize

\* A keyword is at hand as long as the sweep goes on, and none is left at its end.
KeywordsInTurn ==
  /\ ended = "no" => sweep.keyword <= Len(Keywords)
  /\ ended = "list" /\ "failure" \notin shortened => sweep.keyword = Len(Keywords) + 1

\* The total that was told last, if it is remembered, is not reached yet.
TotalIsAhead ==
  /\ sweep.total > 0 => Passed < sweep.total
  /\ portal # "meituan" => sweep.total = 0

\* A page is asked for again because a list was left empty, or because nothing
\* that stays matches the keyword.
EmptyForReasons ==
  portal = "meituan" /\ ended = "no" =>
    sweep.attempt <= blips \/ stayed \cap Keywords[sweep.keyword] = {}

\* What was read over: it is not found, and its keyword is done or its page is.
Overlooked ==
  {p \in stayed \ found :
     \/ \E k \in 1 .. sweep.keyword - 1 : p \in Keywords[k]
     \/ /\ sweep.keyword <= Len(Keywords) /\ p \in Keywords[sweep.keyword]
        /\ Position(p) <= Passed}

OverlookedForRemovals == Excuses = {} => Cardinality(Overlooked) <= removals

\* The first answer makes the difference between a dead board and one that fails.
FirstAnswerCounts == DeadIsTold /\ (~sweep.succeeded => found = {})

BoardInv ==
  /\ BoardTypes /\ KeywordsInTurn /\ TotalIsAhead /\ EmptyForReasons
  /\ OverlookedForRemovals /\ FirstAnswerCounts

LEMMA OrderOfPostings ==
  ASSUME NEW S, NEW s \in Seq(S), IsInjective(s)
  PROVE  /\ \A p \in ToSet(s) : Shown(s, p, p)
         /\ \A p, q \in ToSet(s) : Shown(s, p, q) \/ Shown(s, q, p)
         /\ \A p, q : Shown(s, p, q) /\ Shown(s, q, p) => p = q
         /\ \A p, q, r : Shown(s, p, q) /\ Shown(s, q, r) => Shown(s, p, r)
<1>1. /\ DOMAIN s = 1 .. Len(s) /\ Len(s) \in Nat
      /\ \A i, j \in DOMAIN s : s[i] = s[j] => i = j
  BY DEF IsInjective
<1>2. \A p \in ToSet(s) : \E i \in DOMAIN s : s[i] = p
  BY DEF ToSet
<1>3. \A i, j \in DOMAIN s : i <= j \/ j <= i
  BY <1>1
<1>4. ASSUME NEW p, NEW q, Shown(s, p, q), Shown(s, q, p)  PROVE p = q
  <2>1. PICK i, j \in DOMAIN s : i <= j /\ s[i] = p /\ s[j] = q  BY <1>4 DEF Shown
  <2>2. PICK l, m \in DOMAIN s : l <= m /\ s[l] = q /\ s[m] = p  BY <1>4 DEF Shown
  <2>3. i = m /\ j = l  BY <1>1, <2>1, <2>2
  <2>4. i = j  BY <1>1, <2>1, <2>2, <2>3
  <2> QED  BY <2>1, <2>4
<1>5. ASSUME NEW p, NEW q, NEW r, Shown(s, p, q), Shown(s, q, r)  PROVE Shown(s, p, r)
  <2>1. PICK i, j \in DOMAIN s : i <= j /\ s[i] = p /\ s[j] = q  BY <1>5 DEF Shown
  <2>2. PICK l, m \in DOMAIN s : l <= m /\ s[l] = q /\ s[m] = r  BY <1>5 DEF Shown
  <2>3. j = l  BY <1>1, <2>1, <2>2
  <2>4. i <= m  BY <1>1, <2>1, <2>2, <2>3
  <2> QED  BY <2>1, <2>2, <2>4 DEF Shown
<1>6. \A p \in ToSet(s) : Shown(s, p, p)
  <2> TAKE p \in ToSet(s)
  <2>1. PICK i \in DOMAIN s : s[i] = p  BY <1>2
  <2>2. i <= i  BY <1>1
  <2> QED  BY <2>1, <2>2 DEF Shown
<1>7. \A p, q \in ToSet(s) : Shown(s, p, q) \/ Shown(s, q, p)
  BY <1>2, <1>3 DEF Shown
<1> QED  BY <1>4, <1>5, <1>6, <1>7

LEMMA UpToShown == \A p : UpTo(p) = {q \in Matching : Shown(board, q, p)}
BY DEF UpTo, Shown

\* A page has room, and what comes before it is a number.
LEMMA PagesAreRead ==
  ASSUME BoardTypes
  PROVE  /\ Passed \in Nat /\ PageSize \in Nat /\ PageSize > 0
         /\ sweep.page * PageSize = Passed + PageSize
         /\ sweep.page \in Nat /\ sweep.page >= 1 /\ sweep.page <= MaxPages
<1>1. sweep.page \in Nat /\ sweep.page >= 1 /\ sweep.page <= MaxPages
  <2>1. sweep.page \in 1 .. MaxPages  BY DEF BoardTypes
  <2> QED  BY <2>1, BoardAssumption
<1>2. PageSize \in Nat /\ PageSize > 0  BY BoardAssumption
<1>3. \A n, k \in Nat : n >= 1 => (n - 1) * k \in Nat /\ n * k = (n - 1) * k + k
  OBVIOUS
<1> QED  BY <1>1, <1>2, <1>3 DEF Passed

\* The postings that match are counted one after the other.
LEMMA PositionsCount ==
  ASSUME BoardTypes
  PROVE  /\ IsFiniteSet(Matching) /\ Cardinality(Matching) \in Nat
         /\ \A p \in Matching : Position(p) \in 1 .. Cardinality(Matching)
         /\ \A p, q \in Matching : Shown(board, q, p) /\ q # p => Position(q) < Position(p)
         /\ \A p, q \in Matching : Position(p) = Position(q) => p = q
<1>1. board \in Seq(Postings) /\ IsInjective(board)  BY DEF BoardTypes
<1>2. IsFiniteSet(Matching) /\ Cardinality(Matching) \in Nat
  <2>1. ToSet(board) \subseteq Postings  BY <1>1 DEF ToSet
  <2>2. Matching \in SUBSET Postings  BY <2>1 DEF Matching
  <2>3. IsFiniteSet(Matching)  BY <2>2, BoardAssumption, FS_Subset
  <2> QED  BY <2>3, FS_CardinalityType
<1>3. \A p : UpTo(p) \in SUBSET Matching  BY UpToShown
<1>4. \A p : IsFiniteSet(UpTo(p)) /\ Cardinality(UpTo(p)) \in Nat
  BY <1>2, <1>3, FS_Subset, FS_CardinalityType
<1>5. \A p \in Matching : p \in ToSet(board)  BY DEF Matching
<1>6. \A p \in Matching : p \in UpTo(p)
  BY <1>1, <1>5, OrderOfPostings, UpToShown
<1>7. ASSUME NEW p \in Matching  PROVE Position(p) \in 1 .. Cardinality(Matching)
  <2>1. Cardinality(UpTo(p)) <= Cardinality(Matching)  BY <1>2, <1>3, FS_Subset
  <2>2. Cardinality(UpTo(p)) # 0  BY <1>4, <1>6, FS_EmptySet
  <2> QED  BY <1>2, <1>4, <2>1, <2>2 DEF Position
<1>8. ASSUME NEW p \in Matching, NEW q \in Matching, Shown(board, q, p), q # p
      PROVE  Position(q) < Position(p)
  <2>1. UpTo(q) \in SUBSET UpTo(p)
    BY <1>1, <1>8, OrderOfPostings, UpToShown
  <2>2. p \notin UpTo(q)
    BY <1>1, <1>8, OrderOfPostings, UpToShown
  <2>3. UpTo(q) # UpTo(p)  BY <2>2, <1>6
  <2>4. Cardinality(UpTo(q)) <= Cardinality(UpTo(p))  BY <2>1, <1>4, FS_Subset
  <2>5. Cardinality(UpTo(q)) # Cardinality(UpTo(p))  BY <2>1, <2>3, <1>4, FS_Subset
  <2> QED  BY <1>4, <2>4, <2>5 DEF Position
<1>9. ASSUME NEW p \in Matching, NEW q \in Matching, Position(p) = Position(q)  PROVE p = q
  <2>1. Shown(board, p, q) \/ Shown(board, q, p)  BY <1>1, <1>5, OrderOfPostings
  <2>2. Position(p) \in Nat /\ Position(q) \in Nat  BY <1>4 DEF Position
  <2>3. ~(Position(p) < Position(q)) /\ ~(Position(q) < Position(p))  BY <1>9, <2>2
  <2> QED  BY <2>1, <2>3, <1>8
<1> QED  BY <1>2, <1>7, <1>8, <1>9

\* An empty page is past the end: places follow one another.
LEMMA NoneFurther ==
  ASSUME BoardTypes, Page = {}
  PROVE  /\ Cardinality(Matching) <= Passed
         /\ \A p \in Matching : Position(p) <= Passed
<1>1. /\ Passed \in Nat /\ PageSize \in Nat /\ PageSize > 0
      /\ sweep.page * PageSize = Passed + PageSize
  BY PagesAreRead
<1>2. /\ IsFiniteSet(Matching) /\ Cardinality(Matching) \in Nat
      /\ \A p \in Matching : Position(p) \in Nat /\ Position(p) >= 1
      /\ \A p, q \in Matching : Shown(board, q, p) /\ q # p => Position(q) < Position(p)
      /\ \A p, q \in Matching : Position(p) = Position(q) => p = q
  BY PositionsCount
<1>3. ASSUME NEW T \in SUBSET Matching, \A q \in T : Position(q) <= Passed
      PROVE  Cardinality(T) <= Passed
  <2> SUFFICES ASSUME ~(Cardinality(T) <= Passed)  PROVE FALSE
    OBVIOUS
  <2>1. IsFiniteSet(T)  BY <1>2, FS_Subset
  <2>2. IsFiniteSet(1 .. Passed) /\ Cardinality(1 .. Passed) = Passed
    BY <1>1, FS_Interval
  <2>3. Cardinality(T) \in Nat  BY <2>1, FS_CardinalityType
  <2>4. Cardinality(1 .. Passed) < Cardinality(T)  BY <1>1, <2>2, <2>3
  <2> DEFINE f == [q \in T |-> Position(q)]
  <2>5. f \in [T -> 1 .. Passed]  BY <1>1, <1>2, <1>3
  <2>6. PICK x, y \in T : x # y /\ f[x] = f[y]
    <3> HIDE DEF f
    <3> QED  BY <2>1, <2>2, <2>4, <2>5, FS_PigeonHole
  <2> QED  BY <1>2, <2>6
<1>4. \A p \in Matching : Position(p) <= Passed
  <2> SUFFICES ASSUME NEW p1 \in Matching, Position(p1) > Passed  PROVE FALSE
    BY <1>1, <1>2
  <2> DEFINE N == {Position(p) : p \in {q \in Matching : Position(q) > Passed}}
  <2>1. N \in SUBSET Nat /\ N # {}  BY <1>2
  <2>2. PICK n \in N : \A m \in N : n <= m
    <3> HIDE DEF N
    <3> QED  BY <2>1, LeastNumber
  <2>3. PICK p \in Matching : n = Position(p) /\ Position(p) > Passed  BY Zenon
  <2>4. \A q \in UpTo(p) \ {p} : q \in Matching /\ Position(q) <= Passed
    <3> TAKE q \in UpTo(p) \ {p}
    <3>1. q \in Matching /\ Shown(board, q, p) /\ q # p  BY UpToShown
    <3>2. Position(q) < Position(p)  BY <3>1, <1>2
    <3>3. Position(q) > Passed => Position(q) \in N  BY <3>1
    <3>4. ~(Position(q) > Passed)
      <4> HIDE DEF N
      <4> QED  BY <2>2, <2>3, <3>1, <3>2, <3>3, <1>2
    <3> QED  BY <3>1, <3>4, <1>1, <1>2
  <2>5. Cardinality(UpTo(p) \ {p}) <= Passed  BY <1>3, <2>4
  <2>6. UpTo(p) \in SUBSET Matching /\ p \in UpTo(p)
    <3>1. p \in ToSet(board)  BY DEF Matching
    <3>2. Shown(board, p, p)  BY <3>1, OrderOfPostings DEF BoardTypes
    <3> QED  BY <3>2, UpToShown
  <2>7. IsFiniteSet(UpTo(p))  BY <1>2, <2>6, FS_Subset
  <2>8. Cardinality(UpTo(p) \ {p}) = Position(p) - 1
    BY <2>6, <2>7, FS_RemoveElement DEF Position
  <2>9. Position(p) <= Passed + PageSize  BY <2>5, <2>8, <1>1, <1>2
  <2>10. p \in Page  BY <2>3, <2>9, <1>1 DEF Page, Passed
  <2> QED  BY <2>10
<1>5. Cardinality(Matching) <= Passed  BY <1>3, <1>4
<1> QED  BY <1>4, <1>5

LEMMA PostingsOverlooked ==
  ASSUME BoardTypes
  PROVE  /\ ToSet(board) \subseteq Postings /\ Matching \subseteq Postings
         /\ Page \subseteq Matching
         /\ IsFiniteSet(Overlooked) /\ Cardinality(Overlooked) \in Nat
<1>1. ToSet(board) \subseteq Postings
  <2>1. board \in Seq(Postings)  BY DEF BoardTypes
  <2> QED  BY <2>1 DEF ToSet
<1>2. Overlooked \in SUBSET Postings  BY <1>1 DEF Overlooked, BoardTypes
<1>3. IsFiniteSet(Overlooked)  BY <1>2, BoardAssumption, FS_Subset
<1> QED  BY <1>1, <1>3, FS_CardinalityType DEF Matching, Page

LEMMA BoardStarts == BoardInit => BoardInv
<1> SUFFICES ASSUME BoardInit  PROVE BoardInv
  OBVIOUS
<1> USE DEF BoardInit
<1>1. /\ Len(Keywords) \in Nat /\ Len(Keywords) >= 1
      /\ MaxPages \in Nat /\ MaxPages >= 1 /\ EmptyRetries \in Nat /\ PageSize \in Nat
  BY BoardAssumption
<1>2. board \in Seq(Postings) /\ IsInjective(board)
  <2>1. PICK listed \in SUBSET Postings : board = SetToSeq(listed)  OBVIOUS
  <2>2. IsFiniteSet(listed)  BY BoardAssumption, FS_Subset
  <2>3. PICK n \in Nat : n = Cardinality(listed)  BY <2>2, FS_CardinalityType
  <2>4. \E f \in [1 .. n -> listed] : IsInjective(f)
    <3>1. ExistsBijection(1 .. n, listed)  BY <2>2, <2>3, FS_CardinalityType
    <3> QED  BY <3>1 DEF ExistsBijection, Bijection, Injection
  <2>5. board \in [1 .. n -> listed] /\ IsInjective(board)
    BY <2>1, <2>3, <2>4 DEF SetToSeq
  <2> QED  BY <2>5
<1>3. BoardTypes
  <2>1. sweep \in [keyword : 1 .. Len(Keywords) + 1, page : 1 .. MaxPages,
                   attempt : 0 .. EmptyRetries, total : Nat, succeeded : BOOLEAN]
    BY <1>1
  <2> QED  BY <1>2, <2>1 DEF BoardTypes
<1>4. Passed = 0  BY <1>1 DEF Passed
<1>5. Overlooked = {}
  <2>1. \A p \in stayed : p \in Keywords[1] => ~(Position(p) <= 0)
    <3> SUFFICES ASSUME NEW p \in ToSet(board), p \in Keywords[1]
                 PROVE  ~(Position(p) <= 0)
      OBVIOUS
    <3>1. p \in Matching  BY DEF Matching
    <3> QED  BY <1>3, <3>1, PositionsCount
  <2> QED  BY <1>4, <2>1 DEF Overlooked
<1>6. OverlookedForRemovals
  <2>1. Cardinality(Overlooked) = 0  BY <1>5, FS_EmptySet
  <2> QED  BY <2>1 DEF OverlookedForRemovals
<1>7. KeywordsInTurn /\ TotalIsAhead /\ EmptyForReasons /\ FirstAnswerCounts
  BY <1>1 DEF KeywordsInTurn, TotalIsAhead, EmptyForReasons, FirstAnswerCounts, DeadIsTold
<1> QED  BY <1>3, <1>6, <1>7 DEF BoardInv

\* What the board does leaves the sweep as it is.
LEMMA BoardMoved ==
  ASSUME BoardInv, BoardMoves, board' \in Seq(Postings), IsInjective(board'),
         stayed' \subseteq stayed, stayed' \subseteq ToSet(board'), removals' \in Nat,
         Cardinality(Overlooked) <= removals => Cardinality(Overlooked') <= removals',
         UNCHANGED <<portal, sweep, found, ended, shortened, blips>>
  PROVE  BoardInv'
<1> USE DEF BoardInv
<1>1. BoardTypes'  BY Zenon DEF BoardTypes
<1>2. Excuses' = Excuses /\ Passed' = Passed  BY DEF Excuses, Passed
<1>3. OverlookedForRemovals'  BY <1>2 DEF OverlookedForRemovals
<1>4. KeywordsInTurn' /\ TotalIsAhead' /\ FirstAnswerCounts'
  BY <1>2 DEF KeywordsInTurn, TotalIsAhead, FirstAnswerCounts, DeadIsTold
<1>5. EmptyForReasons'  BY DEF EmptyForReasons
<1> QED  BY <1>1, <1>3, <1>4, <1>5

\* Nobody comes nearer to the front when others are put there.
LEMMA FrontIsFilled ==
  ASSUME BoardInv, BoardTypes', sweep.keyword <= Len(Keywords),
         stayed' \subseteq stayed, UNCHANGED <<sweep, found>>,
         \A p \in stayed' : UpTo(p) \subseteq UpTo(p)'
  PROVE  Cardinality(Overlooked') <= Cardinality(Overlooked)
<1>1. BoardTypes  BY DEF BoardInv
<1>2. Passed' = Passed  BY DEF Passed
<1>3. ASSUME NEW p \in stayed', p \in Keywords[sweep.keyword], Position(p)' <= Passed
      PROVE  Position(p) <= Passed
  <2>1. p \in ToSet(board) /\ p \in ToSet(board)'  BY <1>1, <1>3 DEF BoardTypes
  <2>2. p \in Matching /\ p \in Matching'  BY <1>3, <2>1 DEF Matching
  <2>3. IsFiniteSet(UpTo(p)')
    <3>1. ToSet(board') \subseteq Postings  BY DEF BoardTypes, ToSet
    <3>2. UpTo(p)' \in SUBSET Postings  BY <3>1 DEF UpTo, Matching
    <3> QED  BY <3>2, BoardAssumption, FS_Subset
  <2>4. Cardinality(UpTo(p)) <= Cardinality(UpTo(p)')  BY <2>3, <1>3, FS_Subset
  <2>5. Position(p) \in Nat  BY <1>1, <2>2, PositionsCount
  <2>6. Cardinality(UpTo(p)') \in Nat  BY <2>3, FS_CardinalityType
  <2>7. Passed \in Nat  BY <1>1, PagesAreRead
  <2> QED  BY <1>3, <2>4, <2>5, <2>6, <2>7 DEF Position
<1>4. Overlooked' \subseteq Overlooked  BY <1>2, <1>3 DEF Overlooked
<1> QED  BY <1>1, <1>4, PostingsOverlooked, FS_Subset

LEMMA PublishKeeps ==
  ASSUME BoardInv, NEW e \in Postings, Publish(e)
  PROVE  BoardInv'
<1> USE DEF Publish
<1>1. board \in Seq(Postings) /\ IsInjective(board) /\ stayed \subseteq ToSet(board)
  BY DEF BoardInv, BoardTypes
<1>2. /\ board' \in Seq(Postings) /\ IsInjective(board')
      /\ ToSet(board') = ToSet(board) \cup {e}
      /\ \A p, q : Shown(board, q, p) => Shown(board', q, p)
  BY <1>1, PutInFront
<1>3. BoardTypes'
  <2>1. stayed' \subseteq ToSet(board')  BY <1>1, <1>2
  <2> QED  BY <1>2, <2>1 DEF BoardInv, BoardTypes
<1>4. \A p : UpTo(p) \subseteq UpTo(p)'
  <2>1. Matching \subseteq Matching'  BY <1>2 DEF Matching
  <2>2. \A p : UpTo(p)' = {q \in Matching' : Shown(board', q, p)}  BY DEF UpTo, Shown
  <2> QED  BY <1>2, <2>1, <2>2, UpToShown
<1>5. sweep.keyword <= Len(Keywords)  BY DEF BoardInv, KeywordsInTurn, BoardMoves
<1>6. Cardinality(Overlooked') <= Cardinality(Overlooked)
  BY <1>3, <1>4, <1>5, FrontIsFilled
<1>7. /\ Cardinality(Overlooked) <= removals => Cardinality(Overlooked') <= removals'
      /\ removals' \in Nat
  <2>1. Cardinality(Overlooked) \in Nat /\ removals \in Nat
    BY PostingsOverlooked DEF BoardInv, BoardTypes
  <2>2. IsFiniteSet(Overlooked')
    <3>1. stayed' \subseteq ToSet(board') /\ board' \in Seq(Postings)  BY <1>3 DEF BoardTypes
    <3>2. ToSet(board') \subseteq Postings  BY <3>1 DEF ToSet
    <3>3. Overlooked' \in SUBSET Postings  BY <3>1, <3>2 DEF Overlooked
    <3> QED  BY <3>3, BoardAssumption, FS_Subset
  <2>3. Cardinality(Overlooked') \in Nat  BY <2>2, FS_CardinalityType
  <2> QED  BY <1>6, <2>1, <2>3
<1> QED  BY <1>2, <1>3, <1>7, BoardMoved DEF BoardTypes

\* The posting of a place goes, and comes back in front or not.
LEMMA RenewKeeps ==
  ASSUME BoardInv, NEW i \in DOMAIN board, Renew(i)
  PROVE  BoardInv'
<1> USE DEF Renew
<1>1. /\ board \in Seq(Postings) /\ IsInjective(board) /\ stayed \subseteq ToSet(board)
      /\ board[i] \in ToSet(board) /\ board[i] \in Postings
  BY DEF BoardInv, BoardTypes, ToSet
<1>2. PICK e : e = board[i]  OBVIOUS
<1>3. PICK rest : rest = RemoveAt(board, i)  OBVIOUS
<1>4. /\ rest \in Seq(Postings) /\ IsInjective(rest) /\ ToSet(rest) = ToSet(board) \ {e}
      /\ \A p, q : p # e /\ q # e => (Shown(rest, q, p) <=> Shown(board, q, p))
  BY <1>1, <1>2, <1>3, TakenOut
<1>5. board' = <<e>> \o rest /\ stayed' = stayed \ {e}  BY <1>2, <1>3
<1>6. /\ board' \in Seq(Postings) /\ IsInjective(board')
      /\ ToSet(board') = ToSet(board)
      /\ \A p, q : Shown(rest, q, p) => Shown(board', q, p)
  <2>1. e \notin ToSet(rest) /\ e \in Postings /\ (ToSet(board) \ {e}) \cup {e} = ToSet(board)
    BY <1>1, <1>2, <1>4
  <2> DEFINE t == <<e>> \o rest
  <2>2. /\ t \in Seq(Postings) /\ IsInjective(t) /\ ToSet(t) = ToSet(rest) \cup {e}
        /\ \A p, q : Shown(rest, q, p) => Shown(t, q, p)
    BY <1>4, <2>1, PutInFront
  <2> HIDE DEF t
  <2>3. board' = t  BY <1>5 DEF t
  <2> QED  BY <1>4, <2>1, <2>2, <2>3
<1>7. BoardTypes'
  <2>1. stayed' \subseteq ToSet(board')  BY <1>1, <1>5, <1>6
  <2> QED  BY <1>6, <2>1 DEF BoardInv, BoardTypes
<1>8. \A p \in stayed' : UpTo(p) \subseteq UpTo(p)'
  <2> SUFFICES ASSUME NEW p \in stayed', NEW q \in UpTo(p)  PROVE q \in UpTo(p)'
    OBVIOUS
  <2>1. q \in Matching /\ Shown(board, q, p) /\ p # e  BY <1>5, UpToShown
  <2>2. Matching' = Matching  BY <1>6 DEF Matching
  <2>3. UpTo(p)' = {r \in Matching' : Shown(board', r, p)}  BY DEF UpTo, Shown
  <2>4. CASE q # e  BY <1>4, <1>6, <2>1, <2>2, <2>3, <2>4
  <2>5. CASE q = e
    <3>1. p \in ToSet(board')  BY <1>1, <1>5, <1>6
    <3>2. PICK j \in DOMAIN board' : board'[j] = p  BY <3>1 DEF ToSet
    <3>3. 1 \in DOMAIN board' /\ board'[1] = e /\ 1 <= j  BY <1>4, <1>5, <1>6, <3>2
    <3>4. Shown(board', e, p)  BY <3>2, <3>3 DEF Shown
    <3> QED  BY <2>1, <2>2, <2>3, <2>5, <3>4
  <2> QED  BY <2>4, <2>5
<1>9. sweep.keyword <= Len(Keywords)  BY DEF BoardInv, KeywordsInTurn, BoardMoves
<1>10. Cardinality(Overlooked') <= Cardinality(Overlooked)
  BY <1>5, <1>7, <1>8, <1>9, FrontIsFilled
<1>11. /\ Cardinality(Overlooked) <= removals => Cardinality(Overlooked') <= removals'
       /\ removals' \in Nat
  <2>1. Cardinality(Overlooked) \in Nat /\ removals \in Nat
    BY PostingsOverlooked DEF BoardInv, BoardTypes
  <2>2. IsFiniteSet(Overlooked')
    <3>1. stayed' \subseteq ToSet(board') /\ board' \in Seq(Postings)  BY <1>7 DEF BoardTypes
    <3>2. ToSet(board') \subseteq Postings  BY <3>1 DEF ToSet
    <3>3. Overlooked' \in SUBSET Postings  BY <3>1, <3>2 DEF Overlooked
    <3> QED  BY <3>3, BoardAssumption, FS_Subset
  <2>3. Cardinality(Overlooked') \in Nat  BY <2>2, FS_CardinalityType
  <2> QED  BY <1>10, <2>1, <2>3
<1> QED  BY <1>5, <1>6, <1>7, <1>11, BoardMoved DEF BoardTypes

\* Those after it move up, and at most one of them out of sight: the first on the
\* page that is next.
LEMMA TakeDownKeeps ==
  ASSUME BoardInv, NEW i \in DOMAIN board, TakeDown(i)
  PROVE  BoardInv'
<1> USE DEF TakeDown
<1>1. /\ board \in Seq(Postings) /\ IsInjective(board) /\ stayed \subseteq ToSet(board)
      /\ BoardTypes /\ removals \in Nat
  BY DEF BoardInv, BoardTypes
<1>2. PICK e : e = board[i]  OBVIOUS
<1>3. /\ board' \in Seq(Postings) /\ IsInjective(board') /\ ToSet(board') = ToSet(board) \ {e}
      /\ \A p, q : p # e /\ q # e => (Shown(board', q, p) <=> Shown(board, q, p))
  BY <1>1, <1>2, TakenOut
<1>4. stayed' = stayed \ {e} /\ stayed' \subseteq ToSet(board')  BY <1>1, <1>2, <1>3
<1>5. Matching' = Matching \ {e} /\ Passed' = Passed  BY <1>3 DEF Matching, Passed
<1>6. \A p : p # e => UpTo(p)' = UpTo(p) \ {e}
  <2>1. \A p : UpTo(p)' = {q \in Matching' : Shown(board', q, p)}  BY DEF UpTo, Shown
  <2> QED  BY <1>3, <1>5, <2>1, UpToShown
<1>7. \A p \in Matching : p # e => Position(p)' >= Position(p) - 1
  <2> SUFFICES ASSUME NEW p \in Matching, p # e  PROVE Position(p)' >= Position(p) - 1
    OBVIOUS
  <2>1. IsFiniteSet(Matching)  BY <1>1, PositionsCount
  <2>2. UpTo(p) \in SUBSET Matching  BY UpToShown
  <2>3. IsFiniteSet(UpTo(p)) /\ Cardinality(UpTo(p)) \in Nat
    BY <2>1, <2>2, FS_Subset, FS_CardinalityType
  <2>4. Cardinality(UpTo(p) \ {e}) =
          IF e \in UpTo(p) THEN Cardinality(UpTo(p)) - 1 ELSE Cardinality(UpTo(p))
    BY <2>3, FS_RemoveElement
  <2>5. Position(p)' = Cardinality(UpTo(p) \ {e})  BY <1>6 DEF Position
  <2> QED  BY <2>3, <2>4, <2>5 DEF Position
<1> DEFINE First == {p \in Matching : Position(p) = Passed + 1}
<1>8. sweep.keyword <= Len(Keywords)  BY DEF BoardInv, KeywordsInTurn, BoardMoves
<1>9. Overlooked' \subseteq Overlooked \cup First
  <2> SUFFICES ASSUME NEW p \in Overlooked', p \notin Overlooked  PROVE p \in First
    OBVIOUS
  <2>1. p \in stayed \ found /\ p # e  BY <1>4 DEF Overlooked
  <2>2. p \in Keywords[sweep.keyword] /\ Position(p)' <= Passed
    BY <1>5, <1>8, <2>1 DEF Overlooked
  <2>3. p \in Matching  BY <1>1, <2>1, <2>2 DEF Matching
  <2>4. ~(Position(p) <= Passed)  BY <1>8, <2>1, <2>2 DEF Overlooked
  <2>5. Position(p) \in Nat /\ Passed \in Nat  BY <1>1, <2>3, PositionsCount, PagesAreRead
  <2>6. Position(p)' \in Nat
    <3>1. UpTo(p)' \in SUBSET Postings  BY <1>1, <1>6, <2>1, PostingsOverlooked, UpToShown
    <3>2. IsFiniteSet(UpTo(p)')  BY <3>1, BoardAssumption, FS_Subset
    <3> QED  BY <3>2, FS_CardinalityType DEF Position
  <2>7. Position(p) = Passed + 1  BY <1>7, <2>1, <2>2, <2>3, <2>4, <2>5, <2>6
  <2> QED  BY <2>3, <2>7
<1>10. Cardinality(Overlooked') <= Cardinality(Overlooked) + 1 /\ Cardinality(Overlooked') \in Nat
  <2>1. IsFiniteSet(Overlooked) /\ Cardinality(Overlooked) \in Nat
    BY <1>1, PostingsOverlooked
  <2>2. \A p, q \in First : p = q  BY <1>1, PositionsCount
  <2>3. \E x : First \subseteq {x}  BY <2>2
  <2> HIDE DEF First
  <2>4. PICK x : Overlooked' \subseteq Overlooked \cup {x}  BY <1>9, <2>3
  <2>5. /\ IsFiniteSet(Overlooked \cup {x})
        /\ Cardinality(Overlooked \cup {x}) =
             IF x \in Overlooked THEN Cardinality(Overlooked) ELSE Cardinality(Overlooked) + 1
    BY <2>1, FS_AddElement
  <2>6. IsFiniteSet(Overlooked') /\ Cardinality(Overlooked') <= Cardinality(Overlooked \cup {x})
    BY <2>4, <2>5, FS_Subset
  <2>7. Cardinality(Overlooked') \in Nat  BY <2>6, FS_CardinalityType
  <2> QED  BY <2>1, <2>5, <2>6, <2>7
<1>11. /\ Cardinality(Overlooked) <= removals => Cardinality(Overlooked') <= removals'
       /\ removals' \in Nat
  <2>1. Cardinality(Overlooked) \in Nat  BY <1>1, PostingsOverlooked
  <2> QED  BY <1>1, <1>10, <2>1
<1> QED  BY <1>3, <1>4, <1>11, BoardMoved

-----------------------------------------------------------------------------
\* Answers.

\* Excuses are never taken back.
LEMMA ExcusesAdd ==
  ASSUME BoardInv, shortened \subseteq shortened', portal' = portal, blips' \in {blips, blips + 1}
  PROVE  Excuses \subseteq Excuses'
<1>1. blips \in Nat /\ EmptyRetries \in Nat  BY BoardAssumption DEF BoardInv, BoardTypes
<1>2. blips' <= EmptyRetries => blips <= EmptyRetries  BY <1>1
<1> QED  BY <1>2 DEF Excuses

\* What an answer leaves as it is.
Answering ==
  /\ ended = "no" /\ UNCHANGED <<portal, board, stayed, removals>>
  /\ blips' \in {blips, blips + 1}

Answered ==
  /\ Answering
  /\ shortened \subseteq shortened' /\ shortened' \subseteq {"cap", "empty", "total", "failure"}

\* The sweep after an answer, before the loops go on.
IsAnswered(s) ==
  /\ s \in [keyword : 1 .. Len(Keywords) + 1, page : 1 .. MaxPages,
            attempt : 0 .. EmptyRetries, total : Nat, succeeded : BOOLEAN]
  /\ s.keyword = sweep.keyword /\ s.page = sweep.page /\ s.attempt = sweep.attempt
  /\ s.succeeded = TRUE

\* A keyword is done when all that match it and stay are found or overlooked.
LEMMA KeywordEnds ==
  ASSUME BoardInv, Answered, NEW s, IsAnswered(s), NextKeyword(s),
         found \subseteq found', found' \subseteq Postings,
         Excuses' = {} =>
           \A p \in stayed \ found' : p \in Keywords[sweep.keyword] => Position(p) <= Passed
  PROVE  BoardInv'
<1> USE DEF Answered, Answering
<1>1. /\ BoardTypes /\ sweep.keyword <= Len(Keywords) /\ sweep.keyword \in Nat
      /\ sweep.keyword >= 1 /\ Len(Keywords) \in Nat
  <2>1. sweep.keyword \in 1 .. Len(Keywords) + 1  BY DEF BoardInv, BoardTypes
  <2>2. Len(Keywords) \in Nat  BY BoardAssumption
  <2> QED  BY <2>1, <2>2 DEF BoardInv, KeywordsInTurn
<1>2. /\ sweep' = [s EXCEPT !.keyword = sweep.keyword + 1, !.page = 1, !.attempt = 0, !.total = 0]
      /\ ended' = IF sweep.keyword + 1 > Len(Keywords) THEN "list" ELSE "no"
  BY DEF NextKeyword, IsAnswered
<1>3. /\ sweep' \in [keyword : 1 .. Len(Keywords) + 1, page : 1 .. MaxPages,
                     attempt : 0 .. EmptyRetries, total : Nat, succeeded : BOOLEAN]
      /\ sweep'.keyword = sweep.keyword + 1 /\ sweep'.page = 1 /\ sweep'.attempt = 0
      /\ sweep'.total = 0 /\ sweep'.succeeded = TRUE
  <2>1. 1 \in 1 .. MaxPages /\ 0 \in 0 .. EmptyRetries  BY BoardAssumption
  <2>2. sweep.keyword + 1 \in 1 .. Len(Keywords) + 1  BY <1>1
  <2> QED  BY <1>2, <2>1, <2>2 DEF IsAnswered
<1>4. BoardTypes'
  <2>1. blips' \in Nat  BY DEF BoardInv, BoardTypes
  <2> QED  BY <1>2, <1>3, <2>1 DEF BoardInv, BoardTypes
<1>5. KeywordsInTurn'  BY <1>1, <1>2, <1>3 DEF KeywordsInTurn
<1>6. TotalIsAhead'  BY <1>3 DEF TotalIsAhead
<1>7. EmptyForReasons'
  <2>1. 0 <= blips'  BY <1>4 DEF BoardTypes
  <2> QED  BY <1>3, <2>1 DEF EmptyForReasons
<1>8. FirstAnswerCounts'  BY <1>2, <1>3 DEF FirstAnswerCounts, DeadIsTold
<1>9. OverlookedForRemovals'
  <2> SUFFICES ASSUME Excuses' = {}  PROVE Cardinality(Overlooked') <= removals
    BY DEF OverlookedForRemovals
  <2>1. Excuses = {}  BY ExcusesAdd
  <2>2. Cardinality(Overlooked) <= removals  BY <2>1 DEF BoardInv, OverlookedForRemovals
  <2>3. Passed' = 0
    <3>1. (1 - 1) * PageSize = 0  BY BoardAssumption
    <3> QED  BY <1>3, <3>1 DEF Passed
  <2>4. Overlooked' \subseteq Overlooked
    <3> SUFFICES ASSUME NEW p \in Overlooked'  PROVE p \in Overlooked
      OBVIOUS
    <3>1. p \in stayed \ found /\ p \in stayed \ found' /\ p \in ToSet(board)
      BY <1>1 DEF Overlooked, BoardTypes
    <3>2. CASE \E k \in 1 .. sweep'.keyword - 1 : p \in Keywords[k]
      <4>1. PICK k \in 1 .. sweep.keyword : p \in Keywords[k]  BY <1>1, <1>3, <3>2
      <4>2. CASE k = sweep.keyword
        <5>1. Position(p) <= Passed  BY <3>1, <4>1, <4>2
        <5> QED  BY <1>1, <3>1, <4>1, <4>2, <5>1 DEF Overlooked
      <4>3. CASE k # sweep.keyword
        <5>1. k \in 1 .. sweep.keyword - 1  BY <1>1, <4>1, <4>3
        <5> QED  BY <3>1, <4>1, <5>1 DEF Overlooked
      <4> QED  BY <4>2, <4>3
    <3>3. CASE /\ sweep'.keyword <= Len(Keywords) /\ p \in Keywords[sweep'.keyword]
               /\ Position(p)' <= Passed'
      <4>1. p \in Matching'  BY <3>1, <3>3 DEF Matching
      <4>2. Position(p)' \in Nat /\ Position(p)' # 0
        <5>1. p \in UpTo(p)'
          <6>1. Shown(board', p, p)  BY <3>1, <1>1, OrderOfPostings DEF BoardTypes
          <6>2. UpTo(p)' = {q \in Matching' : Shown(board', q, p)}  BY DEF UpTo, Shown
          <6> QED  BY <4>1, <6>1, <6>2
        <5>2. UpTo(p)' \in SUBSET Postings
          <6>1. ToSet(board') \subseteq Postings  BY <1>1, PostingsOverlooked
          <6> QED  BY <6>1 DEF UpTo, Matching
        <5>3. IsFiniteSet(UpTo(p)')  BY <5>2, BoardAssumption, FS_Subset
        <5> QED  BY <5>1, <5>3, FS_CardinalityType, FS_EmptySet DEF Position
      <4> QED  BY <2>3, <3>3, <4>2
    <3> QED  BY <3>2, <3>3 DEF Overlooked
  <2>5. /\ Cardinality(Overlooked') <= Cardinality(Overlooked)
        /\ Cardinality(Overlooked') \in Nat /\ Cardinality(Overlooked) \in Nat
    <3>1. IsFiniteSet(Overlooked)  BY <1>1, PostingsOverlooked
    <3> QED  BY <2>4, <3>1, FS_Subset, FS_CardinalityType
  <2>6. removals \in Nat  BY <1>1 DEF BoardTypes
  <2> QED  BY <2>2, <2>5, <2>6
<1> QED  BY <1>4, <1>5, <1>6, <1>7, <1>8, <1>9 DEF BoardInv

\* The page that was read is passed, and all of it is found.
LEMMA PageTurns ==
  ASSUME BoardInv, Answered, NEW s, IsAnswered(s), s.page < MaxPages,
         sweep' = [s EXCEPT !.page = s.page + 1, !.attempt = 0], ended' = "no",
         found' = found \cup Page, s.total > 0 => sweep.page * PageSize < s.total,
         portal # "meituan" => s.total = 0
  PROVE  BoardInv'
<1> USE DEF Answered, Answering
<1>1. /\ BoardTypes /\ sweep.keyword <= Len(Keywords)
      /\ Passed \in Nat /\ PageSize \in Nat /\ sweep.page * PageSize = Passed + PageSize
      /\ sweep.page \in Nat /\ sweep.page >= 1 /\ s.page = sweep.page
  BY PagesAreRead DEF BoardInv, KeywordsInTurn, IsAnswered
<1>2. /\ sweep' \in [keyword : 1 .. Len(Keywords) + 1, page : 1 .. MaxPages,
                     attempt : 0 .. EmptyRetries, total : Nat, succeeded : BOOLEAN]
      /\ sweep'.keyword = sweep.keyword /\ sweep'.page = sweep.page + 1 /\ sweep'.attempt = 0
      /\ sweep'.total = s.total /\ sweep'.succeeded = TRUE
  <2>1. sweep.page + 1 \in 1 .. MaxPages /\ 0 \in 0 .. EmptyRetries
    BY <1>1, BoardAssumption
  <2> QED  BY <1>1, <2>1 DEF IsAnswered
<1>3. Passed' = Passed + PageSize
  <2>1. Passed' = (sweep'.page - 1) * PageSize  BY DEF Passed
  <2>2. sweep'.page - 1 = sweep.page  BY <1>1, <1>2
  <2> QED  BY <1>1, <2>1, <2>2
<1>4. BoardTypes'
  <2>1. blips' \in Nat  BY DEF BoardInv, BoardTypes
  <2>2. found' \subseteq Postings  BY <1>1, PostingsOverlooked DEF BoardTypes
  <2> QED  BY <1>2, <2>1, <2>2 DEF BoardInv, BoardTypes
<1>5. KeywordsInTurn'  BY <1>1, <1>2 DEF KeywordsInTurn
<1>6. TotalIsAhead'  BY <1>1, <1>2, <1>3 DEF TotalIsAhead
<1>7. EmptyForReasons'
  <2>1. 0 <= blips'  BY <1>4 DEF BoardTypes
  <2> QED  BY <1>2, <2>1 DEF EmptyForReasons
<1>8. FirstAnswerCounts'  BY <1>2 DEF FirstAnswerCounts, DeadIsTold
<1>9. OverlookedForRemovals'
  <2> SUFFICES ASSUME Excuses' = {}  PROVE Cardinality(Overlooked') <= removals
    BY DEF OverlookedForRemovals
  <2>1. Cardinality(Overlooked) <= removals
    BY ExcusesAdd DEF BoardInv, OverlookedForRemovals
  <2>2. \A p : Position(p)' = Position(p)  BY <1>2 DEF Position, UpTo, Matching
  <2>3. Overlooked' \subseteq Overlooked
    <3> SUFFICES ASSUME NEW p \in Overlooked'  PROVE p \in Overlooked
      OBVIOUS
    <3>1. p \in stayed \ found /\ p \notin Page /\ p \in ToSet(board)
      BY <1>1 DEF Overlooked, BoardTypes
    <3>2. CASE \E k \in 1 .. sweep.keyword - 1 : p \in Keywords[k]
      BY <3>1, <3>2 DEF Overlooked
    <3>3. CASE p \in Keywords[sweep.keyword] /\ Position(p) <= Passed + PageSize
      <4>1. p \in Matching  BY <3>1, <3>3 DEF Matching
      <4>2. Position(p) \in Nat  BY <1>1, <4>1, PositionsCount
      <4>3. ~(Passed < Position(p))  BY <1>1, <3>1, <3>3, <4>1 DEF Page, Passed
      <4>4. Position(p) <= Passed  BY <1>1, <4>2, <4>3
      <4> QED  BY <1>1, <3>1, <3>3, <4>4 DEF Overlooked
    <3> QED  BY <1>2, <1>3, <2>2, <3>2, <3>3 DEF Overlooked
  <2>4. /\ Cardinality(Overlooked') <= Cardinality(Overlooked)
        /\ Cardinality(Overlooked') \in Nat /\ Cardinality(Overlooked) \in Nat
    <3>1. IsFiniteSet(Overlooked)  BY <1>1, PostingsOverlooked
    <3> QED  BY <2>3, <3>1, FS_Subset, FS_CardinalityType
  <2>5. removals \in Nat  BY <1>1 DEF BoardTypes
  <2> QED  BY <2>1, <2>4, <2>5
<1> QED  BY <1>4, <1>5, <1>6, <1>7, <1>8, <1>9 DEF BoardInv

\* The page is asked for once more: the answer was empty though there was
\* something, or nothing that stays matches.
LEMMA AskedAgain ==
  ASSUME BoardInv, Answered, NEW s, IsAnswered(s), s.attempt # EmptyRetries,
         sweep' = [s EXCEPT !.attempt = s.attempt + 1],
         UNCHANGED <<ended, shortened, found>>, s.total > 0 => Passed < s.total,
         portal # "meituan" => s.total = 0,
         blips' = blips + 1 \/ Matching = {}
  PROVE  BoardInv'
<1> USE DEF Answered, Answering
<1>1. BoardTypes /\ sweep.keyword <= Len(Keywords)  BY DEF BoardInv, KeywordsInTurn
<1>2. /\ sweep' \in [keyword : 1 .. Len(Keywords) + 1, page : 1 .. MaxPages,
                     attempt : 0 .. EmptyRetries, total : Nat, succeeded : BOOLEAN]
      /\ sweep'.keyword = sweep.keyword /\ sweep'.page = sweep.page
      /\ sweep'.attempt = sweep.attempt + 1
      /\ sweep'.total = s.total /\ sweep'.succeeded = TRUE
  <2>1. s.attempt + 1 \in 0 .. EmptyRetries  BY BoardAssumption DEF IsAnswered
  <2> QED  BY <2>1 DEF IsAnswered
<1>3. Passed' = Passed /\ \A p : Position(p)' = Position(p)
  <2>1. Matching' = Matching  BY <1>2 DEF Matching
  <2>2. \A p : UpTo(p)' = UpTo(p)  BY <2>1 DEF UpTo
  <2> QED  BY <1>2, <2>2 DEF Passed, Position
<1>4. blips \in Nat /\ blips' \in Nat /\ removals \in Nat  BY <1>1 DEF BoardTypes
<1>5. BoardTypes'  BY <1>1, <1>2, <1>4 DEF BoardTypes
<1>6. KeywordsInTurn'  BY <1>1, <1>2 DEF KeywordsInTurn
<1>7. TotalIsAhead'  BY <1>2, <1>3 DEF TotalIsAhead
<1>8. EmptyForReasons'
  <2>1. CASE Matching = {}
    <3>1. stayed \cap Keywords[sweep.keyword] = {}  BY <1>1, <2>1 DEF Matching, BoardTypes
    <3> QED  BY <1>2, <3>1 DEF EmptyForReasons
  <2>2. CASE blips' = blips + 1
    <3>1. sweep.attempt \in Nat  BY <1>1, BoardAssumption DEF BoardTypes
    <3> QED  BY <1>2, <1>4, <2>2, <3>1 DEF BoardInv, EmptyForReasons
  <2> QED  BY <2>1, <2>2
<1>9. FirstAnswerCounts'  BY <1>2 DEF FirstAnswerCounts, DeadIsTold
<1>10. OverlookedForRemovals'
  <2>1. Overlooked' = Overlooked  BY <1>2, <1>3 DEF Overlooked
  <2> QED  BY <2>1, ExcusesAdd DEF BoardInv, OverlookedForRemovals
<1> QED  BY <1>5, <1>6, <1>7, <1>8, <1>9, <1>10 DEF BoardInv

LEMMA GoesOn ==
  ASSUME BoardInv, Answering, NEW s, IsAnswered(s), NextPage(s),
         found' = found \cup Page, s.total > 0 => sweep.page * PageSize < s.total,
         portal # "meituan" => s.total = 0
  PROVE  BoardInv'
<1>1. shortened \subseteq {"cap", "empty", "total", "failure"}  BY DEF BoardInv, BoardTypes
<1>2. CASE s.page < MaxPages
  <2>1. /\ sweep' = [s EXCEPT !.page = s.page + 1, !.attempt = 0]
        /\ UNCHANGED <<ended, shortened>>
    BY <1>2 DEF NextPage
  <2>2. Answered /\ ended' = "no"  BY <1>1, <2>1 DEF Answered, Answering
  <2> QED  BY <1>2, <2>1, <2>2, PageTurns
<1>3. CASE ~(s.page < MaxPages)
  <2>1. NextKeyword(s) /\ shortened' = shortened \cup {"cap"}  BY <1>3 DEF NextPage
  <2>2. Answered  BY <1>1, <2>1 DEF Answered
  <2>3. Excuses' # {}  BY <2>1 DEF Excuses
  <2>4. found \subseteq found' /\ found' \subseteq Postings
    BY PostingsOverlooked DEF BoardInv, BoardTypes
  <2> QED  BY <2>1, <2>2, <2>3, <2>4, KeywordEnds
<1> QED  BY <1>2, <1>3

\* The last page held the last posting, or there was none, or the answer is an
\* excuse, or nothing that stays matches.
LEMMA LastPageEnds ==
  ASSUME BoardInv, Answering, NEW s, IsAnswered(s), NEW answer, LastPage(s, answer),
         found' = found \cup answer.jobs,
         \/ /\ answer.jobs = Page /\ Page # {}
            /\ sweep.page * PageSize >= Cardinality(Matching) \/ answer.total = 0
         \/ answer.jobs = {} /\ Page = {}
         \/ answer.jobs = {} /\ Page # {} /\ ~(portal = "meituan" /\ blips' <= EmptyRetries)
         \/ answer.jobs = {} /\ stayed \cap Keywords[sweep.keyword] = {}
  PROVE  BoardInv'
<1>1. /\ BoardTypes /\ shortened \subseteq {"cap", "empty", "total", "failure"}
      /\ stayed \subseteq ToSet(board) /\ sweep.keyword <= Len(Keywords)
  BY DEF BoardInv, BoardTypes, KeywordsInTurn, Answering
<1>2. /\ NextKeyword(s) /\ s.page = sweep.page
      /\ shortened' = shortened \cup CutShort(s, answer)
  BY DEF LastPage, IsAnswered
<1>3. Answered
  <2>1. CutShort(s, answer) \subseteq {"empty", "total"}  BY DEF CutShort
  <2>2. shortened \subseteq shortened' /\ shortened' \subseteq {"cap", "empty", "total", "failure"}
    BY <1>1, <1>2, <2>1
  <2> QED  BY <2>2 DEF Answered
<1>4. found \subseteq found' /\ found' \subseteq Postings
  BY <1>1, PostingsOverlooked DEF BoardTypes
<1>5. ASSUME Excuses' = {}, NEW p \in stayed \ found', p \in Keywords[sweep.keyword]
      PROVE  Position(p) <= Passed
  <2>1. p \in Matching  BY <1>1, <1>5 DEF Matching
  <2>2. CASE answer.jobs = Page /\ Page # {} /\ sweep.page * PageSize >= Cardinality(Matching)
    <3>1. /\ Position(p) \in Nat /\ Position(p) <= Cardinality(Matching)
          /\ Cardinality(Matching) \in Nat
      BY <1>1, <2>1, PositionsCount
    <3>2. Passed \in Nat /\ sweep.page * PageSize \in Nat
      BY <1>1, PagesAreRead
    <3>3. p \notin Page  BY <1>5, <2>2
    <3>4. Position(p) <= sweep.page * PageSize  BY <2>2, <3>1, <3>2
    <3>5. ~(Passed < Position(p))  BY <2>1, <3>3, <3>4 DEF Page, Passed
    <3> QED  BY <3>1, <3>2, <3>5
  <2>3. CASE /\ answer.jobs = Page /\ Page # {} /\ answer.total = 0
             /\ ~(sweep.page * PageSize >= Cardinality(Matching))
    <3>1. Cardinality(Matching) \in Nat  BY <1>1, <2>1, PositionsCount
    <3>2. sweep.page * PageSize \in Nat  BY <1>1, PagesAreRead
    <3>3. sweep.page * PageSize < Cardinality(Matching)  BY <2>3, <3>1, <3>2
    <3>4. CutShort(s, answer) = {"total"}  BY <1>2, <2>3, <3>3 DEF CutShort
    <3>5. "total" \in Excuses'  BY <1>2, <3>4 DEF Excuses
    <3> QED  BY <1>5, <3>5
  <2>4. CASE Page = {}  BY <1>1, <2>1, <2>4, NoneFurther
  <2>5. CASE answer.jobs = {} /\ Page # {} /\ ~(portal = "meituan" /\ blips' <= EmptyRetries)
    <3>1. "empty" \in shortened' /\ portal' = portal
      BY <1>2, <2>5 DEF Answering, CutShort
    <3>2. "empty" \in Excuses'  BY <2>5, <3>1 DEF Excuses
    <3> QED  BY <1>5, <3>2
  <2>6. CASE stayed \cap Keywords[sweep.keyword] = {}  BY <1>5, <2>6
  <2> QED  BY <2>2, <2>3, <2>4, <2>5, <2>6
<1> QED  BY <1>2, <1>3, <1>4, <1>5, KeywordEnds

\* An answer of the board as it is, and one that leaves out postings or the total.
IsTrueAnswer(answer) ==
  answer = [jobs |-> Page, total |-> Cardinality(Matching)] /\ blips' = blips

IsBlip(answer) == answer \in Blips /\ Page # {} /\ blips' = blips + 1

LEMMA PagesOfMatching ==
  ASSUME BoardInv, Answering
  PROVE  /\ BoardTypes /\ Cardinality(Matching) \in Nat
         /\ Page # {} => Cardinality(Matching) > Passed /\ Cardinality(Matching) > 0
         /\ Page = {} => Cardinality(Matching) <= Passed
         /\ Cardinality(Matching) = 0 => Matching = {}
         /\ Passed \in Nat /\ sweep.page * PageSize \in Nat
<1>1. BoardTypes  BY DEF BoardInv
<1>2. /\ Passed \in Nat /\ sweep.page * PageSize = Passed + PageSize /\ PageSize \in Nat
  BY <1>1, PagesAreRead
<1>3. /\ IsFiniteSet(Matching) /\ Cardinality(Matching) \in Nat
      /\ \A p \in Matching : Position(p) \in 1 .. Cardinality(Matching)
  BY <1>1, PositionsCount
<1>4. Page # {} => Cardinality(Matching) > Passed
  <2> SUFFICES ASSUME NEW p \in Page  PROVE Cardinality(Matching) > Passed
    OBVIOUS
  <2>1. p \in Matching /\ Passed < Position(p)  BY DEF Page, Passed
  <2>2. Position(p) \in Nat /\ Position(p) <= Cardinality(Matching)  BY <1>3, <2>1
  <2> QED  BY <1>2, <1>3, <2>1, <2>2
<1>5. Page = {} => Cardinality(Matching) <= Passed  BY <1>1, NoneFurther
<1>6. Cardinality(Matching) = 0 => Matching = {}  BY <1>3, FS_EmptySet
<1> QED  BY <1>1, <1>2, <1>3, <1>4, <1>5, <1>6

LEMMA PageIsRead ==
  ASSUME BoardInv, Answering, portal # "meituan", NEW answer,
         IsTrueAnswer(answer) \/ IsBlip(answer), ReadPage(answer)
  PROVE  BoardInv'
<1> DEFINE s0 == [sweep EXCEPT !.succeeded = TRUE]
<1>1. PICK s : s = s0  OBVIOUS
<1>2. BoardTypes /\ IsAnswered(s) /\ s.total = sweep.total
  BY <1>1 DEF BoardInv, BoardTypes, IsAnswered
<1>3. /\ found' = found \cup answer.jobs
      /\ IF answer.jobs = {} \/ sweep.page * PageSize >= answer.total
         THEN LastPage(s, answer) ELSE NextPage(s)
  BY <1>1, <1>2 DEF ReadPage, IsAnswered
<1> HIDE DEF s0
<1>4. CASE IsBlip(answer)
  <2>1. CASE answer.jobs = {}
    BY <1>2, <1>3, <1>4, <2>1, LastPageEnds DEF IsBlip
  <2>2. CASE answer.jobs # {}
    <3>1. answer.jobs = Page /\ Page # {} /\ answer.total = 0
      BY <1>4, <2>2 DEF IsBlip, Blips
    <3>2. sweep.page * PageSize \in Nat  BY <1>2, PagesAreRead
    <3>3. LastPage(s, answer)  BY <1>3, <3>1, <3>2
    <3> QED  BY <1>2, <1>3, <3>1, <3>3, LastPageEnds
  <2> QED  BY <2>1, <2>2
<1>5. CASE IsTrueAnswer(answer)
  <2>1. answer.jobs = Page /\ answer.total = Cardinality(Matching)  BY <1>5 DEF IsTrueAnswer
  <2>2. CASE Page = {}  BY <1>2, <1>3, <2>1, <2>2, LastPageEnds
  <2>3. CASE Page # {} /\ sweep.page * PageSize >= Cardinality(Matching)
    BY <1>2, <1>3, <2>1, <2>3, LastPageEnds
  <2>4. CASE Page # {} /\ ~(sweep.page * PageSize >= Cardinality(Matching))
    <3>1. s.total = 0
      BY <1>2 DEF BoardInv, TotalIsAhead
    <3> QED  BY <1>2, <1>3, <2>1, <2>4, <3>1, GoesOn
  <2> QED  BY <2>2, <2>3, <2>4
<1> QED  BY <1>4, <1>5

LEMMA PageIsReadPatiently ==
  ASSUME BoardInv, Answering, portal = "meituan", NEW answer,
         IsTrueAnswer(answer) \/ IsBlip(answer), ReadPatiently(answer)
  PROVE  BoardInv'
<1> DEFINE t0 == IF answer.total > 0 THEN answer.total ELSE sweep.total
<1>1. PICK t : t = t0  OBVIOUS
<1>2. PICK s : s = [sweep EXCEPT !.succeeded = TRUE, !.total = t]  OBVIOUS
<1>3. /\ BoardTypes /\ sweep.total \in Nat /\ sweep.attempt \in Nat /\ EmptyRetries \in Nat
      /\ blips \in Nat
  BY BoardAssumption DEF BoardInv, BoardTypes
<1>4. /\ Cardinality(Matching) \in Nat
      /\ Page # {} => Cardinality(Matching) > Passed /\ Cardinality(Matching) > 0
      /\ Page = {} => Cardinality(Matching) <= Passed
      /\ Cardinality(Matching) = 0 => Matching = {}
      /\ Passed \in Nat /\ sweep.page * PageSize \in Nat
  BY PagesOfMatching
<1>5. t \in Nat /\ (answer.total > 0 => t = answer.total) /\ (~(answer.total > 0) => t = sweep.total)
  BY <1>1, <1>3, <1>4 DEF IsTrueAnswer, IsBlip, Blips
<1>6. IsAnswered(s) /\ s.total = t
  BY <1>2, <1>3, <1>5 DEF BoardTypes, IsAnswered
<1>7. /\ found' = found \cup answer.jobs
      /\ IF answer.jobs = {}
         THEN IF GivesUp(t) THEN LastPage(s, answer)
              ELSE sweep' = [s EXCEPT !.attempt = s.attempt + 1] /\ UNCHANGED <<ended, shortened>>
         ELSE IF t > 0 /\ sweep.page * PageSize >= t
              THEN LastPage(s, answer) ELSE NextPage(s)
  <2>1. s.page = sweep.page  BY <1>6 DEF IsAnswered
  <2> QED  BY <1>1, <1>2, <2>1 DEF ReadPatiently
<1> HIDE DEF t0
<1>8. GivesUp(t) <=> (t > 0 /\ Passed >= t) \/ sweep.attempt = EmptyRetries
  BY DEF GivesUp, Passed
<1>9. sweep.total > 0 => Passed < sweep.total
  BY DEF BoardInv, TotalIsAhead
<1>10. CASE answer.jobs # {}
  <2>1. /\ answer.jobs = Page /\ Page # {}
        /\ answer.total = 0 \/ t = Cardinality(Matching)
    BY <1>4, <1>5, <1>10 DEF IsTrueAnswer, IsBlip, Blips
  <2>2. CASE t > 0 /\ sweep.page * PageSize >= t
    BY <1>6, <1>7, <1>10, <2>1, <2>2, LastPageEnds
  <2>3. CASE ~(t > 0 /\ sweep.page * PageSize >= t)
    <3>1. t > 0 => sweep.page * PageSize < t  BY <1>4, <1>5, <2>3
    <3> QED  BY <1>6, <1>7, <1>10, <2>1, <2>3, <3>1, GoesOn
  <2> QED  BY <2>2, <2>3
<1>11. CASE answer.jobs = {} /\ GivesUp(t)
  <2>1. LastPage(s, answer) /\ found' = found \cup answer.jobs  BY <1>7, <1>11
  <2>2. CASE Page = {}  BY <1>6, <1>11, <2>1, <2>2, LastPageEnds
  <2>3. CASE Page # {}
    <3>1. IsBlip(answer)  BY <1>11, <2>3 DEF IsTrueAnswer
    <3>2. answer.total = 0 \/ answer.total = Cardinality(Matching)  BY <3>1 DEF IsBlip, Blips
    <3>3. ~(t > 0 /\ Passed >= t)  BY <1>3, <1>4, <1>5, <1>9, <2>3, <3>2
    <3>4. sweep.attempt = EmptyRetries  BY <1>8, <1>11, <3>3
    <3>5. CASE stayed \cap Keywords[sweep.keyword] = {}
      BY <1>6, <1>11, <2>1, <3>5, LastPageEnds
    <3>6. CASE sweep.attempt <= blips
      <4>1. blips' = blips + 1  BY <3>1 DEF IsBlip
      <4>2. ~(blips' <= EmptyRetries)  BY <1>3, <3>4, <3>6, <4>1
      <4> QED  BY <1>6, <1>11, <2>1, <2>3, <4>2, LastPageEnds
    <3> QED  BY <3>5, <3>6 DEF BoardInv, EmptyForReasons, Answering
  <2> QED  BY <2>2, <2>3
<1>12. CASE answer.jobs = {} /\ ~GivesUp(t)
  <2>1. /\ sweep' = [s EXCEPT !.attempt = s.attempt + 1]
        /\ UNCHANGED <<ended, shortened, found>>
    BY <1>7, <1>12
  <2>2. s.attempt # EmptyRetries /\ (s.total > 0 => Passed < s.total)
    BY <1>4, <1>5, <1>6, <1>8, <1>12 DEF IsAnswered
  <2>3. blips' = blips + 1 \/ Matching = {}
    <3>1. CASE IsBlip(answer)  BY <3>1 DEF IsBlip
    <3>2. CASE IsTrueAnswer(answer)
      <4>1. Page = {} /\ answer.total = Cardinality(Matching)  BY <1>12, <3>2 DEF IsTrueAnswer
      <4>2. Cardinality(Matching) = 0  BY <1>4, <1>5, <1>8, <1>12, <4>1
      <4> QED  BY <1>4, <4>2
    <3> QED  BY <3>1, <3>2
  <2>4. Answered
    <3>1. shortened' \subseteq {"cap", "empty", "total", "failure"}  BY <1>3, <2>1 DEF BoardTypes
    <3> QED  BY <2>1, <3>1 DEF Answered
  <2> QED  BY <1>6, <2>1, <2>2, <2>3, <2>4, AskedAgain
<1> QED  BY <1>10, <1>11, <1>12

LEMMA FailureEnds ==
  ASSUME BoardInv, Answering, Fail
  PROVE  BoardInv'
<1> USE DEF Answering, Fail
<1>1. /\ BoardTypes /\ blips \in Nat /\ sweep.succeeded \in BOOLEAN
      /\ "failure" \in shortened' /\ shortened' \subseteq {"cap", "empty", "total", "failure"}
  BY DEF BoardInv, BoardTypes
<1>2. BoardTypes'  BY <1>1 DEF BoardTypes
<1>3. Excuses' # {}  BY <1>1 DEF Excuses
<1>4. Passed' = Passed  BY DEF Passed
<1>5. /\ KeywordsInTurn' /\ TotalIsAhead' /\ EmptyForReasons' /\ FirstAnswerCounts'
      /\ OverlookedForRemovals'
  BY <1>1, <1>3, <1>4
     DEF BoardInv, KeywordsInTurn, TotalIsAhead, EmptyForReasons, FirstAnswerCounts, DeadIsTold,
         OverlookedForRemovals
<1> QED  BY <1>2, <1>5 DEF BoardInv

LEMMA AnswerKeeps ==
  ASSUME BoardInv, Answer
  PROVE  BoardInv'
<1>1. CASE Fail /\ blips' = blips
  BY <1>1, FailureEnds DEF Answer, Answering
<1>2. ASSUME NEW answer, ReadAnswer(answer), IsTrueAnswer(answer) \/ IsBlip(answer)
      PROVE  BoardInv'
  <2>1. Answering  BY <1>2 DEF Answer, Answering, IsTrueAnswer, IsBlip
  <2>2. CASE portal = "meituan"  BY <1>2, <2>1, <2>2, PageIsReadPatiently DEF ReadAnswer
  <2>3. CASE portal # "meituan"  BY <1>2, <2>1, <2>3, PageIsRead DEF ReadAnswer
  <2> QED  BY <2>2, <2>3
<1> QED  BY <1>1, <1>2 DEF Answer, IsTrueAnswer, IsBlip

LEMMA BoardStep == BoardInv /\ [BoardNext]_boardVars => BoardInv'
<1> SUFFICES ASSUME BoardInv, [BoardNext]_boardVars  PROVE BoardInv'
  OBVIOUS
<1>1. CASE UNCHANGED boardVars
  BY <1>1
     DEF boardVars, BoardInv, BoardTypes, KeywordsInTurn, TotalIsAhead, EmptyForReasons,
         OverlookedForRemovals, Overlooked, Position, UpTo, Matching, Passed, Excuses,
         FirstAnswerCounts, DeadIsTold
<1>2. ASSUME NEW e \in Postings, Publish(e)  PROVE BoardInv'  BY <1>2, PublishKeeps
<1>3. ASSUME NEW i \in DOMAIN board, TakeDown(i)  PROVE BoardInv'  BY <1>3, TakeDownKeeps
<1>4. ASSUME NEW i \in DOMAIN board, Renew(i)  PROVE BoardInv'  BY <1>4, RenewKeeps
<1>5. CASE Answer  BY <1>5, AnswerKeeps
<1> QED  BY <1>1, <1>2, <1>3, <1>4, <1>5 DEF BoardNext

LEMMA BoardHolds == BoardInv => SweepIsTrue /\ BoardTypeOK
<1> SUFFICES ASSUME BoardInv  PROVE SweepIsTrue /\ BoardTypeOK
  OBVIOUS
<1>1. BoardTypes  BY DEF BoardInv
<1>2. ASSUME ended = "list", Excuses = {}
      PROVE  Cardinality((stayed \cap Wanted) \ found) <= removals
  <2>1. "failure" \notin shortened  BY <1>2 DEF Excuses
  <2>2. sweep.keyword = Len(Keywords) + 1  BY <1>2, <2>1 DEF BoardInv, KeywordsInTurn
  <2>3. Len(Keywords) \in Nat /\ DOMAIN Keywords = 1 .. Len(Keywords)  BY BoardAssumption
  <2>4. \A p : p \in Wanted <=> \E k \in 1 .. sweep.keyword - 1 : p \in Keywords[k]
    BY <2>2, <2>3 DEF Wanted
  <2>5. ~(sweep.keyword <= Len(Keywords))  BY <2>2, <2>3
  <2>6. Overlooked = (stayed \cap Wanted) \ found  BY <2>4, <2>5 DEF Overlooked
  <2> QED  BY <1>2, <2>6 DEF BoardInv, OverlookedForRemovals
<1>3. BoardTypeOK
  <2>1. ToSet(board) \subseteq Postings  BY <1>1, PostingsOverlooked
  <2> QED  BY <1>1, <2>1 DEF BoardTypes, BoardTypeOK
<1> QED  BY <1>2, <1>3 DEF BoardInv, FirstAnswerCounts, SweepIsTrue, MissesAreBounded

\* For any postings, keywords, pages and retries, whatever the board does between
\* two requests: a sweep that ended without an excuse missed no more of what
\* stayed on the board than was taken down meanwhile, and a board that is dead is
\* told from one that fails later.
THEOREM SweepsAreTrue == BoardSpec => []SweepIsTrue
<1> QED  BY BoardStarts, BoardStep, BoardHolds, PTL DEF BoardSpec

\* The types of a sweep.
THEOREM BoardTypeCorrect == BoardSpec => []BoardTypeOK
<1> QED  BY BoardStarts, BoardStep, BoardHolds, PTL DEF BoardSpec

-----------------------------------------------------------------------------
\* Entries.  Whatever runs are repeated, stopped between the two files or made
\* after an edit of the user: what a run has yet to write is what it would find
\* missing if it read the files now.

DigestLines == [is : {"entry"}, name : {p.entry : p \in Payloads}]

AddTypes ==
  /\ cvLines # NoFile => cvLines \in Seq(AddLines)
  /\ digestLines # NoFile => digestLines \in Seq(DigestLines)
  /\ answered \subseteq Payloads

\* A document has an entry of p in a section that is p's.
HasUnderHeading(doc, p) ==
  \E i, j \in DOMAIN doc :
    /\ i < j /\ IsHeading(doc, i) /\ SameKey(doc[i].name, p.section)
    /\ ~IsHeading(doc, j) /\ SameKey(doc[j].name, p.dedupKey)
    /\ \A k \in i + 1 .. j : ~IsHeading(doc, k)

\* Two entries of a name have a heading between them.
IsOnceUnderHeading(doc) ==
  \A i, j \in DOMAIN doc :
    (i < j /\ ~IsHeading(doc, i) /\ ~IsHeading(doc, j) /\ SameKey(doc[i].name, doc[j].name))
      => \E k \in i + 1 .. j - 1 : IsHeading(doc, k)

IsOnce(doc) == \A i, j \in DOMAIN doc : SameKey(doc[i].name, doc[j].name) => i = j

WritesAreDue ==
  adding # NoAdd =>
    /\ adding.payload \in Payloads /\ cvLines # NoFile
    /\ adding = [payload |-> adding.payload, todo |-> ApplyAdd(adding.payload)]

\* What was answered is in files that exist.
AnsweredIsWritten ==
  answered # {} =>
    /\ cvLines # NoFile /\ digestLines # NoFile
    /\ \A p \in answered :
         HasUnderHeading(cvLines, p) /\ ArticleDigestHasEntry(digestLines, p.dedupKey)

AddInv == AddTypes /\ WritesAreDue /\ AnsweredIsWritten /\ EnteredOnce

\* t is s with the line e put in front of its a-th.
IsPut(t, s, a, e) ==
  /\ a \in 1 .. Len(s) + 1 /\ Len(t) = Len(s) + 1
  /\ \A i \in 1 .. Len(s) + 1 : t[i] = IF i < a THEN s[i] ELSE IF i = a THEN e ELSE s[i - 1]

LEMMA LinePut ==
  ASSUME NEW S, NEW s \in Seq(S), NEW a \in 1 .. Len(s) + 1, NEW e \in S
  PROVE  InsertAt(s, a, e) \in Seq(S) /\ IsPut(InsertAt(s, a, e), s, a, e)
<1> DEFINE t == InsertAt(s, a, e)
           b == SubSeq(s, 1, a - 1)
           m == <<e>>
           c == SubSeq(s, a, Len(s))
<1>1. /\ Len(s) \in Nat /\ a \in Nat /\ 1 <= a /\ a <= Len(s) + 1
  OBVIOUS
<1>2. b \in Seq(S) /\ Len(b) = a - 1 /\ \A i \in 1 .. a - 1 : b[i] = s[i]
  BY <1>1
<1>3. c \in Seq(S) /\ Len(c) = Len(s) - a + 1 /\ \A i \in 1 .. Len(s) - a + 1 : c[i] = s[a + i - 1]
  BY <1>1
<1>4. m \in Seq(S) /\ Len(m) = 1 /\ m[1] = e  OBVIOUS
<1>5. t = (b \o m) \o c  BY DEF InsertAt
<1> HIDE DEF b, c, m, t
<1> DEFINE d == b \o m
<1>6. /\ d \in Seq(S) /\ Len(d) = a
      /\ \A i \in 1 .. a : d[i] = IF i < a THEN s[i] ELSE e
  <2>1. /\ d \in Seq(S) /\ Len(d) = Len(b) + Len(m)
        /\ \A i \in 1 .. Len(b) + Len(m) : d[i] = IF i <= Len(b) THEN b[i] ELSE m[i - Len(b)]
    BY <1>2, <1>4, ConcatProperties
  <2> HIDE DEF d
  <2>2. Len(b) + Len(m) = a  BY <1>1, <1>2, <1>4
  <2>3. \A i \in 1 .. a : d[i] = IF i < a THEN s[i] ELSE e
    <3> TAKE i \in 1 .. a
    <3>1. CASE i < a
      <4>1. i \in 1 .. a - 1 /\ i <= Len(b)  BY <3>1, <1>1, <1>2
      <4> QED  BY <4>1, <3>1, <2>1, <2>2, <1>2
    <3>2. CASE ~(i < a)
      <4>1. i - Len(b) = 1 /\ ~(i <= Len(b))  BY <3>2, <1>1, <1>2
      <4> QED  BY <4>1, <3>2, <2>1, <2>2, <1>4
    <3> QED  BY <3>1, <3>2
  <2> QED  BY <2>1, <2>2, <2>3
<1> HIDE DEF d
<1>7. /\ t \in Seq(S) /\ Len(t) = Len(d) + Len(c)
      /\ \A i \in 1 .. Len(d) + Len(c) : t[i] = IF i <= Len(d) THEN d[i] ELSE c[i - Len(d)]
  <2>1. t = d \o c  BY <1>5 DEF d
  <2> QED  BY <2>1, <1>3, <1>6, ConcatProperties
<1>8. Len(d) + Len(c) = Len(s) + 1  BY <1>1, <1>3, <1>6
<1>9. ASSUME NEW i \in 1 .. Len(s) + 1
      PROVE  t[i] = IF i < a THEN s[i] ELSE IF i = a THEN e ELSE s[i - 1]
  <2>1. CASE i <= a
    <3>1. i \in 1 .. a /\ i <= Len(d)  BY <2>1, <1>1, <1>6
    <3> QED  BY <3>1, <2>1, <1>1, <1>6, <1>7, <1>8
  <2>2. CASE ~(i <= a)
    <3>1. i - a \in 1 .. Len(s) - a + 1 /\ a + (i - a) - 1 = i - 1 /\ ~(i < a) /\ i # a
      BY <2>2, <1>1
    <3>2. t[i] = c[i - a]  BY <2>2, <1>6, <1>7, <1>8
    <3> QED  BY <3>1, <3>2, <1>3
  <2> QED  BY <2>1, <2>2
<1> QED  BY <1>1, <1>7, <1>8, <1>9 DEF IsPut, t

LEMMA LineTaken ==
  ASSUME NEW S, NEW s \in Seq(S), NEW k \in 1 .. Len(s)
  PROVE  RemoveAt(s, k) \in Seq(S) /\ IsPut(s, RemoveAt(s, k), k, s[k])
<1> DEFINE t == RemoveAt(s, k)
           a == SubSeq(s, 1, k - 1)
           b == SubSeq(s, k + 1, Len(s))
<1>1. Len(s) \in Nat /\ k \in Nat /\ 1 <= k /\ k <= Len(s)
  OBVIOUS
<1>2. a \in Seq(S) /\ Len(a) = k - 1 /\ \A i \in 1 .. k - 1 : a[i] = s[i]
  BY <1>1
<1>3. b \in Seq(S) /\ Len(b) = Len(s) - k /\ \A i \in 1 .. Len(s) - k : b[i] = s[k + i]
  BY <1>1
<1>4. t = a \o b  BY DEF RemoveAt
<1> HIDE DEF a, b, t
<1>5. /\ t \in Seq(S) /\ Len(t) = Len(a) + Len(b)
      /\ \A i \in 1 .. Len(a) + Len(b) : t[i] = IF i <= Len(a) THEN a[i] ELSE b[i - Len(a)]
  BY <1>2, <1>3, <1>4, ConcatProperties
<1>6. Len(t) = Len(s) - 1 /\ Len(a) + Len(b) = Len(s) - 1  BY <1>1, <1>2, <1>3, <1>5
<1>7. Len(s) = Len(t) + 1 /\ k \in 1 .. Len(t) + 1  BY <1>1, <1>6
<1>8. ASSUME NEW i \in 1 .. Len(t) + 1
      PROVE  s[i] = IF i < k THEN t[i] ELSE IF i = k THEN s[k] ELSE t[i - 1]
  <2>1. CASE i < k
    <3>1. i \in 1 .. k - 1 /\ i \in 1 .. Len(a) + Len(b) /\ i <= Len(a)  BY <2>1, <1>1, <1>2, <1>6
    <3> QED  BY <3>1, <2>1, <1>2, <1>5
  <2>2. CASE i > k
    <3>1. /\ i - 1 \in 1 .. Len(a) + Len(b) /\ ~(i - 1 <= Len(a)) /\ (i - 1) - Len(a) = i - k
          /\ i - k \in 1 .. Len(s) - k /\ k + (i - k) = i
      BY <2>2, <1>1, <1>2, <1>6
    <3>2. t[i - 1] = b[i - k]  BY <3>1, <1>5
    <3>3. b[i - k] = s[i]  BY <3>1, <1>3
    <3> QED  BY <2>2, <3>2, <3>3, <1>1
  <2> QED  BY <2>1, <2>2, <1>1
<1> QED  BY <1>5, <1>7, <1>8 DEF IsPut, t

\* A heading that is put anywhere parts entries, and parts no two that were not.
LEMMA HeadingPut ==
  ASSUME NEW s \in Seq(AddLines), NEW t \in Seq(AddLines), NEW a, NEW e,
         IsPut(t, s, a, e), e.is = "heading", IsOnceUnderHeading(s)
  PROVE  IsOnceUnderHeading(t)
<1>1. /\ Len(s) \in Nat /\ DOMAIN s = 1 .. Len(s) /\ DOMAIN t = 1 .. Len(s) + 1
      /\ a \in 1 .. Len(s) + 1
  BY DEF IsPut
<1>2. \A i \in 1 .. Len(s) + 1 : t[i] = IF i < a THEN s[i] ELSE IF i = a THEN e ELSE s[i - 1]
  BY DEF IsPut
<1> SUFFICES ASSUME NEW i \in 1 .. Len(s) + 1, NEW j \in 1 .. Len(s) + 1, i < j,
                    ~IsHeading(t, i), ~IsHeading(t, j), SameKey(t[i].name, t[j].name)
             PROVE  \E k \in i + 1 .. j - 1 : IsHeading(t, k)
  BY <1>1 DEF IsOnceUnderHeading
<1>3. i # a /\ j # a  BY <1>1, <1>2 DEF IsHeading
<1>4. PICK x, y : x = (IF i < a THEN i ELSE i - 1) /\ y = (IF j < a THEN j ELSE j - 1)
  OBVIOUS
<1>5. /\ x \in 1 .. Len(s) /\ y \in 1 .. Len(s) /\ s[x] = t[i] /\ s[y] = t[j]
  BY <1>1, <1>2, <1>3, <1>4
<1>6. CASE x < y
  <2>1. PICK k \in x + 1 .. y - 1 : IsHeading(s, k)
    BY <1>1, <1>5, <1>6 DEF IsOnceUnderHeading, IsHeading
  <2>2. k \in 1 .. Len(s)  BY <1>5, <2>1
  <2>3. CASE k < a
    <3>1. k \in i + 1 .. j - 1 /\ t[k] = s[k]  BY <2>1, <2>2, <2>3, <1>1, <1>2, <1>3, <1>4, <1>6
    <3> QED  BY <3>1, <2>1 DEF IsHeading
  <2>4. CASE ~(k < a)
    <3>1. k + 1 \in i + 1 .. j - 1  BY <2>1, <2>2, <2>4, <1>1, <1>3, <1>4, <1>6
    <3>2. t[k + 1] = s[k]  BY <2>2, <2>4, <1>1, <1>2
    <3> QED  BY <3>1, <3>2, <2>1 DEF IsHeading
  <2> QED  BY <2>3, <2>4
<1>7. CASE ~(x < y)
  BY <1>1, <1>3, <1>4, <1>7
<1> QED  BY <1>6, <1>7

\* To take out an entry brings none together that a heading parts.
LEMMA EntryTaken ==
  ASSUME NEW s \in Seq(AddLines), NEW t \in Seq(AddLines), NEW a, NEW e,
         IsPut(s, t, a, e), e.is # "heading", IsOnceUnderHeading(s)
  PROVE  IsOnceUnderHeading(t)
<1>1. /\ Len(t) \in Nat /\ DOMAIN t = 1 .. Len(t) /\ DOMAIN s = 1 .. Len(t) + 1
      /\ a \in 1 .. Len(t) + 1
  BY DEF IsPut
<1>2. \A i \in 1 .. Len(t) + 1 : s[i] = IF i < a THEN t[i] ELSE IF i = a THEN e ELSE t[i - 1]
  BY DEF IsPut
<1> SUFFICES ASSUME NEW i \in 1 .. Len(t), NEW j \in 1 .. Len(t), i < j,
                    ~IsHeading(t, i), ~IsHeading(t, j), SameKey(t[i].name, t[j].name)
             PROVE  \E k \in i + 1 .. j - 1 : IsHeading(t, k)
  BY <1>1 DEF IsOnceUnderHeading
<1>4. PICK x, y : x = (IF i < a THEN i ELSE i + 1) /\ y = (IF j < a THEN j ELSE j + 1)
  OBVIOUS
<1>5. x \in 1 .. Len(t) + 1 /\ y \in 1 .. Len(t) + 1 /\ s[x] = t[i] /\ s[y] = t[j] /\ x < y
  BY <1>1, <1>2, <1>4
<1>6. PICK k \in x + 1 .. y - 1 : IsHeading(s, k)
  BY <1>1, <1>5 DEF IsOnceUnderHeading, IsHeading
<1>7. k \in 1 .. Len(t) + 1 /\ k # a
  BY <1>1, <1>2, <1>5, <1>6 DEF IsHeading
<1>8. CASE k < a
  <2>1. k \in i + 1 .. j - 1 /\ t[k] = s[k]  BY <1>8, <1>1, <1>2, <1>4, <1>6, <1>7
  <2> QED  BY <2>1, <1>6 DEF IsHeading
<1>9. CASE ~(k < a)
  <2>1. k - 1 \in i + 1 .. j - 1 /\ t[k - 1] = s[k]  BY <1>9, <1>1, <1>2, <1>4, <1>6, <1>7
  <2> QED  BY <2>1, <1>6 DEF IsHeading
<1> QED  BY <1>8, <1>9

LEMMA LeastIsIn ==
  ASSUME NEW S \in SUBSET Nat, S # {}
  PROVE  Min(S) \in S /\ \A y \in S : Min(S) <= y
BY LeastNumber DEF Min

LEMMA SectionOf ==
  ASSUME NEW doc \in Seq(AddLines), NEW section
  PROVE  LET i == LocateSection(doc, section)
         IN  /\ i \in 0 .. Len(doc)
             /\ i = 0 => \A k \in 1 .. Len(doc) : ~(IsHeading(doc, k) /\ SameKey(doc[k].name, section))
             /\ i # 0 => /\ IsHeading(doc, i) /\ SameKey(doc[i].name, section)
                         /\ \A k \in 1 .. Len(doc) :
                              IsHeading(doc, k) /\ SameKey(doc[k].name, section) => i <= k
<1> DEFINE P == {k \in DOMAIN doc : IsHeading(doc, k) /\ SameKey(doc[k].name, section)}
<1>1. Len(doc) \in Nat /\ DOMAIN doc = 1 .. Len(doc)  OBVIOUS
<1>2. LocateSection(doc, section) = IF P = {} THEN 0 ELSE Min(P)  BY DEF LocateSection
<1>3. P \in SUBSET Nat  BY <1>1
<1>4. CASE P = {}
  <2>1. \A k \in 1 .. Len(doc) : k \notin P  BY <1>4
  <2> QED  BY <2>1, <1>1, <1>2, <1>4
<1>5. CASE P # {}
  <2>1. Min(P) \in P /\ \A k \in P : Min(P) <= k
    <3> HIDE DEF P
    <3> QED  BY <1>3, <1>5, LeastIsIn
  <2>2. PICK i : i = Min(P)  OBVIOUS
  <2>3. i \in P /\ \A k \in P : i <= k  BY <2>1, <2>2
  <2>4. LocateSection(doc, section) = i  BY <2>2, <1>2, <1>5
  <2>5. i \in 1 .. Len(doc) /\ IsHeading(doc, i) /\ SameKey(doc[i].name, section)  BY <2>3, <1>1
  <2>6. \A k \in 1 .. Len(doc) : IsHeading(doc, k) /\ SameKey(doc[k].name, section) => i <= k
    BY <2>3, <1>1
  <2> QED  BY <2>4, <2>5, <2>6, <1>1
<1> QED  BY <1>4, <1>5

LEMMA SectionEnd ==
  ASSUME NEW doc \in Seq(AddLines), NEW i \in 1 .. Len(doc)
  PROVE  LET a == AfterSection(doc, i)
         IN  /\ a \in i + 1 .. Len(doc) + 1
             /\ a <= Len(doc) => IsHeading(doc, a)
             /\ \A k \in i + 1 .. a - 1 : ~IsHeading(doc, k)
<1> DEFINE P == {j \in DOMAIN doc : j > i /\ IsHeading(doc, j)} \cup {Len(doc) + 1}
<1>1. Len(doc) \in Nat /\ DOMAIN doc = 1 .. Len(doc)  OBVIOUS
<1>2. AfterSection(doc, i) = Min(P)  BY DEF AfterSection
<1>3. P \in SUBSET Nat /\ P # {}  BY <1>1
<1>4. Min(P) \in P /\ \A k \in P : Min(P) <= k
  <2> HIDE DEF P
  <2> QED  BY <1>3, LeastIsIn
<1>5. PICK a : a = Min(P)  OBVIOUS
<1>6. a \in P /\ \A k \in P : a <= k  BY <1>4, <1>5
<1>7. a \in i + 1 .. Len(doc) + 1 /\ (a <= Len(doc) => IsHeading(doc, a))
  BY <1>6, <1>1
<1>8. ASSUME NEW k \in i + 1 .. a - 1, IsHeading(doc, k)  PROVE FALSE
  <2>1. k \in DOMAIN doc /\ k > i  BY <1>1, <1>7, <1>8
  <2>2. k \in P  BY <2>1, <1>8
  <2> QED  BY <2>2, <1>6, <1>7, <1>8
<1> QED  BY <1>2, <1>5, <1>7, <1>8

\* The entry of p is put at the end of the section that begins at i.
PutsUnder(doc, text, p, i) ==
  /\ i \in 1 .. Len(doc) /\ i = LocateSection(doc, p.section)
  /\ IsPut(text, doc, AfterSection(doc, i), EntryLine(p.entry))

\* The section is made at the end, with the entry.
MakesSection(doc, text, p) ==
  /\ LocateSection(doc, p.section) = 0
  /\ Len(text) = Len(doc) + 2
  /\ \A k \in 1 .. Len(doc) : text[k] = doc[k]
  /\ text[Len(doc) + 1] = HeadingLine(p.section) /\ text[Len(doc) + 2] = EntryLine(p.entry)

LEMMA Inserted ==
  ASSUME NEW doc \in Seq(AddLines), NEW p \in Payloads
  PROVE  LET text == InsertIntoCvSection(doc, p.section, p.entry)
         IN  /\ text \in Seq(AddLines)
             /\ \/ \E i : PutsUnder(doc, text, p, i)
                \/ MakesSection(doc, text, p)
<1> DEFINE text == InsertIntoCvSection(doc, p.section, p.entry)
           h == HeadingLine(p.section)
           e == EntryLine(p.entry)
<1>0. h \in AddLines /\ e \in AddLines  BY DEF AddLines, HeadingLine, EntryLine
<1>1. PICK i : i = LocateSection(doc, p.section)  OBVIOUS
<1>2. i \in 0 .. Len(doc)  BY <1>1, SectionOf
<1>3. CASE i = 0
  <2>1. text = doc \o <<h, e>>  BY <1>1, <1>3 DEF InsertIntoCvSection
  <2> HIDE DEF h, e, text
  <2>2. <<h, e>> \in Seq(AddLines) /\ Len(<<h, e>>) = 2 /\ <<h, e>>[1] = h /\ <<h, e>>[2] = e
    BY <1>0
  <2>3. PICK m : m = <<h, e>>  OBVIOUS
  <2>4. /\ text \in Seq(AddLines) /\ Len(text) = Len(doc) + Len(m)
        /\ \A k \in 1 .. Len(doc) + Len(m) : text[k] = IF k <= Len(doc) THEN doc[k] ELSE m[k - Len(doc)]
    BY <2>1, <2>2, <2>3, ConcatProperties
  <2>5. Len(m) = 2 /\ m[1] = h /\ m[2] = e  BY <2>2, <2>3
  <2>6. Len(doc) \in Nat  OBVIOUS
  <2>7. \A k \in 1 .. Len(doc) : text[k] = doc[k]  BY <2>4, <2>5, <2>6
  <2>8. text[Len(doc) + 1] = h
    <3>1. Len(doc) + 1 \in 1 .. Len(doc) + Len(m) /\ ~(Len(doc) + 1 <= Len(doc)) /\ (Len(doc) + 1) - Len(doc) = 1
      BY <2>5, <2>6
    <3> QED  BY <3>1, <2>4, <2>5
  <2>9. text[Len(doc) + 2] = e
    <3>1. Len(doc) + 2 \in 1 .. Len(doc) + Len(m) /\ ~(Len(doc) + 2 <= Len(doc)) /\ (Len(doc) + 2) - Len(doc) = 2
      BY <2>5, <2>6
    <3> QED  BY <3>1, <2>4, <2>5
  <2>10. MakesSection(doc, text, p)
    BY <1>1, <1>3, <2>4, <2>5, <2>7, <2>8, <2>9 DEF MakesSection, h, e
  <2> QED  BY <2>4, <2>10 DEF text
<1>4. CASE i # 0
  <2>1. i \in 1 .. Len(doc)  BY <1>2, <1>4
  <2>2. PICK a : a = AfterSection(doc, i)  OBVIOUS
  <2>3. a \in 1 .. Len(doc) + 1  BY <2>1, <2>2, SectionEnd
  <2>4. text = InsertAt(doc, a, e)  BY <1>1, <1>4, <2>2 DEF InsertIntoCvSection
  <2> HIDE DEF h, e, text
  <2>5. text \in Seq(AddLines) /\ IsPut(text, doc, a, e)  BY <1>0, <2>3, <2>4, LinePut
  <2>6. PutsUnder(doc, text, p, i)  BY <2>1, <2>2, <2>5, <1>1 DEF PutsUnder, e
  <2> QED  BY <2>5, <2>6 DEF text
<1> QED  BY <1>3, <1>4

LEMMA KeyOfPayload ==
  ASSUME NEW p \in Payloads
  PROVE  \A x : SameKey(x, p.dedupKey) <=> SameKey(x, p.entry)
BY PayloadsAssumption DEF SameKey

\* What is found is under its heading.
LEMMA FoundUnderHeading ==
  ASSUME NEW doc \in Seq(AddLines), NEW p \in Payloads, CvHasEntry(doc, p.section, p.dedupKey)
  PROVE  HasUnderHeading(doc, p)
<1>1. Len(doc) \in Nat /\ DOMAIN doc = 1 .. Len(doc)  OBVIOUS
<1>2. PICK i : i = LocateSection(doc, p.section)  OBVIOUS
<1>3. i # 0 /\ i \in 0 .. Len(doc) /\ IsHeading(doc, i) /\ SameKey(doc[i].name, p.section)
  BY <1>2, SectionOf DEF CvHasEntry
<1>4. i \in 1 .. Len(doc)  BY <1>3, <1>1
<1>5. PICK a : a = AfterSection(doc, i)  OBVIOUS
<1>6. a \in i + 1 .. Len(doc) + 1 /\ \A k \in i + 1 .. a - 1 : ~IsHeading(doc, k)
  BY <1>4, <1>5, SectionEnd
<1>7. PICK j \in i + 1 .. a - 1 : SameKey(doc[j].name, p.dedupKey)
  BY <1>2, <1>5 DEF CvHasEntry
<1>8. j \in 1 .. Len(doc) /\ i < j /\ \A k \in i + 1 .. j : k \in i + 1 .. a - 1
  BY <1>1, <1>4, <1>6, <1>7
<1>9. ~IsHeading(doc, j) /\ \A k \in i + 1 .. j : ~IsHeading(doc, k)  BY <1>6, <1>7, <1>8
<1> QED  BY <1>1, <1>3, <1>4, <1>7, <1>8, <1>9 DEF HasUnderHeading

\* An entry at the end of its section.
LEMMA PutUnder ==
  ASSUME NEW doc \in Seq(AddLines), NEW text \in Seq(AddLines), NEW p \in Payloads, NEW i,
         PutsUnder(doc, text, p, i), ~CvHasEntry(doc, p.section, p.dedupKey)
  PROVE  /\ IsOnceUnderHeading(doc) => IsOnceUnderHeading(text)
         /\ \A q : HasUnderHeading(doc, q) => HasUnderHeading(text, q)
         /\ CvHasEntry(text, p.section, p.dedupKey)
<1>1. Len(doc) \in Nat /\ DOMAIN doc = 1 .. Len(doc)  OBVIOUS
<1>2. PICK a, e : a = AfterSection(doc, i) /\ e = EntryLine(p.entry)  OBVIOUS
<1>3. /\ i \in 1 .. Len(doc) /\ IsPut(text, doc, a, e)
      /\ IsHeading(doc, i) /\ SameKey(doc[i].name, p.section)
      /\ \A k \in 1 .. Len(doc) : IsHeading(doc, k) /\ SameKey(doc[k].name, p.section) => i <= k
  <2>1. i \in 1 .. Len(doc) /\ i = LocateSection(doc, p.section) /\ IsPut(text, doc, a, e)
    BY <1>2 DEF PutsUnder
  <2> QED  BY <2>1, SectionOf
<1>4. /\ a \in i + 1 .. Len(doc) + 1
      /\ a <= Len(doc) => IsHeading(doc, a)
      /\ \A k \in i + 1 .. a - 1 : ~IsHeading(doc, k)
  BY <1>2, <1>3, SectionEnd
<1>5. e.is # "heading" /\ e.name = p.entry  BY <1>2 DEF EntryLine
<1>6. \A k \in i + 1 .. a - 1 : ~SameKey(doc[k].name, p.entry)
  <2>1. i = LocateSection(doc, p.section) /\ i # 0  BY <1>3 DEF PutsUnder
  <2>2. \A k \in i + 1 .. a - 1 : ~SameKey(doc[k].name, p.dedupKey)
    BY <2>1, <1>2 DEF CvHasEntry
  <2> QED  BY <2>2, KeyOfPayload
<1>7. /\ Len(text) = Len(doc) + 1 /\ DOMAIN text = 1 .. Len(doc) + 1
      /\ \A k \in 1 .. Len(doc) + 1 :
           text[k] = IF k < a THEN doc[k] ELSE IF k = a THEN e ELSE doc[k - 1]
  BY <1>1, <1>3 DEF IsPut
<1>8. /\ \A k \in 1 .. a - 1 : text[k] = doc[k]
      /\ text[a] = e
      /\ \A k \in a .. Len(doc) : text[k + 1] = doc[k]
  BY <1>1, <1>3, <1>4, <1>7
<1>9. ASSUME IsOnceUnderHeading(doc)  PROVE IsOnceUnderHeading(text)
  <2> SUFFICES ASSUME NEW x \in 1 .. Len(doc) + 1, NEW y \in 1 .. Len(doc) + 1, x < y,
                      ~IsHeading(text, x), ~IsHeading(text, y), SameKey(text[x].name, text[y].name)
               PROVE  \E k \in x + 1 .. y - 1 : IsHeading(text, k)
    BY <1>7 DEF IsOnceUnderHeading
  <2>1. CASE y = a
    <3>1. text[y] = e /\ text[x] = doc[x] /\ x \in 1 .. Len(doc)  BY <2>1, <1>1, <1>3, <1>4, <1>8
    <3>2. SameKey(doc[x].name, p.entry)  BY <3>1, <1>5
    <3>3. x \notin i + 1 .. a - 1  BY <3>2, <1>6
    <3>4. x # i  BY <3>1, <1>3 DEF IsHeading
    <3>5. i \in x + 1 .. y - 1  BY <3>1, <3>3, <3>4, <2>1, <1>1, <1>3, <1>4
    <3>6. text[i] = doc[i]  BY <1>3, <1>4, <1>8
    <3> QED  BY <3>5, <3>6, <1>3 DEF IsHeading
  <2>2. CASE x = a
    <3>1. y - 1 \in a .. Len(doc) /\ (y - 1) + 1 = y  BY <2>2, <1>1, <1>4
    <3>2. text[y] = doc[y - 1]  BY <3>1, <1>8
    <3>3. a \in 1 .. Len(doc) /\ IsHeading(doc, a)  BY <3>1, <1>1, <1>3, <1>4
    <3>4. text[a + 1] = doc[a]  BY <3>3, <1>1, <1>8
    <3>5. a + 1 # y  BY <3>3, <3>4 DEF IsHeading
    <3>6. a + 1 \in x + 1 .. y - 1  BY <2>2, <3>3, <3>5, <1>1
    <3> QED  BY <3>3, <3>4, <3>6 DEF IsHeading
  <2>3. CASE x # a /\ y # a
    <3>1. PICK b, c : b = (IF x < a THEN x ELSE x - 1) /\ c = (IF y < a THEN y ELSE y - 1)
      OBVIOUS
    <3>2. b \in 1 .. Len(doc) /\ c \in 1 .. Len(doc) /\ b < c  BY <2>3, <3>1, <1>1, <1>3, <1>4
    <3>3. text[x] = doc[b] /\ text[y] = doc[c]  BY <2>3, <3>1, <1>7
    <3>4. PICK k \in b + 1 .. c - 1 : IsHeading(doc, k)
      BY <3>2, <3>3, <1>1, <1>9 DEF IsOnceUnderHeading, IsHeading
    <3>5. k \in 1 .. Len(doc)  BY <3>2, <3>4
    <3>6. CASE k < a
      <4>1. k \in x + 1 .. y - 1  BY <3>1, <3>2, <3>4, <3>5, <3>6, <2>3, <1>1, <1>3, <1>4
      <4>2. text[k] = doc[k]  BY <3>5, <3>6, <1>3, <1>4, <1>8
      <4> QED  BY <4>1, <4>2, <3>4 DEF IsHeading
    <3>7. CASE ~(k < a)
      <4>1. k + 1 \in x + 1 .. y - 1  BY <3>1, <3>2, <3>4, <3>5, <3>7, <2>3, <1>1, <1>3, <1>4
      <4>2. k \in a .. Len(doc)  BY <3>5, <3>7, <1>1, <1>3, <1>4
      <4>3. text[k + 1] = doc[k]  BY <4>2, <1>8
      <4> QED  BY <4>1, <4>3, <3>4 DEF IsHeading
    <3> QED  BY <3>6, <3>7
  <2> QED  BY <2>1, <2>2, <2>3
<1>10. ASSUME NEW q, HasUnderHeading(doc, q)  PROVE HasUnderHeading(text, q)
  <2>1. PICK x, y \in 1 .. Len(doc) :
             /\ x < y /\ IsHeading(doc, x) /\ SameKey(doc[x].name, q.section)
             /\ ~IsHeading(doc, y) /\ SameKey(doc[y].name, q.dedupKey)
             /\ \A k \in x + 1 .. y : ~IsHeading(doc, k)
    BY <1>1, <1>10 DEF HasUnderHeading
  <2>2. PICK b, c : b = (IF x < a THEN x ELSE x + 1) /\ c = (IF y < a THEN y ELSE y + 1)
    OBVIOUS
  <2>3. b \in 1 .. Len(doc) + 1 /\ c \in 1 .. Len(doc) + 1 /\ b < c
    BY <2>1, <2>2, <1>1, <1>3, <1>4
  <2>4. text[b] = doc[x] /\ text[c] = doc[y]  BY <2>1, <2>2, <1>1, <1>3, <1>4, <1>8
  <2>5. ASSUME NEW k \in b + 1 .. c  PROVE ~IsHeading(text, k)
    <3>1. k \in 1 .. Len(doc) + 1  BY <2>3, <1>1
    <3>2. CASE k < a
      <4>1. k \in x + 1 .. y /\ text[k] = doc[k]
        BY <3>1, <3>2, <2>1, <2>2, <2>3, <1>1, <1>3, <1>4, <1>7
      <4> QED  BY <4>1, <2>1 DEF IsHeading
    <3>3. CASE k = a
      BY <3>3, <1>5, <1>8 DEF IsHeading
    <3>4. CASE k > a
      <4>1. k - 1 \in x + 1 .. y  BY <3>1, <3>4, <2>1, <2>2, <2>3, <1>1, <1>3, <1>4
      <4>2. text[k] = doc[k - 1]  BY <3>1, <3>4, <1>3, <1>4, <1>7
      <4> QED  BY <4>1, <4>2, <2>1 DEF IsHeading
    <3> QED  BY <3>1, <3>2, <3>3, <3>4, <1>1, <1>3, <1>4
  <2> QED  BY <2>1, <2>3, <2>4, <2>5, <1>7 DEF HasUnderHeading, IsHeading
<1>11. CvHasEntry(text, p.section, p.dedupKey)
  <2>1. PICK l : l = LocateSection(text, p.section)  OBVIOUS
  <2>2. i \in 1 .. Len(text) /\ IsHeading(text, i) /\ SameKey(text[i].name, p.section)
    <3>1. text[i] = doc[i] /\ i \in 1 .. Len(text)  BY <1>1, <1>3, <1>4, <1>7, <1>8
    <3> QED  BY <3>1, <1>3 DEF IsHeading
  <2>3. l # 0  BY <2>1, <2>2, SectionOf
  <2>4. /\ l \in 0 .. Len(text) /\ IsHeading(text, l) /\ SameKey(text[l].name, p.section) /\ l <= i
    BY <2>1, <2>2, <2>3, SectionOf
  <2>5. l \in 1 .. Len(doc) /\ text[l] = doc[l]
    BY <2>3, <2>4, <1>1, <1>3, <1>4, <1>7, <1>8
  <2>6. i <= l  BY <2>4, <2>5, <1>3 DEF IsHeading
  <2>7. l = i  BY <2>4, <2>5, <2>6, <1>3
  <2>8. PICK b : b = AfterSection(text, i)  OBVIOUS
  <2>9. /\ b \in i + 1 .. Len(text) + 1
        /\ b <= Len(text) => IsHeading(text, b)
    BY <2>2, <2>8, SectionEnd
  <2>10. ~(b <= a)
    <3> SUFFICES ASSUME b <= a  PROVE FALSE
      OBVIOUS
    <3>1. b <= Len(text)  BY <2>9, <1>1, <1>3, <1>4, <1>7
    <3>2. CASE b = a
      BY <3>1, <3>2, <2>9, <1>5, <1>8 DEF IsHeading
    <3>3. CASE b # a
      <4>1. b \in i + 1 .. a - 1 /\ b \in 1 .. a - 1  BY <3>3, <2>9, <1>1, <1>3, <1>4, <1>7
      <4> QED  BY <3>1, <4>1, <2>9, <1>4, <1>8 DEF IsHeading
    <3> QED  BY <3>2, <3>3
  <2>11. a \in i + 1 .. b - 1  BY <2>9, <2>10, <1>1, <1>3, <1>4, <1>7
  <2>12. SameKey(text[a].name, p.dedupKey)
    <3>1. SameKey(p.entry, p.entry)  BY DEF SameKey
    <3> QED  BY <3>1, <1>5, <1>8, KeyOfPayload
  <2> QED  BY <2>1, <2>3, <2>7, <2>8, <2>11, <2>12 DEF CvHasEntry
<1> QED  BY <1>9, <1>10, <1>11

\* An entry in a section that is made for it.
LEMMA MadeSection ==
  ASSUME NEW doc \in Seq(AddLines), NEW text \in Seq(AddLines), NEW p \in Payloads,
         MakesSection(doc, text, p)
  PROVE  /\ IsOnceUnderHeading(doc) => IsOnceUnderHeading(text)
         /\ \A q : HasUnderHeading(doc, q) => HasUnderHeading(text, q)
         /\ CvHasEntry(text, p.section, p.dedupKey)
<1>1. PICK n : n = Len(doc)  OBVIOUS
<1>2. n \in Nat /\ DOMAIN doc = 1 .. n /\ Len(text) = n + 2 /\ DOMAIN text = 1 .. n + 2
  BY <1>1 DEF MakesSection
<1>3. /\ \A k \in 1 .. n : text[k] = doc[k]
      /\ text[n + 1].is = "heading" /\ text[n + 1].name = p.section
      /\ text[n + 2].is # "heading" /\ text[n + 2].name = p.entry
  BY <1>1 DEF MakesSection, HeadingLine, EntryLine
<1>4. ASSUME IsOnceUnderHeading(doc)  PROVE IsOnceUnderHeading(text)
  <2> SUFFICES ASSUME NEW x \in 1 .. n + 2, NEW y \in 1 .. n + 2, x < y,
                      ~IsHeading(text, x), ~IsHeading(text, y), SameKey(text[x].name, text[y].name)
               PROVE  \E k \in x + 1 .. y - 1 : IsHeading(text, k)
    BY <1>2 DEF IsOnceUnderHeading
  <2>1. x # n + 1 /\ y # n + 1  BY <1>3 DEF IsHeading
  <2>2. CASE y = n + 2
    <3>1. n + 1 \in x + 1 .. y - 1  BY <2>1, <2>2, <1>2
    <3> QED  BY <3>1, <1>3 DEF IsHeading
  <2>3. CASE y # n + 2
    <3>1. x \in 1 .. n /\ y \in 1 .. n  BY <2>1, <2>3, <1>2
    <3>2. PICK k \in x + 1 .. y - 1 : IsHeading(doc, k)
      BY <3>1, <1>2, <1>3, <1>4 DEF IsOnceUnderHeading, IsHeading
    <3>3. k \in 1 .. n  BY <3>1, <3>2, <1>2
    <3> QED  BY <3>2, <3>3, <1>3 DEF IsHeading
  <2> QED  BY <2>2, <2>3
<1>5. ASSUME NEW q, HasUnderHeading(doc, q)  PROVE HasUnderHeading(text, q)
  <2>1. PICK x, y \in 1 .. n :
             /\ x < y /\ IsHeading(doc, x) /\ SameKey(doc[x].name, q.section)
             /\ ~IsHeading(doc, y) /\ SameKey(doc[y].name, q.dedupKey)
             /\ \A k \in x + 1 .. y : ~IsHeading(doc, k)
    BY <1>2, <1>5 DEF HasUnderHeading
  <2>2. \A k \in x + 1 .. y : k \in 1 .. n  BY <2>1, <1>2
  <2>3. x \in 1 .. n + 2 /\ y \in 1 .. n + 2 /\ text[x] = doc[x] /\ text[y] = doc[y]
    BY <2>1, <1>2, <1>3
  <2>4. \A k \in x + 1 .. y : ~IsHeading(text, k)  BY <2>1, <2>2, <1>3 DEF IsHeading
  <2> QED  BY <2>1, <2>3, <2>4, <1>2 DEF HasUnderHeading, IsHeading
<1>6. CvHasEntry(text, p.section, p.dedupKey)
  <2>1. PICK l : l = LocateSection(text, p.section)  OBVIOUS
  <2>2. n + 1 \in 1 .. Len(text) /\ IsHeading(text, n + 1) /\ SameKey(text[n + 1].name, p.section)
    BY <1>2, <1>3 DEF IsHeading, SameKey
  <2>3. l # 0  BY <2>1, <2>2, SectionOf
  <2>4. /\ l \in 0 .. Len(text) /\ IsHeading(text, l) /\ SameKey(text[l].name, p.section) /\ l <= n + 1
    BY <2>1, <2>2, <2>3, SectionOf
  <2>5. l \notin 1 .. n
    <3> SUFFICES ASSUME l \in 1 .. n  PROVE FALSE
      OBVIOUS
    <3>1. IsHeading(doc, l) /\ SameKey(doc[l].name, p.section)  BY <2>4, <1>3 DEF IsHeading
    <3>2. LocateSection(doc, p.section) = 0  BY DEF MakesSection
    <3> QED  BY <3>1, <3>2, <1>1, SectionOf
  <2>6. l = n + 1 /\ l \in 1 .. Len(text)  BY <2>3, <2>4, <2>5, <1>2
  <2>7. PICK b : b = AfterSection(text, l)  OBVIOUS
  <2>8. b \in l + 1 .. Len(text) + 1 /\ (b <= Len(text) => IsHeading(text, b))
    BY <2>6, <2>7, SectionEnd
  <2>9. b # n + 2  BY <2>8, <1>2, <1>3 DEF IsHeading
  <2>10. n + 2 \in l + 1 .. b - 1  BY <2>6, <2>8, <2>9, <1>2
  <2>11. SameKey(text[n + 2].name, p.dedupKey)
    <3>1. SameKey(p.entry, p.entry)  BY DEF SameKey
    <3> QED  BY <3>1, <1>3, KeyOfPayload
  <2> QED  BY <2>1, <2>3, <2>7, <2>10, <2>11 DEF CvHasEntry
<1> QED  BY <1>4, <1>5, <1>6

\* What a run writes to cv.md.
LEMMA CvWritten ==
  ASSUME NEW doc \in Seq(AddLines), NEW p \in Payloads, ~CvHasEntry(doc, p.section, p.dedupKey),
         NEW text, text = InsertIntoCvSection(doc, p.section, p.entry)
  PROVE  /\ text \in Seq(AddLines)
         /\ IsOnceUnderHeading(doc) => IsOnceUnderHeading(text)
         /\ \A q : HasUnderHeading(doc, q) => HasUnderHeading(text, q)
         /\ CvHasEntry(text, p.section, p.dedupKey)
<1>1. text \in Seq(AddLines) /\ ((\E i : PutsUnder(doc, text, p, i)) \/ MakesSection(doc, text, p))
  BY Inserted
<1>2. CASE \E i : PutsUnder(doc, text, p, i)  BY <1>1, <1>2, PutUnder
<1>3. CASE MakesSection(doc, text, p)  BY <1>1, <1>3, MadeSection
<1> QED  BY <1>1, <1>2, <1>3

\* What a run writes to the digest.
LEMMA DigestWritten ==
  ASSUME NEW doc \in Seq(DigestLines), NEW p \in Payloads, ~ArticleDigestHasEntry(doc, p.dedupKey),
         NEW text, text = Append(doc, EntryLine(p.entry))
  PROVE  /\ text \in Seq(DigestLines)
         /\ IsOnce(doc) => IsOnce(text)
         /\ \A key : ArticleDigestHasEntry(doc, key) => ArticleDigestHasEntry(text, key)
         /\ ArticleDigestHasEntry(text, p.dedupKey)
<1>1. PICK n, e : n = Len(doc) /\ e = EntryLine(p.entry)  OBVIOUS
<1>2. e \in DigestLines /\ e.name = p.entry  BY <1>1 DEF DigestLines, EntryLine
<1>3. /\ n \in Nat /\ DOMAIN doc = 1 .. n
      /\ text \in Seq(DigestLines) /\ DOMAIN text = 1 .. n + 1
      /\ \A k \in 1 .. n : text[k] = doc[k]
      /\ text[n + 1] = e
  BY <1>1, <1>2
<1>4. \A k \in 1 .. n : ~SameKey(doc[k].name, p.entry)
  BY <1>3, KeyOfPayload DEF ArticleDigestHasEntry
<1>5. ASSUME IsOnce(doc)  PROVE IsOnce(text)
  <2> SUFFICES ASSUME NEW x \in 1 .. n + 1, NEW y \in 1 .. n + 1, SameKey(text[x].name, text[y].name)
               PROVE  x = y
    BY <1>3 DEF IsOnce
  <2>1. CASE x \in 1 .. n /\ y \in 1 .. n
    BY <2>1, <1>3, <1>5 DEF IsOnce
  <2>2. CASE x = n + 1 /\ y \in 1 .. n
    <3>1. SameKey(doc[y].name, p.entry)  BY <2>2, <1>2, <1>3 DEF SameKey
    <3> QED  BY <3>1, <2>2, <1>4
  <2>3. CASE y = n + 1 /\ x \in 1 .. n
    <3>1. SameKey(doc[x].name, p.entry)  BY <2>3, <1>2, <1>3 DEF SameKey
    <3> QED  BY <3>1, <2>3, <1>4
  <2> QED  BY <2>1, <2>2, <2>3, <1>3
<1>6. \A key : ArticleDigestHasEntry(doc, key) => ArticleDigestHasEntry(text, key)
  <2> SUFFICES ASSUME NEW key, NEW x \in 1 .. n, SameKey(doc[x].name, key)
               PROVE  ArticleDigestHasEntry(text, key)
    BY <1>3 DEF ArticleDigestHasEntry
  <2>1. x \in 1 .. n + 1 /\ text[x] = doc[x]  BY <1>3
  <2> QED  BY <2>1, <1>3 DEF ArticleDigestHasEntry
<1>7. ArticleDigestHasEntry(text, p.dedupKey)
  <2>1. n + 1 \in DOMAIN text /\ SameKey(text[n + 1].name, p.entry)  BY <1>2, <1>3 DEF SameKey
  <2> QED  BY <2>1, KeyOfPayload DEF ArticleDigestHasEntry
<1> QED  BY <1>3, <1>5, <1>6, <1>7

LEMMA FilesDue ==
  ASSUME NEW C \in BOOLEAN, NEW D \in BOOLEAN, NEW a, NEW b
  PROVE  (IF C THEN << >> ELSE <<a>>) \o (IF D THEN << >> ELSE <<b>>)
           = IF C THEN IF D THEN << >> ELSE <<b>>
             ELSE IF D THEN <<a>> ELSE <<a, b>>
<1>1. /\ << >> \o << >> = << >> /\ << >> \o <<b>> = <<b>>
      /\ <<a>> \o << >> = <<a>>
  <2>1. <<a>> \in Seq({a}) /\ <<b>> \in Seq({b}) /\ << >> \in Seq({a})  OBVIOUS
  <2> QED  BY <2>1, ConcatEmptySeq
<1>2. <<a>> \o <<b>> = <<a, b>>
  <2>1. <<a>> \in Seq({a, b}) /\ b \in {a, b}  OBVIOUS
  <2>2. Append(<<a>>, b) = <<a, b>>
    <3>1. PICK s, t : s = Append(<<a>>, b) /\ t = <<a, b>>  OBVIOUS
    <3>2. s \in Seq({a, b}) /\ Len(s) = 2 /\ s[1] = a /\ s[2] = b  BY <3>1
    <3>3. t \in Seq({a, b}) /\ Len(t) = 2 /\ t[1] = a /\ t[2] = b  BY <3>1
    <3>4. \A i \in 1 .. Len(s) : s[i] = t[i]
      <4>1. \A i \in 1 .. Len(s) : i = 1 \/ i = 2  BY <3>2
      <4> QED  BY <4>1, <3>2, <3>3
    <3>5. s = t  BY <3>2, <3>3, <3>4, SeqEqual
    <3> QED  BY <3>1, <3>5
  <2> QED  BY <2>1, <2>2, AppendIsConcat
<1> QED  BY <1>1, <1>2

LEMMA FirstOfTwo ==
  ASSUME NEW a, NEW b
  PROVE  /\ Head(<<a>>) = a /\ Tail(<<a>>) = << >> /\ <<a>> # << >>
         /\ Head(<<a, b>>) = a /\ Tail(<<a, b>>) = <<b>> /\ <<a, b>> # << >>
OBVIOUS

\* The files as they would be written.
CvFile(p) == [name |-> "cv", text |-> InsertIntoCvSection(cvLines, p.section, p.entry)]

DigestFile(p) == [name |-> "digest", text |-> Append(CurrentDigest, EntryLine(p.entry))]

CvIsDone(p) == CvHasEntry(cvLines, p.section, p.dedupKey)

DigestIsDone(p) == ArticleDigestHasEntry(CurrentDigest, p.dedupKey)

LEMMA FilesToWrite ==
  ASSUME NEW p
  PROVE  ApplyAdd(p) = IF CvIsDone(p) THEN IF DigestIsDone(p) THEN << >> ELSE <<DigestFile(p)>>
                       ELSE IF DigestIsDone(p) THEN <<CvFile(p)>> ELSE <<CvFile(p), DigestFile(p)>>
<1>1. CvIsDone(p) \in BOOLEAN /\ DigestIsDone(p) \in BOOLEAN
  BY DEF CvIsDone, DigestIsDone, CvHasEntry, ArticleDigestHasEntry
<1>2. ApplyAdd(p) = (IF CvIsDone(p) THEN << >> ELSE <<CvFile(p)>>)
                     \o (IF DigestIsDone(p) THEN << >> ELSE <<DigestFile(p)>>)
  BY DEF ApplyAdd, CvIsDone, DigestIsDone, CvFile, DigestFile
<1> QED  BY <1>1, <1>2, FilesDue

LEMMA FilesToWriteThen ==
  ASSUME NEW p
  PROVE  ApplyAdd(p)' = IF CvIsDone(p)' THEN IF DigestIsDone(p)' THEN << >> ELSE <<DigestFile(p)'>>
                        ELSE IF DigestIsDone(p)' THEN <<CvFile(p)'>> ELSE <<CvFile(p)', DigestFile(p)'>>
<1>1. CvIsDone(p)' \in BOOLEAN /\ DigestIsDone(p)' \in BOOLEAN
  BY DEF CvIsDone, DigestIsDone, CvHasEntry, ArticleDigestHasEntry
<1>2. ApplyAdd(p)' = (IF CvIsDone(p)' THEN << >> ELSE <<CvFile(p)'>>)
                     \o (IF DigestIsDone(p)' THEN << >> ELSE <<DigestFile(p)'>>)
  BY DEF ApplyAdd, CvIsDone, DigestIsDone, CvFile, DigestFile
<1> QED  BY <1>1, <1>2, FilesDue

LEMMA CurrentDigestIsOne ==
  ASSUME AddTypes, EnteredOnce
  PROVE  CurrentDigest \in Seq(DigestLines) /\ IsOnce(CurrentDigest)
<1>1. CASE digestLines = NoFile
  <2>1. CurrentDigest = << >>  BY <1>1 DEF CurrentDigest
  <2>2. << >> \in Seq(DigestLines) /\ IsOnce(<< >>)  BY DEF IsOnce
  <2> QED  BY <2>1, <2>2
<1>2. CASE digestLines # NoFile
  BY <1>2 DEF AddTypes, EnteredOnce, CurrentDigest, DigestLines, IsOnce
<1> QED  BY <1>1, <1>2

LEMMA DigestIsThere ==
  ASSUME NEW doc \in Seq(DigestLines)
  PROVE  doc # NoFile
<1>1. \A x \in DigestLines : x \in AddLines  BY DEF DigestLines, AddLines
<1>2. doc \in Seq(AddLines)  BY <1>1
<1> QED  BY <1>2, PayloadsAssumption

\* A write leaves what was written, and what is due then is the rest.
LEMMA WriteKeepsEntries ==
  ASSUME AddInv, WriteAdded
  PROVE  AddInv'
<1>0. AddTypes /\ WritesAreDue /\ AnsweredIsWritten /\ EnteredOnce  BY DEF AddInv
<1>1. PICK p : p = adding.payload  OBVIOUS
<1>2. adding # NoAdd
  <2>1. NoAdd.todo = << >>  BY DEF NoAdd
  <2> QED  BY <2>1 DEF WriteAdded
<1>3. /\ p \in Payloads /\ cvLines # NoFile
      /\ adding = [payload |-> p, todo |-> ApplyAdd(p)]
      /\ cvLines \in Seq(AddLines) /\ IsOnceUnderHeading(cvLines)
  BY <1>0, <1>1, <1>2 DEF WritesAreDue, AddTypes, EnteredOnce, IsOnceUnderHeading
<1>4. PICK T : T = ApplyAdd(p)  OBVIOUS
<1>5. /\ adding = [payload |-> p, todo |-> T] /\ T # << >>
      /\ adding' = [payload |-> p, todo |-> Tail(T)]
      /\ UNCHANGED <<answered, runs, handEdits>>
      /\ cvLines' = IF Head(T).name = "cv" THEN Head(T).text ELSE cvLines
      /\ digestLines' = IF Head(T).name = "digest" THEN Head(T).text ELSE digestLines
  BY <1>3, <1>4 DEF WriteAdded
<1>6. CASE ~CvIsDone(p)
  <2>1. Head(T) = CvFile(p) /\ Tail(T) = IF DigestIsDone(p) THEN << >> ELSE <<DigestFile(p)>>
    BY <1>4, <1>6, FilesToWrite, FirstOfTwo
  <2>2. PICK text : text = InsertIntoCvSection(cvLines, p.section, p.entry)  OBVIOUS
  <2>3. cvLines' = text /\ digestLines' = digestLines
    BY <2>1, <2>2, <1>5 DEF CvFile
  <2>4. /\ text \in Seq(AddLines) /\ IsOnceUnderHeading(text)
        /\ \A q : HasUnderHeading(cvLines, q) => HasUnderHeading(text, q)
        /\ CvHasEntry(text, p.section, p.dedupKey)
    BY <2>2, <1>3, <1>6, CvWritten DEF CvIsDone
  <2>5. CvIsDone(p)' /\ (DigestIsDone(p)' <=> DigestIsDone(p)) /\ DigestFile(p)' = DigestFile(p)
    BY <2>3, <2>4 DEF CvIsDone, DigestIsDone, DigestFile, CurrentDigest
  <2>6. Tail(T) = ApplyAdd(p)'  BY <2>1, <2>5, FilesToWriteThen
  <2>7. cvLines' # NoFile  BY <2>3, <2>4, PayloadsAssumption
  <2>8. AddTypes'  BY <2>3, <2>4, <1>0, <1>5 DEF AddTypes
  <2>9. WritesAreDue'  BY <2>6, <2>7, <1>3, <1>5 DEF WritesAreDue, ApplyAdd, NoAdd
  <2>10. AnsweredIsWritten'
    BY <2>3, <2>4, <2>7, <1>0, <1>5 DEF AnsweredIsWritten
  <2>11. EnteredOnce'  BY <2>3, <2>4, <1>0 DEF EnteredOnce, IsOnceUnderHeading
  <2> QED  BY <2>8, <2>9, <2>10, <2>11 DEF AddInv
<1>7. CASE CvIsDone(p)
  <2>1. ~DigestIsDone(p) /\ Head(T) = DigestFile(p) /\ Tail(T) = << >>
    BY <1>4, <1>5, <1>7, FilesToWrite, FirstOfTwo
  <2>2. PICK text : text = Append(CurrentDigest, EntryLine(p.entry))  OBVIOUS
  <2>3. cvLines' = cvLines /\ digestLines' = text
    BY <2>1, <2>2, <1>5 DEF DigestFile
  <2>4. /\ text \in Seq(DigestLines) /\ IsOnce(text)
        /\ \A key : ArticleDigestHasEntry(CurrentDigest, key) => ArticleDigestHasEntry(text, key)
        /\ ArticleDigestHasEntry(text, p.dedupKey)
    BY <2>1, <2>2, <1>0, <1>3, CurrentDigestIsOne, DigestWritten DEF DigestIsDone
  <2>5. digestLines' # NoFile  BY <2>3, <2>4, DigestIsThere
  <2>6. CvIsDone(p)' /\ DigestIsDone(p)'
    BY <2>3, <2>4, <2>5, <1>7 DEF CvIsDone, DigestIsDone, CurrentDigest
  <2>7. Tail(T) = ApplyAdd(p)'  BY <2>1, <2>6, FilesToWriteThen
  <2>8. AddTypes'  BY <2>3, <2>4, <1>0, <1>5 DEF AddTypes, DigestLines
  <2>9. WritesAreDue'  BY <2>3, <2>7, <1>3, <1>5 DEF WritesAreDue, ApplyAdd, NoAdd
  <2>10. AnsweredIsWritten'
    <3> SUFFICES ASSUME answered # {}
                 PROVE  /\ cvLines # NoFile
                        /\ \A q \in answered :
                             HasUnderHeading(cvLines, q) /\ ArticleDigestHasEntry(text, q.dedupKey)
      BY <2>3, <2>5, <1>5 DEF AnsweredIsWritten
    <3>1. CurrentDigest = digestLines  BY <1>0 DEF AnsweredIsWritten, CurrentDigest
    <3> QED  BY <3>1, <2>4, <1>0 DEF AnsweredIsWritten
  <2>11. EnteredOnce'  BY <2>3, <2>4, <1>0 DEF EnteredOnce, IsOnce
  <2> QED  BY <2>8, <2>9, <2>10, <2>11 DEF AddInv
<1> QED  BY <1>6, <1>7

\* A run that is done tells of files that have its entry.
LEMMA TellKeepsEntries ==
  ASSUME AddInv, TellAdded
  PROVE  AddInv'
<1>0. AddTypes /\ WritesAreDue /\ AnsweredIsWritten /\ EnteredOnce  BY DEF AddInv
<1>1. PICK p : p = adding.payload  OBVIOUS
<1>2. /\ p \in Payloads /\ cvLines # NoFile /\ cvLines \in Seq(AddLines)
      /\ ApplyAdd(p) = << >>
  BY <1>0, <1>1 DEF TellAdded, WritesAreDue, AddTypes
<1>3. CvIsDone(p) /\ DigestIsDone(p)
  <2>1. \A a, b : <<a>> # << >> /\ <<a, b>> # << >>  OBVIOUS
  <2> QED  BY <2>1, <1>2, FilesToWrite
<1>4. HasUnderHeading(cvLines, p)  BY <1>2, <1>3, FoundUnderHeading DEF CvIsDone
<1>5. digestLines # NoFile /\ ArticleDigestHasEntry(digestLines, p.dedupKey)
  <2>1. digestLines # NoFile
    <3> SUFFICES ASSUME digestLines = NoFile  PROVE FALSE
      OBVIOUS
    <3>1. CurrentDigest = << >>  BY DEF CurrentDigest
    <3> QED  BY <3>1, <1>3 DEF DigestIsDone, ArticleDigestHasEntry
  <2> QED  BY <2>1, <1>3 DEF DigestIsDone, CurrentDigest
<1>6. AddTypes'  BY <1>0, <1>1, <1>2 DEF AddTypes, TellAdded
<1>7. WritesAreDue'  BY DEF WritesAreDue, TellAdded, NoAdd
<1>8. AnsweredIsWritten'
  BY <1>0, <1>1, <1>2, <1>4, <1>5 DEF AnsweredIsWritten, TellAdded
<1>9. EnteredOnce'  BY <1>0 DEF EnteredOnce, TellAdded
<1> QED  BY <1>6, <1>7, <1>8, <1>9 DEF AddInv

LEMMA EditKeepsEntries ==
  ASSUME AddInv, EditByHand
  PROVE  AddInv'
<1>0. AddTypes /\ EnteredOnce  BY DEF AddInv
<1>1. cvLines' \in Seq(AddLines) /\ IsOnceUnderHeading(cvLines')
  <2>1. CASE cvLines = NoFile
    <3>1. cvLines' = << >>  BY <2>1 DEF EditByHand, Edited
    <3>2. << >> \in Seq(AddLines) /\ IsOnceUnderHeading(<< >>)  BY DEF IsOnceUnderHeading
    <3> QED  BY <3>1, <3>2
  <2>2. CASE cvLines # NoFile
    <3>1. cvLines \in Seq(AddLines) /\ IsOnceUnderHeading(cvLines)
      BY <1>0, <2>2 DEF AddTypes, EnteredOnce, IsOnceUnderHeading
    <3>2. ASSUME NEW i \in 1 .. Len(cvLines) + 1, NEW h \in Headings,
                 cvLines' = InsertAt(cvLines, i, HeadingLine(h))
          PROVE  cvLines' \in Seq(AddLines) /\ IsOnceUnderHeading(cvLines')
      <4>1. HeadingLine(h) \in AddLines /\ HeadingLine(h).is = "heading"
        BY DEF HeadingLine, AddLines
      <4>2. PICK t : t = InsertAt(cvLines, i, HeadingLine(h))  OBVIOUS
      <4>3. t \in Seq(AddLines) /\ IsPut(t, cvLines, i, HeadingLine(h))
        BY <4>1, <4>2, <3>1, LinePut
      <4>4. IsOnceUnderHeading(t)  BY <4>1, <4>3, <3>1, HeadingPut
      <4> QED  BY <4>2, <4>3, <4>4, <3>2
    <3>3. ASSUME NEW i \in DOMAIN cvLines, ~IsHeading(cvLines, i), cvLines' = RemoveAt(cvLines, i)
          PROVE  cvLines' \in Seq(AddLines) /\ IsOnceUnderHeading(cvLines')
      <4>1. i \in 1 .. Len(cvLines)  BY <3>1
      <4>2. PICK t : t = RemoveAt(cvLines, i)  OBVIOUS
      <4>3. t \in Seq(AddLines) /\ IsPut(cvLines, t, i, cvLines[i])
        BY <4>1, <4>2, <3>1, LineTaken
      <4>4. cvLines[i].is # "heading"  BY <3>3 DEF IsHeading
      <4>5. IsOnceUnderHeading(t)  BY <4>3, <4>4, <3>1, EntryTaken
      <4> QED  BY <4>2, <4>3, <4>5, <3>3
    <3> QED  BY <2>2, <3>2, <3>3 DEF EditByHand, Edited
  <2> QED  BY <2>1, <2>2
<1>2. AddTypes'  BY <1>0, <1>1 DEF AddTypes, EditByHand
<1>3. WritesAreDue'  BY DEF WritesAreDue, EditByHand, NoAdd
<1>4. AnsweredIsWritten'  BY DEF AnsweredIsWritten, EditByHand
<1>5. EnteredOnce'  BY <1>0, <1>1 DEF EnteredOnce, IsOnceUnderHeading, EditByHand
<1> QED  BY <1>2, <1>3, <1>4, <1>5 DEF AddInv

LEMMA EntriesStep == AddInv /\ [AddNext]_addVars => AddInv'
<1> SUFFICES ASSUME AddInv, [AddNext]_addVars  PROVE AddInv'
  OBVIOUS
<1>0. AddTypes /\ WritesAreDue /\ AnsweredIsWritten /\ EnteredOnce  BY DEF AddInv
<1>1. ASSUME NEW p \in Payloads, StartAdding(p)  PROVE AddInv'
  <2>1. AddTypes' /\ AnsweredIsWritten' /\ EnteredOnce'
    BY <1>0, <1>1 DEF StartAdding, AddTypes, AnsweredIsWritten, EnteredOnce
  <2>2. ApplyAdd(p)' = ApplyAdd(p)  BY <1>1 DEF StartAdding, ApplyAdd, CurrentDigest
  <2>3. adding' = [payload |-> p, todo |-> ApplyAdd(p)]  BY <1>1 DEF StartAdding
  <2>4. adding'.payload = p  BY <2>3
  <2>5. cvLines' # NoFile  BY <1>1 DEF StartAdding
  <2>6. PICK T : T = ApplyAdd(p)  OBVIOUS
  <2>7. ApplyAdd(adding.payload)' = T
    <3>1. adding.payload' = p  BY <2>4
    <3> QED  BY <3>1, <2>2, <2>6 DEF ApplyAdd, CurrentDigest
  <2>8. WritesAreDue'  BY <2>3, <2>4, <2>5, <2>6, <2>7 DEF WritesAreDue
  <2> QED  BY <2>1, <2>8 DEF AddInv
<1>2. CASE WriteAdded  BY <1>2, WriteKeepsEntries
<1>3. CASE TellAdded  BY <1>3, TellKeepsEntries
<1>4. CASE StopAdding
  BY <1>0, <1>4 DEF AddInv, StopAdding, AddTypes, AnsweredIsWritten, EnteredOnce, WritesAreDue
<1>5. CASE EditByHand  BY <1>5, EditKeepsEntries
<1>6. CASE UNCHANGED addVars
  BY <1>0, <1>6 DEF addVars, AddInv, AddTypes, AnsweredIsWritten, EnteredOnce, WritesAreDue,
     ApplyAdd, CurrentDigest
<1> QED  BY <1>1, <1>2, <1>3, <1>4, <1>5, <1>6 DEF AddNext

LEMMA EntriesStart == AddInit => AddInv
<1> SUFFICES ASSUME AddInit  PROVE AddInv
  OBVIOUS
<1>1. cvLines # NoFile => cvLines \in Seq(AddLines) /\ IsOnceUnderHeading(cvLines)
  <2>1. CASE cvLines = << >>  BY <2>1 DEF IsOnceUnderHeading
  <2>2. ASSUME NEW h \in Headings, cvLines = <<HeadingLine(h)>>
        PROVE  cvLines \in Seq(AddLines) /\ IsOnceUnderHeading(cvLines)
    <3>1. HeadingLine(h) \in AddLines  BY DEF HeadingLine, AddLines
    <3>2. cvLines \in Seq(AddLines) /\ DOMAIN cvLines = {1}  BY <3>1, <2>2
    <3> QED  BY <3>2 DEF IsOnceUnderHeading
  <2> QED  BY <2>1, <2>2 DEF AddInit
<1>2. digestLines = NoFile /\ adding = NoAdd /\ answered = {}  BY DEF AddInit
<1> QED  BY <1>1, <1>2 DEF AddInv, AddTypes, WritesAreDue, AnsweredIsWritten, EnteredOnce,
          IsOnceUnderHeading

LEMMA EntriesGuaranteed == AddInv => EntriesAreKept /\ AddTypeOK
<1> SUFFICES ASSUME AddInv  PROVE EntriesAreKept /\ AddTypeOK
  OBVIOUS
<1>1. EntriesAreKept
  BY DEF AddInv, AnsweredIsWritten, EnteredOnce, EntriesAreKept, AnsweredIsThere, HasUnderHeading,
     ArticleDigestHasEntry
<1>2. cvLines = NoFile \/ \A i \in DOMAIN cvLines : cvLines[i].is \in {"heading", "entry"}
  <2>1. \A x \in AddLines : x.is \in {"heading", "entry"}  BY DEF AddLines
  <2>2. cvLines # NoFile => \A i \in DOMAIN cvLines : cvLines[i] \in AddLines
    BY DEF AddInv, AddTypes
  <2> QED  BY <2>1, <2>2
<1>3. digestLines = NoFile \/ \A i \in DOMAIN digestLines : digestLines[i].is = "entry"
  <2>1. \A x \in DigestLines : x.is = "entry"  BY DEF DigestLines
  <2>2. digestLines # NoFile => \A i \in DOMAIN digestLines : digestLines[i] \in DigestLines
    BY DEF AddInv, AddTypes
  <2> QED  BY <2>1, <2>2
<1>4. adding.payload \in Payloads \cup {NoFile} /\ answered \subseteq Payloads
  BY DEF AddInv, AddTypes, WritesAreDue, NoAdd
<1> QED  BY <1>1, <1>2, <1>3, <1>4 DEF AddTypeOK

\* add-entry.mjs: what a run told to be added is in cv.md, under a heading of its
\* section, and in the digest; and of one name there is one entry between two
\* headings, however often runs are repeated, stopped between the two files, and
\* the user edits cv.md between them.
THEOREM EntriesStay == AddSpec => []EntriesAreKept
<1>1. AddSpec => []AddInv  BY EntriesStart, EntriesStep, PTL DEF AddSpec
<1> QED  BY <1>1, EntriesGuaranteed, PTL

\* Type correctness of both files, the run and what was answered.
THEOREM EntriesTypeCorrect == AddSpec => []AddTypeOK
<1>1. AddSpec => []AddInv  BY EntriesStart, EntriesStep, PTL DEF AddSpec
<1> QED  BY <1>1, EntriesGuaranteed, PTL
=============================================================================
