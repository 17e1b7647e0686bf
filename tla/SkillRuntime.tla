---------------------------- MODULE SkillRuntime ----------------------------
(***************************************************************************)
(* `skill-runtime.mjs run plan.json --apply [--replace]`.  A plan names a  *)
(* contract file and the hash of its bytes, approved by the user.  The run *)
(* checks the hash, fingerprints the targets, writes a record that says    *)
(* "prepared", lets the contract tool of ContractImport do its work, and   *)
(* replaces the record by one that says "dispatched" or "failed".  A plan  *)
(* of version 1 is recorded only.  All plans here have one run id, so they *)
(* share the record; the checks of the form of plans and records           *)
(* are the typing of the constants.                                        *)
(***************************************************************************)
EXTENDS ContractImport, FiniteSets

CONSTANTS
  Ledger,      \* a plan of version 1: approved, not dispatched
  MaxExchanges \* bound: new contents of the contract file

VARIABLES
  contract,    \* the content of the contract file
  record,      \* the run record, or NoText
  run,         \* of each process, the run it is in
  disturbed,   \* history: contract or targets changed under a run
  exchanges

runVars == <<contract, record, run, disturbed, exchanges>>

NoRun == [at |-> "idle", plan |-> NoText, replace |-> FALSE, before |-> NoText]

NothingRuns ==
  /\ contract \in Contents
  /\ record = NoText
  /\ run = [p \in Importers |-> NoRun]
  /\ disturbed = FALSE
  /\ exchanges = 0

RunInit == ImportInit /\ NothingRuns

Running == {p \in Importers : run[p].at # "idle"}

SamePlan(plan) == record # NoText /\ record.plan = plan

\* Writes observed between two fingerprints of the targets.
Writes(before, after) ==
  IF after = NoText THEN 0 ELSE Cardinality({f \in Files : before[f] # after[f]})

\* Results the tools of contracts return: one, of the one call of a plan.
ToolResults(status) == IF status = "dispatched" THEN 1 ELSE 0

\* A bug: a failed tool is not told from one that returned.
AlwaysDispatched(plan, status, before, after, error) ==
  [plan |-> plan, status |-> IF status = "failed" THEN "dispatched" ELSE status,
   before |-> before, after |-> after,
   tools |-> IF status \in {"dispatched", "failed"} THEN 1 ELSE 0,
   writes |-> Writes(before, after),
   results |-> IF status \in {"dispatched", "failed"} THEN 1 ELSE 0, error |-> "none"]

\* A bug: the record of a failure tells no error.
WithoutError(plan, status, before, after, error) ==
  [plan |-> plan, status |-> status, before |-> before, after |-> after,
   tools |-> IF status \in {"dispatched", "failed"} THEN 1 ELSE 0,
   writes |-> Writes(before, after), results |-> ToolResults(status), error |-> "none"]

\* What a record of the plan says of a status and the fingerprints around it.
RunRecord(plan, status, before, after, error) ==
  [plan |-> plan, status |-> status, before |-> before, after |-> after,
   tools |-> IF status \in {"dispatched", "failed"} THEN 1 ELSE 0,
   writes |-> Writes(before, after), results |-> ToolResults(status), error |-> error]

\* The error a record tells.  The message of the tool and that of the fingerprints
\* are written as they are: one that is empty, longer than 500 characters or has
\* control characters is one that no reader takes.
ErrorsOf(status) == IF status = "failed" THEN {"told", "unreadable"} ELSE {"none"}

\* Fingerprints are of the targets of the plan, those after the work may be missing.
SnapshotReads(r) == DOMAIN r.before = Files /\ (r.after # NoText => DOMAIN r.after = Files)

\* At most the result of the one call.
ResultsRead(r) == r.results \in 0 .. 1

ErrorReads(r) == r.error # "unreadable"

\* A record claims no more than its kind and status allow.
ClaimsFit(r) ==
  IF r.plan = Ledger
  THEN r.status = "recorded" /\ r.tools = 0 /\ r.writes = 0
  ELSE CASE r.status = "prepared" -> r.tools = 0 /\ r.writes = 0 /\ r.results = 0
         [] r.status = "dispatched" -> r.tools = 1 /\ r.results = 1 /\ r.error = "none"
         [] r.status = "failed" -> r.error # "none"
         [] OTHER -> FALSE

\* canonicalizeSkillRunRecord accepts the record, if there is one.
RecordReads ==
  record # NoText =>
    /\ record.plan # Ledger => SnapshotReads(record) /\ ResultsRead(record) /\ ErrorReads(record)
    /\ ClaimsFit(record)

\* The same approval again changes nothing.
RecordApproval(p, replace) ==
  /\ run[p] = NoRun
  /\ RecordReads
  /\ ~SamePlan(Ledger)
  /\ record # NoText => replace
  /\ record' = RunRecord(Ledger, "recorded", NoText, NoText, "none")
  /\ disturbed' = (disturbed \/ Running # {})
  /\ UNCHANGED <<contract, run, exchanges, importVars>>

\* The contract file still has the approved hash, and the record may be
\* written: another plan's, and one of this plan that was left prepared or
\* failed, needs --replace.
Check(p, plan, replace) ==
  /\ run[p] = NoRun
  /\ import[p] = Idle
  /\ contract = plan
  /\ RecordReads
  /\ record # NoText => replace
  /\ run' = [run EXCEPT ![p] = [at |-> "checked", plan |-> plan, replace |-> replace, before |-> NoText]]
  /\ disturbed' = (disturbed \/ Running # {})
  /\ UNCHANGED <<contract, record, exchanges, importVars>>

\* Fingerprints, the dry run of the tool, and the record before the work.
Prepare(p) ==
  /\ run[p].at = "checked"
  /\ IF Accepts(contract, run[p].replace)
     THEN /\ run' = [run EXCEPT ![p].at = "prepared", ![p].before = file]
          /\ record' = RunRecord(run[p].plan, "prepared", file, NoText, "none")
     ELSE /\ run' = [run EXCEPT ![p] = NoRun]
          /\ UNCHANGED record
  /\ UNCHANGED <<contract, disturbed, exchanges, importVars>>

\* The tool reads the contract file again, for itself.
Dispatch(p) ==
  /\ run[p].at = "prepared"
  /\ run' = [run EXCEPT ![p].at = IF Accepts(contract, run[p].replace) THEN "dispatched" ELSE "failed"]
  /\ \/ Begin(p, contract, run[p].replace)
     \/ /\ Changed(contract) = {} \/ ~Accepts(contract, run[p].replace)
        /\ UNCHANGED importVars
  /\ UNCHANGED <<contract, record, disturbed, exchanges>>

\* A call of the tool throws in the middle of its work.
ToolFails(p) ==
  /\ run[p].at = "dispatched"
  /\ Stop(p)
  /\ run' = [run EXCEPT ![p].at = "failed"]
  /\ UNCHANGED <<contract, record, disturbed, exchanges>>

\* The last write of the run: the tool returned, or threw an error.
Finish(p) ==
  /\ run[p].at \in {"dispatched", "failed"}
  /\ import[p] = Idle
  /\ \E error \in ErrorsOf(run[p].at) :
       record' = RunRecord(run[p].plan, run[p].at, run[p].before, file, error)
  /\ run' = [run EXCEPT ![p] = NoRun]
  /\ UNCHANGED <<contract, disturbed, exchanges, importVars>>

\* The targets of a failed tool cannot be read.
FailsUnseen(p) ==
  /\ run[p].at = "failed"
  /\ \E error \in ErrorsOf("failed") :
       record' = RunRecord(run[p].plan, "failed", run[p].before, NoText, error)
  /\ run' = [run EXCEPT ![p] = NoRun]
  /\ UNCHANGED <<contract, disturbed, exchanges, importVars>>

\* The process dies, or a record cannot be written.
RunStops(p) ==
  /\ run[p] # NoRun
  /\ stops < MaxStops
  /\ stops' = stops + 1
  /\ run' = [run EXCEPT ![p] = NoRun]
  /\ import' = [import EXCEPT ![p] = Idle]
  /\ UNCHANGED <<file, backups, replaced, crossed, edits, contract, record, disturbed, exchanges>>

\* Another contract is put in the place of the approved one.
Exchange ==
  /\ exchanges < MaxExchanges
  /\ exchanges' = exchanges + 1
  /\ contract' \in Contents \ {contract}
  /\ disturbed' = (disturbed \/ Running # {})
  /\ UNCHANGED <<record, run, importVars>>

\* The steps of ContractImport: those of a run's tool, those of others.
Tool(p) ==
  /\ BackUp(p) \/ Write(p)
  /\ disturbed' = (disturbed \/ Running \ {p} # {})
  /\ UNCHANGED <<contract, record, run, exchanges>>

Others ==
  /\ \/ \E p \in Importers :
          /\ run[p] = NoRun
          /\ Stop(p) \/ \E c \in Contents, replace \in BOOLEAN : Begin(p, c, replace)
     \/ \E text \in Manual : Edit(text)
  /\ disturbed' = (disturbed \/ Running # {})
  /\ UNCHANGED <<contract, record, run, exchanges>>

RunNext ==
  \/ \E p \in Importers :
       \/ \E replace \in BOOLEAN :
            \/ RecordApproval(p, replace)
            \/ \E plan \in Contents : Check(p, plan, replace)
       \/ Prepare(p) \/ Dispatch(p) \/ Tool(p) \/ ToolFails(p)
       \/ Finish(p) \/ FailsUnseen(p) \/ RunStops(p)
  \/ Exchange
  \/ Others

RunSpec == RunInit /\ [][RunNext]_<<importVars, runVars>>
-----------------------------------------------------------------------------
RunTypeOK ==
  /\ ImportTypeOK
  /\ contract \in Contents
  /\ record # NoText =>
       /\ record.plan \in Contents \cup {Ledger}
       /\ record.status \in {"recorded", "prepared", "dispatched", "failed"}
       /\ record.tools \in 0 .. 1
       /\ record.writes \in 0 .. Cardinality(Files)

\* The record of a failure that is refused for its error.
ErrorIsRefused == record # NoText /\ record.status = "failed" /\ ~ErrorReads(record)

\* What a record says happened did: "dispatched" means that both targets had
\* the content the user approved when the record was made, and while a run
\* changes targets its record is there and says "prepared" -- whatever runs died
\* or failed before, unless something else changed contract, record or targets
\* while a run was on.  The one record that cannot be read again, and so keeps its
\* id from the runs that follow, is that of a failure whose error no reader takes.
RecordIsTrue ==
  /\ RecordReads \/ ErrorIsRefused
  /\ ~disturbed =>
       /\ (record # NoText /\ record.status = "dispatched")
            => record.after = [f \in Files |-> record.plan]
       /\ \A p \in Running :
            run[p].at = "dispatched" => SamePlan(run[p].plan) /\ record.status = "prepared"

\* What an import overwrote last is in a backup, and a record tells what happened.
NothingIsHidden == OverwrittenIsKept /\ RecordIsTrue
=============================================================================
