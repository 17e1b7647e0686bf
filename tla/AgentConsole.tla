---------------------------- MODULE AgentConsole ----------------------------
(***************************************************************************)
(* The agent of the student's workbench page and the interview tree it     *)
(* writes to (studentWorkbench.ts, StudentAgentConsoleView.vue,            *)
(* StudentInterviewView.vue).  A text is answered after a delay; an answer *)
(* that would write something is a plan, which the user confirms or        *)
(* rejects, in any order.  The user keeps the stages of an opportunity by  *)
(* hand.  What a plan of intent "resume" writes is in Resumes.             *)
(***************************************************************************)
EXTENDS Naturals, Sequences, FiniteSets, SequencesExt

CONSTANTS
  Intents,    \* intents of the texts that are typed
  Stages,     \* the stages of the opportunity as it is delivered
  Reviewed,   \* the stage whose review the agent drafts
  MaxTexts, MaxStages, MaxMoves  \* bounds

VARIABLES
  intent,     \* activeIntent: that of the text typed last
  waiting,    \* texts whose delay runs
  sending,
  asked,      \* history: texts of each intent
  plans,      \* plans, as the messages of the conversation hold them
  evidence,   \* candidate evidence written so far
  tree,       \* the stages, in their order
  nextStage,
  moves       \* stages changed by hand so far

consoleVars == <<intent, waiting, sending, asked, plans, evidence, tree, nextStage, moves>>

WriteIntents == {"experience", "assets", "resume", "review"}

Results == {"passed", "failed", "offer"}

StageStatus == {"todo", "active", "waiting"} \cup Results

\* The stages are delivered with the numbers from one.
ASSUME StagesAssumption ==
  /\ Stages \in Seq([id : Nat, status : StageStatus])
  /\ {stage.id : stage \in ToSet(Stages)} = 1 .. Len(Stages)

ConsoleInit ==
  /\ intent = "experience"
  /\ waiting = 0 /\ sending = FALSE
  /\ asked = [i \in Intents |-> 0]
  /\ plans = <<>>
  /\ evidence = {}
  /\ tree = Stages
  /\ nextStage = Len(Stages) + 1
  /\ moves = 0

TextsTyped == FoldFunction(+, 0, asked)
-----------------------------------------------------------------------------
\* Plausible bug: a text is taken while another one is being answered.
Whenever == TRUE

MaySubmit == ~sending

\* submitMessage and what its text is about.
SubmitText(i) ==
  /\ TextsTyped < MaxTexts
  /\ MaySubmit
  /\ intent' = i
  /\ asked' = [asked EXCEPT ![i] = @ + 1]
  /\ sending' = TRUE
  /\ waiting' = waiting + 1
  /\ UNCHANGED <<plans, evidence, tree, nextStage, moves>>

\* The delay is over: the answer is for the intent the page has by now.
AnswerText ==
  /\ waiting > 0
  /\ plans' = IF intent \in WriteIntents
              THEN Append(plans, [intent |-> intent, status |-> "pending"]) ELSE plans
  /\ waiting' = waiting - 1
  /\ sending' = FALSE
  /\ UNCHANGED <<intent, asked, evidence, tree, nextStage, moves>>

UpdatePlanStatus(n, status) == plans' = [plans EXCEPT ![n].status = status]

Evidence(i) ==
  CASE i \in {"experience", "assets"} -> {"delivery"}
    [] i = "review" -> {"permissions"}
    [] OTHER -> {}

SetStatus(id, status) ==
  [k \in DOMAIN tree |-> IF tree[k].id = id THEN [tree[k] EXCEPT !.status = status] ELSE tree[k]]

\* applyIntent: candidate evidence is added once, and a review sets its stage
\* to "active" whatever the user had marked.
ApplyIntent(i) ==
  /\ evidence' = evidence \cup Evidence(i)
  /\ tree' = IF i = "review" THEN SetStatus(Reviewed, "active") ELSE tree

ConfirmSkillPlan(n) ==
  /\ plans[n].status = "pending"
  /\ ApplyIntent(plans[n].intent)
  /\ UpdatePlanStatus(n, "approved")
  /\ UNCHANGED <<intent, waiting, sending, asked, nextStage, moves>>

RejectSkillPlan(n) ==
  /\ plans[n].status = "pending"
  /\ UpdatePlanStatus(n, "rejected")
  /\ UNCHANGED <<intent, waiting, sending, asked, evidence, tree, nextStage, moves>>
-----------------------------------------------------------------------------
\* The interview tree, by hand.

ByHand ==
  /\ moves < MaxMoves /\ moves' = moves + 1
  /\ UNCHANGED <<intent, waiting, sending, asked, plans, evidence>>

SetProcessStageStatus(stage, status) ==
  /\ stage.status # status
  /\ tree' = SetStatus(stage.id, status)
  /\ UNCHANGED nextStage

AddProcessStage ==
  /\ Len(tree) < MaxStages
  /\ tree' = Append(tree, [id |-> nextStage, status |-> "todo"])
  /\ nextStage' = nextStage + 1

\* The stage is taken out and put in at an index of the shorter list.
MoveProcessStage(from, to) ==
  /\ from # to
  /\ tree' = InsertAt(RemoveAt(tree, from), to, tree[from])
  /\ UNCHANGED nextStage

EditTree ==
  /\ ByHand
  /\ \/ \E stage \in ToSet(tree), status \in StageStatus : SetProcessStageStatus(stage, status)
     \/ AddProcessStage
     \/ \E from, to \in DOMAIN tree : MoveProcessStage(from, to)

ConsoleNext ==
  \/ \E i \in Intents : SubmitText(i)
  \/ AnswerText
  \/ \E n \in DOMAIN plans : ConfirmSkillPlan(n) \/ RejectSkillPlan(n)
  \/ EditTree
-----------------------------------------------------------------------------
\* Every variable has its type.
ConsoleTypeOK ==
  /\ intent \in Intents \cup {"experience"}
  /\ waiting \in Nat /\ sending \in BOOLEAN
  /\ \A n \in DOMAIN plans :
       plans[n].intent \in WriteIntents /\ plans[n].status \in {"pending", "approved", "rejected"}
  /\ evidence \subseteq {"delivery", "permissions"}
  /\ \A stage \in ToSet(tree) : stage.id \in 1 .. nextStage - 1 /\ stage.status \in StageStatus

CountOf(i) == Cardinality({n \in DOMAIN plans : plans[n].intent = i})

\* Every text that asks for a write has its own plan once it is answered, though
\* the intent is read after the delay; what is written was approved, and what
\* was approved is written.  No stage is lost or doubled by moving.
AnswersFit ==
  /\ waiting = 0 => \A i \in Intents \cap WriteIntents : CountOf(i) = asked[i]
  /\ evidence = UNION {Evidence(plans[n].intent) :
                         n \in {k \in DOMAIN plans : plans[k].status = "approved"}}
  /\ {stage.id : stage \in ToSet(tree)} = 1 .. nextStage - 1 /\ Len(tree) = nextStage - 1
=============================================================================
