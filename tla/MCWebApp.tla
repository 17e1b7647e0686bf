------------------------------ MODULE MCWebApp ------------------------------
(***************************************************************************)
(* Instances of parts of the web application: the session and seven pages  *)
(* of the browser.  They share no state that matters to what is modelled   *)
(* of them, so a behaviour plays one of them, the scene, and leaves the    *)
(* variables of the others as they are.                                    *)
(***************************************************************************)
EXTENDS Session, DevicePanel, AgentConsole, Resumes, ResumeSelection, JudgePage, WeekPlan,
        EventsPage

CONSTANTS
  Scenes,           \* parts that are played
  Title, TypedText  \* a title beside the main one, and what a user types

VARIABLE
  scene

\* Roles of the accounts, and the stages of an opportunity as it is delivered.
RolePlayed == [student |-> "STUDENT", organizer |-> "SOCIAL"]

StagesDelivered == <<[id |-> 1, status |-> "active"], [id |-> 2, status |-> "todo"]>>

\* Two experiences in the same words, under headings of different sections, and
\* an ability that has to do with the second section only.
DraftsOpened ==
  {<<Piece("heading", {}), Piece("bullet", {}),
     Piece("heading", {"java"}), Piece("bullet", {})>>}

PiecesTyped == {Piece("bullet", {"sql"})}

From(text, plan) == [of |-> text, plan |-> plan]

\* A text, a package with its plan, and packages that are not confirmed or name
\* their plan in part.
ImportsPlayed ==
  LET File(kind, confirmed, title, text, plan) ==
        [kind |-> kind, confirmed |-> confirmed, title |-> title, text |-> text, plan |-> plan]
  IN  {File("text", FALSE, Title, TypedText, {}),
       File("package", TRUE, Main, AgentText, PlanFields),
       File("package", FALSE, Main, AgentText, PlanFields),
       File("package", TRUE, Title, TypedText, {"finalPlanId"})}

Stored(key, status, source, text, provenance) ==
  [id |-> 0, key |-> key, status |-> status, source |-> source,
   text |-> text, provenance |-> provenance]

\* Libraries of another machine, with names that ids of this page have too.
FilesOfOthers ==
  LET With(versions) ==
        <<[key |-> <<3, 1>>, title |-> Title, active |-> <<3, 1>>, versions |-> versions]>>
      final == Stored(<<3, 1>>, "final", "import", TypedText, From(TypedText, PlanFields))
      draft == Stored(<<1, 1>>, "draft", "import", AgentText, From(AgentText, {}))
  IN  {With(<<final>>), With(<<final, draft>>)}

LinesDelivered ==
  <<[id |-> 1, key |-> None, title |-> Main, active |-> 1,
     versions |-> <<[Stored(None, "final", "agent", AgentText, None) EXCEPT !.id = 1]>>]>>

vars == <<scene, resumeVars, panelVars, consoleVars, sessionVars, selectionVars,
          judgeVars, weekVars, eventsVars>>

MCInit ==
  /\ scene \in Scenes
  /\ PanelInit /\ ConsoleInit /\ SessionInit /\ SelectionInit
  /\ JudgeInit /\ (scene = "judges" \/ \A j \in Judges : judge[j] = "PENDING")
  /\ WeekInit /\ EventsInit
  /\ ResumeInit /\ (scene = "resumes" \/ library = None)

MCNext ==
  /\ UNCHANGED scene
  /\ \/ /\ scene = "resumes" /\ ResumeNext
        /\ UNCHANGED <<panelVars, consoleVars, sessionVars, selectionVars,
                       judgeVars, weekVars, eventsVars>>
     \/ /\ scene = "panel" /\ PanelNext
        /\ UNCHANGED <<resumeVars, consoleVars, sessionVars, selectionVars,
                       judgeVars, weekVars, eventsVars>>
     \/ /\ scene = "console" /\ ConsoleNext
        /\ UNCHANGED <<resumeVars, panelVars, sessionVars, selectionVars,
                       judgeVars, weekVars, eventsVars>>
     \/ /\ scene = "session" /\ SessionNext
        /\ UNCHANGED <<resumeVars, panelVars, consoleVars, selectionVars,
                       judgeVars, weekVars, eventsVars>>
     \/ /\ scene = "selection" /\ SelectionNext
        /\ UNCHANGED <<resumeVars, panelVars, consoleVars, sessionVars,
                       judgeVars, weekVars, eventsVars>>
     \/ /\ scene = "judges" /\ JudgeNext
        /\ UNCHANGED <<resumeVars, panelVars, consoleVars, sessionVars,
                       selectionVars, weekVars, eventsVars>>
     \/ /\ scene = "week" /\ WeekNext
        /\ UNCHANGED <<resumeVars, panelVars, consoleVars, sessionVars,
                       selectionVars, judgeVars, eventsVars>>
     \/ /\ scene = "events" /\ EventsNext
        /\ UNCHANGED <<resumeVars, panelVars, consoleVars, sessionVars,
                       selectionVars, judgeVars, weekVars>>

MCSpec == MCInit /\ [][MCNext]_vars

\* The variables of the part that is played have their types.
WebTypeOK ==
  CASE scene = "resumes" -> ResumeTypeOK
    [] scene = "panel" -> PanelTypeOK
    [] scene = "console" -> ConsoleTypeOK
    [] scene = "session" -> SessionTypeOK
    [] scene = "selection" -> SelectionTypeOK
    [] scene = "judges" -> JudgeTypeOK
    [] scene = "week" -> WeekTypeOK
    [] scene = "events" -> EventsTypeOK

\* The device panel, the agent, the session, the selection assistant, the
\* abilities, the schedule and the events, see DevicePanel, AgentConsole, Session,
\* ResumeSelection, JudgePage, WeekPlan and EventsPage: what a page says is what
\* the backend and the user said to it.
PagesAreTrue ==
  /\ scene = "panel" => AnnouncedOnce
  /\ scene = "console" => AnswersFit
  /\ scene = "session" => SessionFits
  /\ scene = "selection" => AdviceFits
  /\ scene = "judges" => JudgesFit /\ EvidenceFits
  /\ scene = "week" => WeekIsTrue
  /\ scene = "events" => EventsFit
=============================================================================
