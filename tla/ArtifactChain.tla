---------------------------- MODULE ArtifactChain ----------------------------
(***************************************************************************)
(* The packages the contract tools of src/cli install, and what each is    *)
(* bound to.  Resume materials cite evidence; the final plan, the job      *)
(* analysis and the preparation name the hash of the materials; a render   *)
(* may name the materials, the plan and the hash of cv.md; the library     *)
(* names plan, cv.md and render; a review names materials and preparation, *)
(* feedback names evidence, materials and review.  Nothing cascades: a     *)
(* tool checks the bindings of a package whenever it reads it, also those  *)
(* of the installed package it is about to replace.  There is one package  *)
(* of each kind here, and the sequence of calls within one import is in    *)
(* ContractImport.                                                         *)
(***************************************************************************)
EXTENDS Naturals, FiniteSets

CONSTANTS
  Missing,     \* no package, no document, no section
  Chains,      \* sets of kinds that are installed together, see InitChain
  Packages,    \* evidence packages
  Supporting,  \* those that have the cited item, verified
  Materials,   \* resume materials
  Citing,      \* those with an entry that cites evidence
  Sections,    \* level-2 headings of cv.md that a plan may manage
  Hand, Twice, \* a section written by hand, a heading that occurs twice
  Versions,    \* bound: texts of a version besides cv.md as it is
  MaxImports, MaxAccidents  \* bounds

VARIABLES
  chain,     \* the kinds of this behaviour
  package,   \* of each kind, the installed package
  document,  \* of each kind, the document beside it: the package it was
             \* rendered from, Hand, or for "final" the sections of cv.md
  cut,       \* history: plans replaced without their sections being removed
  imports, accidents

chainVars == <<chain, package, document, cut, imports, accidents>>

Kinds == {"evidence", "materials", "final", "render", "library",
          "analysis", "prep", "review", "feedback"}

WithDocument == Kinds \ {"evidence", "library"}

Plans == [materials : Materials, sections : SUBSET Sections]

Cvs == [Sections -> Materials \cup {Hand, Twice, Missing}]

\* Materials are none of the other texts, and nothing is no package.
ASSUME TextsAssumption ==
  /\ {Hand, Twice, Missing} \cap Materials = {}
  /\ Missing \notin Packages \cup Plans \cup Cvs

ChainInit ==
  /\ chain \in Chains
  /\ package = [k \in Kinds |-> Missing]
  /\ document = [k \in Kinds |-> Missing]
  /\ cut = FALSE
  /\ imports = 0
  /\ accidents = 0
-----------------------------------------------------------------------------
\* What each tool requires of a package, incoming or installed.

MaterialsValid(c) == c \in Citing => package["evidence"] \in Supporting

MaterialsState ==
  IF package["materials"] = Missing THEN "missing"
  ELSE IF MaterialsValid(package["materials"]) THEN "ready" ELSE "invalid"

HasMaterials == MaterialsState = "ready"

FinalValid(c) == HasMaterials /\ c.materials = package["materials"]

AnalysisValid(c) == HasMaterials /\ c.materials = package["materials"]

PrepValid(c) == HasMaterials /\ c.materials = package["materials"]

\* The installed plan and cv.md, for the tools that follow.
ProvenanceLoads ==
  MaterialsState # "invalid" /\
  (HasMaterials /\ package["final"] # Missing => FinalValid(package["final"]))

BoundToMaterials(c) ==
  c.materials # Missing => HasMaterials /\ c.materials = package["materials"]

BoundToFinal(c) ==
  c.plan # Missing =>
    /\ HasMaterials
    /\ package["final"] = c.plan
    /\ document["final"] # Missing /\ document["final"] = c.cv

RenderValid(c) == ProvenanceLoads /\ BoundToMaterials(c) /\ BoundToFinal(c)

PrepsLoad == package["prep"] # Missing => PrepValid(package["prep"])

PrepIsThere(c) == c.prep => package["prep"] # Missing

ReviewValid(c) ==
  /\ HasMaterials /\ PrepsLoad
  /\ c.materials = package["materials"]
  /\ PrepIsThere(c)

FeedbackValid(c) ==
  /\ package["evidence"] # Missing /\ c.evidence = package["evidence"]
  /\ HasMaterials /\ c.materials = package["materials"]
  /\ package["review"] # Missing /\ ReviewValid(package["review"])
  /\ c.review = package["review"]

\* The version the user sends out is not a draft.
LibraryValid(c) == ~c.draft

Valid(k, c) ==
  CASE k = "materials" -> MaterialsValid(c)
    [] k = "final" -> FinalValid(c)
    [] k = "render" -> RenderValid(c)
    [] k = "analysis" -> AnalysisValid(c)
    [] k = "prep" -> PrepValid(c)
    [] k = "review" -> ReviewValid(c)
    [] k = "feedback" -> FeedbackValid(c)
    [] OTHER -> TRUE

\* The importer reads the package it would replace, and refuses when it is stale.
Readable(k) == package[k] # Missing => Valid(k, package[k])
-----------------------------------------------------------------------------
\* A bug: sections are never removed.
MergedCv(cv, plan, previous) ==
  [s \in Sections |-> IF s \in plan.sections THEN plan.materials
                      ELSE IF cv = Missing THEN Missing ELSE cv[s]]

\* The sections of cv.md under a plan: its own are rendered, those only the
\* plan before it had are removed, the others stay.
RenderedCv(cv, plan, previous) ==
  [s \in Sections |->
     IF s \in plan.sections THEN plan.materials
     ELSE IF cv = Missing \/ (previous # Missing /\ s \in previous.sections) THEN Missing
     ELSE cv[s]]

\* cv.md is refused when a heading of the plan occurs twice.
Unambiguous(cv, plan) == cv # Missing => \A s \in plan.sections : cv[s] # Twice

Overwrites(k, c, text) ==
  \/ package[k] \notin {Missing, c}
  \/ document[k] \notin {Missing, text}

\* The import of package c with its document, or one that stops in between.
InstallPackage(k, c, text, replace) ==
  /\ k \in chain
  /\ imports < MaxImports
  /\ package[k] # c \/ document[k] # text
  /\ Overwrites(k, c, text) => replace
  /\ imports' = imports + 1
  /\ package' = [package EXCEPT ![k] = c]
  /\ \/ document' = [document EXCEPT ![k] = text] /\ UNCHANGED <<accidents, cut>>
     \/ /\ package[k] # c /\ document[k] # text /\ accidents < MaxAccidents
        /\ accidents' = accidents + 1
        /\ cut' = (cut \/ (k = "final" /\ package[k] # Missing))
        /\ UNCHANGED document
  /\ UNCHANGED chain

\* A package is generated from what is installed; one generated from anything
\* else is refused, or was generated when that was installed.
ImportEvidence(c, replace) == InstallPackage("evidence", c, Missing, replace)

ImportMaterials(c, replace) ==
  /\ MaterialsValid(c)
  /\ Readable("materials")
  /\ InstallPackage("materials", c, c, replace)

ImportFinal(sections, replace) ==
  LET c == [materials |-> package["materials"], sections |-> sections]
  IN  /\ FinalValid(c)
      /\ Readable("final")
      /\ Unambiguous(document["final"], c)
      /\ InstallPackage("final", c, RenderedCv(document["final"], c, package["final"]), replace)

ImportRender(toMaterials, toFinal, replace) ==
  LET c == [materials |-> IF toMaterials THEN package["materials"] ELSE Missing,
            plan |-> IF toFinal THEN package["final"] ELSE Missing,
            cv |-> IF toFinal THEN document["final"] ELSE Missing]
  IN  /\ RenderValid(c)
      /\ Readable("render")
      /\ InstallPackage("render", c, c, replace)

\* The text of a version is any, and no tool compares it with cv.md.
ImportLibrary(toFinal, toRender, content, draft, replace) ==
  LET c == [plan |-> IF toFinal THEN package["final"] ELSE Missing,
            cv |-> IF toFinal THEN document["final"] ELSE Missing,
            render |-> IF toRender THEN package["render"] ELSE Missing,
            content |-> content, draft |-> draft]
  IN  /\ LibraryValid(c)
      /\ InstallPackage("library", c, Missing, replace)

ImportAnalysis(replace) ==
  LET c == [materials |-> package["materials"]]
  IN  /\ AnalysisValid(c)
      /\ Readable("analysis")
      /\ InstallPackage("analysis", c, c, replace)

ImportPrep(replace) ==
  LET c == [materials |-> package["materials"]]
  IN  /\ PrepValid(c)
      /\ Readable("prep")
      /\ InstallPackage("prep", c, c, replace)

ImportReview(prep, replace) ==
  LET c == [materials |-> package["materials"], prep |-> prep]
  IN  /\ ReviewValid(c)
      /\ Readable("review")
      /\ InstallPackage("review", c, c, replace)

ImportFeedback(replace) ==
  LET c == [evidence |-> package["evidence"], materials |-> package["materials"],
            review |-> package["review"]]
  IN  /\ FeedbackValid(c)
      /\ Readable("feedback")
      /\ InstallPackage("feedback", c, c, replace)

\* The user removes an installed package: the way out when it is stale.
Discard(k) ==
  /\ k \in chain
  /\ package[k] # Missing
  /\ accidents < MaxAccidents
  /\ accidents' = accidents + 1
  /\ package' = [package EXCEPT ![k] = Missing]
  /\ cut' = (cut \/ k = "final")
  /\ UNCHANGED <<chain, document, imports>>

\* The user writes a document, or a section of cv.md, or a heading once more.
Rewrite(k, text) ==
  /\ k \in chain \cap WithDocument
  /\ accidents < MaxAccidents
  /\ accidents' = accidents + 1
  /\ document' = [document EXCEPT ![k] = text]
  /\ UNCHANGED <<chain, package, cut, imports>>

RewriteSection(s, text) ==
  /\ document["final"] # Missing
  /\ Rewrite("final", [document["final"] EXCEPT ![s] = text])

ChainNext ==
  \/ \E replace \in BOOLEAN :
       \/ \E c \in Packages : ImportEvidence(c, replace)
       \/ \E c \in Materials : ImportMaterials(c, replace)
       \/ \E sections \in SUBSET Sections \ {{}} : ImportFinal(sections, replace)
       \/ \E toMaterials, toFinal \in BOOLEAN : ImportRender(toMaterials, toFinal, replace)
       \/ \E toFinal, toRender, draft \in BOOLEAN,
             content \in Versions \cup ({document["final"]} \ {Missing}) :
            ImportLibrary(toFinal, toRender, content, draft, replace)
       \/ ImportAnalysis(replace)
       \/ ImportPrep(replace)
       \/ \E prep \in BOOLEAN : ImportReview(prep, replace)
       \/ ImportFeedback(replace)
  \/ \E k \in Kinds : Discard(k)
  \/ \E k \in WithDocument \ {"final"} : document[k] # Missing /\ Rewrite(k, Hand)
  \/ \E s \in Sections, text \in {Hand, Twice, Missing} : RewriteSection(s, text)

ChainSpec == ChainInit /\ [][ChainNext]_chainVars
-----------------------------------------------------------------------------
\* What the tools report of what is installed: "ready", or why not.

Reported(k, loads) ==
  IF ~loads \/ ~Readable(k) THEN "invalid"
  ELSE IF package[k] = Missing THEN "missing" ELSE "ready"

InspectFinal ==
  IF MaterialsState = "missing" THEN "blocked"
  ELSE Reported("final", HasMaterials)

\* The sections of cv.md against the installed plan, each under one heading.
CvIsCurrent ==
  /\ document["final"] # Missing
  /\ \A s \in package["final"].sections : document["final"][s] \notin {Missing, Twice}
  /\ RenderedCv(document["final"], package["final"], Missing) = document["final"]

InspectRender == Reported("render", ProvenanceLoads)

InspectAnalysis ==
  IF MaterialsState = "missing" THEN "blocked"
  ELSE Reported("analysis", HasMaterials)

InspectPrep ==
  IF MaterialsState = "missing" THEN "blocked"
  ELSE Reported("prep", HasMaterials)

InspectReview ==
  IF MaterialsState = "missing" THEN "blocked"
  ELSE Reported("review", HasMaterials /\ PrepsLoad)

InspectFeedback ==
  IF package["evidence"] = Missing \/ MaterialsState = "missing"
     \/ InspectReview \in {"missing", "blocked"} THEN "blocked"
  ELSE Reported("feedback", HasMaterials /\ InspectReview = "ready")

DocumentIsCurrent(k) == document[k] = package[k]
-----------------------------------------------------------------------------
\* resume-fact-chain.mjs reads the same files by itself.

AuditedPlan ==
  IF HasMaterials /\ package["final"] # Missing /\ package["final"].materials = package["materials"]
  THEN package["final"] ELSE Missing

AuditStory ==
  IF document["materials"] = Missing THEN "missing"
  ELSE IF ~HasMaterials THEN "blocked"
  ELSE IF document["materials"] = package["materials"] THEN "ready" ELSE "drifted"

AuditPlan ==
  IF package["final"] = Missing THEN "missing"
  ELSE IF ~HasMaterials THEN "blocked"
  ELSE IF AuditedPlan = Missing THEN "invalid" ELSE "ready"

\* It throws when a heading of the plan occurs twice.
AuditThrows ==
  AuditedPlan # Missing /\ ~Unambiguous(document["final"], AuditedPlan)

AuditCv ==
  IF document["final"] = Missing THEN "missing"
  ELSE IF AuditedPlan # Missing /\ RenderedCv(document["final"], AuditedPlan, Missing) # document["final"]
  THEN "drifted" ELSE "ready"

\* A bug: the plan is compared, cv.md is not.
PlanBinding(c) ==
  IF c.plan = Missing THEN "unbound"
  ELSE IF AuditedPlan = Missing \/ document["final"] = Missing THEN "blocked"
  ELSE IF c.plan = AuditedPlan THEN "ready" ELSE "drifted"

\* A binding to the final, of a render or of a version of the library.
FinalBinding(c) ==
  IF c.plan = Missing THEN "unbound"
  ELSE IF AuditedPlan = Missing \/ document["final"] = Missing THEN "blocked"
  ELSE IF c.plan = AuditedPlan /\ c.cv = document["final"] THEN "ready" ELSE "drifted"

MaterialsBinding(c) ==
  IF c.materials = Missing THEN "unbound"
  ELSE IF HasMaterials /\ c.materials = package["materials"] THEN "ready" ELSE "blocked"

\* The worst of some states, in the order the audit asks for them.
Worst(states) ==
  LET order == <<"invalid", "missing", "blocked", "drifted", "unbound">>
      found == {i \in DOMAIN order : order[i] \in states}
  IN  IF found = {} THEN "ready" ELSE order[CHOOSE i \in found : \A j \in found : i <= j]

AuditRender ==
  IF package["render"] = Missing THEN "missing"
  ELSE Worst(({MaterialsBinding(package["render"])} \ {"unbound"})
             \cup {FinalBinding(package["render"])}
             \cup (IF DocumentIsCurrent("render") THEN {} ELSE {"drifted"}))

RenderBinding(c) ==
  IF c.render = Missing THEN "ready"
  ELSE IF package["render"] = c.render THEN "ready" ELSE "drifted"

\* Plausible bug: the text of a version is not compared with cv.md.
BindingsOnly ==
  IF package["library"] = Missing THEN "missing"
  ELSE LET c == package["library"]
       IN  Worst({FinalBinding(c), RenderBinding(c)} \cup (IF c.draft THEN {"blocked"} ELSE {}))

AuditLibrary ==
  IF package["library"] = Missing THEN "missing"
  ELSE LET c == package["library"]
       IN  Worst({FinalBinding(c), RenderBinding(c)}
                 \cup (IF c.draft THEN {"blocked"} ELSE {})
                 \cup (IF document["final"] \in {Missing, c.content} THEN {} ELSE {"drifted"}))

AuditState ==
  LET worst == Worst({MaterialsState, AuditStory, AuditPlan, AuditCv, AuditRender, AuditLibrary})
  IN  IF worst = "missing" THEN "blocked" ELSE worst
-----------------------------------------------------------------------------
ChainTypeOK ==
  /\ chain \in Chains
  /\ package["evidence"] \in Packages \cup {Missing}
  /\ package["materials"] \in Materials \cup {Missing}
  /\ package["final"] # Missing =>
       package["final"].materials \in Materials /\ package["final"].sections \subseteq Sections
  /\ \A s \in Sections : document["final"] # Missing =>
       document["final"][s] \in Materials \cup {Hand, Twice, Missing}
  /\ \A k \in Kinds \ WithDocument : document[k] = Missing

\* Whatever was imported, replaced, discarded or edited in any order: when the
\* audit calls the fact chain ready, every tool that reads the files finds its
\* package valid and its document current, and the version the user sends out
\* is word for word the cv.md of a plan over the installed materials.  When
\* capability feedback is reported ready, the review it speaks of and the
\* preparation of that review are of the installed materials, and the evidence
\* supports what these cite.
ReadyIsGrounded ==
  /\ (~AuditThrows /\ AuditState = "ready") =>
       /\ HasMaterials /\ DocumentIsCurrent("materials")
       /\ InspectFinal = "ready" /\ CvIsCurrent
       /\ InspectRender = "ready" /\ DocumentIsCurrent("render")
       /\ package["library"].content = document["final"]
       /\ \A s \in package["library"].plan.sections :
            package["library"].content[s] = package["materials"]
  /\ (InspectFeedback = "ready") =>
       /\ package["review"].materials = package["materials"]
       /\ package["review"].prep => package["prep"].materials = package["materials"]
       /\ package["materials"] \in Citing => package["feedback"].evidence \in Supporting

\* A section that a plan wrote into cv.md is a section of the installed plan:
\* whatever plans followed each other, what an earlier one managed and a later
\* one does not is removed.  Not so after an apply that stopped between the
\* plan and cv.md, or after the plan was removed by hand.
NoOrphanSections ==
  (~cut /\ document["final"] # Missing) =>
    \A s \in Sections :
      document["final"][s] \in Materials =>
        package["final"] # Missing /\ s \in package["final"].sections

\* What is called ready rests on what is installed, and sections of a replaced
\* plan leave cv.md.
ChainIsSound == ReadyIsGrounded /\ NoOrphanSections
=============================================================================
