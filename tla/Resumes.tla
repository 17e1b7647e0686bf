------------------------------- MODULE Resumes -------------------------------
(***************************************************************************)
(* The résumés of the student's workbench page: the store's lines of       *)
(* versions (studentWorkbench.ts), the editor over them                    *)
(* (StudentResumeView.vue), the agent's plan that writes a draft, and the  *)
(* library file by which lines leave the page and come back                *)
(* (LocalResumeLibraryBridge.vue, resumeLibrary.ts, resume-library.mjs).   *)
(*                                                                         *)
(* The store lives in the page: when it is loaded again it starts from the *)
(* same lines and the same counters, and only the library file remembers.  *)
(* A text is a value; a provenance is the text of the file its fingerprint *)
(* was taken of, and the fingerprints of a final plan that stood in it.    *)
(* The number of a version is its place in its line.                       *)
(***************************************************************************)
EXTENDS Naturals, Sequences, FiniteSets, SequencesExt

CONSTANTS
  None,
  Titles, Main,  \* titles of lines, the one the agent writes to
  Texts,         \* texts the user types
  Imports,         \* texts and packages of rendered résumés on this machine
  AgentText,     \* the text of the agent's draft
  Delivered,     \* the lines in the page's own code
  ForeignFiles,  \* library files that came from elsewhere
  MaxLines, MaxIds, MaxCommands  \* bounds

VARIABLES
  lines,     \* the lines, newest first
  nextLine, nextVersion,
  editor,    \* what the editor is open on, and the line shown under it
  library,   \* the library file of this machine
  commands   \* what was done so far

resumeVars == <<lines, nextLine, nextVersion, editor, library, commands>>

Version(id, key, status, source, text, provenance) ==
  [id |-> id, key |-> key, status |-> status, source |-> source,
   text |-> text, provenance |-> provenance]

Closed == [mode |-> "closed", draft |-> None, line |-> None]

\* The places of versions in a file: a line, and one of its versions.
Places(file) == UNION {{i} \X DOMAIN file[i].versions : i \in DOMAIN file}

VersionsBefore(file, n) == Cardinality({p \in Places(file) : p[1] <= n})

\* The page is delivered with lines of its own, whose ids are counted from 1.
FirstVersion == Cardinality(Places(Delivered)) + 1

Lines == ToSet(lines)

LineOf(id) == CHOOSE l \in Lines : l.id = id

DraftsOf(l) == {v \in ToSet(l.versions) : v.status = "draft"}

PlanFields == {"finalPlanId", "finalPlanContentHash", "finalDocumentContentHash"}

\* The fingerprint of a file belongs to an import, those of a final plan come
\* together and never with a draft.
Carries(status, source, provenance) ==
  provenance # None =>
    /\ provenance.of # None => source = "import"
    /\ provenance.plan \in {{}, PlanFields}
    /\ provenance.plan # {} => status # "draft"

\* The version that is sent out, if there is one.
Application(l) == {v \in ToSet(l.versions) : v.id = l.active /\ v.status # "draft"}

DraftOnly(l) == ToSet(l.versions) = DraftsOf(l)

VersionValid(v) == Carries(v.status, v.source, v.provenance)

\* At most one version of a line is a draft.
OneDraft(l) ==
  \A i, j \in DOMAIN l.versions :
    l.versions[i].status = "draft" /\ l.versions[j].status = "draft" => i = j

\* A name is an id with a suffix; names given elsewhere may be any.
Keys == {None} \cup (Nat \X Nat)

Contents == Texts \cup {AgentText}

Versions ==
  [id : Nat, key : Keys, status : {"draft", "final", "exported"},
   source : {"manual", "agent", "import"}, text : Contents,
   provenance : {None} \cup [of : Contents \cup {None}, plan : SUBSET PlanFields]]

ResumeLines == [id : Nat, key : Keys, title : Titles, active : Nat, versions : Seq(Versions)]

FiledLines == [key : Keys, title : Titles, active : Keys, versions : Seq(Versions)]

\* A fingerprint is of the text beside it.
IsTrue(v) == v.provenance # None => v.provenance.of \in {None, v.text}

\* What is sent out is one of the versions, and no draft unless there is nothing else.
IsSound(l) ==
  /\ OneDraft(l)
  /\ \E v \in ToSet(l.versions) : v.id = l.active /\ (v.status # "draft" \/ DraftOnly(l))
  /\ \A v \in ToSet(l.versions) : VersionValid(v) /\ IsTrue(v)

\* Lines, or versions, of one id or one name.
Same(x, y) == x.id = y.id \/ (x.key = y.key /\ x.key # None)

\* Ids and names are given once, the ids of lines below n and of versions below m.
AreSound(file, n, m) ==
  /\ file \in Seq(ResumeLines)
  /\ \A l \in ToSet(file) :
       /\ IsSound(l) /\ l.id \in 1 .. n - 1
       /\ \A v \in ToSet(l.versions) : v.id \in 1 .. m - 1
  /\ \A i, k \in DOMAIN file :
       /\ Same(file[i], file[k]) => i = k
       /\ \A j \in DOMAIN file[i].versions, h \in DOMAIN file[k].versions :
            Same(file[i].versions[j], file[k].versions[h]) => i = k /\ j = h

\* The page is delivered with lines that are sound, and what comes from elsewhere is
\* what it seems to be.
ASSUME DeliveredAssumption == AreSound(Delivered, Len(Delivered) + 1, FirstVersion)
ASSUME ForeignAssumption ==
  /\ ForeignFiles \subseteq Seq(FiledLines)
  /\ \A file \in ForeignFiles : \A l \in ToSet(file) : \A v \in ToSet(l.versions) : IsTrue(v)
  /\ Imports \subseteq [kind : {"text", "package"}, confirmed : BOOLEAN, title : Titles,
                       text : Contents, plan : SUBSET PlanFields]

ResumeInit ==
  /\ lines = Delivered
  /\ nextLine = Len(Delivered) + 1 /\ nextVersion = FirstVersion
  /\ editor = Closed
  /\ library \in {None} \cup ForeignFiles
  /\ commands = 0

Put(line) == [i \in DOMAIN lines |-> IF lines[i].id = line.id THEN line ELSE lines[i]]

PutVersion(l, v) ==
  [l EXCEPT !.versions = [i \in DOMAIN @ |-> IF @[i].id = v.id THEN v ELSE @[i]]]
-----------------------------------------------------------------------------
\* Operations of the store.

Prepend(status, source, title, text, provenance) ==
  /\ Carries(status, source, provenance)
  /\ Len(lines) < MaxLines /\ nextVersion <= MaxIds
  /\ lines' = <<[id |-> nextLine, key |-> None, title |-> title, active |-> nextVersion,
                 versions |-> <<Version(nextVersion, None, status, source, text, provenance)>>]>>
              \o lines
  /\ nextLine' = nextLine + 1
  /\ nextVersion' = nextVersion + 1

\* The one draft of a line, continued or made of a base.
CreateResumeDraft(l, source, text) ==
  /\ DraftsOf(l) = {}
  /\ nextVersion <= MaxIds
  /\ lines' = Put([l EXCEPT !.versions =
                     Append(@, Version(nextVersion, None, "draft", source, text, None))])
  /\ nextVersion' = nextVersion + 1
  /\ UNCHANGED nextLine

\* Plausible bug: the fingerprint of the old text stays.
Retexted(v, source, text) == [v EXCEPT !.source = source, !.text = text]

\* A new text has no provenance, unless it brings one.
Edited(v, source, text) == [v EXCEPT !.source = source, !.text = text, !.provenance = None]

UpdateResumeDraft(l, v, source, text) ==
  /\ v.status = "draft"
  /\ lines' = Put(PutVersion(l, Edited(v, source, text)))
  /\ UNCHANGED <<nextLine, nextVersion>>

Settle(l, v, status) ==
  lines' = Put([PutVersion(l, [v EXCEPT !.status = status]) EXCEPT !.active = v.id])

FinalizeResumeVersion(l, v) == v.status = "draft" /\ Settle(l, v, "final")

MarkResumeVersionExported(l, v) == v.status = "final" /\ Settle(l, v, "exported")

SetActiveResumeVersion(l, v) ==
  /\ v.status # "draft" /\ l.active # v.id
  /\ lines' = Put([l EXCEPT !.active = v.id])

\* Plausible bug: numbers are given from one again.
Renumbered(file, line, version) == [line |-> 1, version |-> 1]

FreshFrom(file, line, version) == [line |-> line, version |-> version]

\* The lines of the page are those of the file, under new ids of the page.
ReplaceFromLibrary(file) ==
  LET from == FreshFrom(file, nextLine, nextVersion)
      IdOf(i, j) == from.version + VersionsBefore(file, i - 1) + j - 1
      LineFrom(i) ==
        [id |-> from.line + i - 1, key |-> file[i].key, title |-> file[i].title,
         active |-> IdOf(i, CHOOSE j \in DOMAIN file[i].versions :
                              file[i].versions[j].key = file[i].active),
         versions |-> [j \in DOMAIN file[i].versions |->
                         [file[i].versions[j] EXCEPT !.id = IdOf(i, j)]]]
  IN  /\ nextVersion + Cardinality(Places(file)) <= MaxIds + 1
      /\ lines' = [i \in DOMAIN file |-> LineFrom(i)]
      /\ nextLine' = nextLine + Len(file)
      /\ nextVersion' = nextVersion + Cardinality(Places(file))
-----------------------------------------------------------------------------
\* The view.  The editor lies over the page: while it is open nothing else can
\* be used, but a file whose reading was started before is still imported.

StartCreating ==
  /\ editor = Closed
  /\ editor' = [mode |-> "create", draft |-> None, line |-> None]
  /\ UNCHANGED <<lines, nextLine, nextVersion, library>>

\* The draft of the shown line is opened, or one is made of what is sent out.
StartEditing(l) ==
  /\ editor = Closed
  /\ \/ \E v \in DraftsOf(l) :
           /\ editor' = [mode |-> "edit", draft |-> v.id, line |-> l.id]
           /\ UNCHANGED <<lines, nextLine, nextVersion>>
     \/ \E base \in Application(l) :
           /\ CreateResumeDraft(l, "manual", base.text)
           /\ editor' = [mode |-> "edit", draft |-> nextVersion, line |-> l.id]
  /\ UNCHANGED library

SaveNew(title, text) ==
  /\ editor.mode = "create"
  /\ Prepend("draft", "manual", title, text, None)
  /\ editor' = Closed
  /\ UNCHANGED library

\* The line shown by now may be that of a file imported meanwhile: then the
\* draft is not found in it, and nothing can be saved.
SaveDraft(title, text) ==
  /\ editor.mode = "edit"
  /\ LET l == LineOf(editor.line)
     IN  \E v \in DraftsOf(l) :
           /\ v.id = editor.draft
           /\ UpdateResumeDraft([l EXCEPT !.title = title], v, v.source, text)
  /\ editor' = Closed
  /\ UNCHANGED library

CloseVersion ==
  /\ editor # Closed /\ editor' = Closed
  /\ UNCHANGED <<lines, nextLine, nextVersion, library>>

ConfirmDraft(l) ==
  /\ editor = Closed
  /\ \E v \in DraftsOf(l) : FinalizeResumeVersion(l, v)
  /\ UNCHANGED <<nextLine, nextVersion, editor, library>>

MarkExported(l) ==
  /\ editor = Closed
  /\ \E v \in Application(l) : MarkResumeVersionExported(l, v)
  /\ UNCHANGED <<nextLine, nextVersion, editor, library>>

SetCurrentVersion(l) ==
  /\ editor = Closed
  /\ \E v \in ToSet(l.versions) : SetActiveResumeVersion(l, v)
  /\ UNCHANGED <<nextLine, nextVersion, editor, library>>

\* A package must be of this kind and confirmed; anything else is a text.
Readable(file) == file.kind = "package" => file.confirmed

\* The sections of a package are written out as one text.  Fingerprints of its
\* plan that are not complete are left out.
InputOf(file) ==
  [title |-> file.title, text |-> file.text,
   provenance |-> [of |-> file.text,
                   plan |-> IF file.plan = PlanFields THEN file.plan ELSE {}]]

\* The new line is shown, whatever the editor over it is open on.
ImportFile(file) ==
  /\ Readable(file)
  /\ LET input == InputOf(file)
     IN  Prepend("final", "import", input.title, input.text, input.provenance)
  /\ editor' = IF editor.mode = "edit" THEN [editor EXCEPT !.line = nextLine] ELSE editor
  /\ UNCHANGED library

\* A plan of the agent is confirmed, on another page: the draft of the line is
\* written, and the editor, which belongs to this page, is gone.
AgentDraft ==
  /\ \E l \in {k \in Lines : k.title = Main} :
       /\ l = SelectSeq(lines, LAMBDA k : k.title = Main)[1]
       /\ \/ \E v \in DraftsOf(l) : UpdateResumeDraft(l, v, "agent", AgentText)
          \/ CreateResumeDraft(l, "agent", AgentText)
  /\ editor' = Closed
  /\ UNCHANGED library
-----------------------------------------------------------------------------
\* The library file.

\* Plausible bug: the name a version had on this page is taken as it is.
Unchecked(n, used) == <<n, 1>>

\* The name for an id of the page: with a suffix when it is another's.
Allocated(n, used) ==
  CHOOSE k \in {<<n, s>> : s \in 1 .. Cardinality(used) + 1} :
    k \notin used /\ \A s \in 1 .. k[2] - 1 : <<n, s>> \in used

\* What has a name from a file keeps it.  The others get names of their own ids,
\* so that only the names from files can be in their way.
NameOf(x, all) ==
  IF x.key # None THEN x.key ELSE Allocated(x.id, {y.key : y \in all} \ {None})

AllVersions == UNION {ToSet(l.versions) : l \in Lines}

ByAge ==
  CHOOSE s \in [DOMAIN lines -> Lines] :
    \A i, j \in DOMAIN lines : i < j => s[i].id < s[j].id

Filed(l) ==
  [key |-> NameOf(l, Lines), title |-> l.title,
   active |-> NameOf(CHOOSE v \in ToSet(l.versions) : v.id = l.active, AllVersions),
   versions |-> [j \in DOMAIN l.versions |->
                   [l.versions[j] EXCEPT !.key = NameOf(l.versions[j], AllVersions), !.id = 0]]]

\* The file of the lines as they are now.
BuildResumeLibrary == [i \in DOMAIN lines |-> Filed(ByAge[i])]

\* What reading a file asks of it, on the page and in the command line tool.
LibraryValid(file) ==
  /\ \A i, k \in DOMAIN file :
       /\ file[i].key = file[k].key => i = k
       /\ \A j \in DOMAIN file[i].versions, m \in DOMAIN file[k].versions :
            file[i].versions[j].key = file[k].versions[m].key => i = k /\ j = m
  /\ \A l \in ToSet(file) :
       /\ OneDraft(l)
       /\ \E v \in ToSet(l.versions) : v.key = l.active /\ v.status # "draft"
       /\ \A v \in ToSet(l.versions) : VersionValid(v)

\* A download the checks refuse leaves no file.
DownloadLibrary ==
  /\ editor = Closed
  /\ \A l \in Lines : ~DraftOnly(l)
  /\ LibraryValid(BuildResumeLibrary)
  /\ library' = BuildResumeLibrary
  /\ UNCHANGED <<lines, nextLine, nextVersion, editor>>

\* The file is read, and the dialog that lies over the page is confirmed.
ReadLibrary ==
  /\ editor = Closed
  /\ library # None /\ LibraryValid(library)
  /\ ReplaceFromLibrary(library)
  /\ UNCHANGED <<editor, library>>

ReloadPage ==
  /\ lines' = Delivered
  /\ nextLine' = Len(Delivered) + 1 /\ nextVersion' = FirstVersion
  /\ editor' = Closed
  /\ UNCHANGED library

ResumeNext ==
  /\ commands < MaxCommands /\ commands' = commands + 1
  /\ \/ \E l \in Lines :
          StartEditing(l) \/ ConfirmDraft(l) \/ MarkExported(l) \/ SetCurrentVersion(l)
     \/ StartCreating \/ CloseVersion
     \/ \E title \in Titles, text \in Texts :
          SaveNew(title, text) \/ SaveDraft(title, text)
     \/ \E file \in Imports : ImportFile(file)
     \/ AgentDraft
     \/ DownloadLibrary \/ ReadLibrary \/ ReloadPage
-----------------------------------------------------------------------------
\* Every variable has its type.
ResumeTypeOK ==
  /\ \A l \in Lines :
       /\ l.id \in 1 .. nextLine - 1 /\ l.title \in Titles
       /\ \A v \in ToSet(l.versions) :
            /\ v.id \in 1 .. nextVersion - 1
            /\ v.status \in {"draft", "final", "exported"}
            /\ v.source \in {"manual", "agent", "import"}
            /\ v.text \in Texts \cup {AgentText}
  /\ editor.mode \in {"closed", "create", "edit"}
  /\ commands \in 0..MaxCommands

\* Whatever was imported, edited, replaced and loaded again, the file the page
\* would write is one the page and the command line tool can read, and a
\* fingerprint in it is that of the text beside it.
ExportIsTrue ==
  /\ (\A l \in Lines : ~DraftOnly(l)) => LibraryValid(BuildResumeLibrary)
  /\ \A l \in Lines : \A v \in ToSet(l.versions) :
       v.provenance # None => v.provenance.of \in {None, v.text}

\* While the page lives, an id means one version: what is final keeps its text
\* and never falls back, a draft gets another text only from the editor opened
\* on it or from the agent, and nothing is lost but by a library that is read.
VersionsAreKept ==
  [][~ReloadPage =>
       \A v \in AllVersions :
         /\ \A w \in AllVersions' :
              w.id = v.id /\ w # v =>
                /\ v.status = "draft" \/ <<v.status, w.status>> = <<"final", "exported">>
                /\ w.text # v.text \/ w.source # v.source =>
                     v.status = "draft" /\ (editor.draft = v.id \/ w.source = "agent")
         /\ ReadLibrary \/ \E w \in AllVersions' : w.id = v.id]_resumeVars
=============================================================================
