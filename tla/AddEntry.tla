------------------------------ MODULE AddEntry ------------------------------
(***************************************************************************)
(* add-entry.mjs: an entry the agent has written is put under a heading of *)
(* cv.md, and another at the end of article-digest.md, unless they are     *)
(* there.  The two files are written one after the other, so a run can     *)
(* stop in between; it is then repeated.  Between two runs the user edits  *)
(* cv.md.                                                                  *)
(*                                                                         *)
(* A document is a sequence of lines, headings and entries, each known by  *)
(* its name; a name can be spelled in several ways that have one key.      *)
(***************************************************************************)
EXTENDS Naturals, Sequences, SequencesExt, FiniteSetsExt

CONSTANTS
  NoFile,      \* no file, and no payload
  Headings,    \* headings a user writes
  KeyOf,       \* of each spelling its key
  Payloads,    \* section, dedupKey and entry, the latter spelled as it is
  MaxRuns, MaxHandEdits

VARIABLES
  cvLines, digestLines,   \* cv.md and article-digest.md
  adding,                 \* the payload of the run, and what the run has yet to write
  answered,               \* payloads of which a run told that it is done
  runs, handEdits

addVars == <<cvLines, digestLines, adding, answered, runs, handEdits>>

\* What the lines are: headings and entries.
AddLines ==
  [is : {"heading"}, name : Headings \cup {p.section : p \in Payloads}]
  \cup [is : {"entry"}, name : {p.entry : p \in Payloads}]

\* With an entry the agent gives the key by which it is looked for, a spelling of
\* its name: that is what makes a repeated run find it.
ASSUME PayloadsAssumption ==
  /\ \A p \in Payloads : KeyOf[p.dedupKey] = KeyOf[p.entry]
  /\ NoFile \notin Payloads /\ NoFile \notin Seq(AddLines)

HeadingLine(h) == [is |-> "heading", name |-> h]

EntryLine(e) == [is |-> "entry", name |-> e]

NoAdd == [payload |-> NoFile, todo |-> <<>>]

AddInit ==
  /\ cvLines \in {NoFile} \cup {<<>>} \cup {<<HeadingLine(h)>> : h \in Headings}
  /\ digestLines = NoFile
  /\ adding = NoAdd /\ answered = {}
  /\ runs = 0 /\ handEdits = 0
-----------------------------------------------------------------------------
\* normalizeKey.
SameKey(a, b) == KeyOf[a] = KeyOf[b]

IsHeading(doc, i) == doc[i].is = "heading"

\* The first heading of the section, or 0.
LocateSection(doc, section) ==
  LET places == {i \in DOMAIN doc : IsHeading(doc, i) /\ SameKey(doc[i].name, section)}
  IN  IF places = {} THEN 0 ELSE Min(places)

\* Where the next section begins.
AfterSection(doc, i) ==
  Min({j \in DOMAIN doc : j > i /\ IsHeading(doc, j)} \cup {Len(doc) + 1})

\* Plausible bug: names are compared as they are spelled.
HasSpelling(doc, section, key) ==
  LET i == LocateSection(doc, section)
  IN  i # 0 /\ \E j \in i + 1 .. AfterSection(doc, i) - 1 : doc[j].name = key

CvHasEntry(doc, section, key) ==
  LET i == LocateSection(doc, section)
  IN  i # 0 /\ \E j \in i + 1 .. AfterSection(doc, i) - 1 : SameKey(doc[j].name, key)

\* Plausible bug: the entry is put at the end of the document.
InsertAtEnd(doc, section, entry) ==
  IF LocateSection(doc, section) = 0
  THEN doc \o <<HeadingLine(section), EntryLine(entry)>> ELSE Append(doc, EntryLine(entry))

\* Under the heading, after what is there; the section is made if there is none.
InsertIntoCvSection(doc, section, entry) ==
  LET i == LocateSection(doc, section)
  IN  IF i = 0 THEN doc \o <<HeadingLine(section), EntryLine(entry)>>
      ELSE InsertAt(doc, AfterSection(doc, i), EntryLine(entry))

ArticleDigestHasEntry(doc, key) == \E i \in DOMAIN doc : SameKey(doc[i].name, key)

\* A digest that does not exist is made.
CurrentDigest == IF digestLines = NoFile THEN <<>> ELSE digestLines

\* applyAdd: the files that are to be written, with their new text.
ApplyAdd(p) ==
  (IF CvHasEntry(cvLines, p.section, p.dedupKey) THEN <<>>
   ELSE <<[name |-> "cv", text |-> InsertIntoCvSection(cvLines, p.section, p.entry)]>>)
  \o
  (IF ArticleDigestHasEntry(CurrentDigest, p.dedupKey) THEN <<>>
   ELSE <<[name |-> "digest", text |-> Append(CurrentDigest, EntryLine(p.entry))]>>)

\* A run reads both files; without cv.md it is refused.
StartAdding(p) ==
  /\ adding = NoAdd /\ runs < MaxRuns
  /\ cvLines # NoFile
  /\ adding' = [payload |-> p, todo |-> ApplyAdd(p)]
  /\ runs' = runs + 1
  /\ UNCHANGED <<cvLines, digestLines, answered, handEdits>>

WriteAdded ==
  /\ adding.todo # <<>>
  /\ LET file == Head(adding.todo)
     IN  /\ cvLines' = IF file.name = "cv" THEN file.text ELSE cvLines
         /\ digestLines' = IF file.name = "digest" THEN file.text ELSE digestLines
  /\ adding' = [adding EXCEPT !.todo = Tail(@)]
  /\ UNCHANGED <<answered, runs, handEdits>>

\* The run tells what it did.
TellAdded ==
  /\ adding # NoAdd /\ adding.todo = <<>>
  /\ answered' = answered \cup {adding.payload}
  /\ adding' = NoAdd
  /\ UNCHANGED <<cvLines, digestLines, runs, handEdits>>

\* A write is refused or the process dies.
StopAdding ==
  /\ adding.todo # <<>>
  /\ adding' = NoAdd
  /\ UNCHANGED <<cvLines, digestLines, answered, runs, handEdits>>

\* The user makes the document, adds a heading somewhere, or removes an entry.
Edited ==
  IF cvLines = NoFile THEN {<<>>}
  ELSE {InsertAt(cvLines, i, HeadingLine(h)) : i \in 1 .. Len(cvLines) + 1, h \in Headings}
       \cup {RemoveAt(cvLines, i) : i \in {j \in DOMAIN cvLines : ~IsHeading(cvLines, j)}}

EditByHand ==
  /\ adding = NoAdd /\ handEdits < MaxHandEdits
  /\ cvLines' \in Edited
  /\ answered' = {}
  /\ handEdits' = handEdits + 1
  /\ UNCHANGED <<digestLines, adding, runs>>

AddNext ==
  \/ \E p \in Payloads : StartAdding(p)
  \/ WriteAdded \/ TellAdded \/ StopAdding \/ EditByHand

AddSpec == AddInit /\ [][AddNext]_addVars
-----------------------------------------------------------------------------

\* Every variable has its type.
AddTypeOK ==
  /\ cvLines = NoFile \/ \A i \in DOMAIN cvLines : cvLines[i].is \in {"heading", "entry"}
  /\ digestLines = NoFile \/ \A i \in DOMAIN digestLines : digestLines[i].is = "entry"
  /\ adding.payload \in Payloads \cup {NoFile}
  /\ answered \subseteq Payloads

\* What a run told to be done is in both files, under the heading it belongs to,
\* also when an earlier run stopped between the two.
AnsweredIsThere ==
  \A p \in answered :
    /\ \E i, j \in DOMAIN cvLines :
         /\ i < j /\ IsHeading(cvLines, i) /\ SameKey(cvLines[i].name, p.section)
         /\ ~IsHeading(cvLines, j) /\ SameKey(cvLines[j].name, p.dedupKey)
         /\ \A k \in i + 1 .. j : ~IsHeading(cvLines, k)
    /\ \E j \in DOMAIN digestLines : SameKey(digestLines[j].name, p.dedupKey)

\* Runs that are repeated leave one entry of a name, however it is spelled; only
\* the user's headings come between two of them.
EnteredOnce ==
  /\ cvLines # NoFile =>
       \A i, j \in DOMAIN cvLines :
         (i < j /\ ~IsHeading(cvLines, i) /\ ~IsHeading(cvLines, j) /\ SameKey(cvLines[i].name, cvLines[j].name))
           => \E k \in i + 1 .. j - 1 : IsHeading(cvLines, k)
  /\ digestLines # NoFile =>
       \A i, j \in DOMAIN digestLines : SameKey(digestLines[i].name, digestLines[j].name) => i = j

\* What add-entry.mjs promises: an answered entry is there, and it is there once.
EntriesAreKept == AnsweredIsThere /\ EnteredOnce
=============================================================================
