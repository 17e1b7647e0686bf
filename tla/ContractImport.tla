--------------------------- MODULE ContractImport ---------------------------
(***************************************************************************)
(* `import --apply [--replace]` of the contract tools of src/cli: a JSON   *)
(* package and the document rendered from it are brought to the content of *)
(* a contract file.  The tool reads both files, decides, copies what it    *)
(* will overwrite into a backup directory, and replaces first the package, *)
(* then the document.  Each of these is a call of the file system; other   *)
(* processes run in between, any call may be refused, any process may die. *)
(* scam-check.mjs is the tool followed here; the others do the same with   *)
(* other names, see ArtifactChain for what differs.                        *)
(***************************************************************************)
EXTENDS Naturals, Sequences, SequencesExt

CONSTANTS
  NoText,      \* no file, no content
  Importers,
  Contents,    \* contents of a contract; the document of content c is c too
  Manual,      \* texts a user may put into the document by hand
  MaxBackups,  \* copies kept of each file
  MaxStops,    \* bound: imports that die or fail half way
  MaxEdits     \* bound: edits of the document by hand

VARIABLES
  file,      \* the installed package and document
  backups,   \* of each file, oldest first
  import,    \* of each process: what it read and has yet to do
  replaced,  \* history: the text of each file that was overwritten last
  crossed,   \* history: files that changed under an import that was to write them
  stops, edits

importVars == <<file, backups, import, replaced, crossed, stops, edits>>

Files == {"package", "document"}

Idle == [todo |-> <<>>, incoming |-> NoText]

ImportInit ==
  /\ file = [f \in Files |-> NoText]
  /\ backups = [f \in Files |-> <<>>]
  /\ import = [p \in Importers |-> Idle]
  /\ replaced = [f \in Files |-> NoText]
  /\ crossed = {}
  /\ stops = 0
  /\ edits = 0

Changed(c) == {f \in Files : file[f] # c}

Overwritten(c) == {f \in Changed(c) : file[f] # NoText}

\* The package comes first.
Calls(call, S) ==
  (IF "package" \in S THEN << <<call, "package">> >> ELSE <<>>)
  \o (IF "document" \in S THEN << <<call, "document">> >> ELSE <<>>)

\* What an accepted import of content c will do to the files as they are.
Plan(c) == Calls("copy", Overwritten(c)) \o Calls("write", Changed(c))

\* Without --replace only what is missing is written.
Accepts(c, replace) == Overwritten(c) # {} => replace

\* An import of what is installed changes nothing, a refused one does not either.
Begin(p, c, replace) ==
  /\ import[p] = Idle
  /\ Accepts(c, replace)
  /\ Changed(c) # {}
  /\ import' = [import EXCEPT ![p] = [todo |-> Plan(c), incoming |-> c]]
  /\ UNCHANGED <<file, backups, replaced, crossed, stops, edits>>

Next1(p) == Head(import[p].todo)

Advanced(p) ==
  IF Len(import[p].todo) = 1 THEN Idle ELSE [import[p] EXCEPT !.todo = Tail(@)]

\* The file, if one of these imports has read it and not yet written it.
Pending(f, P) == {g \in {f} : \E q \in P : <<"write", g>> \in ToSet(import[q].todo)}

\* A bug: the copies are sorted the other way, and the newest one is dropped.
KeptOldest(s) == IF Len(s) > MaxBackups THEN Front(s) ELSE s

\* The names of the copies begin with the time: the oldest sort first.
Kept(s) == IF Len(s) > MaxBackups THEN Tail(s) ELSE s

BackUp(p) ==
  /\ import[p].todo # <<>>
  /\ Next1(p)[1] = "copy"
  /\ LET f == Next1(p)[2]
     IN  backups' = [backups EXCEPT ![f] = Kept(Append(@, file[f]))]
  /\ import' = [import EXCEPT ![p] = Advanced(p)]
  /\ UNCHANGED <<file, replaced, crossed, stops, edits>>

Write(p) ==
  /\ import[p].todo # <<>>
  /\ Next1(p)[1] = "write"
  /\ LET f == Next1(p)[2]
     IN  /\ file' = [file EXCEPT ![f] = import[p].incoming]
         /\ replaced' = [replaced EXCEPT ![f] = IF file[f] = NoText THEN @ ELSE file[f]]
         /\ crossed' = crossed \cup Pending(f, Importers \ {p})
  /\ import' = [import EXCEPT ![p] = Advanced(p)]
  /\ UNCHANGED <<backups, stops, edits>>

\* The process dies, or a call of the file system throws.
Stop(p) ==
  /\ import[p] # Idle
  /\ stops < MaxStops
  /\ stops' = stops + 1
  /\ import' = [import EXCEPT ![p] = Idle]
  /\ UNCHANGED <<file, backups, replaced, crossed, edits>>

\* The user rewrites the document.
Edit(text) ==
  /\ file["document"] \notin {NoText, text}
  /\ edits < MaxEdits
  /\ edits' = edits + 1
  /\ file' = [file EXCEPT !["document"] = text]
  /\ crossed' = crossed \cup Pending("document", Importers)
  /\ UNCHANGED <<backups, import, replaced, stops>>

ImportNext ==
  \/ \E p \in Importers :
       \/ \E c \in Contents, replace \in BOOLEAN : Begin(p, c, replace)
       \/ BackUp(p) \/ Write(p) \/ Stop(p)
  \/ \E text \in Manual : Edit(text)

ImportSpec == ImportInit /\ [][ImportNext]_importVars
-----------------------------------------------------------------------------
Texts == Contents \cup Manual \cup {NoText}

ImportTypeOK ==
  /\ file \in [Files -> Texts]
  /\ \A f \in Files : backups[f] \in BoundedSeq(Texts \ {NoText}, MaxBackups)
  /\ replaced \in [Files -> Texts]
  /\ crossed \subseteq Files
  /\ \A p \in Importers : import[p].incoming \in Contents \cup {NoText}

\* The text that an import overwrote last, a package or what the user had
\* written into the document, can be found among the backups, even when imports
\* stopped half way and older copies are dropped: unless two processes, or an
\* edit, crossed between the reading and the writing of the file.
OverwrittenIsKept ==
  \A f \in Files \ crossed :
    replaced[f] # NoText => replaced[f] \in ToSet(backups[f])

=============================================================================
