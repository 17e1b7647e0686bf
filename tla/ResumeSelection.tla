--------------------------- MODULE ResumeSelection ---------------------------
(***************************************************************************)
(* The selection assistant of the résumé editor (StudentResumeView.vue and *)
(* resumeSelectionSkill.ts): a part of the text is selected, also with the *)
(* right button held, a replacement is made of it from the evidence at     *)
(* hand, the user may alter it, and it takes the place of what is selected *)
(* by then.  All of it concerns the text in the editor; the versions of    *)
(* the résumé learn of it when the editor is saved, see Resumes.           *)
(*                                                                         *)
(* A text is a sequence of pieces, the least that is selected: headings,   *)
(* bullets and what continues them.  A piece shares words with abilities   *)
(* (about) and may name some as its evidence (named).                      *)
(***************************************************************************)
EXTENDS Integers, Sequences, FiniteSets, FiniteSetsExt, SequencesExt

CONSTANTS
  Drafts,      \* texts the editor is opened on
  Typed,       \* pieces the user types
  Wishes,      \* sets of abilities an intent shares words with
  Abilities,   \* the evidence there may be
  MaxSelected, \* longest selection, in pieces, the assistant takes
  MaxEdits, MaxPieces \* bounds

VARIABLES
  content,  \* the text in the editor, << >> when it is closed
  range,    \* the selection: first piece, and the piece after the last
  anchor,   \* where the right button was pressed, 0 when it is up
  menu,     \* the menu at the selection is open
  advice,   \* what the assistant's panel shows
  known,    \* the evidence imported so far
  edits     \* changes of the text so far

selectionVars == <<content, range, anchor, menu, advice, known, edits>>

Pieces == [kind : {"heading", "bullet", "text"}, about : SUBSET Abilities,
           named : SUBSET Abilities]

\* Texts are made of pieces.
ASSUME DraftsAssumption == Drafts \subseteq Seq(Pieces) /\ Typed \subseteq Pieces

Piece(kind, about) == [kind |-> kind, about |-> about, named |-> {}]

Nowhere == <<1, 1>>

\* The text the advice was made in and of, the intent and the evidence are
\* remembered to state the properties.
Advice(status, suggestion, made, of, wish) ==
  [status |-> status, suggestion |-> suggestion, made |-> made, of |-> of, wish |-> wish]

Idle == Advice("idle", << >>, << >>, << >>, {})

SelectionInit ==
  /\ content = << >> /\ range = Nowhere /\ anchor = 0 /\ menu = FALSE
  /\ advice = Idle /\ known = {} /\ edits = 0

SelectedIn(r) == SubSeq(content, r[1], r[2] - 1)

Empty(r) == r[1] = r[2]
-----------------------------------------------------------------------------
\* What the assistant makes of a selection.

Bullets(s) == {i \in DOMAIN s : s[i].kind = "bullet"}

\* The text is looked for from the start: another place with the same words may
\* be found.
FirstAt(text, s) ==
  Min({i \in 1 .. Len(text) - Len(s) + 1 : SubSeq(text, i, i + Len(s) - 1) = s})

\* Plausible bug: the headings after the selection are looked at too.
AnyHeading(text, s) == {i \in DOMAIN text : text[i].kind = "heading"}

HeadingsBefore(text, s) == {i \in 1 .. FirstAt(text, s) - 1 : text[i].kind = "heading"}

\* Plausible bug: several experiences at once get one evidence.
AnyPart(s) == Len(s) > MaxSelected \/ \E i \in DOMAIN s : s[i].kind = "heading"

Blocked(s) ==
  \/ s = << >> \/ Len(s) > MaxSelected
  \/ \E i \in DOMAIN s : s[i].kind = "heading"
  \/ Cardinality(Bullets(s)) > 1

AboutOf(s) == UNION {s[i].about : i \in DOMAIN s}

\* Abilities that share words with the selection, the intent or the heading above.
Similar(text, s, wish) ==
  LET above == HeadingsBefore(text, s)
  IN  known \cap (AboutOf(s) \cup wish
                  \cup (IF above = {} THEN {} ELSE text[Max(above)].about))

\* The selected text with its evidence named behind it.
Supported(s, abilities) == [s EXCEPT ![Len(s)].named = @ \cup abilities]

BuildSuggestion(text, s, wish) ==
  LET similar == Similar(text, s, wish)
  IN  IF Blocked(s) \/ similar = {} THEN Advice("blocked", << >>, text, s, wish)
      ELSE Advice("suggested", Supported(s, similar), text, s, wish)
-----------------------------------------------------------------------------
\* The editor opens, on a draft or a new text, with nothing selected.
OpenEditor(text) ==
  /\ content = << >>
  /\ content' = text /\ range' = Nowhere /\ advice' = Idle
  /\ UNCHANGED <<anchor, menu, known, edits>>

\* It is saved or left, at any moment.  The text of an advice stays behind,
\* unseen, and the button may still count as held.
CloseEditor ==
  /\ content # << >>
  /\ content' = << >> /\ menu' = FALSE
  /\ UNCHANGED <<range, anchor, advice, known, edits>>

\* Evidence is imported on another page.
LearnAbility(a) ==
  /\ content = << >> /\ known' = known \cup {a}
  /\ UNCHANGED <<content, range, anchor, menu, advice, edits>>

Ranges == {r \in (1 .. Len(content) + 1) \X (1 .. Len(content) + 1) : r[1] <= r[2]}

UpdateSelection(r) ==
  /\ range' = r
  /\ menu' = (menu /\ ~Empty(r))

\* Something is selected with the mouse or the keys.
Select(r) ==
  /\ content # << >>
  /\ UpdateSelection(r)
  /\ UNCHANGED <<content, anchor, advice, known, edits>>

BeginRightDrag(i) ==
  /\ content # << >>
  /\ anchor' = i /\ UpdateSelection(<<i, i>>)
  /\ UNCHANGED <<content, advice, known, edits>>

\* The places of the pieces are those of the moment it was pressed.
Between(i) ==
  <<Min({anchor, i, Len(content) + 1}), Min({Max({anchor, i}), Len(content) + 1})>>

MoveRightDrag(i) ==
  /\ content # << >> /\ anchor # 0
  /\ UpdateSelection(Between(i))
  /\ UNCHANGED <<content, anchor, advice, known, edits>>

EndRightDrag(i) ==
  /\ content # << >> /\ anchor # 0
  /\ anchor' = 0 /\ range' = Between(i) /\ menu' = ~Empty(Between(i))
  /\ UNCHANGED <<content, advice, known, edits>>

CancelRightDrag ==
  /\ content # << >> /\ anchor # 0 /\ anchor' = 0
  /\ UNCHANGED <<content, range, menu, advice, known, edits>>

\* Plausible bug: what was advised before is still shown when the text changes.
Kept(a) == a

Reset(a) == Idle

\* The selection is replaced by what is typed, or deleted.  A title keeps the
\* text from being empty.
HandleEditorInput(typed) ==
  /\ content # << >> /\ edits < MaxEdits
  /\ LET before == SubSeq(content, 1, range[1] - 1)
         after == SubSeq(content, range[2], Len(content))
         caret == range[1] + Len(typed)
     IN  /\ before \o typed \o after \notin {<< >>, content}
         /\ Len(before \o typed \o after) <= MaxPieces
         /\ content' = before \o typed \o after
         /\ UpdateSelection(<<caret, caret>>)
  /\ advice' = Reset(advice)
  /\ edits' = edits + 1
  /\ UNCHANGED <<anchor, known>>

HandleContextMenu ==
  /\ content # << >> /\ anchor = 0
  /\ menu' = ~Empty(range)
  /\ UNCHANGED <<content, range, anchor, advice, known, edits>>

\* The menu closes at a click elsewhere.
HandleOutsideEvent ==
  /\ menu /\ menu' = FALSE
  /\ UNCHANGED <<content, range, anchor, advice, known, edits>>

\* From the menu or the panel.
OpenSelectionSkill ==
  /\ content # << >>
  /\ menu' = FALSE /\ advice' = Idle
  /\ UNCHANGED <<content, range, anchor, known, edits>>

GenerateSelectionSuggestion(wish) ==
  /\ content # << >> /\ ~Empty(range)
  /\ advice' = BuildSuggestion(content, SelectedIn(range), wish)
  /\ UNCHANGED <<content, range, anchor, menu, known, edits>>

\* It replaces what is selected now, whatever it was made of: the check that
\* the selection is the same compares the selected text with itself.
ApplySelectionSuggestion ==
  /\ content # << >> /\ edits < MaxEdits
  /\ advice.status = "suggested"
  /\ LET after == SubSeq(content, range[2], Len(content))
         text == SubSeq(content, 1, range[1] - 1) \o advice.suggestion \o after
     IN  Len(text) <= MaxPieces /\ content' = text
  /\ range' = Nowhere /\ advice' = Reset(advice) /\ edits' = edits + 1
  /\ UNCHANGED <<anchor, menu, known>>

SelectionNext ==
  \/ \E text \in Drafts : OpenEditor(text)
  \/ CloseEditor
  \/ \E a \in Abilities : LearnAbility(a)
  \/ \E r \in Ranges : Select(r)
  \/ \E i \in 1 .. Len(content) : BeginRightDrag(i)
  \/ \E i \in 1 .. MaxPieces : MoveRightDrag(i) \/ EndRightDrag(i)
  \/ CancelRightDrag
  \/ \E typed \in {<< >>} \cup {<<p>> : p \in Typed} : HandleEditorInput(typed)
  \/ HandleContextMenu \/ HandleOutsideEvent \/ OpenSelectionSkill
  \/ \E wish \in Wishes : GenerateSelectionSuggestion(wish)
  \/ ApplySelectionSuggestion
-----------------------------------------------------------------------------
\* Every variable has its type.
SelectionTypeOK ==
  /\ Len(content) \in 0..MaxPieces /\ edits \in 0..MaxEdits
  /\ anchor \in 0..MaxPieces /\ menu \in BOOLEAN
  /\ advice.status \in {"idle", "blocked", "suggested"}
  /\ known \subseteq Abilities

\* Whatever was selected, typed and applied, in whatever order: the selection
\* lies in the text; and a replacement that can be applied was made of the text
\* that stands in the editor now, of no more than one experience, and the
\* evidence it adds has to do with the words selected, with the intent, or with
\* a section where these words stand.
AdviceFits ==
  content # << >> =>
    /\ range \in Ranges
    /\ advice.status = "suggested" =>
         LET s == advice.of
             added == (UNION {p.named : p \in ToSet(advice.suggestion)})
                         \ UNION {p.named : p \in ToSet(s)}
             places == {i \in 1 .. Len(content) - Len(s) + 1 :
                          SubSeq(content, i, i + Len(s) - 1) = s}
             SectionAt(i) == SelectLastInSubSeq(content, 1, i - 1, LAMBDA p : p.kind = "heading")
         IN  /\ advice.made = content
             /\ Cardinality(Bullets(s)) <= 1
             /\ added \subseteq known
             /\ \E i \in places :
                  added \subseteq AboutOf(s) \cup advice.wish
                    \cup IF SectionAt(i) = 0 THEN {} ELSE content[SectionAt(i)].about
=============================================================================
