----------------------------- MODULE CoachReviews -----------------------------
(***************************************************************************)
(* The coach of one student: logs made of the talks of a day, and the      *)
(* memories made of the logs, which the coach asks about again after       *)
(* growing intervals (CoachService).                                       *)
(*                                                                         *)
(* A request is a transaction: it reads a snapshot, asks a model, for many *)
(* seconds, and commits the rows it changed, every column of them, as they *)
(* follow from its snapshot.  No request lasts over midnight, and of the   *)
(* talks of a day only the last answer matters.                            *)
(***************************************************************************)
EXTENDS Naturals, Sequences, FiniteSets

CONSTANTS
  None,
  Callers,   \* requests at once
  LastDay,   \* bound
  Named,     \* days whose log is asked for
  Intervals, \* days till a memory is asked for again, by the times it was
  MaxTalks   \* bound of the requests

VARIABLES
  today,
  talked,    \* days with messages
  lastReply, \* the last answer of the day: whether it asks about a memory
  logs,      \* coach_logs by date: a text, the number of the request it is of
  reviews,   \* coach_memory_reviews by the date of their log
  talks,     \* the transaction of each caller
  begun,     \* requests so far
  asked,     \* days each memory was used on
  crossed    \* rows written by a transaction that had not read them as they were

coachVars == <<today, talked, lastReply, logs, reviews, talks, begun, asked, crossed>>

Days == 0 .. LastDay

Text == 0 .. MaxTalks

Memory == [text : Text, count : 0 .. MaxTalks, next : Nat]

State == [logs : [Days -> Text \cup {None}], reviews : [Days -> Memory \cup {None}]]

Reply == {None, "asks", "answers"}

Talk == [read : State, made : State, used : SUBSET Days, reply : Reply]

\* The text saved when there is nothing to make a log of.
Little == 0

CoachInit ==
  /\ today = 0 /\ talked = {} /\ lastReply = None
  /\ logs = [d \in Days |-> None] /\ reviews = [d \in Days |-> None]
  /\ talks = [c \in Callers |-> None] /\ begun = 0
  /\ asked = [d \in Days |-> <<>>] /\ crossed = {}

\* Plausible bug: a memory whose log is looked at again is due at once.
DueAgain(memory, text) ==
  [text |-> text, count |-> IF memory = None THEN 0 ELSE memory.count, next |-> today]

\* A log's memory has its text, and keeps what was asked of it.
UpsertMemoryReview(memory, text) ==
  IF memory = None THEN [text |-> text, count |-> 0, next |-> today]
  ELSE [memory EXCEPT !.text = text]

EnsureMemoryReviews(s) ==
  [s EXCEPT !.reviews = [d \in Days |->
     IF s.logs[d] = None THEN @[d] ELSE UpsertMemoryReview(@[d], s.logs[d])]]

\* Plausible bug: the memory is left as it was.
OnlyLog(s, d, text) == [s EXCEPT !.logs[d] = text]

SaveLog(s, d, text) ==
  [logs |-> [s.logs EXCEPT ![d] = text],
   reviews |-> [s.reviews EXCEPT ![d] = UpsertMemoryReview(@, text)]]

DueMemories(s) == {d \in Days : s.reviews[d] # None /\ s.reviews[d].next <= today}

\* The one that has been due for longest.
FirstDue(s) ==
  {d \in DueMemories(s) : \A e \in DueMemories(s) : s.reviews[d].next <= s.reviews[e].next}

ReviewInterval(count) ==
  Intervals[IF count < Len(Intervals) THEN count ELSE Len(Intervals)]

\* Plausible bug: the interval is that of the count before.
ShortInterval(memory) ==
  [memory EXCEPT !.count = @ + 1,
                 !.next = today + ReviewInterval(IF memory.count = 0 THEN 1 ELSE memory.count)]

Used(memory) ==
  LET count == memory.count + 1
  IN  [text |-> memory.text, count |-> count, next |-> today + ReviewInterval(count)]
-----------------------------------------------------------------------------
Current == [logs |-> logs, reviews |-> reviews]

\* A request begins, and what it makes of its snapshot is settled: the rows, the
\* memory it uses and its answer, None for a request that is no talk.
Begin(c, made, used, reply) ==
  /\ talks[c] = None /\ begun < MaxTalks
  /\ begun' = begun + 1
  /\ talks' = [talks EXCEPT ![c] = [read |-> Current, made |-> made, used |-> used, reply |-> reply]]
  /\ UNCHANGED <<today, talked, lastReply, logs, reviews, asked, crossed>>

MemoryReviews(c) == Begin(c, EnsureMemoryReviews(Current), {}, None)

\* The model asks about the memory it was given, or does not; an answer can look
\* like a question about one all the same.
Chat(c) ==
  LET s == EnsureMemoryReviews(Current)
  IN  \E reply \in {"asks", "answers"} :
        IF lastReply = "asks" \/ DueMemories(s) = {} THEN Begin(c, s, {}, reply)
        ELSE \E d \in FirstDue(s) :
               Begin(c, [s EXCEPT !.reviews[d] = Used(@)], {d}, reply)

\* The message wants a log, which the model makes or not.
ChatForLog(c) ==
  LET s == EnsureMemoryReviews(Current)
  IN  \/ Begin(c, SaveLog(s, today, begun + 1), {}, "answers")
      \/ Begin(c, s, {}, "answers")

\* The same on request, for any day: what the model cannot make is Little.
GenerateLog(c, d) ==
  \/ d \in talked /\ Begin(c, SaveLog(Current, d, begun + 1), {}, None)
  \/ Begin(c, SaveLog(Current, d, Little), {}, None)

\* Rows to insert must not be there yet; the others are written as they were made.
Insertable(read, row) == read # None \/ row = None

Written(read, made, row) == IF made = read THEN row ELSE made

Overwrites(read, made, row) == made # read /\ row # read

Commit(c) ==
  LET t == talks[c]
  IN  /\ t # None
      /\ \A d \in Days :
           /\ t.made.logs[d] # t.read.logs[d] => Insertable(t.read.logs[d], logs[d])
           /\ t.made.reviews[d] # t.read.reviews[d] => Insertable(t.read.reviews[d], reviews[d])
      /\ logs' = [d \in Days |-> Written(t.read.logs[d], t.made.logs[d], logs[d])]
      /\ reviews' = [d \in Days |-> Written(t.read.reviews[d], t.made.reviews[d], reviews[d])]
      /\ crossed' = crossed \cup
           {d \in Days : \/ Overwrites(t.read.logs[d], t.made.logs[d], logs[d])
                         \/ Overwrites(t.read.reviews[d], t.made.reviews[d], reviews[d])}
      /\ asked' = [d \in Days |-> IF d \in t.used THEN Append(asked[d], today) ELSE asked[d]]
      /\ IF t.reply = None THEN UNCHANGED <<talked, lastReply>>
         ELSE talked' = talked \cup {today} /\ lastReply' = t.reply
      /\ talks' = [talks EXCEPT ![c] = None]
      /\ UNCHANGED <<today, begun>>

\* Refused by the database or failed on its way: nothing is written.
RollBack(c) ==
  /\ talks[c] # None
  /\ talks' = [talks EXCEPT ![c] = None]
  /\ UNCHANGED <<today, talked, lastReply, logs, reviews, begun, asked, crossed>>

NextDay ==
  /\ today < LastDay /\ \A c \in Callers : talks[c] = None
  /\ today' = today + 1 /\ lastReply' = None
  /\ UNCHANGED <<talked, logs, reviews, talks, begun, asked, crossed>>

CoachNext ==
  \/ \E c \in Callers :
       \/ MemoryReviews(c) \/ Chat(c) \/ ChatForLog(c)
       \/ \E d \in Named : GenerateLog(c, d)
       \/ Commit(c) \/ RollBack(c)
  \/ NextDay
-----------------------------------------------------------------------------
\* Every variable has its type.
CoachTypeOK ==
  /\ today \in Days /\ talked \subseteq 0 .. today /\ lastReply \in Reply
  /\ Current \in State
  /\ talks \in [Callers -> Talk \cup {None}]
  /\ asked \in [Days -> Seq(Days)]
  /\ begun \in 0 .. MaxTalks /\ crossed \subseteq Days

\* Whatever requests overlap, each log has its memory.  Unless one of them wrote
\* a row over another, the memory is of the log as it is, however often that is
\* made again, and a memory is not asked for before the interval is over that
\* its earlier uses earned it.
MemoriesAreSpaced ==
  \A d \in Days :
    /\ logs[d] # None => reviews[d] # None
    /\ d \notin crossed =>
         /\ logs[d] # None => reviews[d].text = logs[d]
         /\ \A i \in 1 .. Len(asked[d]) - 1 :
              asked[d][i + 1] - asked[d][i] >= ReviewInterval(i)
=============================================================================
