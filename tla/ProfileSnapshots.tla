-------------------------- MODULE ProfileSnapshots --------------------------
(***************************************************************************)
(* The stored profile of each user (user_profile_snapshots), computed from *)
(* his achievements, challenges and coach logs.  A business transaction    *)
(* that changes these marks the row dirty and sends a refresh message,     *)
(* unless it only creates or cancels a challenge; a listener refreshes the *)
(* profile of each message, a job those of all dirty rows in one           *)
(* transaction.                                                            *)
(*                                                                         *)
(* A transaction sees the database as it was when it began and writes the  *)
(* rows it changed whole; the rows have no version, their user is unique.  *)
(***************************************************************************)
EXTENDS Naturals, Functions

CONSTANTS
  Users,
  Requests,    \* threads with a business transaction
  MaxChanges,  \* bound: changes of the sources of one user
  None

Refreshers == {"listener", "job"}

VARIABLES
  sources,   \* how many changes the sources of each user have seen
  profiles,      \* user_profile_snapshots: the sources it was computed of, dirty
  changing,  \* the business transaction of each request, and the row it read
  reading,   \* the refresh of each refresher: the rows and sources it read
  messages,  \* users with a refresh message
  crossed,   \* users whose profile is of a refresh that overlapped a change
  missed     \* users with a challenge created or cancelled since their profile

vars == <<sources, profiles, changing, reading, messages, crossed, missed>>

-----------------------------------------------------------------------------

Row == [of : 0..MaxChanges, dirty : BOOLEAN]

Change == [user : Users, row : Row \cup {None}]

Refresh == UNION {[set -> [row : Row \cup {None}, of : 0..MaxChanges]] : set \in SUBSET Users}

Dirty == {u \in Users : profiles[u] # None /\ profiles[u].dirty}

Init ==
  /\ sources = [u \in Users |-> 0]
  /\ profiles = [u \in Users |-> None]
  /\ changing = [q \in Requests |-> None]
  /\ reading = [r \in Refreshers |-> None]
  /\ messages = {} /\ crossed = {} /\ missed = {}

\* An achievement is created or its reflection edited, a challenge completed, or a
\* coach answers.
BeginChange(q, u) ==
  /\ changing[q] = None /\ sources[u] < MaxChanges
  /\ changing' = [changing EXCEPT ![q] = [user |-> u, row |-> profiles[u]]]
  /\ UNCHANGED <<sources, profiles, reading, messages, crossed, missed>>

\* Plausible bug: the message alone is thought to be enough.
MessageOnly(row) == row

\* Plausible bug: an entity made for the user has no profile at all.
WithoutProfile(row) ==
  IF row = None THEN [of |-> None, dirty |-> TRUE] ELSE [row EXCEPT !.dirty = TRUE]

\* markDirty; an entity made for the user has the empty profile.
Marked(row) == IF row = None THEN [of |-> 0, dirty |-> TRUE] ELSE [row EXCEPT !.dirty = TRUE]

\* A row whose fields are as they were read is not written.
Written(u, read, new) == IF new = read THEN profiles[u] ELSE new

CommitChange(q) ==
  /\ changing[q] # None
  /\ LET u == changing[q].user
         row == changing[q].row
     IN  /\ sources[u] < MaxChanges
         /\ row = None => profiles[u] = None
         /\ sources' = [sources EXCEPT ![u] = @ + 1]
         /\ profiles' = [profiles EXCEPT ![u] = Written(u, row, Marked(row))]
         /\ messages' = messages \cup {u}
         /\ crossed' = IF Marked(row) = row /\ profiles[u] # row
                       THEN crossed \cup {u} ELSE crossed
  /\ changing' = [changing EXCEPT ![q] = None]
  /\ UNCHANGED <<reading, missed>>

\* create and cancel of ChallengeService change what the profile counts and tell
\* nobody.
ChangeChallenges(u) ==
  /\ sources[u] < MaxChanges
  /\ sources' = [sources EXCEPT ![u] = @ + 1]
  /\ missed' = missed \cup {u}
  /\ UNCHANGED <<profiles, changing, reading, messages, crossed>>

\* The insert of a second row fails the whole change, as others may.
FailChange(q) ==
  /\ changing[q] # None
  /\ changing' = [changing EXCEPT ![q] = None]
  /\ UNCHANGED <<sources, profiles, reading, messages, crossed, missed>>

BeginRefresh(r, set) ==
  /\ reading[r] = None
  /\ reading' = [reading EXCEPT ![r] = [u \in set |-> [row |-> profiles[u], of |-> sources[u]]]]

\* The listener takes a message and refreshes its user, dirty or not; another
\* message may be of the same user, or this one come again.
BeginMessage(u) ==
  /\ u \in messages
  /\ messages' \in {messages, messages \ {u}}
  /\ BeginRefresh("listener", {u})
  /\ UNCHANGED <<sources, profiles, changing, crossed, missed>>

\* refreshDirtyProfiles.
BeginJob ==
  /\ Dirty # {}
  /\ BeginRefresh("job", Dirty)
  /\ UNCHANGED <<sources, profiles, changing, messages, crossed, missed>>

Refreshed(read) == [of |-> read.of, dirty |-> FALSE]

\* refreshSnapshot of all users of the transaction.  Of the same sources the model
\* makes the same profile or another one; what did not change is not written.
CommitRefresh(r) ==
  /\ reading[r] # None
  /\ LET read == reading[r]
     IN  \E same \in SUBSET {u \in DOMAIN read : Refreshed(read[u]) = read[u].row} :
           LET written == DOMAIN read \ same
           IN  /\ \A u \in written : read[u].row = None => profiles[u] = None
               /\ profiles' = [u \in Users |->
                    IF u \in written THEN Refreshed(read[u]) ELSE profiles[u]]
               /\ crossed' = {u \in Users :
                    IF u \in written THEN read[u].of # sources[u] ELSE u \in crossed}
               /\ missed' = missed \ written
  /\ reading' = [reading EXCEPT ![r] = None]
  /\ UNCHANGED <<sources, changing, messages>>

\* An exception: a message is tried again or dropped after the third time.
FailRefresh(r) ==
  /\ reading[r] # None
  /\ reading' = [reading EXCEPT ![r] = None]
  /\ \/ r = "listener" /\ messages' = messages \cup DOMAIN reading[r]
     \/ UNCHANGED messages
  /\ UNCHANGED <<sources, profiles, changing, crossed, missed>>

Next ==
  \/ \E q \in Requests :
       (\E u \in Users : BeginChange(q, u)) \/ CommitChange(q) \/ FailChange(q)
  \/ \E u \in Users : BeginMessage(u) \/ ChangeChallenges(u)
  \/ BeginJob
  \/ \E r \in Refreshers : CommitRefresh(r) \/ FailRefresh(r)

Spec == Init /\ [][Next]_vars

-----------------------------------------------------------------------------

\* Every variable has its type.
TypeOK ==
  /\ sources \in [Users -> 0..MaxChanges]
  /\ profiles \in [Users -> Row \cup {None}]
  /\ changing \in [Requests -> Change \cup {None}]
  /\ reading \in [Refreshers -> Refresh \cup {None}]
  /\ messages \subseteq Users
  /\ crossed \subseteq Users
  /\ missed \subseteq Users

\* A profile that is used as it is stored is that of the sources, unless the
\* refresh it is of overlapped a change, or a challenge was created or cancelled
\* since, however often and late messages come.
CleanIsCurrent ==
  \A u \in Users \ (crossed \cup missed) :
    profiles[u] # None /\ ~profiles[u].dirty => profiles[u].of = sources[u]
=============================================================================
