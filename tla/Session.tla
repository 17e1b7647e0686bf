------------------------------- MODULE Session -------------------------------
(***************************************************************************)
(* Who is logged in (stores/auth.ts, api/client.ts, main.ts, router).  The *)
(* tabs of a browser share one stored session; each keeps the one it read  *)
(* or received, sends the stored token with its calls and hears of nothing *)
(* the other tabs store.  The backend knows the tokens that are valid.     *)
(* A call is answered by the backend at some time and the answer arrives   *)
(* later; a tab that is loaded anew loses the answers it waits for.        *)
(***************************************************************************)
EXTENDS Naturals, Sequences, FiniteSets

CONSTANTS
  NoSession,
  Tabs,
  RoleOf,             \* function from accounts to their roles
  MaxTokens, MaxCalls \* bounds

VARIABLES
  owner,   \* sequence of the accounts the tokens were issued to
  live,    \* tokens that the backend accepts
  past,    \* tokens that have expired by the clock of the browser
  stored,  \* the stored session: token and account, or NoSession
  session, \* that of each tab
  page,    \* and the page it shows
  waits,   \* tabs whose button waits for an answer
  calls,   \* calls on their way, with the answer once there is one
  foreign  \* history: tabs that have not seen the last change of stored

sessionVars == <<owner, live, past, stored, session, page, waits, calls, foreign>>

Accounts == DOMAIN RoleOf

\* Every account is of one of two kinds, and there is a marker for no session.
ASSUME RolesAssumption == RoleOf \in [Accounts -> {"STUDENT", "SOCIAL"}]
ASSUME NoSessionAssumption ==
  NoSession \notin Nat /\ NoSession \notin [token : Nat, account : Accounts]

Tokens == DOMAIN owner

Sessions == [token : Tokens, account : Accounts]

Entry(token, account) == [token |-> token, account |-> account]

PageRole == [student |-> "STUDENT", frozen |-> "SOCIAL"]

Protected == DOMAIN PageRole

Targets == Protected \cup {"login"}

SessionInit ==
  /\ owner = <<>> /\ live = {} /\ past = {}
  /\ stored = NoSession
  /\ session = [t \in Tabs |-> NoSession]
  /\ page = [t \in Tabs |-> "none"]
  /\ waits = {} /\ calls = {} /\ foreign = {}

Home(s) == IF RoleOf[s.account] = "SOCIAL" THEN "frozen" ELSE "student"

\* Plausible bug: who is logged in may see every page.
AnyRole(s, target) ==
  IF s = NoSession THEN "login" ELSE IF target = "login" THEN Home(s) ELSE target

\* The page a navigation ends at.
Guard(s, target) ==
  IF s = NoSession THEN "login"
  ELSE IF target \in Protected /\ PageRole[target] = RoleOf[s.account] THEN target
  ELSE Home(s)

\* A tab changes the stored session.
Store(t, s) ==
  /\ stored' = s
  /\ foreign' = (IF s = stored THEN foreign ELSE Tabs) \ {t}

Persist(t, s) == session' = [session EXCEPT ![t] = s] /\ Store(t, s)

Show(t, p) == page' = [page EXCEPT ![t] = p]

\* Plausible bug: the call that was refused removes the stored session only.
Forget(t, s) == Store(t, s) /\ UNCHANGED session

\* What a refused call leaves: the listener of main.ts clears the tab too.
Clear(t, s) == Persist(t, s)

StoredToken == IF stored = NoSession THEN NoSession ELSE stored.token

Of(t) == {c \in calls : c.tab = t}

Call(t, op, token, account) ==
  [tab |-> t, op |-> op, token |-> token, account |-> account, answer |-> NoSession]

Send(call, others) ==
  /\ Cardinality(others) < MaxCalls
  /\ calls' = others \cup {call}
-----------------------------------------------------------------------------
\* The backend.

\* A token expires here, by the clock of the backend, or there.
Expire(n) ==
  /\ \/ n \in live /\ live' = live \ {n} /\ UNCHANGED past
     \/ n \notin past /\ past' = past \cup {n} /\ UNCHANGED live
  /\ UNCHANGED <<owner, stored, session, page, waits, calls, foreign>>

\* An answer is a token or this; nobody looks at that of a logout.
Refused == 0

Answered(c, answer) == calls' = (calls \ {c}) \cup {[c EXCEPT !.answer = answer]}

IssueToken(c) ==
  \/ /\ Len(owner) < MaxTokens
     /\ owner' = Append(owner, c.account)
     /\ live' = live \cup {Len(owner')}
     /\ Answered(c, Len(owner'))
  \/ Answered(c, Refused) /\ UNCHANGED <<owner, live>>

EndToken(c) ==
  /\ live' = live \ {c.token}
  /\ Answered(c, Refused)
  /\ UNCHANGED owner

ResolveUser(c) ==
  /\ Answered(c, IF c.token \in live THEN c.token ELSE Refused)
  /\ UNCHANGED <<owner, live>>

Handle(c) ==
  /\ c.answer = NoSession
  /\ CASE c.op = "login" -> IssueToken(c)
       [] c.op = "logout" -> EndToken(c)
       [] OTHER -> ResolveUser(c)
  /\ UNCHANGED <<past, stored, session, page, waits, foreign>>
-----------------------------------------------------------------------------
\* A tab.

\* The stored session is read, unless it has expired, and its user asked for.
LoadSession(t) ==
  LET kept == IF StoredToken \in past THEN NoSession ELSE stored
  IN  /\ Persist(t, kept)
      /\ waits' = waits \ {t}
      /\ IF kept = NoSession
         THEN Show(t, "login") /\ calls' = calls \ Of(t)
         ELSE Show(t, "none") /\ Send(Call(t, "me", kept.token, NoSession), calls \ Of(t))
      /\ UNCHANGED <<owner, live, past>>

Navigate(t, target) ==
  /\ page[t] # "none"
  /\ Show(t, Guard(session[t], target)) /\ page' # page
  /\ UNCHANGED <<owner, live, past, stored, session, waits, calls, foreign>>

Data(t) ==
  /\ page[t] \in Protected
  /\ Send(Call(t, "data", StoredToken, NoSession), calls)
  /\ UNCHANGED <<owner, live, past, stored, session, page, waits, foreign>>

Submit(t, account) ==
  /\ page[t] = "login" /\ t \notin waits
  /\ waits' = waits \cup {t}
  /\ Send(Call(t, "login", NoSession, account), calls)
  /\ UNCHANGED <<owner, live, past, stored, session, page, foreign>>

\* The button of logout does not look at waits.
Logout(t) ==
  /\ page[t] \in Protected
  /\ waits' = waits \cup {t}
  /\ Send(Call(t, "logout", StoredToken, NoSession), calls)
  /\ UNCHANGED <<owner, live, past, stored, session, page, foreign>>
-----------------------------------------------------------------------------
\* Answers.

\* The user of the answer is put into the session that was read.
Initialized(c) ==
  /\ c.op = "me" /\ c.answer \in Tokens
  /\ Persist(c.tab, [session[c.tab] EXCEPT !.account = owner[c.answer]])
  /\ \E target \in Targets : Show(c.tab, Guard(session'[c.tab], target))
  /\ UNCHANGED waits

LoggedIn(c) ==
  /\ c.op = "login" /\ c.answer \in Tokens
  /\ Persist(c.tab, Entry(c.answer, c.account))
  /\ \E target \in Targets : Show(c.tab, Guard(session'[c.tab], target))
  /\ waits' = waits \ {c.tab}

\* Whatever the answer: the tab is logged out, even if it logged in meanwhile.
LoggedOut(c) ==
  /\ c.op = "logout"
  /\ Persist(c.tab, NoSession)
  /\ Show(c.tab, "login")
  /\ waits' = waits \ {c.tab}

\* Any call that is refused, a login too, ends the session of the tab and the
\* stored one, whatever token it had.
Unauthorized(c) ==
  /\ c.op # "logout" /\ c.answer = Refused
  /\ Clear(c.tab, NoSession)
  /\ Show(c.tab, "login")
  /\ waits' = IF c.op = "login" THEN waits \ {c.tab} ELSE waits

Received(c) ==
  /\ c.op = "data" /\ c.answer \in Tokens
  /\ UNCHANGED <<stored, session, page, waits, foreign>>

\* The call fails otherwise: a user that could not be asked for stays logged in.
Failed(c) ==
  /\ c.op # "logout"
  /\ IF c.op = "me"
     THEN \E target \in Targets : Show(c.tab, Guard(session[c.tab], target))
     ELSE UNCHANGED page
  /\ waits' = IF c.op = "login" THEN waits \ {c.tab} ELSE waits
  /\ UNCHANGED <<stored, session, foreign>>

Receive(c) ==
  /\ \/ Initialized(c) \/ LoggedIn(c) \/ LoggedOut(c)
     \/ Unauthorized(c) \/ Received(c) \/ Failed(c)
  /\ calls' = calls \ {c}
  /\ UNCHANGED <<owner, live, past>>

SessionNext ==
  \/ \E n \in Tokens : Expire(n)
  \/ \E t \in Tabs :
       \/ LoadSession(t) \/ Data(t) \/ Logout(t)
       \/ \E account \in Accounts : Submit(t, account)
       \/ \E target \in Targets : Navigate(t, target)
  \/ \E c \in calls : Handle(c) \/ Receive(c)
-----------------------------------------------------------------------------

\* Every variable has its type.
SessionTypeOK ==
  /\ owner \in Seq(Accounts)
  /\ live \cup past \subseteq Tokens
  /\ stored \in Sessions \cup {NoSession}
  /\ session \in [Tabs -> Sessions \cup {NoSession}]
  /\ page \in [Tabs -> Protected \cup {"none", "login"}]
  /\ waits \cup foreign \subseteq Tabs
  /\ \A c \in calls : c.tab \in Tabs /\ c.op \in {"me", "data", "login", "logout"}

\* A protected page is shown to a tab with a session of its role only, and the
\* login page to one without, in whatever order late answers, expiries and the
\* logins of other tabs come (the guard of the router and the listener of main).
PageFitsSession ==
  \A t \in Tabs :
    /\ page[t] \in Protected =>
         session[t] # NoSession /\ RoleOf[session[t].account] = PageRole[page[t]]
    /\ page[t] = "login" => session[t] = NoSession

\* A session names the account its token was issued to; the stored one is that
\* of a tab, so that nobody finds a session all tabs have ended; and a tab has
\* another session than the stored one only if another tab has stored since.
StoredIsShared ==
  /\ \A s \in ({stored} \cup {session[t] : t \in Tabs}) \ {NoSession} : owner[s.token] = s.account
  /\ stored # NoSession => \E t \in Tabs : session[t] = stored
  /\ \A t \in Tabs \ foreign : session[t] = stored

\* A button that waits has a call to wait for.
WaitsEnd == \A t \in waits : \E c \in Of(t) : c.op \in {"login", "logout"}

SessionFits == PageFitsSession /\ StoredIsShared /\ WaitsEnd
=============================================================================
