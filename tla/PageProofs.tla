------------------------------ MODULE PageProofs ------------------------------
(***************************************************************************)
(* The pages of the browser say what the backend and the user said to      *)
(* them, for every number of tabs, devices, texts, judges, entries, events *)
(* and lines of résumés, and every bound on the calls.  For each page: an  *)
(* inductive invariant that says what the calls under way will tell, and   *)
(* that it starts, that every step keeps it, and that what is checked      *)
(* follows.                                                                *)
(***************************************************************************)
EXTENDS MCWebApp, FiniteSetTheorems, SequenceTheorems, TLAPS

-----------------------------------------------------------------------------
\* The session.

\* What the pages that log in do, without fairness.
SessionSpec == SessionInit /\ [][SessionNext]_sessionVars

\* A call of a tab, with its answer once there is one.
CallRecords ==
  [tab : Tabs, op : {"me", "data", "login", "logout"}, token : Tokens \cup {NoSession},
   account : Accounts \cup {NoSession}, answer : Tokens \cup {NoSession, Refused}]

\* A login gives the token of the account that was typed.
LoginsFit ==
  \A c \in calls :
    c.op = "login" =>
      /\ c.account \in Accounts
      /\ c.answer \in Tokens => owner[c.answer] = c.account

\* A tab that is starting has the one call that asks who it is, with the token it
\* started with.
AskedAlone ==
  \A c \in calls : c.op = "me" =>
    /\ page[c.tab] = "none"
    /\ session[c.tab] # NoSession /\ session[c.tab].token = c.token
    /\ c.answer \in Tokens => c.answer = c.token
    /\ Of(c.tab) = {c}

\* The inductive invariant: what is to be shown, and what the calls under way say.
SessionInv ==
  /\ SessionTypeOK
  /\ calls \subseteq CallRecords
  /\ LoginsFit
  /\ AskedAlone
  /\ SessionFits

\* What follows from the types.
LEMMA SessionTypesOf ==
  ASSUME SessionTypeOK
  PROVE  /\ owner \in Seq(Accounts) /\ Tokens = 1 .. Len(owner) /\ Len(owner) \in Nat
         /\ Tokens \subseteq Nat
         /\ NoSession \notin Sessions /\ NoSession \notin Tokens /\ Refused \notin Tokens
         /\ \A n \in Tokens : owner[n] \in Accounts
  <1>1. owner \in Seq(Accounts) /\ Tokens = 1 .. Len(owner) /\ Len(owner) \in Nat
    BY DEF SessionTypeOK, Tokens
  <1>2. Tokens \subseteq Nat /\ Refused \notin Tokens  BY <1>1 DEF Refused
  <1>3. Sessions \subseteq [token : Nat, account : Accounts]  BY Zenon, <1>2 DEF Sessions
  <1> QED  BY <1>1, <1>2, <1>3, NoSessionAssumption DEF Sessions

LEMMA SessionStarts == SessionInit => SessionInv
  BY DEF SessionInit, SessionInv, SessionTypeOK, CallRecords, LoginsFit, AskedAlone, Tokens,
     SessionFits, PageFitsSession, StoredIsShared, WaitsEnd, PageRole, Protected, Accounts

\* The home of a session is a page of its role.
LEMMA HomeFits ==
  ASSUME NEW s \in Sessions
  PROVE  Home(s) \in Protected /\ PageRole[Home(s)] = RoleOf[s.account]
  BY RolesAssumption DEF Accounts, Home, Protected, PageRole, Sessions

\* The guard of the router lets nobody on a page that does not fit.
LEMMA GuardFits ==
  ASSUME NEW s \in Sessions \cup {NoSession}, NEW target, NoSession \notin Sessions
  PROVE  /\ Guard(s, target) \in Protected \cup {"login"}
         /\ Guard(s, target) \in Protected =>
              s # NoSession /\ RoleOf[s.account] = PageRole[Guard(s, target)]
         /\ Guard(s, target) = "login" => s = NoSession
  <1>1. CASE s = NoSession
    BY <1>1 DEF Guard, Protected, PageRole
  <1>2. CASE s \in Sessions
    <2>1. "login" \notin Protected  BY DEF Protected, PageRole
    <2> QED  BY <1>2, <2>1, HomeFits DEF Guard
  <1> QED  BY <1>1, <1>2

\* A tab stores a session, or none: the others hear of it and store it again.
LEMMA StoringShares ==
  ASSUME SessionTypeOK, StoredIsShared, owner' = owner,
         NEW t \in Tabs, NEW s \in Sessions \cup {NoSession},
         s # NoSession => owner[s.token] = s.account,
         Persist(t, s)
  PROVE  /\ stored' \in Sessions \cup {NoSession}
         /\ session' \in [Tabs -> Sessions \cup {NoSession}]
         /\ foreign' \subseteq Tabs
         /\ StoredIsShared'
  <1>1. /\ session' = [session EXCEPT ![t] = s] /\ stored' = s
        /\ foreign' = (IF s = stored THEN foreign ELSE Tabs) \ {t}
    BY DEF Persist, Store
  <1>2. session \in [Tabs -> Sessions \cup {NoSession}]  BY DEF SessionTypeOK
  <1>3. /\ session' \in [Tabs -> Sessions \cup {NoSession}] /\ session'[t] = s
        /\ \A u \in Tabs \ {t} : session'[u] = session[u]
    BY <1>1, <1>2
  <1>4. foreign' \subseteq Tabs  BY <1>1 DEF SessionTypeOK
  <1>5. \A u \in Tabs \ foreign' : session'[u] = stored'
    <2> SUFFICES ASSUME NEW u \in Tabs \ foreign', u # t  PROVE session'[u] = stored'
      BY <1>1, <1>3
    <2>1. s = stored /\ u \notin foreign  BY <1>1
    <2> QED  BY <2>1, <1>1, <1>3 DEF StoredIsShared
  <1>6. \A r \in ({stored'} \cup {session'[u] : u \in Tabs}) \ {NoSession} :
          owner'[r.token] = r.account
    <2> SUFFICES ASSUME NEW r \in ({stored'} \cup {session'[u] : u \in Tabs}) \ {NoSession}
                 PROVE  owner[r.token] = r.account
      OBVIOUS
    <2>1. r = s \/ \E u \in Tabs : r = session[u]  BY <1>1, <1>3
    <2> QED  BY <2>1 DEF StoredIsShared
  <1> QED  BY <1>1, <1>3, <1>4, <1>5, <1>6 DEF StoredIsShared

\* What is not about the session stays, when the owners grow.
LEMMA ShowingFits ==
  ASSUME SessionTypeOK, PageFitsSession,
         NEW t \in Tabs, NEW p \in Protected \cup {"none", "login"}, Show(t, p),
         \A u \in Tabs \ {t} : session'[u] = session[u],
         p \in Protected => session'[t] # NoSession /\ RoleOf[session'[t].account] = PageRole[p],
         p = "login" => session'[t] = NoSession
  PROVE  PageFitsSession' /\ page' \in [Tabs -> Protected \cup {"none", "login"}]
  <1>1. page \in [Tabs -> Protected \cup {"none", "login"}]  BY DEF SessionTypeOK
  <1>2. /\ page' \in [Tabs -> Protected \cup {"none", "login"}] /\ page'[t] = p
        /\ \A u \in Tabs \ {t} : page'[u] = page[u]
    BY <1>1 DEF Show
  <1> SUFFICES ASSUME NEW u \in Tabs
               PROVE  /\ page'[u] \in Protected =>
                           session'[u] # NoSession /\ RoleOf[session'[u].account] = PageRole[page'[u]]
                      /\ page'[u] = "login" => session'[u] = NoSession
    BY <1>2 DEF PageFitsSession
  <1>3. CASE u = t  BY <1>3, <1>2
  <1>4. CASE u # t  BY <1>4, <1>2 DEF PageFitsSession
  <1> QED  BY <1>3, <1>4

\* The service issues and ends tokens: those there are keep their owners.
LEMMA OwnersGrow ==
  ASSUME SessionTypeOK, NEW c \in calls, calls \subseteq CallRecords, LoginsFit,
         \/ c.op = "login" /\ IssueToken(c)
         \/ c.op = "logout" /\ EndToken(c)
         \/ c.op \notin {"login", "logout"} /\ ResolveUser(c)
  PROVE  /\ owner' \in Seq(Accounts) /\ Tokens \subseteq Tokens' /\ live' \subseteq Tokens'
         /\ \A n \in Tokens : owner'[n] = owner[n]
         /\ \E a \in Tokens' \cup {Refused} :
              /\ Answered(c, a)
              /\ c.op = "login" /\ a \in Tokens' => owner'[a] = c.account
              /\ c.op = "me" /\ a \in Tokens' => a = c.token
  <1>1. live \subseteq Tokens  BY DEF SessionTypeOK
  <1>2. CASE \/ c.op = "login" /\ Answered(c, Refused) /\ UNCHANGED <<owner, live>>
             \/ c.op = "logout" /\ EndToken(c)
             \/ c.op \notin {"login", "logout"} /\ ResolveUser(c)
    <2>1. owner' = owner /\ live' \subseteq live  BY <1>2 DEF EndToken, ResolveUser
    <2>2. owner' \in Seq(Accounts) /\ Tokens' = Tokens
      BY <2>1 DEF SessionTypeOK, Tokens
    <2>3. Refused \notin Tokens  BY SessionTypesOf
    <2>4. CASE c.op \notin {"login", "logout"}
      BY <2>4, <1>1, <1>2, <2>2, <2>3 DEF ResolveUser
    <2>5. CASE c.op \in {"login", "logout"}
      <3>1. Answered(c, Refused)  BY <2>5, <1>2 DEF EndToken
      <3> QED  BY <2>5, <3>1, <2>2, <2>3, <1>1, <2>1
    <2> QED  BY <1>1, <2>1, <2>2, <2>4, <2>5
  <1>3. CASE /\ c.op = "login" /\ owner' = Append(owner, c.account)
             /\ live' = live \cup {Len(owner')} /\ Answered(c, Len(owner'))
    <2>1. c.account \in Accounts  BY <1>3 DEF LoginsFit
    <2>2. owner \in Seq(Accounts) /\ Tokens = 1 .. Len(owner)  BY SessionTypesOf
    <2>3. /\ owner' \in Seq(Accounts) /\ Len(owner') = Len(owner) + 1
          /\ owner'[Len(owner')] = c.account /\ \A n \in Tokens : owner'[n] = owner[n]
      BY <1>3, <2>1, <2>2
    <2>4. Tokens' = 1 .. Len(owner')  BY <2>3 DEF Tokens
    <2>5. Tokens \subseteq Tokens' /\ Len(owner') \in Tokens'  BY <2>2, <2>3, <2>4
    <2> QED  BY Zenon, <1>3, <1>1, <2>3, <2>5
  <1> QED  BY <1>2, <1>3 DEF IssueToken

\* The service answers a call.
LEMMA HandlingFits ==
  ASSUME SessionInv, NEW c \in calls, Handle(c)
  PROVE  SessionInv'
  <1> USE DEF SessionInv
  <1>1. c \in CallRecords /\ UNCHANGED <<past, stored, session, page, waits, foreign>>
    BY DEF Handle
  <1>2. /\ owner' \in Seq(Accounts) /\ Tokens \subseteq Tokens' /\ live' \subseteq Tokens'
        /\ \A n \in Tokens : owner'[n] = owner[n]
        /\ \E a \in Tokens' \cup {Refused} :
             /\ Answered(c, a)
             /\ c.op = "login" /\ a \in Tokens' => owner'[a] = c.account
             /\ c.op = "me" /\ a \in Tokens' => a = c.token
    <2>1. \/ c.op = "login" /\ IssueToken(c)
          \/ c.op = "logout" /\ EndToken(c)
          \/ c.op \notin {"login", "logout"} /\ ResolveUser(c)
      BY DEF Handle
    <2> QED  BY <2>1, OwnersGrow
  <1>3. PICK a \in Tokens' \cup {Refused} :
          /\ calls' = (calls \ {c}) \cup {[c EXCEPT !.answer = a]}
          /\ c.op = "login" /\ a \in Tokens' => owner'[a] = c.account
          /\ c.op = "me" /\ a \in Tokens' => a = c.token
    BY <1>2 DEF Answered
  <1>4. PICK answered : answered = [c EXCEPT !.answer = a]  BY Zenon
  <1>5. /\ answered.tab = c.tab /\ answered.op = c.op /\ answered.token = c.token
        /\ answered.account = c.account /\ answered.answer = a
        /\ answered \in CallRecords'
    <2>1. /\ answered.tab = c.tab /\ answered.op = c.op /\ answered.token = c.token
          /\ answered.account = c.account /\ answered.answer = a
      BY <1>1, <1>4 DEF CallRecords
    <2>2. answered \in CallRecords'  BY <1>1, <1>2, <1>4 DEF CallRecords
    <2> QED  BY <2>1, <2>2
  <1>6. calls' = (calls \ {c}) \cup {answered}  BY <1>3, <1>4
  <1>7. Sessions \subseteq Sessions' /\ CallRecords \subseteq CallRecords'
    BY <1>2 DEF Sessions, CallRecords
  <1>8. calls' \subseteq CallRecords'  BY <1>5, <1>6, <1>7
  <1>9. SessionTypeOK'
    <2>1. /\ stored' \in Sessions' \cup {NoSession} /\ session' \in [Tabs -> Sessions' \cup {NoSession}]
      BY <1>1, <1>7 DEF SessionTypeOK
    <2>2. \A d \in calls' : d.tab \in Tabs /\ d.op \in {"me", "data", "login", "logout"}
      BY <1>5, <1>6, <1>1 DEF SessionTypeOK, CallRecords
    <2> QED  BY <1>1, <1>2, <2>1, <2>2 DEF SessionTypeOK
  <1>10. NoSession \notin Tokens' /\ Refused \notin Tokens'
    <2>1. Tokens' = 1 .. Len(owner') /\ Len(owner') \in Nat  BY <1>2 DEF Tokens
    <2> QED  BY <2>1, NoSessionAssumption DEF Refused
  <1>11. LoginsFit'
    <2> SUFFICES ASSUME NEW d \in calls', d.op = "login"
                 PROVE  /\ d.account \in Accounts
                        /\ d.answer \in Tokens' => owner'[d.answer] = d.account
      BY DEF LoginsFit
    <2>1. CASE d = answered  BY <2>1, <1>3, <1>5 DEF LoginsFit
    <2>2. CASE d \in calls
      <3>1. d.answer \in Tokens \cup {NoSession, Refused}  BY <2>2 DEF CallRecords
      <3> QED  BY <2>2, <3>1, <1>2, <1>10 DEF LoginsFit
    <2> QED  BY <2>1, <2>2, <1>6
  <1>12. AskedAlone'
    <2> SUFFICES ASSUME NEW d \in calls', d.op = "me"
                 PROVE  /\ page'[d.tab] = "none"
                        /\ session'[d.tab] # NoSession /\ session'[d.tab].token = d.token
                        /\ d.answer \in Tokens' => d.answer = d.token
                        /\ Of(d.tab)' = {d}
      BY DEF AskedAlone, Of
    <2>1. CASE d = answered
      <3>1. c.op = "me" /\ Of(c.tab) = {c}  BY <2>1, <1>5 DEF AskedAlone
      <3>2. {e \in calls' : e.tab = d.tab} = {d}  BY <3>1, <2>1, <1>5, <1>6 DEF Of
      <3> QED  BY <3>1, <3>2, <2>1, <1>1, <1>3, <1>5 DEF AskedAlone, Of
    <2>2. CASE d \in calls \ {c}
      <3>1. Of(d.tab) = {d}  BY <2>2 DEF AskedAlone
      <3>2. c.tab # d.tab  BY <3>1, <2>2 DEF Of
      <3>3. {e \in calls' : e.tab = d.tab} = {d}  BY <3>1, <3>2, <2>2, <1>5, <1>6 DEF Of
      <3>4. d.answer \in Tokens \cup {NoSession, Refused}  BY <2>2 DEF CallRecords
      <3> QED  BY <3>3, <3>4, <2>2, <1>1, <1>10 DEF AskedAlone, Of
    <2> QED  BY <2>1, <2>2, <1>6
  <1>13. PageFitsSession'  BY <1>1 DEF SessionFits, PageFitsSession
  <1>14. StoredIsShared'
    <2>1. \A s \in ({stored} \cup {session[t] : t \in Tabs}) \ {NoSession} :
            s.token \in Tokens /\ owner[s.token] = s.account
      BY DEF SessionTypeOK, Sessions, SessionFits, StoredIsShared
    <2> QED  BY <2>1, <1>1, <1>2 DEF SessionFits, StoredIsShared
  <1>15. WaitsEnd'
    <2> SUFFICES ASSUME NEW t \in waits
                 PROVE  \E d \in calls' : d.tab = t /\ d.op \in {"login", "logout"}
      BY <1>1 DEF WaitsEnd, Of
    <2>1. PICK d \in calls : d.tab = t /\ d.op \in {"login", "logout"}
      BY DEF SessionFits, WaitsEnd, Of
    <2> QED  BY <2>1, <1>5, <1>6
  <1> QED  BY <1>8, <1>9, <1>11, <1>12, <1>13, <1>14, <1>15 DEF SessionFits

\* A token expires.
LEMMA ExpiryFits ==
  ASSUME SessionInv, NEW n \in Tokens, Expire(n)
  PROVE  SessionInv'
  BY DEF SessionInv, Expire, SessionTypeOK, Sessions, Tokens, CallRecords, LoginsFit, AskedAlone,
     Of, SessionFits, PageFitsSession, StoredIsShared, WaitsEnd

\* A call of a tab that is not starting.
LEMMA SendingFits ==
  ASSUME SessionInv, NEW t \in Tabs, page[t] # "none",
         NEW op \in {"data", "login", "logout"},
         NEW token \in Tokens \cup {NoSession}, NEW account \in Accounts \cup {NoSession},
         op = "login" => account \in Accounts,
         Send(Call(t, op, token, account), calls),
         waits' = waits \/ (waits' = waits \cup {t} /\ op \in {"login", "logout"}),
         UNCHANGED <<owner, live, past, stored, session, page, foreign>>
  PROVE  SessionInv'
  <1> USE DEF SessionInv
  <1>1. PICK new : new = Call(t, op, token, account)  OBVIOUS
  <1>2. /\ new.tab = t /\ new.op = op /\ new.account = account /\ new.answer = NoSession
        /\ new \in CallRecords
    BY <1>1 DEF Call, CallRecords
  <1>3. calls' = calls \cup {new}  BY <1>1 DEF Send
  <1>4. Tokens' = Tokens /\ Sessions' = Sessions /\ CallRecords' = CallRecords
    BY DEF Tokens, Sessions, CallRecords
  <1>5. SessionTypeOK'
    <2>1. \A d \in calls' : d.tab \in Tabs /\ d.op \in {"me", "data", "login", "logout"}
      BY <1>2, <1>3 DEF SessionTypeOK
    <2>2. waits' \cup foreign' \subseteq Tabs  BY DEF SessionTypeOK
    <2> QED  BY <1>4, <2>1, <2>2 DEF SessionTypeOK
  <1>6. LoginsFit'
    <2>1. NoSession \notin Tokens  BY SessionTypesOf
    <2> QED  BY <2>1, <1>2, <1>3, <1>4 DEF LoginsFit
  <1>7. AskedAlone'
    <2> SUFFICES ASSUME NEW d \in calls', d.op = "me"
                 PROVE  /\ page[d.tab] = "none"
                        /\ session[d.tab] # NoSession /\ session[d.tab].token = d.token
                        /\ d.answer \in Tokens => d.answer = d.token
                        /\ {e \in calls' : e.tab = d.tab} = {d}
      BY <1>4 DEF AskedAlone, Of
    <2>1. d \in calls  BY <1>2, <1>3
    <2>2. page[d.tab] = "none" /\ {e \in calls : e.tab = d.tab} = {d}
      BY <2>1 DEF AskedAlone, Of
    <2>3. d.tab # t  BY <2>2
    <2>4. {e \in calls' : e.tab = d.tab} = {d}  BY <2>2, <2>3, <1>2, <1>3
    <2> QED  BY <2>1, <2>2, <2>4 DEF AskedAlone
  <1>8. PageFitsSession' /\ StoredIsShared'
    BY DEF SessionFits, PageFitsSession, StoredIsShared
  <1>9. WaitsEnd'  BY <1>2, <1>3 DEF SessionFits, WaitsEnd, Of
  <1> QED  BY <1>2, <1>3, <1>4, <1>5, <1>6, <1>7, <1>8, <1>9 DEF SessionFits

\* The user goes to another page.
LEMMA NavigationFits ==
  ASSUME SessionInv, NEW t \in Tabs, NEW target \in Targets, Navigate(t, target)
  PROVE  SessionInv'
  <1> USE DEF SessionInv
  <1>1. UNCHANGED <<owner, live, past, stored, session, waits, calls, foreign>>
    BY DEF Navigate
  <1>2. page[t] # "none" /\ Show(t, Guard(session[t], target))  BY DEF Navigate
  <1>3. session[t] \in Sessions \cup {NoSession}  BY DEF SessionTypeOK
  <1>4. NoSession \notin Sessions  BY SessionTypesOf
  <1>5. /\ Guard(session[t], target) \in Protected \cup {"login"}
        /\ Guard(session[t], target) \in Protected =>
             /\ session[t] # NoSession
             /\ RoleOf[session[t].account] = PageRole[Guard(session[t], target)]
        /\ Guard(session[t], target) = "login" => session[t] = NoSession
    BY <1>3, <1>4, GuardFits
  <1>6. PageFitsSession' /\ page' \in [Tabs -> Protected \cup {"none", "login"}]
    <2>1. PageFitsSession /\ session'[t] = session[t]  BY <1>1 DEF SessionFits
    <2>2. \A u \in Tabs \ {t} : session'[u] = session[u]  BY <1>1
    <2> HIDE DEF SessionInv
    <2>3. SessionTypeOK  BY DEF SessionInv
    <2> QED  BY <1>2, <1>5, <2>1, <2>2, <2>3, ShowingFits
  <1>7. SessionTypeOK'  BY <1>1, <1>6 DEF SessionTypeOK, Sessions, Tokens
  <1>8. AskedAlone'
    <2> SUFFICES ASSUME NEW d \in calls, d.op = "me"  PROVE page'[d.tab] = "none"
      BY <1>1 DEF AskedAlone, Of, Tokens
    <2>1. page[d.tab] = "none" /\ d.tab # t /\ d.tab \in Tabs
      BY <1>2 DEF AskedAlone, SessionTypeOK
    <2> QED  BY <2>1, <1>2 DEF Show, SessionTypeOK
  <1>9. calls' \subseteq CallRecords' /\ LoginsFit' /\ StoredIsShared' /\ WaitsEnd'
    BY <1>1 DEF CallRecords, LoginsFit, Tokens, SessionFits, StoredIsShared, WaitsEnd, Of
  <1> QED  BY <1>6, <1>7, <1>8, <1>9 DEF SessionFits

\* A tab is loaded anew.
LEMMA TabsLoad ==
  ASSUME SessionInv, NEW t \in Tabs, LoadSession(t)
  PROVE  SessionInv'
  <1>a. SessionTypeOK /\ calls \subseteq CallRecords /\ LoginsFit /\ AskedAlone
        /\ PageFitsSession /\ StoredIsShared /\ WaitsEnd
    BY DEF SessionInv, SessionFits
  <1>1. UNCHANGED <<owner, live, past>> /\ waits' = waits \ {t}  BY DEF LoadSession
  <1>2. PICK kept \in Sessions \cup {NoSession} :
          /\ kept = stored \/ kept = NoSession
          /\ Persist(t, kept)
          /\ IF kept = NoSession
             THEN Show(t, "login") /\ calls' = calls \ Of(t)
             ELSE Show(t, "none") /\ Send(Call(t, "me", kept.token, NoSession), calls \ Of(t))
    <2>1. stored \in Sessions \cup {NoSession}  BY <1>a DEF SessionTypeOK
    <2> QED  BY <2>1 DEF LoadSession
  <1>3. NoSession \notin Sessions /\ NoSession \notin Tokens  BY <1>a, SessionTypesOf
  <1>4. kept # NoSession => owner[kept.token] = kept.account
    BY <1>a, <1>2 DEF StoredIsShared
  <1>5. /\ stored' \in Sessions \cup {NoSession}
        /\ session' \in [Tabs -> Sessions \cup {NoSession}]
        /\ foreign' \subseteq Tabs
        /\ StoredIsShared'
    BY <1>a, <1>1, <1>2, <1>4, StoringShares
  <1>6. session'[t] = kept /\ \A u \in Tabs \ {t} : session'[u] = session[u]
    BY <1>a, <1>2 DEF Persist, SessionTypeOK
  <1>7. PICK p \in {"none", "login"} :
          Show(t, p) /\ (p = "login" <=> kept = NoSession)
    BY <1>2
  <1>8. PageFitsSession' /\ page' \in [Tabs -> Protected \cup {"none", "login"}]
    <2>1. p \notin Protected /\ p \in Protected \cup {"none", "login"}
      BY <1>7 DEF Protected, PageRole
    <2> QED  BY <1>a, <1>6, <1>7, <2>1, ShowingFits
  <1>9. page'[t] = p /\ \A u \in Tabs \ {t} : page'[u] = page[u]
    BY <1>a, <1>7 DEF Show, SessionTypeOK
  <1>10. PICK new : new = Call(t, "me", kept.token, NoSession)  OBVIOUS
  <1>11. /\ new.tab = t /\ new.op = "me" /\ new.token = kept.token /\ new.answer = NoSession
         /\ kept # NoSession => new \in CallRecords
    BY <1>2, <1>10 DEF Call, CallRecords, Sessions
  <1>12. calls' \ {new} \subseteq calls \ Of(t) /\ calls \ Of(t) \subseteq calls'
         /\ (new \in calls' => kept # NoSession)
    <2>1. new \notin calls \ Of(t) \/ kept # NoSession
      BY <1>11, <1>a DEF Of, CallRecords
    <2> QED  BY <2>1, <1>2, <1>10, <1>11 DEF Send, Of
  <1>13. calls' \subseteq CallRecords'
    <2>1. calls' \subseteq CallRecords  BY <1>a, <1>11, <1>12
    <2> QED  BY <2>1, <1>1 DEF CallRecords, Tokens
  <1>14. SessionTypeOK'
    <2>1. \A d \in calls' : d.tab \in Tabs /\ d.op \in {"me", "data", "login", "logout"}
      BY <1>13 DEF CallRecords
    <2>2. waits' \cup foreign' \subseteq Tabs /\ owner' \in Seq(Accounts)
          /\ live' \cup past' \subseteq Tokens'
      BY <1>a, <1>1, <1>5 DEF SessionTypeOK, Tokens
    <2>3. Sessions' = Sessions  BY <1>1 DEF Sessions, Tokens
    <2> QED  BY <1>5, <1>8, <2>1, <2>2, <2>3 DEF SessionTypeOK
  <1>15. LoginsFit'
    <2>1. \A d \in calls' : d.op = "login" => d \in calls  BY <1>11, <1>12
    <2> QED  BY <2>1, <1>a, <1>1 DEF LoginsFit, Tokens
  <1>16. AskedAlone'
    <2> SUFFICES ASSUME NEW d \in calls', d.op = "me"
                 PROVE  /\ page'[d.tab] = "none"
                        /\ session'[d.tab] # NoSession /\ session'[d.tab].token = d.token
                        /\ d.answer \in Tokens => d.answer = d.token
                        /\ {e \in calls' : e.tab = d.tab} = {d}
      BY <1>1 DEF AskedAlone, Of, Tokens
    <2>1. CASE d = new
      <3>1. {e \in calls' : e.tab = t} = {new}  BY <2>1, <1>11, <1>12 DEF Of
      <3>2. kept # NoSession  BY <2>1, <1>12
      <3> QED  BY <3>1, <3>2, <2>1, <1>3, <1>6, <1>7, <1>9, <1>11
    <2>2. CASE d # new
      <3>1. d \in calls /\ d.tab # t /\ d.tab \in Tabs
        BY <2>2, <1>a, <1>12 DEF Of, CallRecords
      <3>2. {e \in calls : e.tab = d.tab} = {d}  BY <3>1, <1>a DEF AskedAlone, Of
      <3>3. {e \in calls' : e.tab = d.tab} = {d}  BY <3>1, <3>2, <1>11, <1>12
      <3> QED  BY <3>1, <3>3, <1>a, <1>6, <1>9 DEF AskedAlone
    <2> QED  BY <2>1, <2>2
  <1>17. WaitsEnd'
    <2> SUFFICES ASSUME NEW u \in waits'
                 PROVE  \E d \in calls' : d.tab = u /\ d.op \in {"login", "logout"}
      BY DEF WaitsEnd, Of
    <2>1. u \in waits /\ u # t  BY <1>1
    <2>2. PICK d \in calls : d.tab = u /\ d.op \in {"login", "logout"}
      BY <2>1, <1>a DEF WaitsEnd, Of
    <2> QED  BY <2>1, <2>2, <1>12 DEF Of
  <1> QED  BY <1>5, <1>8, <1>13, <1>14, <1>15, <1>16, <1>17 DEF SessionInv, SessionFits

\* An answer whose tab ends on a page of its session.
LEMMA TabsAreAnswered ==
  ASSUME SessionInv, NEW c \in calls,
         calls' = calls \ {c}, UNCHANGED <<owner, live, past>>,
         \/ UNCHANGED <<stored, session, foreign>>
         \/ \E s \in Sessions \cup {NoSession} :
              Persist(c.tab, s) /\ (s # NoSession => owner[s.token] = s.account),
         \/ UNCHANGED <<page, session>>
         \/ \E p \in Protected \cup {"login"} :
              /\ Show(c.tab, p)
              /\ p \in Protected => session'[c.tab] # NoSession
                                    /\ RoleOf[session'[c.tab].account] = PageRole[p]
              /\ p = "login" => session'[c.tab] = NoSession,
         IF c.op \in {"login", "logout"} THEN waits' = waits \ {c.tab} ELSE waits' = waits
  PROVE  SessionInv'
  <1>a. SessionTypeOK /\ calls \subseteq CallRecords /\ LoginsFit /\ AskedAlone
        /\ PageFitsSession /\ StoredIsShared /\ WaitsEnd
    BY DEF SessionInv, SessionFits
  <1>b. c.tab \in Tabs /\ Tokens' = Tokens /\ Sessions' = Sessions /\ CallRecords' = CallRecords
    BY <1>a DEF SessionTypeOK, Tokens, Sessions, CallRecords
  <1>1. /\ stored' \in Sessions \cup {NoSession}
        /\ session' \in [Tabs -> Sessions \cup {NoSession}]
        /\ foreign' \subseteq Tabs
        /\ StoredIsShared'
    <2>1. CASE UNCHANGED <<stored, session, foreign>>
      BY <2>1, <1>a DEF SessionTypeOK, StoredIsShared
    <2>2. CASE \E s \in Sessions \cup {NoSession} :
                 Persist(c.tab, s) /\ (s # NoSession => owner[s.token] = s.account)
      BY <2>2, <1>a, <1>b, StoringShares
    <2> QED  BY <2>1, <2>2
  <1>2. \A u \in Tabs \ {c.tab} : session'[u] = session[u]
    BY <1>a DEF Persist, SessionTypeOK
  <1>3. PageFitsSession' /\ page' \in [Tabs -> Protected \cup {"none", "login"}]
    <2>1. CASE UNCHANGED <<page, session>>
      BY <2>1, <1>a DEF PageFitsSession, SessionTypeOK
    <2>2. CASE \E p \in Protected \cup {"login"} :
              /\ Show(c.tab, p)
              /\ p \in Protected => session'[c.tab] # NoSession
                                    /\ RoleOf[session'[c.tab].account] = PageRole[p]
              /\ p = "login" => session'[c.tab] = NoSession
      BY <2>2, <1>a, <1>b, <1>2, ShowingFits
    <2> QED  BY <2>1, <2>2
  <1>4. \A u \in Tabs \ {c.tab} : page'[u] = page[u]
    BY <1>a DEF Show, SessionTypeOK
  <1>5. SessionTypeOK'
    <2>1. waits' \subseteq Tabs  BY <1>a DEF SessionTypeOK
    <2> QED  BY <1>a, <1>b, <1>1, <1>3, <2>1 DEF SessionTypeOK
  <1>6. calls' \subseteq CallRecords' /\ LoginsFit'
    BY <1>a, <1>b DEF LoginsFit
  <1>7. AskedAlone'
    <2> SUFFICES ASSUME NEW d \in calls', d.op = "me"
                 PROVE  /\ page'[d.tab] = "none"
                        /\ session'[d.tab] # NoSession /\ session'[d.tab].token = d.token
                        /\ d.answer \in Tokens => d.answer = d.token
                        /\ {e \in calls' : e.tab = d.tab} = {d}
      BY <1>b DEF AskedAlone, Of
    <2>1. {e \in calls : e.tab = d.tab} = {d} /\ d # c /\ d \in calls /\ d.tab \in Tabs
      BY <1>a DEF AskedAlone, Of, SessionTypeOK
    <2>2. d.tab # c.tab  BY <2>1
    <2>3. {e \in calls' : e.tab = d.tab} = {d}  BY <2>1
    <2> QED  BY <1>a, <1>2, <1>4, <2>1, <2>2, <2>3 DEF AskedAlone
  <1>8. WaitsEnd'
    <2> SUFFICES ASSUME NEW u \in waits'
                 PROVE  \E d \in calls' : d.tab = u /\ d.op \in {"login", "logout"}
      BY DEF WaitsEnd, Of
    <2>1. PICK d \in calls : d.tab = u /\ d.op \in {"login", "logout"}
      BY <1>a DEF WaitsEnd, Of
    <2>2. d # c  BY <2>1
    <2> QED  BY <2>1, <2>2
  <1> QED  BY <1>1, <1>3, <1>5, <1>6, <1>7, <1>8 DEF SessionInv, SessionFits

\* An answer comes, or that there is none.
LEMMA TabsReceive ==
  ASSUME SessionInv, NEW c \in calls, Receive(c)
  PROVE  SessionInv'
  <1>a. SessionTypeOK /\ calls \subseteq CallRecords /\ LoginsFit /\ AskedAlone
        /\ PageFitsSession /\ StoredIsShared /\ WaitsEnd
    BY DEF SessionInv, SessionFits
  <1>b. c \in CallRecords /\ c.tab \in Tabs /\ session[c.tab] \in Sessions \cup {NoSession}
    BY <1>a DEF CallRecords, SessionTypeOK
  <1>c. calls' = calls \ {c} /\ UNCHANGED <<owner, live, past>>  BY DEF Receive
  <1>d. NoSession \notin Sessions /\ \A n \in Tokens : owner[n] \in Accounts  BY <1>a, SessionTypesOf
  <1>1. CASE Initialized(c)
    <2>1. PICK s : s = [session[c.tab] EXCEPT !.account = owner[c.answer]]  BY Zenon
    <2>2. session[c.tab] \in Sessions /\ session[c.tab].token = c.answer
      BY <1>1, <1>a, <1>b DEF AskedAlone, Initialized
    <2>3. s \in Sessions /\ s.token = c.answer /\ s.account = owner[c.answer]
      BY <2>1, <2>2, <1>1, <1>d DEF Sessions, Initialized
    <2>4. Persist(c.tab, s) /\ c.op = "me" /\ waits' = waits  BY <1>1, <2>1 DEF Initialized
    <2>5. session'[c.tab] = s  BY <2>4, <1>a, <1>b DEF Persist, SessionTypeOK
    <2>6. PICK target \in Targets : Show(c.tab, Guard(s, target))
      BY <1>1, <2>5 DEF Initialized
    <2> QED  BY <2>3, <2>4, <2>5, <2>6, <1>c, <1>d, GuardFits, TabsAreAnswered
  <1>2. CASE LoggedIn(c)
    <2>1. PICK s : s = Entry(c.answer, c.account)  OBVIOUS
    <2>2. s \in Sessions /\ owner[s.token] = s.account
      BY <2>1, <1>2, <1>a DEF LoggedIn, LoginsFit, Entry, Sessions
    <2>3. Persist(c.tab, s) /\ c.op = "login" /\ waits' = waits \ {c.tab}
      BY <1>2, <2>1 DEF LoggedIn
    <2>4. session'[c.tab] = s  BY <2>3, <1>a, <1>b DEF Persist, SessionTypeOK
    <2>5. PICK target \in Targets : Show(c.tab, Guard(s, target))
      BY <1>2, <2>4 DEF LoggedIn
    <2> QED  BY <2>2, <2>3, <2>4, <2>5, <1>c, <1>d, GuardFits, TabsAreAnswered
  <1>3. CASE LoggedOut(c) \/ Unauthorized(c)
    <2>1. /\ Persist(c.tab, NoSession) /\ Show(c.tab, "login")
          /\ IF c.op \in {"login", "logout"} THEN waits' = waits \ {c.tab} ELSE waits' = waits
      BY <1>3 DEF LoggedOut, Unauthorized, Clear
    <2>2. session'[c.tab] = NoSession  BY <2>1, <1>a, <1>b DEF Persist, SessionTypeOK
    <2>3. "login" \notin Protected  BY DEF Protected, PageRole
    <2> QED  BY <2>1, <2>2, <2>3, <1>c, TabsAreAnswered
  <1>4. CASE Received(c)
    BY <1>4, <1>c, TabsAreAnswered DEF Received
  <1>5. CASE Failed(c)
    <2>1. /\ UNCHANGED <<stored, session, foreign>>
          /\ IF c.op \in {"login", "logout"} THEN waits' = waits \ {c.tab} ELSE waits' = waits
      BY <1>5 DEF Failed
    <2>2. CASE c.op = "me"
      <3>1. PICK target \in Targets : Show(c.tab, Guard(session[c.tab], target))
        BY <1>5, <2>2 DEF Failed
      <3> QED  BY <2>1, <3>1, <1>b, <1>c, <1>d, GuardFits, TabsAreAnswered
    <2>3. CASE c.op # "me"
      BY <1>5, <2>1, <2>3, <1>c, TabsAreAnswered DEF Failed
    <2> QED  BY <2>2, <2>3
  <1> QED  BY <1>1, <1>2, <1>3, <1>4, <1>5 DEF Receive

\* Every step keeps the invariant.
LEMMA SessionSteps == SessionInv /\ [SessionNext]_sessionVars => SessionInv'
  <1> SUFFICES ASSUME SessionInv, [SessionNext]_sessionVars  PROVE SessionInv'
    OBVIOUS
  <1>1. ASSUME NEW n \in Tokens, Expire(n)  PROVE SessionInv'  BY <1>1, ExpiryFits
  <1>2. ASSUME NEW t \in Tabs, LoadSession(t)  PROVE SessionInv'  BY <1>2, TabsLoad
  <1>3. ASSUME NEW t \in Tabs, Data(t) \/ Logout(t)  PROVE SessionInv'
    <2>1. StoredToken \in Tokens \cup {NoSession}
      BY DEF SessionInv, SessionTypeOK, StoredToken, Sessions
    <2>2. page[t] # "none"  BY <1>3 DEF Data, Logout, Protected, PageRole
    <2>3. CASE Data(t)
      BY <2>1, <2>2, <2>3, SendingFits DEF Data
    <2>4. CASE Logout(t)
      BY <2>1, <2>2, <2>4, SendingFits DEF Logout
    <2> QED  BY <1>3, <2>3, <2>4
  <1>4. ASSUME NEW t \in Tabs, NEW account \in Accounts, Submit(t, account)
        PROVE  SessionInv'
    BY <1>4, SendingFits DEF Submit
  <1>5. ASSUME NEW t \in Tabs, NEW target \in Targets, Navigate(t, target)
        PROVE  SessionInv'
    BY <1>5, NavigationFits
  <1>6. ASSUME NEW c \in calls, Handle(c)  PROVE SessionInv'  BY <1>6, HandlingFits
  <1>7. ASSUME NEW c \in calls, Receive(c)  PROVE SessionInv'  BY <1>7, TabsReceive
  <1>8. CASE UNCHANGED sessionVars
    BY <1>8 DEF sessionVars, SessionInv, SessionTypeOK, Sessions, Tokens, CallRecords, LoginsFit,
       AskedAlone, Of, SessionFits, PageFitsSession, StoredIsShared, WaitsEnd
  <1> QED  BY <1>1, <1>2, <1>3, <1>4, <1>5, <1>6, <1>7, <1>8 DEF SessionNext

LEMMA SessionHolds == SessionInv => SessionFits
  BY DEF SessionInv

\* Whatever tabs are loaded, log in and out, and whatever expires or comes late: a tab shows
\* a page only of the role of its session, the stored session is shared, and no button
\* waits for nothing (the store of the session, the router and the listener of main).
THEOREM PagesFitSessions == SessionSpec => []SessionFits
  BY SessionStarts, SessionSteps, SessionHolds, PTL DEF SessionSpec
-----------------------------------------------------------------------------
\* The device panel.

\* What the device panel does, without fairness.
PanelSpec == PanelInit /\ [][PanelNext]_panelVars

\* A list of the devices as it is on its way to the page.
Lists == [age : Nat, active : SUBSET Devices, pending : SUBSET Devices, forced : BOOLEAN]

\* A button that waits.
Buttons == [call : {"code", "unbind", "refresh"}, device : Devices, age : Nat]

PanelTypes ==
  /\ PanelTypeOK
  /\ shown \in [active : SUBSET Devices, pending : SUBSET Devices]
  /\ lists \subseteq Lists
  /\ busy \in Buttons \cup {NoDevice}
  /\ announced \in [Devices -> Nat]
  /\ listed \in Nat /\ newest \in Nat /\ visits \in Nat
  /\ polling \in BOOLEAN /\ visiting \in BOOLEAN
  /\ overtaken \in BOOLEAN /\ initialized \in BOOLEAN

\* A view of the devices on its way to the page: a list, or the code that has
\* been made, which is a list of one device.
ViewOf(b) ==
  IF b # NoDevice /\ b.call = "code"
  THEN {[age |-> b.age, active |-> {}, pending |-> {b.device}, forced |-> FALSE]} ELSE {}

Views == lists \cup ViewOf(busy)

\* Devices only go on: what a view says of one was so when it was made.
ViewsWereTrue ==
  /\ \A v \in Views : v.age <= listed
  /\ \A v \in Views, d \in Devices :
       /\ d \in v.pending /\ device[d] # "pending" => v.age < listed
       /\ d \in v.active => device[d] \in {"active", "gone"} /\ d \notin v.pending
  /\ \A v, w \in Views, d \in Devices :
       d \in v.pending /\ d \in w.active => v.age < w.age

\* A device that has been announced has gone past "pending", and unless views overtook
\* each other nothing on its way is newer and says otherwise.
AnnouncedIsPast ==
  /\ \A d \in Devices : announced[d] > 0 => device[d] \in {"active", "gone"}
  /\ ~overtaken =>
       \A d \in Devices :
         /\ announced[d] <= 1
         /\ announced[d] > 0 =>
              d \notin shown.pending /\ \A v \in Views : d \in v.pending => v.age < newest

\* A code that is shown is being asked about; before the first visit there is nothing.
CodeIsPolled ==
  /\ visits = 0 => code = NoDevice /\ lists = {} /\ busy = NoDevice /\ ~visiting /\ ~polling
  /\ code # NoDevice /\ visits = 1 /\ visiting => polling

\* The inductive invariant.
PanelInv == PanelTypes /\ ViewsWereTrue /\ AnnouncedIsPast /\ CodeIsPolled

LEMMA PanelStarts == PanelInit => PanelInv
  <1> SUFFICES ASSUME PanelInit  PROVE PanelInv
    OBVIOUS
  <1>1. Views = {} /\ \A d \in Devices : ~(announced[d] > 0) /\ announced[d] <= 1
    BY DEF PanelInit, Views, ViewOf
  <1>2. PanelTypes
    <2>1. shown = [active |-> {}, pending |-> {}]  BY DEF PanelInit, Nothing
    <2>2. shown \in [active : SUBSET Devices, pending : SUBSET Devices]  BY <2>1
    <2>3. shown.active = {} /\ shown.pending = {}  BY <2>1
    <2>4. device \in [Devices -> {"none", "pending", "active", "gone"}]
          /\ announced \in [Devices -> Nat]
      BY DEF PanelInit
    <2>5. newest <= listed /\ code = NoDevice /\ ~polling /\ ~initialized /\ ~visiting /\ ~overtaken
      BY DEF PanelInit
    <2>6. {polling, initialized, visiting, overtaken} \subseteq BOOLEAN
      BY Zenon DEF PanelInit
    <2>7. PanelTypeOK  BY <2>3, <2>4, <2>5, <2>6 DEF PanelTypeOK
    <2> QED  BY Zenon, <2>2, <2>4, <2>7 DEF PanelInit, PanelTypes
  <1>3. ViewsWereTrue  BY <1>1 DEF ViewsWereTrue
  <1>4. AnnouncedIsPast  BY <1>1 DEF AnnouncedIsPast
  <1>5. CodeIsPolled  BY DEF PanelInit, CodeIsPolled
  <1> QED  BY <1>2, <1>3, <1>4, <1>5 DEF PanelInv

\* What the backend or the page does, when no view comes about.
LEMMA DevicesGoOn ==
  ASSUME PanelInv, device' \in [Devices -> {"none", "pending", "active", "gone"}],
         listed' = listed + 1,
         \A d \in Devices : device[d] \in {"active", "gone"} => device'[d] \in {"active", "gone"}
  PROVE  /\ \A v \in Views : v.age < listed' /\ v.age \in Nat
         /\ \A v \in Views, d \in Devices :
              /\ d \in v.active => device'[d] \in {"active", "gone"} /\ d \notin v.pending
         /\ \A d \in Devices : announced[d] > 0 => device'[d] \in {"active", "gone"}
  <1>1. \A v \in Views : v.age \in Nat
    BY DEF PanelInv, PanelTypes, Views, ViewOf, Lists, Buttons
  <1> QED  BY <1>1 DEF PanelInv, PanelTypes, ViewsWereTrue, AnnouncedIsPast

\* A device is bound, or is gone, elsewhere.
LEMMA MovesAreAnnounced ==
  ASSUME PanelInv, NEW d \in Devices, DeviceMoves(d)
  PROVE  PanelInv'
  <1>1. /\ device' \in [Devices -> {"none", "pending", "active", "gone"}] /\ listed' = listed + 1
        /\ \A e \in Devices : device[e] \in {"active", "gone"} => device'[e] \in {"active", "gone"}
    BY DEF PanelInv, PanelTypes, PanelTypeOK, DeviceMoves, Change
  <1>2. UNCHANGED <<shown, code, polling, busy, initialized, lists, newest, overtaken,
                    announced, visits, visiting>>
    BY DEF DeviceMoves
  <1>3. Views' = Views  BY <1>2 DEF Views, ViewOf
  <1>4. PanelTypes'  BY <1>1, <1>2 DEF PanelInv, PanelTypes, PanelTypeOK, Lists, Buttons, Devices
  <1>5. ViewsWereTrue'
    <2>1. \A v \in Views : v.age \in Nat
      BY DEF PanelInv, PanelTypes, Views, ViewOf, Lists, Buttons
    <2>2. /\ \A v \in Views : v.age < listed'
          /\ \A v \in Views, e \in Devices :
              /\ e \in v.active => device'[e] \in {"active", "gone"} /\ e \notin v.pending
      BY <1>1, DevicesGoOn
    <2>3. \A v, w \in Views, e \in Devices : e \in v.pending /\ e \in w.active => v.age < w.age
      BY DEF PanelInv, ViewsWereTrue
    <2>4. listed' \in Nat  BY <1>4 DEF PanelTypes
    <2> QED  BY <1>3, <2>1, <2>2, <2>3, <2>4 DEF ViewsWereTrue, Devices
  <1>6. AnnouncedIsPast'
    <2>1. \A e \in Devices : announced[e] > 0 => device'[e] \in {"active", "gone"}
      BY <1>1, DevicesGoOn
    <2> QED  BY <1>2, <1>3, <2>1 DEF PanelInv, AnnouncedIsPast, Devices
  <1>7. CodeIsPolled'  BY <1>2 DEF PanelInv, CodeIsPolled
  <1> QED  BY <1>4, <1>5, <1>6, <1>7 DEF PanelInv

\* The page asks for a list, or lets go of views.
LEMMA ViewsComeAndGo ==
  ASSUME PanelInv, UNCHANGED <<device, listed, announced, overtaken>>,
         shown'.pending = shown.pending, newest' = newest,
         NEW forced \in BOOLEAN, Views' \subseteq Views \cup {List(forced)}
  PROVE  ViewsWereTrue' /\ AnnouncedIsPast'
  <1>1. PICK new : new = List(forced)  OBVIOUS
  <1>2. /\ new.age = listed /\ new.active = Having("active") /\ new.pending = Having("pending")
        /\ Views' \subseteq Views \cup {new}
    BY <1>1 DEF List
  <1>3. \A d \in Devices : (d \in new.active <=> device[d] = "active")
                           /\ (d \in new.pending <=> device[d] = "pending")
    BY <1>2 DEF Having
  <1>4. listed \in Nat /\ \A v \in Views : v.age \in Nat
    BY DEF PanelInv, PanelTypes, Views, ViewOf, Lists, Buttons
  <1>5. ViewsWereTrue'
    <2>1. /\ \A v \in Views' : v.age <= listed
          /\ \A v \in Views', d \in Devices :
            /\ d \in v.pending /\ device[d] # "pending" => v.age < listed
            /\ d \in v.active => device[d] \in {"active", "gone"} /\ d \notin v.pending
      BY <1>2, <1>3, <1>4 DEF PanelInv, ViewsWereTrue
    <2>2. ASSUME NEW v \in Views', NEW w \in Views', NEW d \in Devices,
                 d \in v.pending, d \in w.active
          PROVE  v.age < w.age
      <3>1. CASE w \in Views /\ v \in Views  BY <2>2, <3>1 DEF PanelInv, ViewsWereTrue
      <3>2. CASE w = new  BY <3>2, <2>1, <2>2, <1>2, <1>3
      <3>3. CASE v = new  BY <3>3, <2>1, <2>2, <1>2, <1>3
      <3> QED  BY <1>2, <3>1, <3>2, <3>3
    <2> QED  BY <2>1, <2>2 DEF ViewsWereTrue, Devices
  <1>6. AnnouncedIsPast'
    <2>1. \A d \in Devices : announced[d] > 0 => d \notin new.pending
      BY <1>3 DEF PanelInv, AnnouncedIsPast
    <2> QED  BY <1>2, <2>1 DEF PanelInv, AnnouncedIsPast, Devices
  <1> QED  BY <1>5, <1>6

LEMMA AskedTypes ==
  ASSUME PanelTypes, NEW forced \in BOOLEAN
  PROVE  List(forced) \in Lists
  BY DEF List, Lists, Having, PanelTypes

\* The page is opened or left, asks for the list, or hears of the unbinding.
LEMMA VisitsKeep ==
  ASSUME PanelInv, Visit \/ Leave \/ Poll \/ ReceiveUnbind \/ CallFails
  PROVE  PanelInv'
  <1>1. UNCHANGED <<device, listed, shown, code, initialized, newest, overtaken, announced>>
    BY Zenon DEF Visit, Leave, Poll, ReceiveUnbind, CallFails
  <1>2. PICK forced \in BOOLEAN : lists' \subseteq lists \cup {List(forced)}
    BY Zenon DEF Visit, Leave, Poll, ReceiveUnbind, CallFails, Asked
  <1>3. busy' \in Buttons \cup {NoDevice} /\ ViewOf(busy') \subseteq ViewOf(busy)
    <2>1. CASE busy' = busy  BY <2>1 DEF PanelInv, PanelTypes
    <2>2. CASE busy' = NoDevice  BY <2>2 DEF ViewOf
    <2>3. CASE ReceiveUnbind
      <3>1. busy \in Buttons /\ busy' = [busy EXCEPT !.call = "refresh"]
        BY <2>3 DEF ReceiveUnbind, PanelInv, PanelTypes
      <3>2. busy' \in Buttons /\ busy'.call = "refresh"  BY <3>1 DEF Buttons
      <3> QED  BY <3>2 DEF ViewOf
    <2> QED  BY Zenon, <2>1, <2>2, <2>3 DEF Visit, Leave, Poll, CallFails
  <1>4. Views' \subseteq Views \cup {List(forced)}  BY <1>2, <1>3 DEF Views
  <1>5. ViewsWereTrue' /\ AnnouncedIsPast'  BY <1>1, <1>4, ViewsComeAndGo
  <1>6. PanelTypes'
    <2>1. lists' \subseteq Lists  BY <1>2, AskedTypes DEF PanelInv, PanelTypes
    <2>2. /\ {polling', initialized', visiting', overtaken'} \subseteq BOOLEAN
          /\ visits' \in Nat
      <3>1. overtaken' = overtaken /\ initialized' = initialized  BY <1>1
      <3>2. /\ polling' = polling \/ polling' = FALSE
            /\ visiting' = visiting \/ visiting' = TRUE \/ visiting' = FALSE
            /\ visits' = visits \/ visits' = visits + 1
        BY Zenon DEF Visit, Leave, Poll, ReceiveUnbind, CallFails
      <3>3. polling' \in BOOLEAN /\ visiting' \in BOOLEAN  BY Zenon, <3>2 DEF PanelInv, PanelTypes
      <3>4. visits' \in Nat  BY <3>2 DEF PanelInv, PanelTypes
      <3> QED  BY <3>1, <3>3, <3>4 DEF PanelInv, PanelTypes
    <2> QED  BY <1>1, <1>3, <2>1, <2>2 DEF PanelInv, PanelTypes, PanelTypeOK, Devices, Lists, Buttons
  <1>7. CodeIsPolled'
    <2>1. /\ visits \in Nat
          /\ visits = 0 => code = NoDevice /\ lists = {} /\ busy = NoDevice /\ ~visiting /\ ~polling
          /\ code # NoDevice /\ visits = 1 /\ visiting => polling
      BY DEF PanelInv, PanelTypes, CodeIsPolled
    <2>2. CASE Visit
      <3>1. visits' = visits + 1 /\ code' = code  BY <2>2 DEF Visit
      <3>2. visits' # 0 /\ (visits' = 1 => visits = 0)  BY <3>1, <2>1
      <3> QED  BY <3>1, <3>2, <2>1 DEF CodeIsPolled
    <2>3. CASE Leave
      <3>1. ~visiting' /\ visits # 0 /\ visits' = visits  BY <2>1, <2>3 DEF Leave
      <3> QED  BY <3>1 DEF CodeIsPolled
    <2>4. CASE Poll \/ ReceiveUnbind \/ CallFails
      <3>1. /\ visits' = visits /\ visiting' = visiting /\ polling' = polling /\ code' = code
            /\ busy # NoDevice \/ polling
        BY Zenon, <2>4 DEF Poll, ReceiveUnbind, CallFails
      <3>2. visits # 0  BY <3>1, <2>1
      <3> QED  BY <3>1, <3>2, <2>1 DEF CodeIsPolled
    <2> QED  BY <2>2, <2>3, <2>4
  <1> QED  BY <1>5, <1>6, <1>7 DEF PanelInv

\* A list does not come.
LEMMA LostListsKeep ==
  ASSUME PanelInv, NEW answer \in lists, LoseList(answer)
  PROVE  PanelInv'
  <1>1. /\ lists' \subseteq lists /\ busy' \in {NoDevice, busy}
        /\ UNCHANGED <<device, listed, shown, code, polling, initialized, newest, overtaken,
                       announced, visits, visiting>>
    BY DEF LoseList
  <1>2. Views' \subseteq Views  BY <1>1 DEF Views, ViewOf
  <1>3. ViewsWereTrue' /\ AnnouncedIsPast'  BY Zenon, <1>1, <1>2, ViewsComeAndGo
  <1>4. PanelTypes'
    BY <1>1 DEF PanelInv, PanelTypes, PanelTypeOK, Devices, Lists, Buttons
  <1>5. CodeIsPolled'  BY <1>1 DEF PanelInv, CodeIsPolled
  <1> QED  BY <1>3, <1>4, <1>5 DEF PanelInv

\* A list comes and is shown: what it says active and was shown pending is announced.
LEMMA AppliedListsFit ==
  ASSUME PanelInv, NEW answer \in lists, ReceiveList(answer)
  PROVE  PanelInv'
  <1>1. /\ shown' = [active |-> answer.active, pending |-> answer.pending]
        /\ polling' = (answer.active \cup answer.pending # {})
        /\ code' = IF polling' THEN code ELSE NoDevice
        /\ overtaken' = (overtaken \/ answer.age < newest)
        /\ newest' = IF answer.age < newest THEN newest ELSE answer.age
        /\ initialized' = TRUE
        /\ lists' = lists \ {answer} /\ busy' \in {NoDevice, busy}
        /\ UNCHANGED <<device, listed, visits, visiting>>
    BY DEF ReceiveList, Apply
  <1>2. /\ answer \in Views /\ Views' \subseteq Views /\ answer \in Lists
        /\ answer.active \subseteq Devices /\ answer.pending \subseteq Devices /\ answer.age \in Nat
    BY <1>1 DEF Views, ViewOf, PanelInv, PanelTypes, Lists
  <1>3. announced' \in [Devices -> Nat]
        /\ \A d \in Devices : \/ announced'[d] = announced[d]
                              \/ /\ announced'[d] = announced[d] + 1
                                 /\ d \in answer.active /\ d \in shown.pending
    <2>1. CASE announced' = announced  BY <2>1 DEF PanelInv, PanelTypes
    <2>2. CASE \E d \in NewlyBound(answer) : announced' = [announced EXCEPT ![d] = @ + 1]
      BY <2>2 DEF PanelInv, PanelTypes, NewlyBound
    <2> QED  BY <2>1, <2>2 DEF ReceiveList, Apply
  <1>4. PanelTypes'
    <2>1. newest' \in Nat /\ newest' <= listed' /\ code' \in Devices \cup {NoDevice}
      <3>1. answer.age <= listed
        BY <1>2 DEF PanelInv, ViewsWereTrue
      <3>2. newest' = newest \/ newest' = answer.age  BY <1>1
      <3>3. newest \in Nat /\ newest <= listed  BY DEF PanelInv, PanelTypes, PanelTypeOK
      <3>4. newest' \in Nat /\ newest' <= listed'  BY <1>1, <1>2, <3>1, <3>2, <3>3
      <3> QED  BY <1>1, <3>4 DEF PanelInv, PanelTypes, PanelTypeOK
    <2>2. polling' \in BOOLEAN /\ overtaken' \in BOOLEAN  BY <1>1 DEF PanelInv, PanelTypes, PanelTypeOK
    <2> QED
      BY Zenon, <1>1, <1>2, <1>3, <2>1, <2>2
      DEF PanelInv, PanelTypes, PanelTypeOK, Lists, Buttons, Devices
  <1>5. ViewsWereTrue'
    BY <1>1, <1>2 DEF PanelInv, ViewsWereTrue, Devices
  <1>6. \A d \in Devices : announced'[d] > 0 => device'[d] \in {"active", "gone"}
    BY <1>1, <1>2, <1>3 DEF PanelInv, PanelTypes, ViewsWereTrue, AnnouncedIsPast
  <1>7. ASSUME ~overtaken', NEW d \in Devices
        PROVE  /\ announced'[d] <= 1
               /\ announced'[d] > 0 =>
                    /\ d \notin shown'.pending
                    /\ \A v \in Views' : d \in v.pending => v.age < newest'
    <2>1. ~overtaken /\ newest <= answer.age /\ newest' = answer.age
          /\ newest \in Nat /\ announced[d] \in Nat /\ announced[d] <= 1
      <3>1. ~overtaken /\ ~(answer.age < newest)  BY Zenon, <1>1, <1>7
      <3>2. newest \in Nat /\ announced[d] \in Nat  BY DEF PanelInv, PanelTypes
      <3>3. announced[d] <= 1  BY <3>1 DEF PanelInv, AnnouncedIsPast
      <3>4. newest' = answer.age  BY <1>1, <3>1
      <3> QED  BY <3>1, <3>2, <3>3, <3>4, <1>2
    <2>2. \A v \in Views : v.age \in Nat
      BY DEF PanelInv, PanelTypes, Views, ViewOf, Lists, Buttons
    <2>3. CASE announced[d] > 0
      <3>1. d \notin shown.pending /\ \A v \in Views : d \in v.pending => v.age < newest
        BY <2>1, <2>3 DEF PanelInv, AnnouncedIsPast
      <3>2. announced'[d] = announced[d] /\ d \notin answer.pending
        BY <3>1, <1>2, <1>3, <2>1
      <3> QED  BY <3>1, <3>2, <2>1, <2>2, <1>1, <1>2
    <2>4. CASE announced[d] = 0 /\ d \in answer.active
      <3>1. d \notin answer.pending /\ \A v \in Views : d \in v.pending => v.age < answer.age
        BY <2>4, <1>2 DEF PanelInv, ViewsWereTrue
      <3> QED  BY <3>1, <2>1, <2>4, <1>1, <1>2, <1>3
    <2>5. CASE announced[d] = 0 /\ d \notin answer.active
      BY <2>5, <1>3
    <2> QED  BY <2>1, <2>3, <2>4, <2>5
  <1>8. AnnouncedIsPast'
    BY <1>6, <1>7 DEF AnnouncedIsPast, Devices
  <1>9. CodeIsPolled'  BY <1>1, <1>2 DEF PanelInv, CodeIsPolled
  <1> QED  BY <1>4, <1>5, <1>8, <1>9 DEF PanelInv

\* A code is made for a device that was not there.
LEMMA CodesAreNew ==
  ASSUME PanelInv, NEW d \in Devices, GenerateDeviceCode(d)
  PROVE  PanelInv'
  <1>1. /\ device' \in [Devices -> {"none", "pending", "active", "gone"}] /\ listed' = listed + 1
        /\ \A e \in Devices : device[e] \in {"active", "gone"} => device'[e] \in {"active", "gone"}
        /\ device[d] = "none" /\ device'[d] = "pending"
    BY DEF PanelInv, PanelTypes, PanelTypeOK, GenerateDeviceCode, Change
  <1>2. /\ busy' = [call |-> "code", device |-> d, age |-> listed']
        /\ busy = NoDevice /\ visiting
        /\ UNCHANGED <<shown, code, polling, initialized, lists, newest, overtaken, announced,
                       visits, visiting>>
    BY DEF GenerateDeviceCode
  <1>3. listed' \in Nat /\ newest <= listed'  BY <1>1 DEF PanelInv, PanelTypes, PanelTypeOK
  <1>4. PanelTypes'
    <2>1. busy' \in Buttons  BY <1>2, <1>3 DEF Buttons
    <2> QED  BY <1>1, <1>2, <1>3, <2>1 DEF PanelInv, PanelTypes, PanelTypeOK, Lists, Buttons, Devices
  <1>5. PICK new : new = [age |-> busy'.age, active |-> {}, pending |-> {busy'.device}, forced |-> FALSE]
    BY Zenon
  <1>6. /\ new.age = listed' /\ new.active = {} /\ new.pending = {d}
        /\ Views' \subseteq Views \cup {new}
    BY <1>2, <1>5 DEF Views, ViewOf
  <1>7. /\ \A v \in Views : v.age < listed' /\ v.age \in Nat
        /\ \A v \in Views, e \in Devices :
              /\ e \in v.active => device'[e] \in {"active", "gone"} /\ e \notin v.pending
        /\ \A e \in Devices : announced[e] > 0 => device'[e] \in {"active", "gone"}
    <2>1. \A v \in Views : v.age \in Nat
      BY DEF PanelInv, PanelTypes, Views, ViewOf, Lists, Buttons
    <2> QED  BY <1>1, <2>1, DevicesGoOn
  <1>8. ViewsWereTrue'
    <2>1. /\ \A v \in Views' : v.age <= listed'
          /\ \A v \in Views', e \in Devices :
            /\ e \in v.pending /\ device'[e] # "pending" => v.age < listed'
            /\ e \in v.active => device'[e] \in {"active", "gone"} /\ e \notin v.pending
      BY <1>1, <1>3, <1>6, <1>7
    <2>2. ASSUME NEW v \in Views', NEW w \in Views', NEW e \in Devices,
                 e \in v.pending, e \in w.active
          PROVE  v.age < w.age
      <3>1. w \in Views  BY <2>2, <1>6
      <3>2. v \in Views
        <4>1. e # d  BY <2>1, <2>2, <1>1
        <4> QED  BY <4>1, <2>2, <1>6
      <3> QED  BY <2>2, <3>1, <3>2 DEF PanelInv, ViewsWereTrue
    <2> QED  BY <2>1, <2>2 DEF ViewsWereTrue, Devices
  <1>9. AnnouncedIsPast'
    <2>1. ~(announced[d] > 0)  BY <1>1 DEF PanelInv, AnnouncedIsPast
    <2> QED  BY <2>1, <1>2, <1>6, <1>7 DEF PanelInv, AnnouncedIsPast, Devices
  <1>10. CodeIsPolled'  BY <1>2 DEF PanelInv, CodeIsPolled
  <1> QED  BY <1>4, <1>8, <1>9, <1>10 DEF PanelInv

\* A device is unbound.
LEMMA UnbindingKeeps ==
  ASSUME PanelInv, NEW d \in Devices, Unbind(d)
  PROVE  PanelInv'
  <1>1. /\ busy' = [call |-> "unbind", device |-> d, age |-> listed]
        /\ busy = NoDevice /\ visiting
        /\ UNCHANGED <<shown, code, polling, initialized, lists, newest, overtaken, announced,
                       visits, visiting>>
    BY DEF Unbind
  <1>2. busy' \in Buttons /\ Views' = Views
    BY <1>1 DEF Buttons, PanelInv, PanelTypes, Views, ViewOf
  <1>3. CodeIsPolled'  BY <1>1 DEF PanelInv, CodeIsPolled
  <1>4. CASE UNCHANGED <<device, listed>>
    <2>1. ViewsWereTrue' /\ AnnouncedIsPast'  BY Zenon, <1>1, <1>2, <1>4, ViewsComeAndGo
    <2>2. PanelTypes'
      BY <1>1, <1>2, <1>4 DEF PanelInv, PanelTypes, PanelTypeOK, Lists, Buttons, Devices
    <2> QED  BY <1>3, <2>1, <2>2 DEF PanelInv
  <1>5. CASE device[d] = "active" /\ Change([device EXCEPT ![d] = "gone"])
    <2>1. /\ device' \in [Devices -> {"none", "pending", "active", "gone"}] /\ listed' = listed + 1
          /\ \A e \in Devices : device[e] \in {"active", "gone"} => device'[e] \in {"active", "gone"}
      BY <1>5 DEF PanelInv, PanelTypes, PanelTypeOK, Change
    <2>2. /\ \A v \in Views : v.age < listed' /\ v.age \in Nat
          /\ \A v \in Views, e \in Devices :
              /\ e \in v.active => device'[e] \in {"active", "gone"} /\ e \notin v.pending
          /\ \A e \in Devices : announced[e] > 0 => device'[e] \in {"active", "gone"}
      <3>1. \A v \in Views : v.age \in Nat
        BY DEF PanelInv, PanelTypes, Views, ViewOf, Lists, Buttons
      <3> QED  BY <2>1, <3>1, DevicesGoOn
    <2>3. listed' \in Nat /\ newest <= listed'  BY <2>1 DEF PanelInv, PanelTypes, PanelTypeOK
    <2>4. PanelTypes'
      BY Zenon, <1>1, <1>2, <2>1, <2>3
      DEF PanelInv, PanelTypes, PanelTypeOK, Lists, Buttons, Devices
    <2>5. ViewsWereTrue'
      BY <1>2, <2>2, <2>3 DEF PanelInv, ViewsWereTrue, Devices
    <2>6. AnnouncedIsPast'
      BY <1>1, <1>2, <2>2 DEF PanelInv, AnnouncedIsPast, Devices
    <2> QED  BY <1>3, <2>4, <2>5, <2>6 DEF PanelInv
  <1> QED  BY <1>4, <1>5 DEF Unbind

\* The code that was made is shown.
LEMMA CodesAreShown ==
  ASSUME PanelInv, ReceiveCode
  PROVE  PanelInv'
  <1>1. /\ busy \in Buttons /\ busy # NoDevice /\ busy.call = "code"
        /\ code' = busy.device /\ shown' = [shown EXCEPT !.pending = {busy.device}]
        /\ polling' = TRUE /\ overtaken' = (overtaken \/ busy.age < newest)
        /\ newest' = IF busy.age < newest THEN newest ELSE busy.age
        /\ busy' = NoDevice
        /\ UNCHANGED <<device, listed, initialized, lists, announced, visits, visiting>>
    BY DEF ReceiveCode, PanelInv, PanelTypes
  <1>2. PICK view : view = [age |-> busy.age, active |-> {}, pending |-> {busy.device}, forced |-> FALSE]
    BY Zenon
  <1>3. view \in Views /\ view.age = busy.age /\ view.pending = {busy.device} /\ Views' \subseteq Views
    BY <1>1, <1>2 DEF Views, ViewOf
  <1>4. busy.age \in Nat /\ busy.device \in Devices /\ busy.age <= listed /\ newest \in Nat
    BY <1>1, <1>3 DEF Buttons, PanelInv, PanelTypes, ViewsWereTrue
  <1>5. shown'.pending = {busy.device}
        /\ shown' \in [active : SUBSET Devices, pending : SUBSET Devices]
    BY <1>1, <1>4 DEF PanelInv, PanelTypes
  <1>6. PanelTypes'
    <2>1. newest' \in Nat /\ newest' <= listed' /\ overtaken' \in BOOLEAN
      BY <1>1, <1>4 DEF PanelInv, PanelTypes, PanelTypeOK
    <2> QED  BY <1>1, <1>4, <1>5, <2>1 DEF PanelInv, PanelTypes, PanelTypeOK, Lists, Buttons, Devices
  <1>7. ViewsWereTrue'
    BY <1>1, <1>3 DEF PanelInv, ViewsWereTrue, Devices
  <1>8. AnnouncedIsPast'
    <2>1. \A v \in Views : v.age \in Nat
      BY DEF PanelInv, PanelTypes, Views, ViewOf, Lists, Buttons
    <2>2. ASSUME ~overtaken', NEW d \in Devices, announced[d] > 0
          PROVE  d \notin shown'.pending /\ \A v \in Views' : d \in v.pending => v.age < newest'
      <3>1. ~overtaken /\ newest <= busy.age /\ newest' = busy.age
        <4>1. ~overtaken /\ ~(busy.age < newest)  BY Zenon, <1>1, <2>2
        <4> QED  BY <4>1, <1>1, <1>4
      <3>2. \A v \in Views : d \in v.pending => v.age < newest
        BY <3>1, <2>2 DEF PanelInv, AnnouncedIsPast
      <3> QED  BY <3>1, <3>2, <2>1, <1>3, <1>4, <1>5
    <2> QED  BY Zenon, <2>2, <1>1 DEF PanelInv, AnnouncedIsPast, Devices
  <1>9. CodeIsPolled'  BY <1>1 DEF PanelInv, CodeIsPolled
  <1> QED  BY <1>6, <1>7, <1>8, <1>9 DEF PanelInv

\* Every step keeps the invariant.
LEMMA PanelSteps == PanelInv /\ [PanelNext]_panelVars => PanelInv'
  <1> SUFFICES ASSUME PanelInv, [PanelNext]_panelVars  PROVE PanelInv'
    OBVIOUS
  <1>1. CASE UNCHANGED panelVars
    BY Zenon, <1>1 DEF panelVars, PanelInv, PanelTypes, PanelTypeOK, Lists, Buttons,
       Devices, ViewsWereTrue, Views, ViewOf, AnnouncedIsPast, CodeIsPolled
  <1> QED
    BY <1>1, MovesAreAnnounced, VisitsKeep, LostListsKeep, AppliedListsFit, CodesAreNew,
       UnbindingKeeps, CodesAreShown DEF PanelNext

LEMMA PanelHolds == PanelInv => AnnouncedOnce
  BY DEF PanelInv, AnnouncedIsPast, CodeIsPolled, AnnouncedOnce

\* Whatever lists and codes are under way together: a device is announced once, and not
\* again when it is listed, unless a list was overtaken; and a code that is shown is asked
\* about (studentWorkbench.ts).
THEOREM AnnouncementsAreMadeOnce == PanelSpec => []AnnouncedOnce
  BY PanelStarts, PanelSteps, PanelHolds, PTL DEF PanelSpec
-----------------------------------------------------------------------------
\* The agent console.

\* What the console of the agent does, without fairness.
ConsoleSpec == ConsoleInit /\ [][ConsoleNext]_consoleVars

PlanRecords == [intent : WriteIntents, status : {"pending", "approved", "rejected"}]

StageRecords == [id : Nat, status : StageStatus]

ConsoleTypes ==
  /\ intent \in Intents \cup {"experience"}
  /\ waiting \in {0, 1} /\ sending \in BOOLEAN /\ (sending <=> waiting = 1)
  /\ asked \in [Intents -> Nat]
  /\ plans \in Seq(PlanRecords)
  /\ tree \in Seq(StageRecords) /\ nextStage \in Nat \ {0}

PlansOf(i) == {n \in DOMAIN plans : plans[n].intent = i}

\* The text that waits is the one that has no plan yet, and its intent is the page's.
EveryTextIsAnswered ==
  /\ waiting = 1 => intent \in Intents
  /\ \A i \in Intents \cap WriteIntents :
       asked[i] = CountOf(i) + IF waiting = 1 /\ intent = i THEN 1 ELSE 0

\* The evidence is that of the plans that were approved, all of them.
OnlyApprovedIsWritten ==
  \A e : e \in evidence <=>
    \E n \in DOMAIN plans : plans[n].status = "approved" /\ e \in Evidence(plans[n].intent)

\* The stages ever made are in the tree, each once.
StagesAreAllThere ==
  /\ Len(tree) = nextStage - 1
  /\ \A id : id \in 1 .. nextStage - 1 <=> \E k \in DOMAIN tree : id = tree[k].id

\* The inductive invariant.
ConsoleInv == ConsoleTypes /\ EveryTextIsAnswered /\ OnlyApprovedIsWritten /\ StagesAreAllThere

\* What two sequences of stages are when joined, and a part of one.
LEMMA Joined ==
  ASSUME NEW a \in Seq(StageRecords), NEW b \in Seq(StageRecords), NEW t, t = a \o b,
         NEW m \in Nat, NEW n \in Nat, Len(a) = m, Len(b) = n
  PROVE  /\ t \in Seq(StageRecords) /\ Len(t) = m + n
         /\ \A k \in 1 .. m + n : t[k] = IF k <= m THEN a[k] ELSE b[k - m]
  BY Zenon, ConcatProperties

LEMMA PartOf ==
  ASSUME NEW s \in Seq(StageRecords), NEW m \in Nat, NEW n \in Nat, 1 <= m, m <= n + 1, n <= Len(s),
         NEW t, t = SubSeq(s, m, n)
  PROVE  /\ t \in Seq(StageRecords) /\ Len(t) = n - m + 1 /\ n - m + 1 \in Nat
         /\ \A k \in 1 .. n - m + 1 : t[k] = s[m + k - 1]
  <1>1. \A i \in m .. n : s[i] \in StageRecords  OBVIOUS
  <1>2. n - m + 1 \in Nat  OBVIOUS
  <1>3. /\ t \in Seq(StageRecords) /\ Len(t) = IF m <= n THEN n - m + 1 ELSE 0
        /\ \A k \in 1 .. n - m + 1 : t[k] = s[m + k - 1]
    BY <1>1, SubSeqProperties
  <1> QED  BY <1>2, <1>3

LEMMA PlansAreFinite ==
  ASSUME plans \in Seq(PlanRecords), NEW i
  PROVE  IsFiniteSet(PlansOf(i)) /\ CountOf(i) = Cardinality(PlansOf(i)) /\ CountOf(i) \in Nat
  <1>1. DOMAIN plans = 1 .. Len(plans) /\ Len(plans) \in Nat  OBVIOUS
  <1>2. IsFiniteSet(DOMAIN plans)  BY <1>1, FS_Interval
  <1>3. IsFiniteSet(PlansOf(i))  BY <1>2, FS_Subset DEF PlansOf
  <1> QED  BY <1>3, FS_CardinalityType DEF PlansOf, CountOf

LEMMA ConsoleStarts == ConsoleInit => ConsoleInv
  <1> SUFFICES ASSUME ConsoleInit  PROVE ConsoleInv
    OBVIOUS
  <1>1. Len(Stages) \in Nat /\ Stages \in Seq(StageRecords)
    BY StagesAssumption DEF StageRecords
  <1>2. ConsoleTypes
    <2>1. waiting = 0 /\ sending = FALSE /\ plans = <<>> /\ nextStage = Len(Stages) + 1
      BY DEF ConsoleInit
    <2>2. asked \in [Intents -> Nat] /\ tree \in Seq(StageRecords)  BY <1>1 DEF ConsoleInit
    <2>3. plans \in Seq(PlanRecords) /\ nextStage \in Nat \ {0}  BY <1>1, <2>1
    <2>4. /\ waiting \in {0, 1} /\ waiting # 1
          /\ sending \in BOOLEAN /\ ~sending
      <3>1. waiting \in {0, 1} /\ waiting # 1  BY <2>1
      <3>2. sending \in BOOLEAN /\ ~sending  BY Zenon, <2>1
      <3> QED  BY <3>1, <3>2
    <2>5. intent \in Intents \cup {"experience"}  BY DEF ConsoleInit
    <2> QED  BY <2>2, <2>3, <2>4, <2>5 DEF ConsoleTypes
  <1>3. \A i : CountOf(i) = 0
    <2>1. \A i : {n \in DOMAIN plans : plans[n].intent = i} = {}  BY DEF ConsoleInit
    <2> QED  BY <2>1, FS_EmptySet DEF CountOf
  <1>4. EveryTextIsAnswered  BY <1>3 DEF ConsoleInit, EveryTextIsAnswered
  <1>5. OnlyApprovedIsWritten  BY DEF ConsoleInit, OnlyApprovedIsWritten
  <1>6. StagesAreAllThere
    <2>1. tree = Stages /\ nextStage = Len(Stages) + 1  BY DEF ConsoleInit
    <2>2. Len(tree) = nextStage - 1  BY <1>1, <2>1
    <2>3. \A id : id \in {stage.id : stage \in ToSet(Stages)} <=> \E k \in DOMAIN tree : id = tree[k].id
      BY <2>1 DEF ToSet
    <2> QED  BY Zenon, <1>1, <2>1, <2>2, <2>3, StagesAssumption DEF StagesAreAllThere
  <1> QED  BY <1>2, <1>4, <1>5, <1>6 DEF ConsoleInv

\* A text is sent.
LEMMA SubmittingKeeps ==
  ASSUME ConsoleInv, NEW i \in Intents, SubmitText(i)
  PROVE  ConsoleInv'
  <1>1. /\ intent' = i /\ asked' = [asked EXCEPT ![i] = @ + 1]
        /\ waiting = 0 /\ waiting' = 1 /\ sending' = TRUE
        /\ UNCHANGED <<plans, evidence, tree, nextStage, moves>>
    BY DEF SubmitText, MaySubmit, ConsoleInv, ConsoleTypes
  <1>2. ConsoleTypes'  BY <1>1 DEF ConsoleInv, ConsoleTypes
  <1>3. EveryTextIsAnswered'
    <2>1. \A j : CountOf(j)' = CountOf(j)  BY <1>1 DEF CountOf
    <2>2. \A j \in Intents \cap WriteIntents : asked[j] = CountOf(j) /\ CountOf(j) \in Nat
      <3>1. \A j : CountOf(j) \in Nat  BY PlansAreFinite DEF ConsoleInv, ConsoleTypes
      <3> QED  BY <1>1, <3>1 DEF ConsoleInv, EveryTextIsAnswered
    <2>3. \A j \in Intents : asked'[j] = IF j = i THEN asked[j] + 1 ELSE asked[j]
      BY <1>1 DEF ConsoleInv, ConsoleTypes
    <2> QED  BY <1>1, <2>1, <2>2, <2>3 DEF EveryTextIsAnswered
  <1>4. OnlyApprovedIsWritten'  BY <1>1 DEF ConsoleInv, OnlyApprovedIsWritten
  <1>5. StagesAreAllThere'  BY <1>1 DEF ConsoleInv, StagesAreAllThere
  <1> QED  BY <1>2, <1>3, <1>4, <1>5 DEF ConsoleInv

\* It is answered, with a plan when its intent writes.
LEMMA AnsweringKeeps ==
  ASSUME ConsoleInv, AnswerText
  PROVE  ConsoleInv'
  <1>1. /\ waiting = 1 /\ waiting' = 0 /\ sending' = FALSE /\ intent \in Intents
        /\ UNCHANGED <<intent, asked, evidence, tree, nextStage, moves>>
        /\ plans \in Seq(PlanRecords)
    BY DEF AnswerText, ConsoleInv, ConsoleTypes, EveryTextIsAnswered
  <1>2. PICK plan : plan = [intent |-> intent, status |-> "pending"]  BY Zenon
  <1>3. plans' = IF intent \in WriteIntents THEN Append(plans, plan) ELSE plans
    BY <1>2 DEF AnswerText
  <1>4. plan.intent = intent /\ plan.status = "pending"  BY <1>2
  <1>5. intent \in WriteIntents => plan \in PlanRecords  BY <1>2 DEF PlanRecords
  <1>6. /\ plans' \in Seq(PlanRecords)
        /\ intent \in WriteIntents =>
             /\ DOMAIN plans' = 1 .. Len(plans) + 1 /\ DOMAIN plans = 1 .. Len(plans)
             /\ Len(plans) \in Nat
             /\ \A n \in DOMAIN plans' : plans'[n] = IF n = Len(plans) + 1 THEN plan ELSE plans[n]
    BY <1>1, <1>3, <1>5
  <1>7. ConsoleTypes'
    <2>1. waiting' \in {0, 1} /\ sending' \in BOOLEAN /\ (sending' <=> waiting' = 1)
      <3>1. waiting' = 0 /\ sending' = FALSE  BY <1>1
      <3>2. waiting' \in {0, 1} /\ waiting' # 1  BY <3>1
      <3>3. sending' \in BOOLEAN /\ ~sending'  BY Zenon, <3>1
      <3> QED  BY <3>2, <3>3
    <2> QED  BY <1>1, <1>6, <2>1 DEF ConsoleInv, ConsoleTypes
  <1>8. EveryTextIsAnswered'
    <2> SUFFICES ASSUME NEW i \in Intents \cap WriteIntents
                 PROVE  asked[i] = CountOf(i)' /\ CountOf(i)' \in Nat
      BY <1>1 DEF EveryTextIsAnswered
    <2>1. asked[i] = CountOf(i) + IF intent = i THEN 1 ELSE 0
      BY <1>1 DEF ConsoleInv, EveryTextIsAnswered
    <2>2. IsFiniteSet(PlansOf(i)) /\ CountOf(i) = Cardinality(PlansOf(i)) /\ CountOf(i) \in Nat
      BY <1>1, PlansAreFinite
    <2>3. CASE intent = i
      <3>1. PlansOf(i)' = PlansOf(i) \cup {Len(plans) + 1} /\ Len(plans) + 1 \notin PlansOf(i)
        BY <1>4, <1>6, <2>3 DEF PlansOf
      <3>2. Cardinality(PlansOf(i) \cup {Len(plans) + 1}) = Cardinality(PlansOf(i)) + 1
        BY Zenon, <2>2, <3>1, FS_AddElement
      <3>3. CountOf(i)' = CountOf(i) + 1  BY Zenon, <2>2, <3>1, <3>2 DEF CountOf, PlansOf
      <3> QED  BY <2>1, <2>2, <2>3, <3>3
    <2>4. CASE intent # i
      <3>1. PlansOf(i)' = PlansOf(i)
        <4>1. CASE intent \notin WriteIntents  BY <1>3, <4>1 DEF PlansOf
        <4>2. CASE intent \in WriteIntents
          BY <1>4, <1>6, <2>4, <4>2 DEF PlansOf
        <4> QED  BY <4>1, <4>2
      <3>2. CountOf(i)' = CountOf(i)  BY Zenon, <3>1 DEF CountOf, PlansOf
      <3> QED  BY <2>1, <2>2, <2>4, <3>2
    <2> QED  BY <2>3, <2>4
  <1>9. OnlyApprovedIsWritten'
    <2>1. CASE intent \notin WriteIntents
      BY <1>1, <1>3, <2>1 DEF ConsoleInv, OnlyApprovedIsWritten
    <2>2. CASE intent \in WriteIntents
      <3>1. \A e : (\E n \in DOMAIN plans' : plans'[n].status = "approved"
                                             /\ e \in Evidence(plans'[n].intent))
                   <=> \E n \in DOMAIN plans : plans[n].status = "approved"
                                               /\ e \in Evidence(plans[n].intent)
        BY <1>4, <1>6, <2>2
      <3> QED  BY Zenon, <1>1, <3>1 DEF ConsoleInv, OnlyApprovedIsWritten
    <2> QED  BY <2>1, <2>2
  <1>10. StagesAreAllThere'  BY <1>1 DEF ConsoleInv, StagesAreAllThere
  <1> QED  BY <1>7, <1>8, <1>9, <1>10 DEF ConsoleInv

\* The status of a stage or plan says nothing of the others, nor of its own id.
LEMMA StatusOfStages ==
  ASSUME tree \in Seq(StageRecords), NEW id, NEW status \in StageStatus
  PROVE  /\ SetStatus(id, status) \in Seq(StageRecords)
         /\ Len(SetStatus(id, status)) = Len(tree) /\ DOMAIN SetStatus(id, status) = DOMAIN tree
         /\ \A k \in DOMAIN tree : SetStatus(id, status)[k].id = tree[k].id
  <1>1. /\ DOMAIN tree = 1 .. Len(tree) /\ Len(tree) \in Nat
        /\ \A k \in DOMAIN tree : tree[k] \in StageRecords
    OBVIOUS
  <1>2. \A k \in DOMAIN tree :
          LET new == IF tree[k].id = id THEN [tree[k] EXCEPT !.status = status] ELSE tree[k]
          IN  new \in StageRecords /\ new.id = tree[k].id
    BY <1>1 DEF StageRecords
  <1>3. PICK t : t = SetStatus(id, status)  OBVIOUS
  <1>4. /\ t = [k \in 1 .. Len(tree) |-> t[k]] /\ DOMAIN t = 1 .. Len(tree)
        /\ \A k \in 1 .. Len(tree) : t[k] \in StageRecords /\ t[k].id = tree[k].id
    BY <1>1, <1>2, <1>3 DEF SetStatus
  <1>5. t \in Seq(StageRecords)  BY <1>1, <1>4, IsASeq
  <1>6. Len(t) = Len(tree)  BY <1>1, <1>4, <1>5
  <1> QED  BY <1>1, <1>3, <1>4, <1>5, <1>6

\* A plan is confirmed or rejected.
LEMMA DecidingKeeps ==
  ASSUME ConsoleInv, NEW n \in DOMAIN plans, ConfirmSkillPlan(n) \/ RejectSkillPlan(n)
  PROVE  ConsoleInv'
  <1>1. /\ plans[n].status = "pending" /\ plans \in Seq(PlanRecords) /\ tree \in Seq(StageRecords)
        /\ UNCHANGED <<intent, waiting, sending, asked, nextStage, moves>>
    BY DEF ConfirmSkillPlan, RejectSkillPlan, ConsoleInv, ConsoleTypes
  <1>2. PICK status \in {"approved", "rejected"} :
          /\ plans' = [plans EXCEPT ![n].status = status]
          /\ status = "approved" => ApplyIntent(plans[n].intent)
          /\ status = "rejected" => evidence' = evidence /\ tree' = tree
    BY DEF ConfirmSkillPlan, RejectSkillPlan, UpdatePlanStatus
  <1>3. plans[n] \in PlanRecords  BY <1>1
  <1>4. /\ plans' \in Seq(PlanRecords) /\ DOMAIN plans' = DOMAIN plans
        /\ plans'[n].status = status
        /\ \A k \in DOMAIN plans : plans'[k].intent = plans[k].intent
        /\ \A k \in DOMAIN plans \ {n} : plans'[k] = plans[k]
    <2>1. PICK new : new = [plans[n] EXCEPT !.status = status]  BY Zenon
    <2>2. new \in PlanRecords /\ new.status = status /\ new.intent = plans[n].intent
      BY <1>3, <2>1 DEF PlanRecords
    <2>3. plans' = [plans EXCEPT ![n] = new]  BY <1>2, <2>1
    <2> QED  BY <1>1, <2>2, <2>3, ExceptSeq
  <1>5. /\ tree' \in Seq(StageRecords) /\ Len(tree') = Len(tree) /\ DOMAIN tree' = DOMAIN tree
        /\ \A k \in DOMAIN tree : tree'[k].id = tree[k].id
    <2>1. CASE tree' = tree  BY <1>1, <2>1
    <2>2. CASE tree' = SetStatus(Reviewed, "active")
      BY <1>1, <2>2, StatusOfStages DEF StageStatus
    <2> QED  BY <1>2, <2>1, <2>2 DEF ApplyIntent
  <1>6. ConsoleTypes'  BY <1>1, <1>4, <1>5 DEF ConsoleInv, ConsoleTypes
  <1>7. EveryTextIsAnswered'
    <2>1. \A i : CountOf(i)' = CountOf(i)
      <3>1. \A i : {k \in DOMAIN plans' : plans'[k].intent = i}
                     = {k \in DOMAIN plans : plans[k].intent = i}
        BY <1>4
      <3> QED  BY <3>1 DEF CountOf
    <2> QED  BY <1>1, <2>1 DEF ConsoleInv, EveryTextIsAnswered
  <1>8. OnlyApprovedIsWritten'
    <2>1. CASE status = "rejected"
      <3>1. \A k \in DOMAIN plans : plans'[k].status = "approved" <=> plans[k].status = "approved"
        BY <1>1, <1>4, <2>1
      <3> QED  BY <1>2, <1>4, <2>1, <3>1 DEF ConsoleInv, OnlyApprovedIsWritten
    <2>2. CASE status = "approved"
      <3>1. evidence' = evidence \cup Evidence(plans[n].intent)  BY <1>2, <2>2 DEF ApplyIntent
      <3>2. \A k \in DOMAIN plans :
              plans'[k].status = "approved" <=> plans[k].status = "approved" \/ k = n
        BY <1>1, <1>4, <2>2
      <3> QED  BY <1>4, <3>1, <3>2 DEF ConsoleInv, OnlyApprovedIsWritten
    <2> QED  BY <2>1, <2>2
  <1>9. StagesAreAllThere'
    <2>1. /\ Len(tree) = nextStage - 1
          /\ \A id : id \in 1 .. nextStage - 1 <=> \E k \in DOMAIN tree : id = tree[k].id
      BY DEF ConsoleInv, StagesAreAllThere
    <2>2. \A id : (\E k \in DOMAIN tree' : id = tree'[k].id) <=> \E k \in DOMAIN tree : id = tree[k].id
      BY <1>5
    <2> QED  BY Zenon, <1>1, <1>5, <2>1, <2>2 DEF StagesAreAllThere
  <1> QED  BY <1>6, <1>7, <1>8, <1>9 DEF ConsoleInv

\* What is taken out and put in again is there with all the others.
Moved(s, from, to) == InsertAt(RemoveAt(s, from), to, s[from])

LEMMA MovedStages ==
  ASSUME NEW s \in Seq(StageRecords), NEW from \in DOMAIN s, NEW to \in DOMAIN s
  PROVE  /\ Moved(s, from, to) \in Seq(StageRecords) /\ Len(Moved(s, from, to)) = Len(s)
         /\ \A x : (\E k \in DOMAIN Moved(s, from, to) : x = Moved(s, from, to)[k])
                    <=> \E k \in DOMAIN s : x = s[k]
  <1> SUFFICES ASSUME NEW t, t = InsertAt(RemoveAt(s, from), to, s[from])
               PROVE  /\ t \in Seq(StageRecords) /\ Len(t) = Len(s)
                      /\ \A x : (\E k \in DOMAIN t : x = t[k]) <=> \E k \in DOMAIN s : x = s[k]
    BY DEF Moved
  <1>1. /\ DOMAIN s = 1 .. Len(s) /\ Len(s) \in Nat /\ from \in 1 .. Len(s) /\ to \in 1 .. Len(s)
        /\ s[from] \in StageRecords
    OBVIOUS
  <1>2. PICK r : r = RemoveAt(s, from)  OBVIOUS
  <1>3. PICK n : n = Len(s)  OBVIOUS
  <1>4. n \in Nat /\ from \in 1 .. n /\ to \in 1 .. n  BY <1>1, <1>3
  <1>5. /\ r \in Seq(StageRecords) /\ Len(r) = n - 1 /\ n - 1 \in Nat
        /\ \A k \in 1 .. n - 1 : r[k] = IF k < from THEN s[k] ELSE s[k + 1]
    <2>1. PICK a : a = SubSeq(s, 1, from - 1)  BY Zenon
    <2>2. PICK b : b = SubSeq(s, from + 1, Len(s))  BY Zenon
    <2>3. /\ a \in Seq(StageRecords) /\ Len(a) = from - 1 /\ from - 1 \in Nat
          /\ \A k \in 1 .. from - 1 : a[k] = s[k]
      BY <1>3, <1>4, <2>1, PartOf
    <2>4. /\ b \in Seq(StageRecords) /\ Len(b) = n - from /\ n - from \in Nat
          /\ \A k \in 1 .. n - from : b[k] = s[from + k]
      <3>1. from + 1 \in Nat /\ 1 <= from + 1 /\ from + 1 <= n + 1 /\ n <= Len(s)  BY <1>3, <1>4
      <3>2. /\ b \in Seq(StageRecords) /\ Len(b) = n - (from + 1) + 1 /\ n - (from + 1) + 1 \in Nat
            /\ \A k \in 1 .. n - (from + 1) + 1 : b[k] = s[(from + 1) + k - 1]
        BY <1>3, <1>4, <2>2, <3>1, PartOf
      <3> QED  BY <1>4, <3>2
    <2>5. r = a \o b  BY <1>2, <2>1, <2>2 DEF RemoveAt
    <2>6. /\ r \in Seq(StageRecords) /\ Len(r) = (from - 1) + (n - from)
          /\ \A k \in 1 .. (from - 1) + (n - from) :
               r[k] = IF k <= from - 1 THEN a[k] ELSE b[k - (from - 1)]
      BY <2>3, <2>4, <2>5, Joined
    <2>7. (from - 1) + (n - from) = n - 1 /\ n - 1 \in Nat  BY <1>4
    <2>8. ASSUME NEW k \in 1 .. n - 1  PROVE r[k] = IF k < from THEN s[k] ELSE s[k + 1]
      <3>1. CASE k < from  BY <1>4, <2>3, <2>6, <2>7, <3>1
      <3>2. CASE k >= from
        <4>1. ~(k <= from - 1) /\ k - (from - 1) \in 1 .. n - from /\ from + (k - (from - 1)) = k + 1
          BY <1>4, <3>2
        <4>2. r[k] = b[k - (from - 1)]  BY <2>6, <2>7, <4>1
        <4> QED  BY <2>4, <3>2, <4>1, <4>2
      <3> QED  BY <1>4, <3>1, <3>2
    <2> QED  BY <2>6, <2>7, <2>8
  <1>6. /\ t \in Seq(StageRecords) /\ Len(t) = n
        /\ \A k \in 1 .. n : t[k] = IF k < to THEN r[k] ELSE IF k = to THEN s[from] ELSE r[k - 1]
    <2>1. PICK a : a = SubSeq(r, 1, to - 1)  BY Zenon
    <2>2. PICK b : b = SubSeq(r, to, Len(r))  BY Zenon
    <2>3. /\ a \in Seq(StageRecords) /\ Len(a) = to - 1 /\ to - 1 \in Nat
          /\ \A k \in 1 .. to - 1 : a[k] = r[k]
      BY <1>4, <1>5, <2>1, PartOf
    <2>4. /\ b \in Seq(StageRecords) /\ Len(b) = n - to /\ n - to \in Nat
          /\ \A k \in 1 .. n - to : b[k] = r[to + k - 1]
      <3>1. /\ b \in Seq(StageRecords) /\ Len(b) = (n - 1) - to + 1 /\ (n - 1) - to + 1 \in Nat
            /\ \A k \in 1 .. (n - 1) - to + 1 : b[k] = r[to + k - 1]
        <4>1. 1 <= to /\ to <= (n - 1) + 1 /\ n - 1 <= Len(r) /\ b = SubSeq(r, to, n - 1)
          BY <1>4, <1>5, <2>2
        <4> QED  BY <1>4, <1>5, <4>1, PartOf
      <3> QED  BY <1>4, <3>1
    <2>5. PICK m : m = <<s[from]>>  BY Zenon
    <2>6. m \in Seq(StageRecords) /\ Len(m) = 1 /\ m[1] = s[from]  BY <1>1, <2>5
    <2>7. PICK am : am = a \o m  BY Zenon
    <2>8. /\ am \in Seq(StageRecords) /\ Len(am) = to
          /\ \A k \in 1 .. to : am[k] = IF k < to THEN r[k] ELSE s[from]
      <3>1. PICK p : p = to - 1  OBVIOUS
      <3>2. PICK one : one = 1  OBVIOUS
      <3>3. p \in Nat /\ one \in Nat /\ Len(a) = p /\ Len(m) = one  BY <2>3, <2>6, <3>1, <3>2
      <3>4. /\ am \in Seq(StageRecords) /\ Len(am) = p + one
            /\ \A k \in 1 .. p + one : am[k] = IF k <= p THEN a[k] ELSE m[k - p]
        <4>1. Len(a) = p /\ Len(m) = one /\ am = a \o m /\ p \in Nat /\ one \in Nat
              /\ a \in Seq(StageRecords) /\ m \in Seq(StageRecords)
          BY Zenon, <2>3, <2>6, <2>7, <3>3
        <4>2. /\ a \o m \in Seq(StageRecords) /\ Len(a \o m) = Len(a) + Len(m)
              /\ \A k \in 1 .. Len(a) + Len(m) :
                   (a \o m)[k] = IF k <= Len(a) THEN a[k] ELSE m[k - Len(a)]
          BY Zenon, <4>1, ConcatProperties
        <4> QED  BY <4>1, <4>2
      <3>5. p + one = to /\ to - p = 1  BY <1>4, <3>1, <3>2
      <3>6. ASSUME NEW k \in 1 .. to  PROVE am[k] = IF k < to THEN r[k] ELSE s[from]
        <4>1. CASE k < to
          <5>1. k <= p /\ k \in 1 .. to - 1  BY <1>4, <3>1, <4>1
          <5> QED  BY <2>3, <3>4, <3>5, <4>1, <5>1
        <4>2. CASE k = to
          <5>1. ~(k <= p) /\ k - p = 1  BY <1>4, <3>1, <4>2
          <5> QED  BY <2>6, <3>4, <3>5, <4>2, <5>1
        <4> QED  BY <1>4, <4>1, <4>2
      <3> QED  BY <3>4, <3>5, <3>6
    <2>9. t = am \o b  BY <1>2, <2>1, <2>2, <2>5, <2>7 DEF InsertAt
    <2>10. /\ t \in Seq(StageRecords) /\ Len(t) = to + (n - to)
           /\ \A k \in 1 .. to + (n - to) : t[k] = IF k <= to THEN am[k] ELSE b[k - to]
      <3>1. PICK q : q = n - to  OBVIOUS
      <3>2. q \in Nat /\ to \in Nat /\ Len(b) = q  BY <1>4, <2>4, <3>1
      <3>3. /\ t \in Seq(StageRecords) /\ Len(t) = to + q
            /\ \A k \in 1 .. to + q : t[k] = IF k <= to THEN am[k] ELSE b[k - to]
        <4>1. Len(am) = to /\ Len(b) = q /\ t = am \o b /\ q \in Nat /\ to \in Nat
              /\ am \in Seq(StageRecords) /\ b \in Seq(StageRecords)
          BY <2>4, <2>8, <2>9, <3>2
        <4>2. /\ am \o b \in Seq(StageRecords) /\ Len(am \o b) = Len(am) + Len(b)
              /\ \A k \in 1 .. Len(am) + Len(b) :
                   (am \o b)[k] = IF k <= Len(am) THEN am[k] ELSE b[k - Len(am)]
          BY Zenon, <4>1, ConcatProperties
        <4> QED  BY Zenon, <4>1, <4>2
      <3> QED  BY <3>1, <3>3
    <2>11. to + (n - to) = n  BY <1>4
    <2>12. ASSUME NEW k \in 1 .. n
           PROVE  t[k] = IF k < to THEN r[k] ELSE IF k = to THEN s[from] ELSE r[k - 1]
      <3>1. CASE k <= to  BY <1>4, <2>8, <2>10, <2>11, <3>1
      <3>2. CASE k > to
        <4>1. k - to \in 1 .. n - to /\ to + (k - to) - 1 = k - 1  BY <1>4, <3>2
        <4>2. t[k] = b[k - to]  BY <1>4, <2>10, <2>11, <3>2
        <4>3. b[k - to] = r[to + (k - to) - 1]  BY Zenon, <2>4, <4>1
        <4> QED  BY <1>4, <3>2, <4>1, <4>2, <4>3
      <3> QED  BY <1>4, <3>1, <3>2
    <2> QED  BY <2>10, <2>11, <2>12
  <1>7. DOMAIN t = 1 .. n /\ DOMAIN s = 1 .. n  BY <1>3, <1>6
  <1>8. ASSUME NEW k \in 1 .. n  PROVE \E l \in 1 .. n : t[k] = s[l]
    <2>1. CASE k < to
      <3>1. t[k] = r[k] /\ k \in 1 .. n - 1  BY <1>4, <1>6, <2>1
      <3>2. r[k] = s[k] \/ r[k] = s[k + 1]  BY <1>5, <3>1
      <3> QED  BY <1>4, <3>1, <3>2
    <2>2. CASE k = to  BY <1>4, <1>6, <2>2
    <2>3. CASE k > to
      <3>1. t[k] = r[k - 1] /\ k - 1 \in 1 .. n - 1  BY <1>4, <1>6, <2>3
      <3>2. r[k - 1] = s[k - 1] \/ r[k - 1] = s[(k - 1) + 1]  BY <1>5, <3>1
      <3> QED  BY <1>4, <3>1, <3>2
    <2> QED  BY <1>4, <2>1, <2>2, <2>3
  <1>9. ASSUME NEW k \in 1 .. n  PROVE \E l \in 1 .. n : s[k] = t[l]
    <2>1. CASE k = from  BY <1>4, <1>6, <2>1
    <2>2. ASSUME NEW j \in 1 .. n - 1, s[k] = r[j]  PROVE \E l \in 1 .. n : s[k] = t[l]
      <3>1. CASE j < to
        <4>1. j \in 1 .. n /\ t[j] = r[j]  BY <1>4, <1>6, <3>1
        <4> QED  BY <2>2, <4>1
      <3>2. CASE j >= to
        <4>1. j + 1 \in 1 .. n /\ j + 1 > to /\ (j + 1) - 1 = j  BY <1>4, <3>2
        <4>2. t[j + 1] = r[j]  BY <1>4, <1>6, <4>1
        <4> QED  BY <2>2, <4>1, <4>2
      <3> QED  BY <1>4, <3>1, <3>2
    <2>3. CASE k < from
      <3>1. k \in 1 .. n - 1 /\ r[k] = s[k]  BY <1>4, <1>5, <2>3
      <3> QED  BY <2>2, <3>1
    <2>4. CASE k > from
      <3>1. k - 1 \in 1 .. n - 1 /\ ~(k - 1 < from) /\ (k - 1) + 1 = k  BY <1>4, <2>4
      <3>2. r[k - 1] = s[k]  BY <1>5, <3>1
      <3> QED  BY <2>2, <3>1, <3>2
    <2> QED  BY <1>4, <2>1, <2>3, <2>4
  <1>10. ASSUME NEW x
         PROVE  (\E k \in 1 .. n : x = t[k]) <=> \E k \in 1 .. n : x = s[k]
    <2>1. ASSUME NEW k \in 1 .. n, x = t[k]  PROVE \E l \in 1 .. n : x = s[l]  BY <2>1, <1>8
    <2>2. ASSUME NEW k \in 1 .. n, x = s[k]  PROVE \E l \in 1 .. n : x = t[l]  BY <2>2, <1>9
    <2> QED  BY <2>1, <2>2
  <1>11. \A x : (\E k \in DOMAIN t : x = t[k]) <=> \E k \in DOMAIN s : x = s[k]
    <2> SUFFICES ASSUME NEW x
                 PROVE  (\E k \in DOMAIN t : x = t[k]) <=> \E k \in DOMAIN s : x = s[k]
      BY Zenon
    <2>1. (\E k \in 1 .. n : x = t[k]) <=> \E k \in 1 .. n : x = s[k]  BY Zenon, <1>10
    <2> QED  BY <1>7, <2>1
  <1> QED  BY <1>3, <1>6, <1>11

\* The tree of stages is changed by hand.
LEMMA EditingKeeps ==
  ASSUME ConsoleInv, EditTree
  PROVE  ConsoleInv'
  <1>1. /\ UNCHANGED <<intent, waiting, sending, asked, plans, evidence>>
        /\ tree \in Seq(StageRecords) /\ nextStage \in Nat \ {0} /\ Len(tree) = nextStage - 1
        /\ \A id : id \in 1 .. nextStage - 1 <=> \E k \in DOMAIN tree : id = tree[k].id
    BY DEF EditTree, ByHand, ConsoleInv, ConsoleTypes, StagesAreAllThere
  <1>2. /\ tree' \in Seq(StageRecords) /\ nextStage' \in Nat \ {0}
        /\ StagesAreAllThere'
    <2>1. ASSUME NEW stage \in ToSet(tree), NEW status \in StageStatus,
                 SetProcessStageStatus(stage, status)
          PROVE  tree' \in Seq(StageRecords) /\ nextStage' \in Nat \ {0} /\ StagesAreAllThere'
      <3>1. tree' = SetStatus(stage.id, status) /\ nextStage' = nextStage
        BY <2>1 DEF SetProcessStageStatus
      <3>2. /\ tree' \in Seq(StageRecords) /\ Len(tree') = Len(tree) /\ DOMAIN tree' = DOMAIN tree
            /\ \A k \in DOMAIN tree : tree'[k].id = tree[k].id
        BY <1>1, <3>1, StatusOfStages
      <3> QED  BY <1>1, <3>1, <3>2 DEF StagesAreAllThere
    <2>2. ASSUME AddProcessStage
          PROVE  tree' \in Seq(StageRecords) /\ nextStage' \in Nat \ {0} /\ StagesAreAllThere'
      <3>1. PICK new : new = [id |-> nextStage, status |-> "todo"]  BY Zenon
      <3>2. new \in StageRecords /\ new.id = nextStage
        BY <1>1, <3>1 DEF StageRecords, StageStatus
      <3>3. tree' = Append(tree, new) /\ nextStage' = nextStage + 1
        BY <2>2, <3>1 DEF AddProcessStage
      <3>4. /\ tree' \in Seq(StageRecords) /\ Len(tree') = nextStage
            /\ DOMAIN tree = 1 .. nextStage - 1 /\ DOMAIN tree' = 1 .. nextStage
            /\ \A k \in 1 .. nextStage : tree'[k] = IF k = nextStage THEN new ELSE tree[k]
        BY <1>1, <3>2, <3>3
      <3>5. \A id : id \in 1 .. nextStage <=> \E k \in DOMAIN tree' : id = tree'[k].id
        <4> SUFFICES ASSUME NEW id
                     PROVE  id \in 1 .. nextStage <=> \E k \in 1 .. nextStage : id = tree'[k].id
          BY <3>4
        <4>1. id \in 1 .. nextStage <=> id = nextStage \/ id \in 1 .. nextStage - 1
          BY <1>1
        <4>2. id \in 1 .. nextStage - 1 <=> \E k \in 1 .. nextStage - 1 : id = tree[k].id
          BY Zenon, <1>1, <3>4
        <4>3. (\E k \in 1 .. nextStage : id = tree'[k].id)
              <=> id = nextStage \/ \E k \in 1 .. nextStage - 1 : id = tree[k].id
          BY <1>1, <3>2, <3>4
        <4> QED  BY <4>1, <4>2, <4>3
      <3>6. nextStage' - 1 = nextStage /\ nextStage' \in Nat \ {0}  BY <1>1, <3>3
      <3> QED  BY Zenon, <3>4, <3>5, <3>6 DEF StagesAreAllThere
    <2>3. ASSUME NEW from \in DOMAIN tree, NEW to \in DOMAIN tree, MoveProcessStage(from, to)
          PROVE  tree' \in Seq(StageRecords) /\ nextStage' \in Nat \ {0} /\ StagesAreAllThere'
      <3>1. tree' = Moved(tree, from, to) /\ nextStage' = nextStage
        BY <2>3 DEF MoveProcessStage, Moved
      <3>2. /\ tree' \in Seq(StageRecords) /\ Len(tree') = Len(tree)
            /\ \A x : (\E k \in DOMAIN tree' : x = tree'[k]) <=> \E k \in DOMAIN tree : x = tree[k]
        <4>1. PICK s : s = tree  OBVIOUS
        <4>2. s \in Seq(StageRecords) /\ from \in DOMAIN s /\ to \in DOMAIN s  BY <1>1, <2>3, <4>1
        <4>3. /\ Moved(s, from, to) \in Seq(StageRecords) /\ Len(Moved(s, from, to)) = Len(s)
              /\ \A x : (\E k \in DOMAIN Moved(s, from, to) : x = Moved(s, from, to)[k])
                         <=> \E k \in DOMAIN s : x = s[k]
          BY Zenon, <4>2, MovedStages
        <4>4. tree' = Moved(s, from, to)  BY <3>1, <4>1
        <4> QED  BY <4>1, <4>3, <4>4
      <3>3. \A id : (\E k \in DOMAIN tree' : id = tree'[k].id) <=> \E k \in DOMAIN tree : id = tree[k].id
        BY <3>2
      <3>4. /\ Len(tree') = nextStage' - 1
            /\ \A id : id \in 1 .. nextStage' - 1 <=> \E k \in DOMAIN tree' : id = tree'[k].id
        <4>1. Len(tree') = nextStage' - 1  BY <1>1, <3>1, <3>2
        <4>2. \A id : id \in 1 .. nextStage - 1 <=> \E k \in DOMAIN tree' : id = tree'[k].id
          <5> SUFFICES ASSUME NEW id
                       PROVE  id \in 1 .. nextStage - 1 <=> \E k \in DOMAIN tree' : id = tree'[k].id
            OBVIOUS
          <5>1. id \in 1 .. nextStage - 1 <=> \E k \in DOMAIN tree : id = tree[k].id  BY <1>1
          <5>2. (\E k \in DOMAIN tree' : id = tree'[k].id) <=> \E k \in DOMAIN tree : id = tree[k].id
            BY <3>3
          <5> QED  BY <5>1, <5>2
        <4> QED  BY <3>1, <4>1, <4>2
      <3> QED  BY <1>1, <3>1, <3>2, <3>4 DEF StagesAreAllThere
    <2> QED  BY <2>1, <2>2, <2>3 DEF EditTree
  <1>3. ConsoleTypes'  BY <1>1, <1>2 DEF ConsoleInv, ConsoleTypes
  <1>4. EveryTextIsAnswered'  BY <1>1 DEF ConsoleInv, EveryTextIsAnswered, CountOf
  <1>5. OnlyApprovedIsWritten'  BY <1>1 DEF ConsoleInv, OnlyApprovedIsWritten
  <1> QED  BY <1>2, <1>3, <1>4, <1>5 DEF ConsoleInv

\* Every step keeps the invariant.
LEMMA ConsoleSteps == ConsoleInv /\ [ConsoleNext]_consoleVars => ConsoleInv'
  <1> SUFFICES ASSUME ConsoleInv, [ConsoleNext]_consoleVars  PROVE ConsoleInv'
    OBVIOUS
  <1>1. CASE UNCHANGED consoleVars
    BY <1>1 DEF consoleVars, ConsoleInv, ConsoleTypes, EveryTextIsAnswered, CountOf,
       OnlyApprovedIsWritten, StagesAreAllThere
  <1> QED
    BY <1>1, SubmittingKeeps, AnsweringKeeps, DecidingKeeps, EditingKeeps DEF ConsoleNext

LEMMA ConsoleHolds == ConsoleInv => AnswersFit
  <1> SUFFICES ASSUME ConsoleInv  PROVE AnswersFit
    OBVIOUS
  <1>1. waiting = 0 => \A i \in Intents \cap WriteIntents : CountOf(i) = asked[i]
    <2>1. \A i : CountOf(i) \in Nat  BY PlansAreFinite DEF ConsoleInv, ConsoleTypes
    <2> QED  BY <2>1 DEF ConsoleInv, EveryTextIsAnswered
  <1>2. evidence = UNION {Evidence(plans[n].intent) :
                            n \in {k \in DOMAIN plans : plans[k].status = "approved"}}
    BY DEF ConsoleInv, OnlyApprovedIsWritten
  <1>3. {stage.id : stage \in ToSet(tree)} = 1 .. nextStage - 1
    <2>1. \A id : id \in {stage.id : stage \in ToSet(tree)} <=> \E k \in DOMAIN tree : id = tree[k].id
      BY DEF ToSet
    <2> QED  BY Zenon, <2>1 DEF ConsoleInv, StagesAreAllThere
  <1> QED  BY <1>1, <1>2, <1>3 DEF ConsoleInv, StagesAreAllThere, AnswersFit

\* Every text that asks for a change gets one plan, only approved plans leave evidence, and
\* no stage is lost or doubled by moving the stages by hand (the agent console).
THEOREM TextsAreAnswered == ConsoleSpec => []AnswersFit
  BY ConsoleStarts, ConsoleSteps, ConsoleHolds, PTL DEF ConsoleSpec
-----------------------------------------------------------------------------
\* The selection assistant of the résumé editor.

\* What the selection assistant does, without fairness.
SelectionSpec == SelectionInit /\ [][SelectionNext]_selectionVars

\* The advice a is about the text, and the evidence it adds is at hand.
IsFit(a, text, atHand) ==
  LET s == a.of
      added == (UNION {p.named : p \in ToSet(a.suggestion)})
                  \ UNION {p.named : p \in ToSet(s)}
      places == {i \in 1 .. Len(text) - Len(s) + 1 :
                   SubSeq(text, i, i + Len(s) - 1) = s}
      SectionAt(i) == SelectLastInSubSeq(text, 1, i - 1, LAMBDA p : p.kind = "heading")
  IN  /\ a.made = text
      /\ Cardinality(Bullets(s)) <= 1
      /\ added \subseteq atHand
      /\ \E i \in places :
           added \subseteq AboutOf(s) \cup a.wish
             \cup IF SectionAt(i) = 0 THEN {} ELSE text[SectionAt(i)].about

\* The selection lies in the text, and a replacement is made of pieces.
SelectionTypes ==
  /\ content \in Seq(Pieces) /\ known \subseteq Abilities /\ anchor \in Nat
  /\ content # << >> => range \in Ranges
  /\ advice.status = "suggested" => advice.suggestion \in Seq(Pieces)

\* The inductive invariant: what is advised fits the text in the editor.
SelectionInv ==
  /\ SelectionTypes
  /\ content # << >> /\ advice.status = "suggested" => IsFit(advice, content, known)

\* A set of numbers has a least one: were there none, the numbers below all of it
\* would be closed under successor, and finitely many.
LEMMA LeastNumber ==
  ASSUME NEW S \in SUBSET Nat, S # {}
  PROVE  \E x \in S : \A y \in S : x <= y
  <1> SUFFICES ASSUME \A x \in S : \E y \in S : ~(x <= y)  PROVE FALSE
    OBVIOUS
  <1>1. PICK k \in S : TRUE  BY Zenon
  <1> DEFINE U == {n \in 0 .. k : \A m \in S : n < m}
             T == U \ {0}
  <1>2. k \in Nat /\ \A m \in S : m \in Nat  OBVIOUS
  <1>3. IsFiniteSet(U)
    <2>1. IsFiniteSet(0 .. k)  BY <1>2, FS_Interval
    <2> QED  BY <2>1, FS_Subset
  <1>4. 0 \in U
    <2>1. 0 \notin S  BY <1>2
    <2> QED  BY <1>2, <2>1
  <1>5. IsFiniteSet(T) /\ Cardinality(T) = Cardinality(U) - 1
    BY Zenon, <1>3, <1>4, FS_RemoveElement
  <1>6. Cardinality(U) \in Nat  BY <1>3, FS_CardinalityType
  <1>7. \A n \in U : n + 1 \in T
    <2> SUFFICES ASSUME NEW n \in U  PROVE n + 1 \in T
      OBVIOUS
    <2>1. n \in Nat /\ n < k /\ n + 1 \in 0 .. k  BY <1>1, <1>2
    <2>2. n + 1 \notin S
      <3> SUFFICES ASSUME n + 1 \in S  PROVE FALSE
        OBVIOUS
      <3>1. PICK y \in S : ~(n + 1 <= y)  OBVIOUS
      <3>2. n < y  OBVIOUS
      <3> QED  BY <1>2, <2>1, <3>1, <3>2
    <2>3. \A m \in S : n + 1 < m  BY <1>2, <2>1, <2>2
    <2> QED  BY <2>1, <2>3
  <1> DEFINE f == [n \in U |-> n + 1]
  <1>8. f \in [U -> T]  BY <1>7
  <1>9. PICK x, y \in U : x # y /\ f[x] = f[y]
    <2>1. Cardinality(T) < Cardinality(U)  BY <1>5, <1>6
    <2> HIDE DEF U, T, f
    <2> QED  BY <1>3, <1>5, <1>8, <2>1, FS_PigeonHole
  <1> QED  BY <1>2, <1>9

\* Min and Max of the numbers that the page compares.
LEMMA MinOfNumbers ==
  ASSUME NEW S \in SUBSET Nat, S # {}
  PROVE  Min(S) \in S /\ \A y \in S : Min(S) <= y
  <1>1. \E x \in S : \A y \in S : x <= y  BY LeastNumber
  <1> QED  BY Zenon, <1>1 DEF Min

LEMMA MaxOfNumbers ==
  ASSUME NEW S \in SUBSET Nat, S # {}, NEW k \in Nat, \A y \in S : y <= k
  PROVE  Max(S) \in S /\ \A y \in S : Max(S) >= y
  <1> DEFINE T == {k - y : y \in S}
  <1>1. T \in SUBSET Nat /\ T # {}
    <2>1. \A y \in S : k - y \in Nat  OBVIOUS
    <2>2. \A t \in T : t \in Nat  BY <2>1
    <2>3. T # {}  BY Zenon
    <2> QED  BY <2>2, <2>3
  <1>2. PICK t \in T : \A y \in T : t <= y
    <2> HIDE DEF T
    <2> QED  BY <1>1, LeastNumber
  <1>3. PICK x \in S : t = k - x  OBVIOUS
  <1>4. \A y \in S : x >= y
    <2> SUFFICES ASSUME NEW y \in S  PROVE x >= y
      OBVIOUS
    <2>1. k - y \in T  OBVIOUS
    <2>2. k - x <= k - y  BY Zenon, <1>2, <1>3, <2>1
    <2> QED  BY <2>2
  <1> QED  BY Zenon, <1>4 DEF Max

LEMMA SelectionStarts == SelectionInit => SelectionInv
  BY EmptySeq DEF SelectionInit, SelectionInv, SelectionTypes, Idle, Advice



LEMMA SelectionHolds == SelectionInv => AdviceFits
  BY Zenon DEF SelectionInv, SelectionTypes, AdviceFits, IsFit, SelectLastInSubSeq

\* The selection with the evidence behind it adds nothing but that evidence.
LEMMA SupportedPieces ==
  ASSUME NEW s \in Seq(Pieces), s # << >>, NEW abilities \in SUBSET Abilities
  PROVE  /\ Supported(s, abilities) \in Seq(Pieces)
         /\ (UNION {p.named : p \in ToSet(Supported(s, abilities))})
               \ (UNION {p.named : p \in ToSet(s)}) \subseteq abilities
  <1>1. Len(s) \in 1 .. Len(s) /\ DOMAIN s = 1 .. Len(s)
    BY EmptySeq, LenProperties
  <1>2. PICK last : last = [s[Len(s)] EXCEPT !.named = @ \cup abilities]
    BY Zenon
  <1>3. s[Len(s)] \in Pieces  BY <1>1, ElementOfSeq
  <1>4. last \in Pieces /\ last.named = s[Len(s)].named \cup abilities
    BY <1>2, <1>3 DEF Pieces
  <1>5. PICK t : t = Supported(s, abilities)  OBVIOUS
  <1>6. t = [s EXCEPT ![Len(s)] = last]  BY <1>2, <1>5 DEF Supported
  <1>7. /\ t \in Seq(Pieces) /\ DOMAIN t = 1 .. Len(s) /\ t[Len(s)] = last
        /\ \A i \in 1 .. Len(s) : i # Len(s) => t[i] = s[i]
    BY <1>1, <1>4, <1>6, ExceptSeq, LenProperties
  <1>8. ASSUME NEW p \in ToSet(t), NEW x \in p.named
        PROVE  x \in abilities \/ x \in UNION {q.named : q \in ToSet(s)}
    <2>1. PICK i \in 1 .. Len(s) : p = t[i]  BY <1>7 DEF ToSet
    <2>2. s[i] \in ToSet(s)  BY <1>1, <2>1 DEF ToSet
    <2>3. x \in abilities \/ x \in s[i].named
      BY <1>4, <1>7, <1>8, <2>1
    <2> QED  BY <2>2, <2>3
  <1>9. (UNION {p.named : p \in ToSet(t)}) \ (UNION {q.named : q \in ToSet(s)}) \subseteq abilities
    BY <1>8
  <1> QED  BY <1>5, <1>7, <1>9

\* What is made of a selection in the text fits the text.
LEMMA SuggestionIsFit ==
  ASSUME NEW text \in Seq(Pieces), NEW from \in Nat \ {0}, NEW to \in Nat,
         from < to, to <= Len(text) + 1, known \subseteq Abilities, NEW wish,
         NEW a, a = BuildSuggestion(text, SubSeq(text, from, to - 1), wish),
         a.status = "suggested"
  PROVE  a.suggestion \in Seq(Pieces) /\ IsFit(a, text, known)
  <1>1. PICK s : s = SubSeq(text, from, to - 1)  BY Zenon
  <1>2. /\ s \in Seq(Pieces) /\ Len(s) = to - from /\ Len(s) \in Nat /\ Len(s) > 0
        /\ SubSeq(text, from, from + Len(s) - 1) = s
    <2>1. \A i \in from .. to - 1 : text[i] \in Pieces  BY ElementOfSeq, LenProperties
    <2>2. s \in Seq(Pieces) /\ Len(s) = (to - 1) - from + 1  BY <1>1, <2>1, SubSeqProperties
    <2>3. from + Len(s) - 1 = to - 1  BY <2>2
    <2> QED  BY <1>1, <2>2, <2>3
  <1>3. PICK similar : similar = Similar(text, s, wish)  OBVIOUS
  <1>4. ~Blocked(s) /\ a = Advice("suggested", Supported(s, similar), text, s, wish)
    BY <1>1, <1>3 DEF BuildSuggestion, Advice
  <1>5. /\ a.suggestion = Supported(s, similar) /\ a.made = text /\ a.of = s /\ a.wish = wish
    BY <1>4 DEF Advice
  <1>6. Cardinality(Bullets(s)) <= 1
    <2>1. IsFiniteSet(Bullets(s))
      <3>1. IsFiniteSet(1 .. Len(s))  BY <1>2, FS_Interval
      <3>2. Bullets(s) \subseteq 1 .. Len(s)  BY <1>2, LenProperties DEF Bullets
      <3> QED  BY <3>1, <3>2, FS_Subset
    <2>2. Cardinality(Bullets(s)) \in Nat  BY <2>1, FS_CardinalityType
    <2> QED  BY <1>4, <2>2 DEF Blocked
  <1>7. similar \subseteq known  BY <1>3 DEF Similar
  <1>8. similar \in SUBSET Abilities /\ s # << >>  BY <1>2, <1>7, EmptySeq
  <1>9. /\ a.suggestion \in Seq(Pieces)
        /\ (UNION {p.named : p \in ToSet(a.suggestion)})
               \ (UNION {p.named : p \in ToSet(s)}) \subseteq similar
    <2>1. /\ Supported(s, similar) \in Seq(Pieces)
          /\ (UNION {p.named : p \in ToSet(Supported(s, similar))})
               \ (UNION {p.named : p \in ToSet(s)}) \subseteq similar
      BY Zenon, <1>2, <1>8, SupportedPieces
    <2> QED  BY <1>5, <2>1
  <1>10. PICK places : places = {i \in 1 .. Len(text) - Len(s) + 1 :
                                   SubSeq(text, i, i + Len(s) - 1) = s}
    BY Zenon
  <1>11. from \in places
    <2>1. Len(text) \in Nat  BY LenProperties
    <2>2. from \in 1 .. Len(text) - Len(s) + 1  BY <1>2, <2>1
    <2> QED  BY <1>2, <1>10, <2>2
  <1>12. PICK first : first = FirstAt(text, s)  OBVIOUS
  <1>13. first \in places /\ first \in Nat
    <2>1. places \in SUBSET Nat  BY <1>2, <1>10, LenProperties
    <2> QED  BY Zenon, <1>10, <1>11, <1>12, <2>1, MinOfNumbers DEF FirstAt
  <1>14. PICK above : above = {h \in 1 .. first - 1 : text[h].kind = "heading"}  BY Zenon
  <1>15. above = HeadingsBefore(text, s)  BY <1>12, <1>14 DEF HeadingsBefore
  <1>16. above # {} => Max(above) # 0
    <2> SUFFICES ASSUME above # {}  PROVE Max(above) # 0
      OBVIOUS
    <2>1. above \in SUBSET Nat /\ \A h \in above : h <= first  BY <1>13, <1>14
    <2>2. Max(above) \in above  BY Zenon, <1>13, <2>1, MaxOfNumbers
    <2> QED  BY <1>14, <2>2
  <1>17. PICK section : section = SelectLastInSubSeq(text, 1, first - 1, LAMBDA p : p.kind = "heading")
    BY Zenon
  <1>18. section = IF above # {} THEN Max(above) ELSE 0
    BY <1>14, <1>17 DEF SelectLastInSubSeq
  <1>19. similar \subseteq AboutOf(s) \cup wish
                            \cup IF section = 0 THEN {} ELSE text[section].about
    BY <1>3, <1>15, <1>16, <1>18 DEF Similar
  <1>20. IsFit(a, text, known)
    <2>1. (UNION {p.named : p \in ToSet(a.suggestion)}) \ (UNION {p.named : p \in ToSet(a.of)})
            \subseteq AboutOf(a.of) \cup a.wish
                \cup IF SelectLastInSubSeq(text, 1, first - 1, LAMBDA p : p.kind = "heading") = 0
                     THEN {} ELSE text[SelectLastInSubSeq(text, 1, first - 1, LAMBDA p : p.kind = "heading")].about
      BY Zenon, <1>5, <1>9, <1>14, <1>18, <1>19 DEF SelectLastInSubSeq
    <2>2. first \in {i \in 1 .. Len(text) - Len(a.of) + 1 :
                       SubSeq(text, i, i + Len(a.of) - 1) = a.of}
      BY Zenon, <1>5, <1>10, <1>13
    <2>3. /\ a.made = text /\ Cardinality(Bullets(a.of)) <= 1
          /\ (UNION {p.named : p \in ToSet(a.suggestion)}) \ (UNION {p.named : p \in ToSet(a.of)})
               \subseteq known
      BY <1>5, <1>6, <1>7, <1>9
    <2> QED  BY Zenon, <2>1, <2>2, <2>3 DEF IsFit, SelectLastInSubSeq
  <1> QED  BY <1>9, <1>20

LEMMA LengthOfText ==
  ASSUME SelectionInv
  PROVE  Len(content) \in Nat /\ (content # << >> => range[1] \in Nat \ {0} /\ range[2] \in Nat
           /\ range[1] <= range[2] /\ range[2] <= Len(content) + 1)
  <1>1. Len(content) \in Nat  BY LenProperties DEF SelectionInv, SelectionTypes
  <1> QED  BY <1>1 DEF SelectionInv, SelectionTypes, Ranges

\* A selection in the text, and nothing else that matters.
LEMMA RangeMoves ==
  ASSUME SelectionInv, UNCHANGED <<content, advice, known>>, content # << >> => range' \in Ranges,
         anchor' \in Nat
  PROVE  SelectionInv'
  <1>1. Ranges' = Ranges  BY DEF Ranges
  <1>2. SelectionTypes'  BY <1>1 DEF SelectionInv, SelectionTypes
  <1> QED  BY <1>2 DEF SelectionInv

\* What stands before and behind the selection.
LEMMA EditorParts ==
  ASSUME SelectionInv, content # << >>
  PROVE  /\ SubSeq(content, 1, range[1] - 1) \in Seq(Pieces)
         /\ Len(SubSeq(content, 1, range[1] - 1)) = range[1] - 1
         /\ SubSeq(content, range[2], Len(content)) \in Seq(Pieces)
         /\ Len(SubSeq(content, range[2], Len(content))) = Len(content) - range[2] + 1
  <1>1. PICK from, to : from = range[1] /\ to = range[2]  OBVIOUS
  <1>2. /\ Len(content) \in Nat /\ from \in Nat \ {0} /\ to \in Nat
        /\ from <= to /\ to <= Len(content) + 1
    BY <1>1, LengthOfText
  <1>3. \A i \in 1 .. Len(content) : content[i] \in Pieces
    BY ElementOfSeq DEF SelectionInv, SelectionTypes
  <1>4. /\ SubSeq(content, 1, from - 1) \in Seq(Pieces)
        /\ Len(SubSeq(content, 1, from - 1)) = from - 1
    <2>1. \A i \in 1 .. from - 1 : content[i] \in Pieces  BY <1>2, <1>3
    <2>2. /\ SubSeq(content, 1, from - 1) \in Seq(Pieces)
          /\ Len(SubSeq(content, 1, from - 1)) = IF 1 <= from - 1 THEN (from - 1) - 1 + 1 ELSE 0
      BY <1>2, <2>1, SubSeqProperties
    <2> QED  BY <1>2, <2>2
  <1>5. /\ SubSeq(content, to, Len(content)) \in Seq(Pieces)
        /\ Len(SubSeq(content, to, Len(content))) = Len(content) - to + 1
    <2>1. \A i \in to .. Len(content) : content[i] \in Pieces  BY <1>2, <1>3
    <2>2. /\ SubSeq(content, to, Len(content)) \in Seq(Pieces)
          /\ Len(SubSeq(content, to, Len(content)))
               = IF to <= Len(content) THEN Len(content) - to + 1 ELSE 0
      BY <1>2, <2>1, SubSeqProperties
    <2> QED  BY <1>2, <2>2
  <1> QED  BY <1>1, <1>4, <1>5

\* A drag with the right button selects a part of the text, of whatever length by then.
LEMMA DragIsInText ==
  ASSUME SelectionInv, content # << >>, anchor # 0, NEW i \in Nat \ {0}
  PROVE  Between(i) \in Ranges
  <1>1. PICK last : last = Len(content) + 1  OBVIOUS
  <1>2. last \in Nat \ {0} /\ anchor \in Nat \ {0}
    BY <1>1, LengthOfText DEF SelectionInv, SelectionTypes
  <1>3. PICK a : a = Min({anchor, i, last})  OBVIOUS
  <1>4. a \in {anchor, i, last} /\ a <= anchor /\ a <= last
    <2>1. {anchor, i, last} \in SUBSET Nat /\ {anchor, i, last} # {}  BY <1>2
    <2>2. Min({anchor, i, last}) \in {anchor, i, last}
          /\ \A y \in {anchor, i, last} : Min({anchor, i, last}) <= y
      BY Zenon, <2>1, MinOfNumbers
    <2> QED  BY <1>3, <2>2
  <1>5. PICK m : m = Max({anchor, i})  OBVIOUS
  <1>6. m \in {anchor, i} /\ m >= anchor
    <2>1. /\ {anchor, i} \in SUBSET Nat /\ {anchor, i} # {} /\ anchor + i \in Nat
          /\ \A y \in {anchor, i} : y <= anchor + i
      BY <1>2
    <2>2. Max({anchor, i}) \in {anchor, i} /\ \A y \in {anchor, i} : Max({anchor, i}) >= y
      BY Zenon, <2>1, MaxOfNumbers
    <2> QED  BY <1>5, <2>2
  <1>7. PICK b : b = Min({m, last})  OBVIOUS
  <1>8. b \in {m, last} /\ b <= last
    <2>1. {m, last} \in SUBSET Nat /\ {m, last} # {}  BY <1>2, <1>6
    <2>2. Min({m, last}) \in {m, last} /\ \A y \in {m, last} : Min({m, last}) <= y
      BY Zenon, <2>1, MinOfNumbers
    <2> QED  BY <1>7, <2>2
  <1>9. Between(i) = <<a, b>>  BY <1>1, <1>3, <1>5, <1>7 DEF Between
  <1>10. a \in 1 .. last /\ b \in 1 .. last /\ a <= b  BY <1>2, <1>4, <1>6, <1>8
  <1> QED  BY <1>1, <1>9, <1>10 DEF Ranges

\* Every step keeps the invariant.
LEMMA SelectionSteps == SelectionInv /\ [SelectionNext]_selectionVars => SelectionInv'
  <1> SUFFICES ASSUME SelectionInv, [SelectionNext]_selectionVars  PROVE SelectionInv'
    OBVIOUS
  <1>0. anchor \in Nat /\ (content # << >> => range \in Ranges)
    BY DEF SelectionInv, SelectionTypes
  <1>1. CASE UNCHANGED selectionVars  BY <1>0, <1>1, RangeMoves DEF selectionVars
  <1>2. ASSUME NEW text \in Drafts, OpenEditor(text)  PROVE SelectionInv'
    <2>1. content' \in Seq(Pieces)  BY <1>2, DraftsAssumption DEF OpenEditor
    <2>2. PICK n \in Nat : Len(content') = n  BY <2>1, LenProperties
    <2>3. range' = <<1, 1>> /\ advice'.status = "idle" /\ UNCHANGED <<anchor, known>>
      BY <1>2 DEF OpenEditor, Nowhere, Idle, Advice
    <2>4. (range \in Ranges)'  BY <2>2, <2>3 DEF Ranges
    <2> QED  BY <2>1, <2>3, <2>4 DEF SelectionInv, SelectionTypes
  <1>3. CASE CloseEditor
    BY <1>3, EmptySeq DEF CloseEditor, SelectionInv, SelectionTypes
  <1>4. ASSUME NEW a \in Abilities, LearnAbility(a)  PROVE SelectionInv'
    BY <1>4 DEF LearnAbility, SelectionInv, SelectionTypes
  <1>5. ASSUME NEW r \in Ranges, Select(r)  PROVE SelectionInv'
    BY <1>0, <1>5, RangeMoves DEF Select, UpdateSelection
  <1>6. ASSUME NEW i \in 1 .. Len(content), BeginRightDrag(i)  PROVE SelectionInv'
    <2>1. <<i, i>> \in Ranges /\ i \in Nat  BY LengthOfText DEF Ranges
    <2> QED  BY <1>6, <2>1, RangeMoves DEF BeginRightDrag, UpdateSelection
  <1>7. ASSUME NEW i \in 1 .. MaxPieces, MoveRightDrag(i)  PROVE SelectionInv'
    <2>1. i \in Nat \ {0}  OBVIOUS
    <2>2. Between(i) \in Ranges  BY <1>7, <2>1, DragIsInText DEF MoveRightDrag
    <2> QED  BY <1>0, <1>7, <2>2, RangeMoves DEF MoveRightDrag, UpdateSelection
  <1>8. ASSUME NEW i \in 1 .. MaxPieces, EndRightDrag(i)  PROVE SelectionInv'
    <2>1. i \in Nat \ {0}  OBVIOUS
    <2>2. Between(i) \in Ranges  BY <1>8, <2>1, DragIsInText DEF EndRightDrag
    <2> QED  BY <1>8, <2>2, RangeMoves DEF EndRightDrag
  <1>9. CASE CancelRightDrag  BY <1>0, <1>9, RangeMoves DEF CancelRightDrag
  <1>10. ASSUME NEW input \in {<< >>} \cup {<<p>> : p \in Typed}, HandleEditorInput(input)
         PROVE  SelectionInv'
    <2>1. input \in Seq(Pieces)
      <3>1. \A p \in Typed : <<p>> \in Seq(Pieces)  BY DraftsAssumption
      <3> QED  BY Zenon, <3>1, EmptySeq
    <2>2. PICK before, after : /\ before = SubSeq(content, 1, range[1] - 1)
                               /\ after = SubSeq(content, range[2], Len(content))
      BY Zenon
    <2>3. /\ content' = before \o input \o after
          /\ range' = <<range[1] + Len(input), range[1] + Len(input)>>
          /\ advice' = Idle /\ UNCHANGED <<anchor, known>> /\ content # << >>
      BY <1>10, <2>2 DEF HandleEditorInput, UpdateSelection, Reset
    <2>4. /\ before \in Seq(Pieces) /\ Len(before) = range[1] - 1
          /\ after \in Seq(Pieces) /\ Len(after) = Len(content) - range[2] + 1
      BY Zenon, <2>2, <2>3, LengthOfText, EditorParts
    <2>5. content' \in Seq(Pieces) /\ Len(content') = Len(before) + Len(input) + Len(after)
      <3>1. PICK start : start = before \o input  BY Zenon
      <3>2. start \in Seq(Pieces) /\ Len(start) = Len(before) + Len(input)
        BY Zenon, <2>1, <2>4, <3>1, ConcatProperties
      <3>3. start \o after \in Seq(Pieces) /\ Len(start \o after) = Len(start) + Len(after)
        BY Zenon, <2>4, <3>2, ConcatProperties
      <3> QED  BY <2>3, <3>1, <3>2, <3>3
    <2>6. PICK n : n = Len(content')  BY Zenon
    <2>7. PICK k : k = range[1] + Len(input)  OBVIOUS
    <2>8. Len(input) \in Nat  BY <2>1, LenProperties
    <2>9. k \in 1 .. n + 1
      <3>1. PICK from, to, size : from = range[1] /\ to = range[2] /\ size = Len(content)
        BY Zenon
      <3>2. from \in Nat \ {0} /\ to \in Nat /\ size \in Nat /\ to <= size + 1
        BY <2>3, <3>1, LengthOfText
      <3>3. PICK m \in Nat : m = Len(input)  BY <2>8
      <3>4. n = (from - 1) + m + (size - to + 1)  BY <2>4, <2>5, <2>6, <3>1, <3>3
      <3>5. k = from + m  BY <2>7, <3>1, <3>3
      <3> QED  BY <3>2, <3>4, <3>5
    <2>10. (range \in Ranges)'  BY <2>3, <2>6, <2>7, <2>9 DEF Ranges
    <2>11. advice'.status # "suggested"  BY <2>3 DEF Idle, Advice
    <2> QED  BY Zenon, <1>0, <2>3, <2>5, <2>10, <2>11 DEF SelectionInv, SelectionTypes
  <1>11. CASE HandleContextMenu  BY <1>0, <1>11, RangeMoves DEF HandleContextMenu
  <1>12. CASE HandleOutsideEvent  BY <1>0, <1>12, RangeMoves DEF HandleOutsideEvent
  <1>13. CASE OpenSelectionSkill
    <2>1. advice'.status # "suggested" /\ UNCHANGED <<content, range, anchor, known>>
      BY <1>13 DEF OpenSelectionSkill, Idle, Advice
    <2>2. Ranges' = Ranges  BY <2>1 DEF Ranges
    <2> QED  BY <2>1, <2>2 DEF SelectionInv, SelectionTypes
  <1>14. ASSUME NEW wish \in Wishes, GenerateSelectionSuggestion(wish)  PROVE SelectionInv'
    <2>1. /\ content # << >> /\ range[1] # range[2]
          /\ advice' = BuildSuggestion(content, SubSeq(content, range[1], range[2] - 1), wish)
          /\ UNCHANGED <<content, range, anchor, known>>
      BY <1>14 DEF GenerateSelectionSuggestion, Empty, SelectedIn
    <2>2. PICK a : a = advice'  OBVIOUS
    <2>3. PICK from, to : from = range[1] /\ to = range[2]  OBVIOUS
    <2>4. /\ from \in Nat \ {0} /\ to \in Nat /\ from < to /\ to <= Len(content) + 1
      BY <2>1, <2>3, LengthOfText
    <2>5. a.status = "suggested" => a.suggestion \in Seq(Pieces) /\ IsFit(a, content, known)
      BY Zenon, <2>1, <2>2, <2>3, <2>4, SuggestionIsFit DEF SelectionInv, SelectionTypes
    <2>6. Ranges' = Ranges  BY <2>1 DEF Ranges
    <2> QED  BY <2>1, <2>2, <2>5, <2>6 DEF SelectionInv, SelectionTypes
  <1>15. CASE ApplySelectionSuggestion
    <2>1. PICK before, after : /\ before = SubSeq(content, 1, range[1] - 1)
                               /\ after = SubSeq(content, range[2], Len(content))
      BY Zenon
    <2>2. /\ content' = before \o advice.suggestion \o after /\ range' = <<1, 1>>
          /\ advice' = Idle /\ UNCHANGED <<anchor, known>> /\ content # << >>
          /\ advice.status = "suggested"
      BY <1>15, <2>1 DEF ApplySelectionSuggestion, Nowhere, Reset
    <2>3. /\ before \in Seq(Pieces) /\ after \in Seq(Pieces)
      BY Zenon, <2>1, <2>2, LengthOfText, EditorParts
    <2>4. advice.suggestion \in Seq(Pieces)  BY <2>2 DEF SelectionInv, SelectionTypes
    <2>5. content' \in Seq(Pieces)
      <3>1. before \o advice.suggestion \in Seq(Pieces)  BY <2>3, <2>4, ConcatProperties
      <3> QED  BY <2>2, <2>3, <3>1, ConcatProperties
    <2>6. PICK n \in Nat : Len(content') = n  BY <2>5, LenProperties
    <2>7. (range \in Ranges)'  BY <2>2, <2>6 DEF Ranges
    <2>8. advice'.status # "suggested"  BY <2>2 DEF Idle, Advice
    <2> QED  BY <1>0, <2>2, <2>5, <2>7, <2>8 DEF SelectionInv, SelectionTypes
  <1> QED
    BY <1>1, <1>2, <1>3, <1>4, <1>5, <1>6, <1>7, <1>8, <1>9, <1>10, <1>11, <1>12, <1>13, <1>14,
       <1>15 DEF SelectionNext

\* Whatever was selected, typed and applied: the selection lies in the text, and a
\* replacement on offer was made of the text in the editor, with evidence that has to do
\* with it (resumeSelectionSkill.ts and the editor).
THEOREM AdviceIsApt == SelectionSpec => []AdviceFits
  BY SelectionStarts, SelectionSteps, SelectionHolds, PTL DEF SelectionSpec
-----------------------------------------------------------------------------
\* The abilities and their judges.

\* What the page of the abilities does, without fairness.
JudgeSpec == JudgeInit /\ [][JudgeNext]_judgeVars

\* Calls that end with a judge in the dialog; and those about evidences.
Opening == {"open"} \cup Moving
AboutEvidence == {"evidence", "mark"}

IsJudgeCall(c) ==
  /\ c = [n |-> c.n, kind |-> c.kind, of |-> c.of, data |-> c.data, by |-> c.by,
          stage |-> c.stage, got |-> c.got]
  /\ c.kind \in Opening \cup {"refresh"} \cup AboutEvidence
  /\ c.stage \in {"sent", "done", "lost", "refused"}
  /\ c.kind = "refresh" => c.of = Unknown
  /\ c.kind # "refresh" => c.of \in Judges
  /\ c.kind = "open" => c.data \in Statuses
  /\ c.kind = "mark" => c.data \in BOOLEAN
  /\ c.kind \in {"open", "mark"} => c.by = "none"
  /\ c.stage = "done" =>
       /\ c.kind \in Opening => c.got \in Statuses
       /\ c.kind = "refresh" => c.got \in [Judges -> Statuses]
       /\ c.kind \in AboutEvidence => c.got \in BOOLEAN

JudgeShown == [id : Judges, status : Statuses]

\* What is typed is for the judge of the dialog.
JudgeTypes ==
  /\ judge \in [Judges -> Statuses] /\ judges \in [Judges -> Statuses]
  /\ marked \in [Judges -> BOOLEAN] /\ timelines \in [Judges -> BOOLEAN \cup {Unknown}]
  /\ shownJudge \in BOOLEAN /\ judgeBusy \in BOOLEAN
  /\ refreshing \in BOOLEAN /\ strayed \in BOOLEAN
  /\ shownJudge => active \in JudgeShown
  /\ typed # Unknown => active \in JudgeShown /\ typed = active.id
  /\ selected \in Judges /\ loadingEvidence \in Judges \cup {Unknown}
  /\ \A c \in judgeCalls : IsJudgeCall(c)

\* Answers go to the judge they were typed for, and unless another judge was called for
\* before, every judge under way or shown is the one opened last.
WantedIsShown ==
  /\ \A c \in judgeCalls : c.kind = "submit" => c.data = c.of
  /\ ~strayed =>
       /\ \A c \in judgeCalls : c.kind \in Opening => c.of = wanted
       /\ shownJudge => active.id = wanted

\* The list and the dialog show the status at the backend.
Agrees(j) ==
  /\ judges[j] = judge[j]
  /\ shownJudge /\ active.id = j => active.status = judge[j]

\* Of a judge none of whose calls overlap: while nothing moves it, list, dialog and the
\* answers under way agree; while a call does, the call alone is under way, and its answer
\* is the status.
StatusesAgree ==
  \A j \in Judges \ hazy :
    /\ (\A c \in judgeCalls : c.kind \in Moving => c.of # j) =>
         /\ Agrees(j)
         /\ \A c \in judgeCalls :
              /\ c.kind = "open" /\ c.of = j => c.data = judge[j] /\ StatusOf(c) = judge[j]
              /\ c.kind = "refresh" /\ c.stage = "done" => c.got[j] = judge[j]
    /\ \A c \in judgeCalls : c.kind \in Moving /\ c.of = j =>
         /\ \A d \in judgeCalls : d.kind # "refresh" /\ ~(d.kind = "open" /\ d.of = j)
         /\ c.stage \in {"sent", "refused"} => Agrees(j)
         /\ c.stage = "done" => c.got = judge[j]

\* The button of the dialog waits for the call.
Waits(c) == c.kind \in Moving \/ c.by = "submit"

OneWaits ==
  /\ \A c, d \in judgeCalls : Waits(c) /\ Waits(d) => c = d
  /\ judgeBusy <=> \E c \in judgeCalls : Waits(c)

\* Of an ability none of whose calls overlap: the same of its evidence and its mark.
MarksAgree ==
  \A a \in Judges \ mixed :
    /\ (\A c \in judgeCalls : c.kind = "mark" => c.of # a) =>
         /\ timelines[a] \in {Unknown, marked[a]}
         /\ \A c \in judgeCalls :
              c.kind = "evidence" /\ c.of = a /\ c.stage = "done" => c.got = marked[a]
    /\ \A c \in judgeCalls : c.kind = "mark" /\ c.of = a =>
         /\ \A d \in judgeCalls : d.of = a => d.kind # "evidence" /\ (d.kind = "mark" => d = c)
         /\ c.stage \in {"sent", "refused"} => timelines[a] \in {Unknown, marked[a]}
         /\ c.stage = "done" => c.got = marked[a]

\* The evidence of the ability selected is there or comes, and what is said to be loading
\* is.
EvidenceComes ==
  /\ \/ timelines[selected] # Unknown \/ selected \in refused
     \/ \E c \in judgeCalls : c.kind = "evidence" /\ c.of = selected
  /\ loadingEvidence # Unknown =>
       \E c \in judgeCalls : c.kind = "evidence" /\ c.of = loadingEvidence

\* The inductive invariant.
JudgeInv ==
  /\ JudgeTypes /\ WantedIsShown /\ StatusesAgree
  /\ OneWaits /\ MarksAgree /\ EvidenceComes

LEMMA JudgesStart == JudgeInit => JudgeInv
  <1> SUFFICES ASSUME JudgeInit  PROVE JudgeInv
    OBVIOUS
  <1>1. selected \in Judges
    <2>1. PICK a : a = (CHOOSE x \in Judges : TRUE)  OBVIOUS
    <2>2. a \in Judges  BY <2>1, JudgesAssumption
    <2> QED  BY <2>1, <2>2 DEF JudgeInit
  <1>2. /\ judge \in [Judges -> Statuses] /\ judges = judge /\ judgeCalls = {}
        /\ ~shownJudge /\ ~judgeBusy /\ loadingEvidence = Unknown /\ typed = Unknown
    BY DEF JudgeInit, Statuses
  <1>3. /\ marked \in [Judges -> BOOLEAN] /\ timelines \in [Judges -> BOOLEAN \cup {Unknown}]
        /\ timelines[selected] # Unknown
        /\ \A a \in Judges : timelines[a] \in {Unknown, marked[a]}
    BY Zenon, <1>1, JudgesAssumption DEF JudgeInit
  <1>4. JudgeTypes  BY Zenon, <1>1, <1>2, <1>3 DEF JudgeInit, JudgeTypes
  <1>5. WantedIsShown /\ StatusesAgree  BY <1>2 DEF WantedIsShown, StatusesAgree, Agrees
  <1>6. OneWaits /\ MarksAgree /\ EvidenceComes
    BY <1>2, <1>3 DEF OneWaits, MarksAgree, EvidenceComes
  <1> QED  BY <1>4, <1>5, <1>6 DEF JudgeInv

\* A call that begins is one more.
LEMMA AskedCalls ==
  ASSUME NEW kind, NEW of, NEW data, NEW by, NEW others, Ask(kind, of, data, by, others)
  PROVE  \E new : /\ new = [n |-> new.n, kind |-> kind, of |-> of, data |-> data, by |-> by,
                            stage |-> "sent", got |-> Unknown]
                  /\ new.kind = kind /\ new.of = of /\ new.data = data /\ new.by = by
                  /\ new.stage = "sent"
                  /\ judgeCalls' = others \cup {new}
  <1>1. PICK n : judgeCalls' = others \cup {[n |-> n, kind |-> kind, of |-> of, data |-> data,
                                             by |-> by, stage |-> "sent", got |-> Unknown]}
    BY Zenon DEF Ask
  <1>2. PICK new : new = [n |-> n, kind |-> kind, of |-> of, data |-> data,
                          by |-> by, stage |-> "sent", got |-> Unknown]
    BY Zenon
  <1> QED  BY <1>1, <1>2

\* What is done with evidences leaves the judges alone.
LEMMA JudgesUntouched ==
  ASSUME JudgeInv,
         UNCHANGED <<judge, judges, active, shownJudge, wanted, strayed, hazy>>,
         \A c \in judgeCalls : c.kind \in Opening \cup {"refresh"} => c \in judgeCalls',
         \A c \in judgeCalls' : c \in judgeCalls \/ c.kind \in AboutEvidence
  PROVE  WantedIsShown' /\ StatusesAgree'
  <1>1. \A c \in judgeCalls' :
          c.kind \in Opening \cup {"refresh"} <=> c.kind \in Opening \cup {"refresh"} /\ c \in judgeCalls
    BY DEF AboutEvidence, Opening, Moving
  <1>2. WantedIsShown'  BY <1>1 DEF JudgeInv, WantedIsShown, Opening, Moving
  <1>3. StatusesAgree'
    <2> SUFFICES ASSUME NEW j \in Judges \ hazy
                 PROVE  /\ (\A c \in judgeCalls' : c.kind \in Moving => c.of # j) =>
                             /\ Agrees(j)'
                             /\ \A c \in judgeCalls' :
                                  /\ c.kind = "open" /\ c.of = j =>
                                       c.data = judge[j] /\ StatusOf(c) = judge[j]
                                  /\ c.kind = "refresh" /\ c.stage = "done" => c.got[j] = judge[j]
                        /\ \A c \in judgeCalls' : c.kind \in Moving /\ c.of = j =>
                             /\ \A d \in judgeCalls' :
                                  d.kind # "refresh" /\ ~(d.kind = "open" /\ d.of = j)
                             /\ c.stage \in {"sent", "refused"} => Agrees(j)'
                             /\ c.stage = "done" => c.got = judge[j]
      BY DEF StatusesAgree, StatusOf
    <2>1. Agrees(j)' <=> Agrees(j)  BY DEF Agrees
    <2> QED  BY <1>1, <2>1 DEF JudgeInv, StatusesAgree, Opening, Moving
  <1> QED  BY <1>2, <1>3

\* What is done with judges leaves the evidences alone.
LEMMA EvidencesUntouched ==
  ASSUME JudgeInv,
         UNCHANGED <<marked, timelines, selected, loadingEvidence, mixed, refused>>,
         \A c \in judgeCalls : c.kind \in AboutEvidence => c \in judgeCalls',
         \A c \in judgeCalls' : c \in judgeCalls \/ c.kind \in Opening \cup {"refresh"}
  PROVE  MarksAgree' /\ EvidenceComes'
  <1>1. \A c \in judgeCalls' : c.kind \in AboutEvidence => c \in judgeCalls
    BY DEF AboutEvidence, Opening, Moving
  <1>2. MarksAgree'  BY <1>1 DEF JudgeInv, MarksAgree, AboutEvidence
  <1>3. EvidenceComes'  BY <1>1 DEF JudgeInv, EvidenceComes, AboutEvidence
  <1> QED  BY <1>2, <1>3

\* A call is served, refused, or its answer is lost.
LEMMA ServingJudges ==
  ASSUME JudgeInv, NEW c \in judgeCalls, ServeAbility(c)
  PROVE  JudgeInv'
  <1>1. /\ c.stage = "sent" /\ IsJudgeCall(c)
        /\ UNCHANGED <<judges, active, shownJudge, judgeBusy, refreshing, typed, selected,
                       timelines, loadingEvidence, judgeBegun, wanted, strayed, hazy, mixed, refused>>
    BY DEF ServeAbility, JudgeInv, JudgeTypes
  <1>2. PICK s \in {"done", "lost", "refused"} :
          /\ AbilityStage(c, s)
          /\ IF s = "refused" THEN UNCHANGED <<judge, marked>> ELSE AbilityServed(c)
    BY DEF ServeAbility
  <1>3. PICK got : got = IF s = "done" THEN AbilityAnswer(c) ELSE Unknown  OBVIOUS
  <1>4. PICK new : new = [c EXCEPT !.stage = s, !.got = got]  OBVIOUS
  <1>5. /\ new = [n |-> c.n, kind |-> c.kind, of |-> c.of, data |-> c.data, by |-> c.by,
                  stage |-> s, got |-> got]
        /\ new.n = c.n /\ new.kind = c.kind /\ new.of = c.of /\ new.data = c.data /\ new.by = c.by
        /\ new.stage = s /\ new.got = got
    BY Zenon, <1>1, <1>4 DEF IsJudgeCall
  <1>6. judgeCalls' = (judgeCalls \ {c}) \cup {new}
    BY <1>2, <1>3, <1>4 DEF AbilityStage
  <1>7. /\ judge' \in [Judges -> Statuses]
        /\ c.kind \notin Moving \/ s = "refused" => judge' = judge
        /\ c.kind \in Moving => \A j \in Judges \ {c.of} : judge'[j] = judge[j]
    <2>1. CASE s = "refused"  BY <1>2, <2>1 DEF JudgeInv, JudgeTypes
    <2>2. CASE s # "refused"
      <3>1. Judged(c)  BY <1>2, <2>2 DEF AbilityServed
      <3> QED  BY <1>1, <2>2, <3>1 DEF Judged, Moving, IsJudgeCall, Statuses, JudgeInv, JudgeTypes
    <2> QED  BY <2>1, <2>2
  <1>8. /\ marked' \in [Judges -> BOOLEAN]
        /\ c.kind # "mark" \/ s = "refused" => marked' = marked
        /\ c.kind = "mark" => \A a \in Judges \ {c.of} : marked'[a] = marked[a]
    BY <1>1, <1>2 DEF AbilityServed, IsJudgeCall, JudgeInv, JudgeTypes
  <1>9. s = "done" => /\ c.kind \in Opening => got = judge'[c.of]
                      /\ c.kind = "refresh" => got = judge'
                      /\ c.kind \in AboutEvidence => got = marked'[c.of]
    BY <1>3 DEF AbilityAnswer, Opening, Moving, AboutEvidence
  <1>10. JudgeTypes'
    <2>1. IsJudgeCall(new)
      BY <1>1, <1>5, <1>7, <1>8, <1>9 DEF IsJudgeCall, Opening, Moving, AboutEvidence
    <2>2. \A d \in judgeCalls' : IsJudgeCall(d)  BY <1>6, <2>1 DEF JudgeInv, JudgeTypes
    <2> QED  BY <1>1, <1>7, <1>8, <2>2 DEF JudgeInv, JudgeTypes
  <1>11. WantedIsShown'  BY <1>1, <1>5, <1>6 DEF JudgeInv, WantedIsShown
  <1>12. OneWaits'
    <2>1. Waits(new) <=> Waits(c)  BY <1>5 DEF Waits
    <2> QED  BY <1>1, <1>6, <2>1 DEF JudgeInv, OneWaits
  <1>13. EvidenceComes'  BY <1>1, <1>5, <1>6 DEF JudgeInv, EvidenceComes
  <1>14. StatusesAgree'
    <2> SUFFICES ASSUME NEW j \in Judges \ hazy
                 PROVE  /\ (\A d \in judgeCalls' : d.kind \in Moving => d.of # j) =>
                             /\ Agrees(j)'
                             /\ \A d \in judgeCalls' :
                                  /\ d.kind = "open" /\ d.of = j =>
                                       d.data = judge'[j] /\ StatusOf(d) = judge'[j]
                                  /\ d.kind = "refresh" /\ d.stage = "done" => d.got[j] = judge'[j]
                        /\ \A d \in judgeCalls' : d.kind \in Moving /\ d.of = j =>
                             /\ \A e \in judgeCalls' :
                                  e.kind # "refresh" /\ ~(e.kind = "open" /\ e.of = j)
                             /\ d.stage \in {"sent", "refused"} => Agrees(j)'
                             /\ d.stage = "done" => d.got = judge'[j]
      BY <1>1 DEF StatusesAgree, StatusOf
    <2>1. judge'[j] = judge[j] => (Agrees(j)' <=> Agrees(j))  BY <1>1 DEF Agrees
    <2>2. CASE c.kind \in Moving /\ c.of = j
      <3>1. \A d \in judgeCalls : d.kind \in Moving => d = c
        BY <2>2 DEF JudgeInv, OneWaits, Waits
      <3>2. /\ \A e \in judgeCalls : e.kind # "refresh" /\ ~(e.kind = "open" /\ e.of = j)
            /\ Agrees(j)
        BY <1>1, <2>2 DEF JudgeInv, StatusesAgree
      <3>3. \A e \in judgeCalls' : e.kind # "refresh" /\ ~(e.kind = "open" /\ e.of = j)
        BY <1>5, <1>6, <3>2
      <3>4. s = "refused" => Agrees(j)'  BY <1>7, <2>1, <3>2
      <3>5. s = "done" => got = judge'[j]  BY <1>9, <2>2 DEF Opening
      <3>6. \A d \in judgeCalls' : d.kind \in Moving => d = new  BY <1>6, <3>1
      <3> QED  BY <1>5, <1>6, <2>2, <3>3, <3>4, <3>5, <3>6
    <2>3. CASE ~(c.kind \in Moving /\ c.of = j)
      <3>1. judge'[j] = judge[j]  BY <1>7, <2>3
      <3>2. (\A d \in judgeCalls' : d.kind \in Moving => d.of # j)
            <=> \A d \in judgeCalls : d.kind \in Moving => d.of # j
        BY <1>5, <1>6, <2>3
      <3>3. c.kind = "open" => StatusOf(new) = IF s = "done" THEN judge'[c.of] ELSE c.data
        BY <1>5, <1>9 DEF StatusOf, Opening
      <3>4. c.kind = "refresh" /\ s = "done" => got[j] = judge'[j]  BY <1>9
      <3>5. ASSUME \A d \in judgeCalls' : d.kind \in Moving => d.of # j
            PROVE  /\ Agrees(j)'
                   /\ \A d \in judgeCalls' :
                        /\ d.kind = "open" /\ d.of = j => d.data = judge'[j] /\ StatusOf(d) = judge'[j]
                        /\ d.kind = "refresh" /\ d.stage = "done" => d.got[j] = judge'[j]
        BY <1>5, <1>6, <2>1, <3>1, <3>2, <3>3, <3>4, <3>5 DEF JudgeInv, StatusesAgree
      <3>6. ASSUME NEW d \in judgeCalls', d.kind \in Moving /\ d.of = j
            PROVE  /\ \A e \in judgeCalls' : e.kind # "refresh" /\ ~(e.kind = "open" /\ e.of = j)
                   /\ d.stage \in {"sent", "refused"} => Agrees(j)'
                   /\ d.stage = "done" => d.got = judge'[j]
        <4>1. d \in judgeCalls  BY <1>5, <1>6, <2>3, <3>6
        <4> QED  BY <1>5, <1>6, <2>1, <3>1, <3>6, <4>1 DEF JudgeInv, StatusesAgree
      <3> QED  BY <3>5, <3>6
    <2> QED  BY <2>2, <2>3
  <1>15. MarksAgree'
    <2> SUFFICES ASSUME NEW a \in Judges \ mixed
                 PROVE  /\ (\A d \in judgeCalls' : d.kind = "mark" => d.of # a) =>
                             /\ timelines[a] \in {Unknown, marked'[a]}
                             /\ \A d \in judgeCalls' :
                                  d.kind = "evidence" /\ d.of = a /\ d.stage = "done" =>
                                    d.got = marked'[a]
                        /\ \A d \in judgeCalls' : d.kind = "mark" /\ d.of = a =>
                             /\ \A e \in judgeCalls' :
                                  e.of = a => e.kind # "evidence" /\ (e.kind = "mark" => e = d)
                             /\ d.stage \in {"sent", "refused"} =>
                                  timelines[a] \in {Unknown, marked'[a]}
                             /\ d.stage = "done" => d.got = marked'[a]
      BY <1>1 DEF MarksAgree
    <2>1. CASE c.kind = "mark" /\ c.of = a
      <3>1. /\ \A d \in judgeCalls : d.of = a => d.kind # "evidence" /\ (d.kind = "mark" => d = c)
            /\ timelines[a] \in {Unknown, marked[a]}
        BY <1>1, <2>1 DEF JudgeInv, MarksAgree
      <3>2. \A d \in judgeCalls' : d.of = a => d.kind # "evidence" /\ (d.kind = "mark" => d = new)
        BY <1>5, <1>6, <2>1, <3>1
      <3>3. s = "refused" => marked' = marked  BY <1>8
      <3>4. s = "done" => got = marked'[a]  BY <1>9, <2>1 DEF AboutEvidence
      <3> QED  BY <1>5, <1>6, <2>1, <3>1, <3>2, <3>3, <3>4
    <2>2. CASE ~(c.kind = "mark" /\ c.of = a)
      <3>1. marked'[a] = marked[a]  BY <1>8, <2>2
      <3>2. c.kind = "evidence" /\ s = "done" => got = marked'[c.of]  BY <1>9 DEF AboutEvidence
      <3>3. (\A d \in judgeCalls' : d.kind = "mark" => d.of # a)
            <=> \A d \in judgeCalls : d.kind = "mark" => d.of # a
        BY <1>5, <1>6, <2>2
      <3>4. ASSUME \A d \in judgeCalls' : d.kind = "mark" => d.of # a
            PROVE  /\ timelines[a] \in {Unknown, marked'[a]}
                   /\ \A d \in judgeCalls' :
                        d.kind = "evidence" /\ d.of = a /\ d.stage = "done" => d.got = marked'[a]
        BY <1>5, <1>6, <3>1, <3>2, <3>3, <3>4 DEF JudgeInv, MarksAgree
      <3>5. ASSUME NEW d \in judgeCalls', d.kind = "mark" /\ d.of = a
            PROVE  /\ \A e \in judgeCalls' :
                        e.of = a => e.kind # "evidence" /\ (e.kind = "mark" => e = d)
                   /\ d.stage \in {"sent", "refused"} => timelines[a] \in {Unknown, marked'[a]}
                   /\ d.stage = "done" => d.got = marked'[a]
        <4>1. d \in judgeCalls  BY <1>5, <1>6, <2>2, <3>5
        <4> QED  BY <1>5, <1>6, <2>2, <3>1, <3>5, <4>1 DEF JudgeInv, MarksAgree
      <3> QED  BY <3>4, <3>5
    <2> QED  BY <2>1, <2>2
  <1> QED  BY <1>10, <1>11, <1>12, <1>13, <1>14, <1>15 DEF JudgeInv

\* The end of a call lets go of the button that waits for it.
LEMMA ReleasedWaits ==
  ASSUME JudgeInv, NEW c \in judgeCalls, c.kind \notin Moving, Released(c),
         judgeCalls' = judgeCalls \ {c}
  PROVE  OneWaits' /\ judgeBusy' \in BOOLEAN /\ refreshing' \in BOOLEAN
  <1>1. Waits(c) <=> c.by = "submit"  BY DEF Waits
  <1>2. CASE Waits(c)
    <2>1. \A d \in judgeCalls' : ~Waits(d)  BY <1>2 DEF JudgeInv, OneWaits
    <2>2. judgeBusy' = FALSE  BY Zenon, <1>1, <1>2 DEF Released
    <2> QED  BY <2>1, <2>2 DEF OneWaits, Released
  <1>3. CASE ~Waits(c)
    <2>1. \A d \in judgeCalls : Waits(d) => d \in judgeCalls'  BY <1>3
    <2>2. judgeBusy' <=> judgeBusy  BY Zenon, <1>1, <1>3 DEF Released
    <2>3. judgeBusy' \in BOOLEAN /\ refreshing' \in BOOLEAN  BY DEF Released
    <2>4. OneWaits'  BY <2>1, <2>2 DEF JudgeInv, OneWaits
    <2> QED  BY <2>3, <2>4
  <1> QED  BY <1>2, <1>3

\* A call that nothing waits for is asked or ends.
LEMMA NobodyWaits ==
  ASSUME JudgeInv, UNCHANGED judgeBusy,
         \A d \in judgeCalls : Waits(d) => d \in judgeCalls',
         \A d \in judgeCalls' : Waits(d) => d \in judgeCalls
  PROVE  OneWaits'
  BY DEF JudgeInv, OneWaits

\* The evidences of the ability that is selected are asked for.
LEMMA LoadingEvidence ==
  ASSUME JudgeInv, NEW a \in Judges, NEW by, NEW others, LoadEvidence(a, by, others),
         others \subseteq judgeCalls,
         \A d \in judgeCalls : d.kind \in AboutEvidence => d \in others,
         UNCHANGED marked, selected' = a,
         timelines' = timelines \/ timelines' = [b \in Judges |-> Unknown]
  PROVE  /\ MarksAgree' /\ EvidenceComes' /\ loadingEvidence' \in Judges
         /\ \E new : /\ judgeCalls' = others \cup {new} /\ IsJudgeCall(new)
                     /\ new.kind = "evidence" /\ new.by = by
  <1>1. PICK new : /\ new = [n |-> new.n, kind |-> "evidence", of |-> a, data |-> Unknown, by |-> by,
                             stage |-> "sent", got |-> Unknown]
                   /\ new.kind = "evidence" /\ new.of = a /\ new.data = Unknown /\ new.by = by
                   /\ new.stage = "sent"
                   /\ judgeCalls' = others \cup {new}
    BY AskedCalls DEF LoadEvidence
  <1>2. IsJudgeCall(new)  BY <1>1 DEF IsJudgeCall, Opening, Moving, AboutEvidence
  <1>3. loadingEvidence' = a  BY DEF LoadEvidence
  <1>4. EvidenceComes'  BY <1>1, <1>3 DEF EvidenceComes
  <1>5. MarksAgree'
    <2> SUFFICES ASSUME NEW b \in Judges \ mixed'
                 PROVE  /\ (\A d \in judgeCalls' : d.kind = "mark" => d.of # b) =>
                             /\ timelines'[b] \in {Unknown, marked[b]}
                             /\ \A d \in judgeCalls' :
                                  d.kind = "evidence" /\ d.of = b /\ d.stage = "done" =>
                                    d.got = marked[b]
                        /\ \A d \in judgeCalls' : d.kind = "mark" /\ d.of = b =>
                             /\ \A e \in judgeCalls' :
                                  e.of = b => e.kind # "evidence" /\ (e.kind = "mark" => e = d)
                             /\ d.stage \in {"sent", "refused"} =>
                                  timelines'[b] \in {Unknown, marked[b]}
                             /\ d.stage = "done" => d.got = marked[b]
      BY DEF MarksAgree
    <2>1. b \notin mixed  BY DEF LoadEvidence
    <2>2. timelines'[b] \in {Unknown, timelines[b]}  OBVIOUS
    <2>3. b = a => \A d \in judgeCalls : d.kind = "mark" => d.of # a
      BY DEF LoadEvidence, Asking
    <2>4. \A d \in judgeCalls' : d.kind = "mark" <=> d.kind = "mark" /\ d \in judgeCalls
      BY <1>1
    <2>5. \A d \in judgeCalls : d.kind = "mark" => d \in judgeCalls'  BY <1>1 DEF AboutEvidence
    <2>6. (\A d \in judgeCalls' : d.kind = "mark" => d.of # b)
          <=> \A d \in judgeCalls : d.kind = "mark" => d.of # b
      BY <2>4, <2>5
    <2>7. ASSUME \A d \in judgeCalls' : d.kind = "mark" => d.of # b
          PROVE  /\ timelines'[b] \in {Unknown, marked[b]}
                 /\ \A d \in judgeCalls' :
                      d.kind = "evidence" /\ d.of = b /\ d.stage = "done" => d.got = marked[b]
      BY <1>1, <2>1, <2>2, <2>6, <2>7 DEF JudgeInv, MarksAgree
    <2>8. ASSUME NEW d \in judgeCalls', d.kind = "mark" /\ d.of = b
          PROVE  /\ \A e \in judgeCalls' :
                      e.of = b => e.kind # "evidence" /\ (e.kind = "mark" => e = d)
                 /\ d.stage \in {"sent", "refused"} => timelines'[b] \in {Unknown, marked[b]}
                 /\ d.stage = "done" => d.got = marked[b]
      <3>1. d \in judgeCalls /\ b # a  BY <2>3, <2>4, <2>8
      <3> QED  BY <1>1, <2>1, <2>2, <2>8, <3>1 DEF JudgeInv, MarksAgree
    <2> QED  BY <2>7, <2>8
  <1> QED  BY <1>1, <1>2, <1>3, <1>4, <1>5

\* An ability is selected.
LEMMA SelectingAbility ==
  ASSUME JudgeInv, NEW a \in Judges, SelectAbility(a)
  PROVE  JudgeInv'
  <1>1. /\ selected' = a /\ refused' = refused \ {a} /\ timelines' = timelines
        /\ UNCHANGED <<judge, marked, judges, active, shownJudge, judgeBusy, refreshing, typed,
                       wanted, strayed, hazy>>
    BY DEF SelectAbility
  <1>2. CASE Known(a)
    <2>1. UNCHANGED <<loadingEvidence, judgeCalls, judgeBegun, mixed>>
      BY <1>2 DEF SelectAbility
    <2>2. JudgeTypes'  BY <1>1, <2>1 DEF JudgeInv, JudgeTypes
    <2>3. WantedIsShown' /\ StatusesAgree'  BY <1>1, <2>1, JudgesUntouched
    <2>4. OneWaits'  BY <1>1, <2>1, NobodyWaits
    <2>5. MarksAgree'  BY <1>1, <2>1 DEF JudgeInv, MarksAgree
    <2>6. EvidenceComes'
      <3>1. a # Unknown  BY JudgesAssumption
      <3>2. timelines[a] # Unknown \/ loadingEvidence = a  BY <1>1, <1>2 DEF Known
      <3> QED  BY <1>1, <2>1, <3>1, <3>2 DEF JudgeInv, EvidenceComes
    <2> QED  BY <2>2, <2>3, <2>4, <2>5, <2>6 DEF JudgeInv
  <1>3. CASE ~Known(a)
    <2>1. LoadEvidence(a, "select", judgeCalls)  BY <1>3 DEF SelectAbility
    <2>2. MarksAgree' /\ EvidenceComes' /\ loadingEvidence' \in Judges
      BY <1>1, <2>1, LoadingEvidence
    <2>3. PICK new : /\ judgeCalls' = judgeCalls \cup {new} /\ IsJudgeCall(new)
                     /\ new.kind = "evidence" /\ new.by = "select"
      BY <1>1, <2>1, LoadingEvidence
    <2>4. JudgeTypes'  BY <1>1, <2>2, <2>3 DEF JudgeInv, JudgeTypes
    <2>5. WantedIsShown' /\ StatusesAgree'
      <3>1. \A d \in judgeCalls' : d \in judgeCalls \/ d.kind \in AboutEvidence
        BY <2>3 DEF AboutEvidence
      <3> QED  BY <1>1, <2>3, <3>1, JudgesUntouched
    <2>6. OneWaits'
      <3>1. ~Waits(new)  BY <2>3 DEF Waits, Moving
      <3> QED  BY <1>1, <2>3, <3>1, NobodyWaits
    <2> QED  BY <2>2, <2>4, <2>5, <2>6 DEF JudgeInv
  <1> QED  BY <1>2, <1>3

\* Its evidence is marked as a milestone, or no longer.
LEMMA TogglingMilestone ==
  ASSUME JudgeInv, ToggleMilestone
  PROVE  JudgeInv'
  <1>1. /\ timelines[selected] # Unknown
        /\ UNCHANGED <<judge, marked, judges, active, shownJudge, judgeBusy, refreshing, typed,
                       selected, timelines, loadingEvidence, wanted, strayed, hazy, refused>>
    BY DEF ToggleMilestone
  <1>2. PICK new : /\ new = [n |-> new.n, kind |-> "mark", of |-> selected, data |-> ~timelines[selected],
                             by |-> "none", stage |-> "sent", got |-> Unknown]
                   /\ new.kind = "mark" /\ new.of = selected /\ new.data = ~timelines[selected]
                   /\ new.by = "none" /\ new.stage = "sent"
                   /\ judgeCalls' = judgeCalls \cup {new}
    BY AskedCalls DEF ToggleMilestone
  <1>3. selected \in Judges  BY DEF JudgeInv, JudgeTypes
  <1>4. new.data \in BOOLEAN
    <2>1. (~timelines[selected]) \in BOOLEAN  OBVIOUS
    <2> QED  BY <1>2, <2>1
  <1>5. IsJudgeCall(new)
    BY <1>2, <1>3, <1>4 DEF IsJudgeCall, Opening, Moving, AboutEvidence
  <1>6. JudgeTypes'  BY <1>1, <1>2, <1>5 DEF JudgeInv, JudgeTypes
  <1>7. WantedIsShown' /\ StatusesAgree'
    <2>1. \A d \in judgeCalls' : d \in judgeCalls \/ d.kind \in AboutEvidence
      BY <1>2 DEF AboutEvidence
    <2> QED  BY <1>1, <1>2, <2>1, JudgesUntouched
  <1>8. OneWaits'
    <2>1. ~Waits(new)  BY <1>2 DEF Waits, Moving
    <2> QED  BY <1>1, <1>2, <2>1, NobodyWaits
  <1>9. EvidenceComes'  BY <1>1, <1>2 DEF JudgeInv, EvidenceComes
  <1>10. MarksAgree'
    <2> SUFFICES ASSUME NEW b \in Judges \ mixed'
                 PROVE  /\ (\A d \in judgeCalls' : d.kind = "mark" => d.of # b) =>
                             /\ timelines[b] \in {Unknown, marked[b]}
                             /\ \A d \in judgeCalls' :
                                  d.kind = "evidence" /\ d.of = b /\ d.stage = "done" =>
                                    d.got = marked[b]
                        /\ \A d \in judgeCalls' : d.kind = "mark" /\ d.of = b =>
                             /\ \A e \in judgeCalls' :
                                  e.of = b => e.kind # "evidence" /\ (e.kind = "mark" => e = d)
                             /\ d.stage \in {"sent", "refused"} =>
                                  timelines[b] \in {Unknown, marked[b]}
                             /\ d.stage = "done" => d.got = marked[b]
      BY <1>1 DEF MarksAgree
    <2>1. b \notin mixed  BY DEF ToggleMilestone
    <2>2. CASE b = selected
      <3>1. \A d \in judgeCalls : d.kind \in {"mark", "evidence"} => d.of # b
        BY <2>2 DEF ToggleMilestone, Asking
      <3>2. timelines[b] \in {Unknown, marked[b]}
        BY <2>1, <3>1 DEF JudgeInv, MarksAgree
      <3> QED  BY <1>2, <2>2, <3>1, <3>2
    <2>3. CASE b # selected
      BY <1>2, <2>1, <2>3 DEF JudgeInv, MarksAgree
    <2> QED  BY <2>2, <2>3
  <1> QED  BY <1>6, <1>7, <1>8, <1>9, <1>10 DEF JudgeInv

\* The evidences come, or that they could not be read.
LEMMA LoadedEvidence ==
  ASSUME JudgeInv, NEW c \in judgeCalls, c.kind = "evidence", c.stage # "sent",
         EvidenceLoaded(c), UNCHANGED <<judge, marked, selected>>
  PROVE  JudgeInv'
  <1>1. /\ loadingEvidence' = Unknown /\ judgeCalls' = judgeCalls \ {c} /\ Released(c)
        /\ UNCHANGED <<judges, active, shownJudge, typed, judgeBegun, wanted, strayed, hazy, mixed>>
    BY DEF EvidenceLoaded, NoLonger
  <1>2. IsJudgeCall(c) /\ c.of \in Judges  BY DEF JudgeInv, JudgeTypes, IsJudgeCall
  <1>3. /\ c.stage = "done" => /\ timelines' = [timelines EXCEPT ![c.of] = c.got]
                               /\ refused' = refused /\ c.got \in BOOLEAN
        /\ c.stage # "done" => timelines' = timelines /\ refused' = refused \cup {c.of}
    BY <1>2 DEF EvidenceLoaded, IsJudgeCall, AboutEvidence
  <1>4. timelines' \in [Judges -> BOOLEAN \cup {Unknown}]
    BY <1>2, <1>3 DEF JudgeInv, JudgeTypes
  <1>5. OneWaits' /\ judgeBusy' \in BOOLEAN /\ refreshing' \in BOOLEAN
    BY <1>1, ReleasedWaits DEF Moving
  <1>6. JudgeTypes'  BY <1>1, <1>4, <1>5 DEF JudgeInv, JudgeTypes
  <1>7. WantedIsShown' /\ StatusesAgree'
    <2>1. \A d \in judgeCalls : d.kind \in Opening \cup {"refresh"} => d \in judgeCalls'
      BY <1>1 DEF Opening, Moving
    <2> QED  BY <1>1, <2>1, JudgesUntouched
  <1>8. EvidenceComes'
    <2>1. c.stage = "done" => timelines'[c.of] # Unknown
      BY <1>2, <1>3, JudgesAssumption DEF JudgeInv, JudgeTypes
    <2>2. timelines[selected] # Unknown => timelines'[selected] # Unknown
      BY <1>2, <1>3, <2>1 DEF JudgeInv, JudgeTypes
    <2>3. refused \subseteq refused'  BY <1>3
    <2>4. c.of = selected => timelines'[selected] # Unknown \/ selected \in refused'
      BY <1>3, <2>1
    <2> QED  BY <1>1, <2>2, <2>3, <2>4 DEF JudgeInv, EvidenceComes
  <1>9. MarksAgree'
    <2> SUFFICES ASSUME NEW b \in Judges \ mixed
                 PROVE  /\ (\A d \in judgeCalls' : d.kind = "mark" => d.of # b) =>
                             /\ timelines'[b] \in {Unknown, marked[b]}
                             /\ \A d \in judgeCalls' :
                                  d.kind = "evidence" /\ d.of = b /\ d.stage = "done" =>
                                    d.got = marked[b]
                        /\ \A d \in judgeCalls' : d.kind = "mark" /\ d.of = b =>
                             /\ \A e \in judgeCalls' :
                                  e.of = b => e.kind # "evidence" /\ (e.kind = "mark" => e = d)
                             /\ d.stage \in {"sent", "refused"} =>
                                  timelines'[b] \in {Unknown, marked[b]}
                             /\ d.stage = "done" => d.got = marked[b]
      BY <1>1 DEF MarksAgree
    <2>1. timelines'[b] = timelines[b] \/ (c.of = b /\ c.stage = "done" /\ timelines'[b] = c.got)
      BY <1>2, <1>3 DEF JudgeInv, JudgeTypes
    <2>2. (\A d \in judgeCalls' : d.kind = "mark" => d.of # b)
          <=> \A d \in judgeCalls : d.kind = "mark" => d.of # b
      BY <1>1
    <2>3. ASSUME \A d \in judgeCalls' : d.kind = "mark" => d.of # b
          PROVE  /\ timelines'[b] \in {Unknown, marked[b]}
                 /\ \A d \in judgeCalls' :
                      d.kind = "evidence" /\ d.of = b /\ d.stage = "done" => d.got = marked[b]
      BY <1>1, <2>1, <2>2, <2>3 DEF JudgeInv, MarksAgree
    <2>4. ASSUME NEW d \in judgeCalls', d.kind = "mark" /\ d.of = b
          PROVE  /\ \A e \in judgeCalls' :
                      e.of = b => e.kind # "evidence" /\ (e.kind = "mark" => e = d)
                 /\ d.stage \in {"sent", "refused"} => timelines'[b] \in {Unknown, marked[b]}
                 /\ d.stage = "done" => d.got = marked[b]
      <3>1. c.of # b  BY <1>1, <2>4 DEF JudgeInv, MarksAgree
      <3> QED  BY <1>1, <2>1, <2>4, <3>1 DEF JudgeInv, MarksAgree
    <2> QED  BY <2>3, <2>4
  <1> QED  BY <1>5, <1>6, <1>7, <1>8, <1>9 DEF JudgeInv

\* The answer to a mark comes.
LEMMA MarkedEvidence ==
  ASSUME JudgeInv, NEW c \in judgeCalls, c.kind = "mark", c.stage # "sent",
         Marked(c), UNCHANGED <<judge, marked, selected>>
  PROVE  JudgeInv'
  <1>1. /\ judgeCalls' = judgeCalls \ {c}
        /\ UNCHANGED <<judges, active, shownJudge, judgeBusy, refreshing, typed, loadingEvidence,
                       judgeBegun, wanted, strayed, hazy, refused>>
    BY DEF Marked
  <1>2. /\ IsJudgeCall(c) /\ c.of \in Judges /\ c.by = "none"
        /\ c.stage \in {"done", "lost", "refused"}
        /\ c.stage = "done" => c.got \in BOOLEAN
    BY DEF JudgeInv, JudgeTypes, IsJudgeCall, AboutEvidence
  <1>3. /\ c.stage = "done" /\ selected = c.of /\ timelines[c.of] # Unknown
             => timelines' = [timelines EXCEPT ![c.of] = c.got]
        /\ ~(c.stage = "done" /\ selected = c.of /\ timelines[c.of] # Unknown)
             => timelines' = timelines
        /\ mixed' = IF c.stage = "lost" \/ (selected # c.of /\ timelines[c.of] # Unknown)
                    THEN mixed \cup {c.of} ELSE mixed
    BY DEF Marked
  <1>4. timelines' \in [Judges -> BOOLEAN \cup {Unknown}]
    BY <1>2, <1>3 DEF JudgeInv, JudgeTypes
  <1>5. JudgeTypes'  BY <1>1, <1>4 DEF JudgeInv, JudgeTypes
  <1>6. WantedIsShown' /\ StatusesAgree'
    <2>1. \A d \in judgeCalls : d.kind \in Opening \cup {"refresh"} => d \in judgeCalls'
      BY <1>1 DEF Opening, Moving
    <2> QED  BY <1>1, <2>1, JudgesUntouched
  <1>7. OneWaits'
    <2>1. ~Waits(c)  BY <1>2 DEF Waits, Moving
    <2> QED  BY <1>1, <2>1, NobodyWaits
  <1>8. EvidenceComes'
    <2>1. timelines[selected] # Unknown => timelines'[selected] # Unknown
      BY <1>2, <1>3, JudgesAssumption DEF JudgeInv, JudgeTypes
    <2>2. \A d \in judgeCalls : d.kind = "evidence" => d \in judgeCalls'  BY <1>1
    <2> QED  BY <1>1, <2>1, <2>2 DEF JudgeInv, EvidenceComes
  <1>9. MarksAgree'
    <2> SUFFICES ASSUME NEW b \in Judges \ mixed'
                 PROVE  /\ (\A d \in judgeCalls' : d.kind = "mark" => d.of # b) =>
                             /\ timelines'[b] \in {Unknown, marked[b]}
                             /\ \A d \in judgeCalls' :
                                  d.kind = "evidence" /\ d.of = b /\ d.stage = "done" =>
                                    d.got = marked[b]
                        /\ \A d \in judgeCalls' : d.kind = "mark" /\ d.of = b =>
                             /\ \A e \in judgeCalls' :
                                  e.of = b => e.kind # "evidence" /\ (e.kind = "mark" => e = d)
                             /\ d.stage \in {"sent", "refused"} =>
                                  timelines'[b] \in {Unknown, marked[b]}
                             /\ d.stage = "done" => d.got = marked[b]
      BY <1>1 DEF MarksAgree
    <2>1. b \notin mixed  BY <1>3
    <2>2. CASE b = c.of
      <3>1. /\ \A d \in judgeCalls : d.of = b => d.kind # "evidence" /\ (d.kind = "mark" => d = c)
            /\ c.stage = "refused" => timelines[b] \in {Unknown, marked[b]}
            /\ c.stage = "done" => c.got = marked[b]
        BY <2>1, <2>2 DEF JudgeInv, MarksAgree
      <3>2. \A d \in judgeCalls' : d.of = b => d.kind # "evidence" /\ d.kind # "mark"
        BY <1>1, <3>1
      <3>3. timelines'[b] \in {Unknown, marked[b]}
        <4>1. c.stage # "lost" /\ (selected = b \/ timelines[b] = Unknown)  BY <1>3, <2>2
        <4>2. CASE c.stage = "refused"  BY <1>3, <3>1, <4>2
        <4>3. CASE c.stage = "done" /\ timelines[b] = Unknown  BY <1>3, <2>2, <4>3
        <4>4. CASE c.stage = "done" /\ timelines[b] # Unknown
          BY <1>2, <1>3, <2>2, <3>1, <4>1, <4>4 DEF JudgeInv, JudgeTypes
        <4> QED  BY <1>2, <4>1, <4>2, <4>3, <4>4
      <3> QED  BY <3>2, <3>3
    <2>3. CASE b # c.of
      <3>1. timelines'[b] = timelines[b]  BY <1>2, <1>3, <2>3 DEF JudgeInv, JudgeTypes
      <3>2. (\A d \in judgeCalls' : d.kind = "mark" => d.of # b)
            <=> \A d \in judgeCalls : d.kind = "mark" => d.of # b
        BY <1>1, <2>3
      <3> QED  BY <1>1, <2>1, <3>1, <3>2 DEF JudgeInv, MarksAgree
    <2> QED  BY <2>2, <2>3
  <1> QED  BY <1>5, <1>6, <1>7, <1>8, <1>9 DEF JudgeInv

\* A judge is opened.
LEMMA OpeningJudge ==
  ASSUME JudgeInv, NEW i \in Judges, OpenJudge(i)
  PROVE  JudgeInv'
  <1>1. /\ ~shownJudge /\ wanted' = i
        /\ UNCHANGED <<judge, marked, judges, active, shownJudge, judgeBusy, refreshing, typed,
                       selected, timelines, loadingEvidence, mixed, refused>>
    BY DEF OpenJudge
  <1>2. PICK new : /\ new = [n |-> new.n, kind |-> "open", of |-> i, data |-> judges[i],
                             by |-> "none", stage |-> "sent", got |-> Unknown]
                   /\ new.kind = "open" /\ new.of = i /\ new.data = judges[i]
                   /\ new.by = "none" /\ new.stage = "sent"
                   /\ judgeCalls' = judgeCalls \cup {new}
    BY AskedCalls DEF OpenJudge
  <1>3. judges[i] \in Statuses  BY DEF JudgeInv, JudgeTypes
  <1>4. IsJudgeCall(new)
    BY <1>2, <1>3 DEF IsJudgeCall, Opening, Moving, AboutEvidence
  <1>5. strayed' \in BOOLEAN  BY DEF OpenJudge
  <1>6. JudgeTypes'  BY <1>1, <1>2, <1>4, <1>5 DEF JudgeInv, JudgeTypes
  <1>7. WantedIsShown'
    <2>1. ASSUME ~strayed', NEW d \in judgeCalls, d.kind \in Opening  PROVE d.of = i
      <3>1. d.of \in Judges
        BY <2>1 DEF JudgeInv, JudgeTypes, IsJudgeCall, Opening, Moving
      <3>2. ~Asking(Opening, Judges \ {i})  BY <2>1 DEF OpenJudge, Opening
      <3> QED  BY <2>1, <3>1, <3>2 DEF Asking
    <2> QED  BY <1>1, <1>2, <2>1 DEF JudgeInv, WantedIsShown
  <1>8. StatusesAgree'
    <2> SUFFICES ASSUME NEW j \in Judges \ hazy'
                 PROVE  /\ (\A c \in judgeCalls' : c.kind \in Moving => c.of # j) =>
                             /\ Agrees(j)'
                             /\ \A c \in judgeCalls' :
                                  /\ c.kind = "open" /\ c.of = j =>
                                       c.data = judge[j] /\ StatusOf(c) = judge[j]
                                  /\ c.kind = "refresh" /\ c.stage = "done" => c.got[j] = judge[j]
                        /\ \A c \in judgeCalls' : c.kind \in Moving /\ c.of = j =>
                             /\ \A d \in judgeCalls' :
                                  d.kind # "refresh" /\ ~(d.kind = "open" /\ d.of = j)
                             /\ c.stage \in {"sent", "refused"} => Agrees(j)'
                             /\ c.stage = "done" => c.got = judge[j]
      BY <1>1 DEF StatusesAgree, StatusOf
    <2>1. j \notin hazy  BY DEF OpenJudge, Hazy
    <2>2. Agrees(j)' <=> Agrees(j)  BY <1>1 DEF Agrees
    <2>3. \A c \in judgeCalls' : c.kind \in Moving => c \in judgeCalls  BY <1>2 DEF Moving
    <2>4. CASE j = i
      <3>1. \A c \in judgeCalls : c.kind \in Moving => c.of # j
        BY <2>4 DEF OpenJudge, Hazy, Asking
      <3>2. Agrees(j)  BY <2>1, <3>1 DEF JudgeInv, StatusesAgree
      <3>3. new.data = judge[j] /\ StatusOf(new) = judge[j]
        BY <1>2, <2>4, <3>2 DEF Agrees, StatusOf
      <3>4. \A c \in judgeCalls' : c.kind \in Moving => c.of # j  BY <2>3, <3>1
      <3> QED  BY <1>2, <2>1, <2>2, <3>1, <3>2, <3>3, <3>4 DEF JudgeInv, StatusesAgree
    <2>5. CASE j # i
      BY <1>2, <2>1, <2>2, <2>3, <2>5 DEF JudgeInv, StatusesAgree
    <2> QED  BY <2>4, <2>5
  <1>9. OneWaits'
    <2>1. ~Waits(new)  BY <1>2 DEF Waits, Moving
    <2> QED  BY <1>1, <1>2, <2>1, NobodyWaits
  <1>10. MarksAgree' /\ EvidenceComes'
    <2>1. new.kind \in Opening  BY <1>2 DEF Opening
    <2> QED  BY <1>1, <1>2, <2>1, EvidencesUntouched
  <1> QED  BY <1>6, <1>7, <1>8, <1>9, <1>10 DEF JudgeInv

\* A judge is started or answered: the button waits for this call alone.
LEMMA MovingJudge ==
  ASSUME JudgeInv, NEW kind \in Moving, NEW data, shownJudge, ~judgeBusy, judgeBusy' = TRUE,
         Ask(kind, active.id, data, "none", judgeCalls),
         kind = "submit" => data = active.id,
         hazy' = Hazy(active.id, Moving \cup {"open", "refresh"}),
         UNCHANGED <<judge, marked, judges, active, shownJudge, refreshing, typed, selected,
                     timelines, loadingEvidence, wanted, strayed, mixed, refused>>
  PROVE  JudgeInv'
  <1>1. active.id \in Judges  BY DEF JudgeInv, JudgeTypes, JudgeShown
  <1>2. PICK new : /\ new = [n |-> new.n, kind |-> kind, of |-> active.id, data |-> data,
                             by |-> "none", stage |-> "sent", got |-> Unknown]
                   /\ new.kind = kind /\ new.of = active.id /\ new.data = data
                   /\ new.by = "none" /\ new.stage = "sent"
                   /\ judgeCalls' = judgeCalls \cup {new}
    BY AskedCalls
  <1>3. new.kind \in Moving  BY <1>2
  <1>4. IsJudgeCall(new)
    BY <1>1, <1>2, <1>3 DEF IsJudgeCall, Opening, Moving, AboutEvidence
  <1>5. JudgeTypes'  BY <1>2, <1>4 DEF JudgeInv, JudgeTypes
  <1>6. WantedIsShown'  BY <1>2 DEF JudgeInv, WantedIsShown
  <1>7. \A c \in judgeCalls : ~Waits(c)  BY DEF JudgeInv, OneWaits
  <1>8. \A c \in judgeCalls : c.kind \notin Moving  BY <1>7 DEF Waits
  <1>9. StatusesAgree'
    <2> SUFFICES ASSUME NEW j \in Judges \ hazy'
                 PROVE  /\ (\A c \in judgeCalls' : c.kind \in Moving => c.of # j) =>
                             /\ Agrees(j)'
                             /\ \A c \in judgeCalls' :
                                  /\ c.kind = "open" /\ c.of = j =>
                                       c.data = judge[j] /\ StatusOf(c) = judge[j]
                                  /\ c.kind = "refresh" /\ c.stage = "done" => c.got[j] = judge[j]
                        /\ \A c \in judgeCalls' : c.kind \in Moving /\ c.of = j =>
                             /\ \A d \in judgeCalls' :
                                  d.kind # "refresh" /\ ~(d.kind = "open" /\ d.of = j)
                             /\ c.stage \in {"sent", "refused"} => Agrees(j)'
                             /\ c.stage = "done" => c.got = judge[j]
      BY DEF StatusesAgree, StatusOf
    <2>1. j \notin hazy  BY DEF Hazy
    <2>2. Agrees(j)' <=> Agrees(j)  BY DEF Agrees
    <2>3. /\ Agrees(j)
          /\ \A c \in judgeCalls :
               /\ c.kind = "open" /\ c.of = j => c.data = judge[j] /\ StatusOf(c) = judge[j]
               /\ c.kind = "refresh" /\ c.stage = "done" => c.got[j] = judge[j]
      BY <1>8, <2>1 DEF JudgeInv, StatusesAgree
    <2>4. CASE j = active.id
      <3>1. \A c \in judgeCalls : c.kind \in {"open", "refresh"} => c.of \notin {j, Unknown}
        BY <2>4 DEF Hazy, Asking
      <3>2. \A c \in judgeCalls : c.kind = "refresh" => c.of = Unknown
        BY DEF JudgeInv, JudgeTypes, IsJudgeCall
      <3>3. \A c \in judgeCalls : c.kind # "refresh" /\ ~(c.kind = "open" /\ c.of = j)
        BY <3>1, <3>2
      <3>4. \A c \in judgeCalls' : c.kind # "refresh" /\ ~(c.kind = "open" /\ c.of = j)
        BY <1>2, <1>3, <3>3 DEF Moving
      <3> QED  BY <1>2, <1>3, <1>8, <2>2, <2>3, <2>4, <3>4
    <2>5. CASE j # active.id
      <3>1. \A c \in judgeCalls' : c.kind \in Moving => c.of # j  BY <1>2, <1>8, <2>5
      <3>2. new.kind \notin {"open", "refresh"}  BY <1>3 DEF Moving
      <3> QED  BY <1>2, <2>2, <2>3, <3>1, <3>2
    <2> QED  BY <2>4, <2>5
  <1>10. OneWaits'
    <2>1. Waits(new)  BY <1>3 DEF Waits
    <2> QED  BY <1>2, <1>7, <2>1 DEF OneWaits
  <1>11. MarksAgree' /\ EvidenceComes'
    <2>1. new.kind \in Opening  BY <1>3 DEF Opening
    <2> QED  BY <1>2, <2>1, EvidencesUntouched
  <1> QED  BY <1>5, <1>6, <1>9, <1>10, <1>11 DEF JudgeInv

LEMMA StartingJudge ==
  ASSUME JudgeInv, StartJudge
  PROVE  JudgeInv'
  <1>1. "start" \in Moving  BY DEF Moving
  <1>2. /\ shownJudge /\ ~judgeBusy /\ judgeBusy' = TRUE
        /\ Ask("start", active.id, Unknown, "none", judgeCalls)
        /\ hazy' = Hazy(active.id, Moving \cup {"open", "refresh"})
        /\ UNCHANGED <<judge, marked, judges, active, shownJudge, refreshing, typed, selected,
                       timelines, loadingEvidence, wanted, strayed, mixed, refused>>
    BY DEF StartJudge
  <1> QED  BY <1>1, <1>2, MovingJudge

LEMMA SubmittingJudge ==
  ASSUME JudgeInv, SubmitJudge
  PROVE  JudgeInv'
  <1>1. "submit" \in Moving  BY DEF Moving
  <1>2. /\ shownJudge /\ ~judgeBusy /\ judgeBusy' = TRUE
        /\ Ask("submit", active.id, typed, "none", judgeCalls)
        /\ hazy' = Hazy(active.id, Moving \cup {"open", "refresh"})
        /\ UNCHANGED <<judge, marked, judges, active, shownJudge, refreshing, typed, selected,
                       timelines, loadingEvidence, wanted, strayed, mixed, refused>>
    BY DEF SubmitJudge
  <1>3. typed = active.id  BY DEF SubmitJudge, JudgeInv, JudgeTypes
  <1> QED  BY <1>1, <1>2, <1>3, MovingJudge

\* The dialog is closed, or answers are typed.
LEMMA ClosingJudge ==
  ASSUME JudgeInv, CloseJudge
  PROVE  JudgeInv'
  <1>1. /\ shownJudge' = FALSE
        /\ UNCHANGED <<judge, marked, judges, active, judgeBusy, refreshing, typed, selected,
                       timelines, loadingEvidence, judgeCalls, judgeBegun, wanted, strayed, hazy,
                       mixed, refused>>
    BY DEF CloseJudge
  <1>2. JudgeTypes'  BY Zenon, <1>1 DEF JudgeInv, JudgeTypes
  <1>3. WantedIsShown'  BY <1>1 DEF JudgeInv, WantedIsShown
  <1>4. \A j \in Judges : Agrees(j) => Agrees(j)'  BY <1>1 DEF Agrees
  <1>5. StatusesAgree'  BY <1>1, <1>4 DEF JudgeInv, StatusesAgree, StatusOf
  <1>6. OneWaits'  BY <1>1, NobodyWaits
  <1>7. MarksAgree' /\ EvidenceComes'  BY <1>1, EvidencesUntouched
  <1> QED  BY <1>2, <1>3, <1>5, <1>6, <1>7 DEF JudgeInv

LEMMA TypingAnswers ==
  ASSUME JudgeInv, TypeAnswers
  PROVE  JudgeInv'
  <1>1. /\ shownJudge /\ typed' = active.id
        /\ UNCHANGED <<judge, marked, judges, active, shownJudge, judgeBusy, refreshing, selected,
                       timelines, loadingEvidence, judgeCalls, judgeBegun, wanted, strayed, hazy,
                       mixed, refused>>
    BY DEF TypeAnswers
  <1>2. JudgeTypes'  BY <1>1 DEF JudgeInv, JudgeTypes
  <1>3. WantedIsShown' /\ StatusesAgree'  BY <1>1, JudgesUntouched
  <1>4. OneWaits'  BY <1>1, NobodyWaits
  <1>5. MarksAgree' /\ EvidenceComes'  BY <1>1, EvidencesUntouched
  <1> QED  BY <1>2, <1>3, <1>4, <1>5 DEF JudgeInv

\* The lists are asked for.
LEMMA AskingAbilities ==
  ASSUME JudgeInv, RefreshAbilityData
  PROVE  JudgeInv'
  <1>1. /\ refreshing' = TRUE
        /\ UNCHANGED <<judge, marked, judges, active, shownJudge, judgeBusy, typed, selected,
                       timelines, loadingEvidence, wanted, strayed, mixed, refused>>
        /\ hazy' = hazy \cup {j \in Judges : Asking(Moving, {j})}
    BY DEF RefreshAbilityData, Refresh
  <1>2. PICK new : /\ new = [n |-> new.n, kind |-> "refresh", of |-> Unknown, data |-> Unknown,
                             by |-> "button", stage |-> "sent", got |-> Unknown]
                   /\ new.kind = "refresh" /\ new.of = Unknown /\ new.data = Unknown
                   /\ new.by = "button" /\ new.stage = "sent"
                   /\ judgeCalls' = judgeCalls \cup {new}
    BY AskedCalls DEF RefreshAbilityData, Refresh
  <1>3. IsJudgeCall(new)  BY <1>2 DEF IsJudgeCall, Opening, Moving, AboutEvidence
  <1>4. JudgeTypes'  BY <1>1, <1>2, <1>3 DEF JudgeInv, JudgeTypes
  <1>5. WantedIsShown'
    <2>1. new.kind \notin Opening /\ new.kind # "submit"  BY <1>2 DEF Opening, Moving
    <2> QED  BY <1>1, <1>2, <2>1 DEF JudgeInv, WantedIsShown
  <1>6. StatusesAgree'
    <2> SUFFICES ASSUME NEW j \in Judges \ hazy'
                 PROVE  /\ (\A c \in judgeCalls' : c.kind \in Moving => c.of # j) =>
                             /\ Agrees(j)'
                             /\ \A c \in judgeCalls' :
                                  /\ c.kind = "open" /\ c.of = j =>
                                       c.data = judge[j] /\ StatusOf(c) = judge[j]
                                  /\ c.kind = "refresh" /\ c.stage = "done" => c.got[j] = judge[j]
                        /\ \A c \in judgeCalls' : c.kind \in Moving /\ c.of = j =>
                             /\ \A d \in judgeCalls' :
                                  d.kind # "refresh" /\ ~(d.kind = "open" /\ d.of = j)
                             /\ c.stage \in {"sent", "refused"} => Agrees(j)'
                             /\ c.stage = "done" => c.got = judge[j]
      BY <1>1 DEF StatusesAgree, StatusOf
    <2>1. j \notin hazy /\ \A c \in judgeCalls : c.kind \in Moving => c.of # j
      BY <1>1 DEF Asking
    <2>2. Agrees(j)' <=> Agrees(j)  BY <1>1 DEF Agrees
    <2>3. \A c \in judgeCalls' : c.kind \in Moving => c.of # j  BY <1>2, <2>1 DEF Moving
    <2> QED  BY <1>2, <2>1, <2>2, <2>3 DEF JudgeInv, StatusesAgree
  <1>7. OneWaits'
    <2>1. ~Waits(new)  BY <1>2 DEF Waits, Moving
    <2> QED  BY <1>1, <1>2, <2>1, NobodyWaits
  <1>8. MarksAgree' /\ EvidenceComes'  BY <1>1, <1>2, EvidencesUntouched
  <1> QED  BY <1>4, <1>5, <1>6, <1>7, <1>8 DEF JudgeInv

\* A judge comes and is shown.
LEMMA OpenedJudge ==
  ASSUME JudgeInv, NEW c \in judgeCalls, c.kind = "open", c.stage # "sent",
         Opened(c), UNCHANGED <<judge, marked, selected>>
  PROVE  JudgeInv'
  <1>1. /\ active' = [id |-> c.of, status |-> StatusOf(c)] /\ typed' = Unknown
        /\ shownJudge' = TRUE /\ judgeCalls' = judgeCalls \ {c}
        /\ UNCHANGED <<judges, judgeBusy, refreshing, timelines, loadingEvidence, judgeBegun, wanted,
                       strayed, hazy, mixed, refused>>
    BY DEF Opened, Activate, Cleared
  <1>2. IsJudgeCall(c) /\ c.of \in Judges /\ c.by = "none"
    BY DEF JudgeInv, JudgeTypes, IsJudgeCall
  <1>3. StatusOf(c) \in Statuses  BY <1>2 DEF StatusOf, IsJudgeCall, Opening
  <1>4. active' \in JudgeShown  BY <1>1, <1>2, <1>3 DEF JudgeShown
  <1>5. JudgeTypes'  BY <1>1, <1>4 DEF JudgeInv, JudgeTypes
  <1>6. active'.id = c.of /\ active'.status = StatusOf(c)  BY <1>1
  <1>7. WantedIsShown'  BY <1>1, <1>6 DEF JudgeInv, WantedIsShown, Opening
  <1>8. StatusesAgree'
    <2> SUFFICES ASSUME NEW j \in Judges \ hazy
                 PROVE  /\ (\A d \in judgeCalls' : d.kind \in Moving => d.of # j) =>
                             /\ Agrees(j)'
                             /\ \A d \in judgeCalls' :
                                  /\ d.kind = "open" /\ d.of = j =>
                                       d.data = judge[j] /\ StatusOf(d) = judge[j]
                                  /\ d.kind = "refresh" /\ d.stage = "done" => d.got[j] = judge[j]
                        /\ \A d \in judgeCalls' : d.kind \in Moving /\ d.of = j =>
                             /\ \A e \in judgeCalls' :
                                  e.kind # "refresh" /\ ~(e.kind = "open" /\ e.of = j)
                             /\ d.stage \in {"sent", "refused"} => Agrees(j)'
                             /\ d.stage = "done" => d.got = judge[j]
      BY <1>1 DEF StatusesAgree, StatusOf
    <2>1. \A d \in judgeCalls : d.kind \in Moving => d \in judgeCalls'  BY <1>1 DEF Moving
    <2>2. ASSUME \A d \in judgeCalls' : d.kind \in Moving => d.of # j
          PROVE  /\ Agrees(j)'
                 /\ \A d \in judgeCalls' :
                      /\ d.kind = "open" /\ d.of = j => d.data = judge[j] /\ StatusOf(d) = judge[j]
                      /\ d.kind = "refresh" /\ d.stage = "done" => d.got[j] = judge[j]
      <3>1. \A d \in judgeCalls : d.kind \in Moving => d.of # j  BY <2>1, <2>2
      <3>2. Agrees(j) /\ (c.of = j => StatusOf(c) = judge[j])
        BY <3>1 DEF JudgeInv, StatusesAgree
      <3>3. Agrees(j)'  BY <1>1, <1>6, <3>2 DEF Agrees
      <3> QED  BY <1>1, <3>1, <3>3 DEF JudgeInv, StatusesAgree
    <2>3. ASSUME NEW d \in judgeCalls', d.kind \in Moving /\ d.of = j
          PROVE  /\ \A e \in judgeCalls' : e.kind # "refresh" /\ ~(e.kind = "open" /\ e.of = j)
                 /\ d.stage \in {"sent", "refused"} => Agrees(j)'
                 /\ d.stage = "done" => d.got = judge[j]
      <3>1. d \in judgeCalls  BY <1>1
      <3>2. c.of # j  BY <2>3, <3>1 DEF JudgeInv, StatusesAgree
      <3>3. Agrees(j) => Agrees(j)'  BY <1>1, <1>6, <3>2 DEF Agrees
      <3> QED  BY <1>1, <2>3, <3>1, <3>3 DEF JudgeInv, StatusesAgree
    <2> QED  BY <2>2, <2>3
  <1>9. OneWaits'
    <2>1. ~Waits(c)  BY <1>2 DEF Waits, Moving
    <2> QED  BY <1>1, <2>1, NobodyWaits
  <1>10. MarksAgree' /\ EvidenceComes'
    <2>1. \A d \in judgeCalls : d.kind \in AboutEvidence => d \in judgeCalls'
      BY <1>1 DEF AboutEvidence
    <2> QED  BY <1>1, <2>1, EvidencesUntouched
  <1> QED  BY <1>5, <1>7, <1>8, <1>9, <1>10 DEF JudgeInv

\* The judge of a call that moved it is shown and listed as the call says.
LEMMA MovedJudge ==
  ASSUME JudgeInv, NEW c \in judgeCalls, c.kind \in Moving, c.stage # "sent",
         IF c.stage = "done" THEN Activate(c.of, c.got) /\ ReplaceJudge(c)
                             ELSE UNCHANGED <<active, typed, judges>>,
         HazyIfLost(c), UNCHANGED <<judge, shownJudge, wanted, strayed>>,
         \A d \in judgeCalls : d # c => d \in judgeCalls',
         \A d \in judgeCalls' :
           d \in judgeCalls \ {c} \/ (d.kind = "refresh" /\ d.stage = "sent")
  PROVE  /\ WantedIsShown' /\ StatusesAgree'
         /\ judges' \in [Judges -> Statuses]
         /\ shownJudge' => active' \in JudgeShown
         /\ typed' # Unknown => active' \in JudgeShown /\ typed' = active'.id
         /\ \A d \in judgeCalls \ {c} : ~Waits(d)
         /\ judgeBusy = TRUE
  <1>1. /\ IsJudgeCall(c) /\ c.of \in Judges /\ c.stage \in {"done", "lost", "refused"}
        /\ c.stage = "done" => c.got \in Statuses
    BY DEF JudgeInv, JudgeTypes, IsJudgeCall, Opening, Moving
  <1>2. c.stage = "done" => /\ active' = [id |-> c.of, status |-> c.got] /\ typed' = Unknown
                            /\ active'.id = c.of /\ active'.status = c.got
                            /\ judges' = [judges EXCEPT ![c.of] = c.got]
    BY DEF Activate, Cleared, ReplaceJudge
  <1>3. c.stage # "done" => UNCHANGED <<active, typed, judges>>  OBVIOUS
  <1>4. Waits(c)  BY DEF Waits
  <1>5. \A d \in judgeCalls \ {c} : ~Waits(d)  BY <1>4 DEF JudgeInv, OneWaits
  <1>6. judgeBusy = TRUE  BY <1>4 DEF JudgeInv, OneWaits, JudgeTypes
  <1>7. judges' \in [Judges -> Statuses]
    BY <1>1, <1>2, <1>3 DEF JudgeInv, JudgeTypes
  <1>8. /\ shownJudge' => active' \in JudgeShown
        /\ typed' # Unknown => active' \in JudgeShown /\ typed' = active'.id
    BY <1>1, <1>2, <1>3 DEF JudgeInv, JudgeTypes, JudgeShown
  <1>9. WantedIsShown'
    <2>1. ~strayed => c.of = wanted  BY DEF JudgeInv, WantedIsShown, Opening
    <2> QED  BY <1>2, <1>3, <2>1 DEF JudgeInv, WantedIsShown, Opening, Moving
  <1>10. StatusesAgree'
    <2> SUFFICES ASSUME NEW j \in Judges \ hazy'
                 PROVE  /\ (\A d \in judgeCalls' : d.kind \in Moving => d.of # j) =>
                             /\ Agrees(j)'
                             /\ \A d \in judgeCalls' :
                                  /\ d.kind = "open" /\ d.of = j =>
                                       d.data = judge[j] /\ StatusOf(d) = judge[j]
                                  /\ d.kind = "refresh" /\ d.stage = "done" => d.got[j] = judge[j]
                        /\ \A d \in judgeCalls' : d.kind \in Moving /\ d.of = j =>
                             /\ \A e \in judgeCalls' :
                                  e.kind # "refresh" /\ ~(e.kind = "open" /\ e.of = j)
                             /\ d.stage \in {"sent", "refused"} => Agrees(j)'
                             /\ d.stage = "done" => d.got = judge[j]
      BY DEF StatusesAgree, StatusOf
    <2>1. j \notin hazy /\ (c.stage = "lost" => j # c.of)  BY DEF HazyIfLost
    <2>2. \A d \in judgeCalls' : d.kind \notin Moving
      BY <1>5 DEF Waits, Moving
    <2>3. Agrees(j)' /\ \A d \in judgeCalls' :
                          /\ d.kind = "open" /\ d.of = j => d.data = judge[j] /\ StatusOf(d) = judge[j]
                          /\ d.kind = "refresh" /\ d.stage = "done" => d.got[j] = judge[j]
      <3>1. CASE c.of = j
        <4>1. /\ \A d \in judgeCalls : d.kind # "refresh" /\ ~(d.kind = "open" /\ d.of = j)
              /\ c.stage = "refused" => Agrees(j)
              /\ c.stage = "done" => c.got = judge[j]
          BY <2>1, <3>1 DEF JudgeInv, StatusesAgree
        <4>2. Agrees(j)'
          <5>1. CASE c.stage = "done"
            <6>1. judges'[j] = c.got  BY <1>1, <1>2, <3>1, <5>1 DEF JudgeInv, JudgeTypes
            <6> QED  BY <1>2, <4>1, <5>1, <6>1 DEF Agrees
          <5>2. CASE c.stage = "refused"
            BY <1>3, <4>1, <5>2 DEF Agrees
          <5> QED  BY <1>1, <2>1, <3>1, <5>1, <5>2
        <4> QED  BY <4>1, <4>2
      <3>2. CASE c.of # j
        <4>1. \A d \in judgeCalls : d.kind \in Moving => d.of # j
          BY <1>5, <3>2 DEF Waits
        <4>2. Agrees(j)  BY <2>1, <4>1 DEF JudgeInv, StatusesAgree
        <4>3. judges'[j] = judges[j]  BY <1>2, <1>3, <3>2 DEF JudgeInv, JudgeTypes
        <4>4. Agrees(j)'  BY <1>2, <1>3, <3>2, <4>2, <4>3 DEF Agrees
        <4>5. \A d \in judgeCalls :
                /\ d.kind = "open" /\ d.of = j => d.data = judge[j] /\ StatusOf(d) = judge[j]
                /\ d.kind = "refresh" /\ d.stage = "done" => d.got[j] = judge[j]
          BY <2>1, <4>1 DEF JudgeInv, StatusesAgree
        <4> QED  BY <4>4, <4>5
      <3> QED  BY <3>1, <3>2
    <2> QED  BY <2>2, <2>3
  <1> QED  BY <1>5, <1>6, <1>7, <1>8, <1>9, <1>10

LEMMA StartedJudge ==
  ASSUME JudgeInv, NEW c \in judgeCalls, c.kind = "start", c.stage # "sent",
         Started(c), UNCHANGED <<judge, marked, selected>>
  PROVE  JudgeInv'
  <1>1. /\ judgeBusy' = FALSE /\ HazyIfLost(c) /\ judgeCalls' = judgeCalls \ {c}
        /\ IF c.stage = "done" THEN Activate(c.of, c.got) /\ ReplaceJudge(c)
                               ELSE UNCHANGED <<active, typed, judges>>
        /\ UNCHANGED <<shownJudge, refreshing, timelines, loadingEvidence, judgeBegun, wanted,
                       strayed, mixed, refused>>
    BY DEF Started
  <1>2. c.kind \in Moving  BY DEF Moving
  <1>3. /\ WantedIsShown' /\ StatusesAgree'
        /\ judges' \in [Judges -> Statuses]
        /\ shownJudge' => active' \in JudgeShown
        /\ typed' # Unknown => active' \in JudgeShown /\ typed' = active'.id
        /\ \A d \in judgeCalls \ {c} : ~Waits(d)
    BY Zenon, <1>1, <1>2, MovedJudge
  <1>4. JudgeTypes'  BY Zenon, <1>1, <1>3 DEF JudgeInv, JudgeTypes
  <1>5. OneWaits'  BY <1>1, <1>3 DEF OneWaits
  <1>6. MarksAgree' /\ EvidenceComes'
    <2>1. \A d \in judgeCalls : d.kind \in AboutEvidence => d \in judgeCalls'
      BY <1>1 DEF AboutEvidence
    <2> QED  BY <1>1, <2>1, EvidencesUntouched
  <1> QED  BY <1>3, <1>4, <1>5, <1>6 DEF JudgeInv

\* The lists are asked for, and the button goes on waiting.
LEMMA SubmittedJudge ==
  ASSUME JudgeInv, NEW c \in judgeCalls, c.kind = "submit", c.stage # "sent",
         Submitted(c), UNCHANGED <<judge, marked, selected>>
  PROVE  JudgeInv'
  <1>1. /\ HazyIfLost(c)
        /\ UNCHANGED <<shownJudge, timelines, loadingEvidence, wanted, strayed, mixed, refused>>
        /\ IF c.stage = "done" THEN Activate(c.of, c.got) /\ ReplaceJudge(c)
                               ELSE UNCHANGED <<active, typed, judges>>
    BY DEF Submitted
  <1>2. c.kind \in Moving  BY DEF Moving
  <1>3. CASE c.stage = "done"
    <2>1. Ask("refresh", Unknown, Unknown, "submit", judgeCalls \ {c}) /\ refreshing' = TRUE
          /\ judgeBusy' = judgeBusy
      BY <1>3 DEF Submitted, Refresh
    <2>2. PICK new : /\ new = [n |-> new.n, kind |-> "refresh", of |-> Unknown, data |-> Unknown,
                               by |-> "submit", stage |-> "sent", got |-> Unknown]
                     /\ new.kind = "refresh" /\ new.of = Unknown /\ new.data = Unknown
                     /\ new.by = "submit" /\ new.stage = "sent"
                     /\ judgeCalls' = (judgeCalls \ {c}) \cup {new}
      BY <2>1, AskedCalls
    <2>3. IsJudgeCall(new)  BY <2>2 DEF IsJudgeCall, Opening, Moving, AboutEvidence
    <2>4. /\ \A d \in judgeCalls : d # c => d \in judgeCalls'
          /\ \A d \in judgeCalls' :
               d \in judgeCalls \ {c} \/ (d.kind = "refresh" /\ d.stage = "sent")
      BY <2>2
    <2>5. /\ WantedIsShown' /\ StatusesAgree'
          /\ judges' \in [Judges -> Statuses]
          /\ shownJudge' => active' \in JudgeShown
          /\ typed' # Unknown => active' \in JudgeShown /\ typed' = active'.id
          /\ \A d \in judgeCalls \ {c} : ~Waits(d)
          /\ judgeBusy = TRUE
      BY Zenon, <1>1, <1>2, <2>4, MovedJudge
    <2>6. JudgeTypes'  BY <1>1, <2>1, <2>2, <2>3, <2>5 DEF JudgeInv, JudgeTypes
    <2>7. OneWaits'
      <3>1. Waits(new)  BY <2>2 DEF Waits
      <3> QED  BY <2>1, <2>2, <2>5, <3>1 DEF OneWaits
    <2>8. MarksAgree' /\ EvidenceComes'
      <3>1. \A d \in judgeCalls : d.kind \in AboutEvidence => d \in judgeCalls'
        BY <2>2 DEF AboutEvidence
      <3> QED  BY <1>1, <2>2, <3>1, EvidencesUntouched
    <2> QED  BY <2>5, <2>6, <2>7, <2>8 DEF JudgeInv
  <1>4. CASE c.stage # "done"
    <2>1. /\ judgeBusy' = FALSE /\ judgeCalls' = judgeCalls \ {c}
          /\ UNCHANGED <<active, typed, judges, judgeBegun, refreshing>>
      BY <1>4 DEF Submitted
    <2>2. /\ WantedIsShown' /\ StatusesAgree'
          /\ \A d \in judgeCalls \ {c} : ~Waits(d)
      BY Zenon, <1>1, <1>2, <2>1, MovedJudge
    <2>3. JudgeTypes'  BY Zenon, <1>1, <2>1 DEF JudgeInv, JudgeTypes
    <2>4. OneWaits'  BY <2>1, <2>2 DEF OneWaits
    <2>5. MarksAgree' /\ EvidenceComes'
      <3>1. \A d \in judgeCalls : d.kind \in AboutEvidence => d \in judgeCalls'
        BY <2>1 DEF AboutEvidence
      <3> QED  BY <1>1, <2>1, <3>1, EvidencesUntouched
    <2> QED  BY <2>2, <2>3, <2>4, <2>5 DEF JudgeInv
  <1> QED  BY <1>3, <1>4

\* The lists come, and the evidences of the ability selected are asked for again.
LEMMA RefreshedJudges ==
  ASSUME JudgeInv, NEW c \in judgeCalls, c.kind = "refresh", c.stage # "sent",
         Refreshed(c), UNCHANGED <<judge, marked, selected>>
  PROVE  JudgeInv'
  <1>1. UNCHANGED <<active, shownJudge, typed, wanted, strayed, hazy>>
    BY DEF Refreshed
  <1>2. /\ IsJudgeCall(c) /\ c.of = Unknown
        /\ c.stage = "done" => c.got \in [Judges -> Statuses]
    BY DEF JudgeInv, JudgeTypes, IsJudgeCall
  <1>3. c.kind \notin Moving /\ c.kind \notin Opening /\ c.kind \notin AboutEvidence
    BY DEF Moving, Opening, AboutEvidence
  <1>4. judges' = IF c.stage = "done" THEN c.got ELSE judges
    BY DEF Refreshed
  \* What is said of the judges, whatever is asked for next.
  <1>5. ASSUME \A d \in judgeCalls : d # c => d \in judgeCalls',
               \A d \in judgeCalls' : d \in judgeCalls \ {c} \/ d.kind \in AboutEvidence
        PROVE  WantedIsShown' /\ StatusesAgree'
    <2>1. WantedIsShown'
      BY <1>1, <1>5 DEF JudgeInv, WantedIsShown, Opening, Moving, AboutEvidence
    <2>2. StatusesAgree'
      <3> SUFFICES ASSUME NEW j \in Judges \ hazy
                   PROVE  /\ (\A d \in judgeCalls' : d.kind \in Moving => d.of # j) =>
                               /\ Agrees(j)'
                               /\ \A d \in judgeCalls' :
                                    /\ d.kind = "open" /\ d.of = j =>
                                         d.data = judge[j] /\ StatusOf(d) = judge[j]
                                    /\ d.kind = "refresh" /\ d.stage = "done" => d.got[j] = judge[j]
                          /\ \A d \in judgeCalls' : d.kind \in Moving /\ d.of = j =>
                               /\ \A e \in judgeCalls' :
                                    e.kind # "refresh" /\ ~(e.kind = "open" /\ e.of = j)
                               /\ d.stage \in {"sent", "refused"} => Agrees(j)'
                               /\ d.stage = "done" => d.got = judge[j]
        BY <1>1 DEF StatusesAgree, StatusOf
      <3>1. \A d \in judgeCalls : d.kind \in Moving => d.of # j
        BY DEF JudgeInv, StatusesAgree
      <3>2. \A d \in judgeCalls' : d.kind \in Moving => d.of # j
        BY <1>5, <3>1 DEF Moving, AboutEvidence
      <3>3. Agrees(j) /\ (c.stage = "done" => c.got[j] = judge[j])
        BY <3>1 DEF JudgeInv, StatusesAgree
      <3>4. Agrees(j)'  BY <1>1, <1>4, <3>3 DEF Agrees
      <3>5. \A d \in judgeCalls :
              /\ d.kind = "open" /\ d.of = j => d.data = judge[j] /\ StatusOf(d) = judge[j]
              /\ d.kind = "refresh" /\ d.stage = "done" => d.got[j] = judge[j]
        BY <3>1 DEF JudgeInv, StatusesAgree
      <3> QED  BY <1>5, <3>2, <3>4, <3>5 DEF AboutEvidence
    <2> QED  BY <2>1, <2>2
  <1>6. CASE c.stage = "done"
    <2>1. timelines' = [a \in Judges |-> Unknown] /\ refused' = refused \ {selected}
      BY <1>6 DEF Refreshed
    <2>2. timelines' \in [Judges -> BOOLEAN \cup {Unknown}]  BY <2>1
    <2>3. selected \in Judges  BY DEF JudgeInv, JudgeTypes
    <2>4. CASE Known(selected)
      <3>1. /\ Released(c) /\ judgeCalls' = judgeCalls \ {c}
            /\ UNCHANGED <<loadingEvidence, judgeBegun, mixed>>
        BY <1>6, <2>4 DEF Refreshed
      <3>2. OneWaits' /\ judgeBusy' \in BOOLEAN /\ refreshing' \in BOOLEAN
        BY <1>3, <3>1, ReleasedWaits
      <3>3. JudgeTypes'
        BY <1>1, <1>2, <1>4, <1>6, <2>2, <3>1, <3>2 DEF JudgeInv, JudgeTypes
      <3>4. WantedIsShown' /\ StatusesAgree'  BY <1>5, <3>1
      <3>5. EvidenceComes'
        <4>1. loadingEvidence = selected /\ selected # Unknown
          BY <2>1, <2>3, <2>4, JudgesAssumption DEF Known
        <4>2. \A d \in judgeCalls : d.kind = "evidence" => d \in judgeCalls'  BY <3>1
        <4> QED  BY <3>1, <4>1, <4>2 DEF JudgeInv, EvidenceComes
      <3>6. MarksAgree'
        <4>1. \A d \in judgeCalls : d.kind \in AboutEvidence => d \in judgeCalls'
          BY <3>1 DEF AboutEvidence
        <4>2. \A a \in Judges : timelines'[a] = Unknown  BY <2>1
        <4> QED  BY <3>1, <4>1, <4>2 DEF JudgeInv, MarksAgree, AboutEvidence
      <3> QED  BY <3>2, <3>3, <3>4, <3>5, <3>6 DEF JudgeInv
    <2>5. CASE ~Known(selected)
      <3>1. LoadEvidence(selected, c.by, judgeCalls \ {c}) /\ UNCHANGED <<judgeBusy, refreshing>>
        BY <1>6, <2>5 DEF Refreshed
      <3>2. /\ judgeCalls \ {c} \subseteq judgeCalls
            /\ \A d \in judgeCalls : d.kind \in AboutEvidence => d \in judgeCalls \ {c}
        BY DEF AboutEvidence
      <3>3. /\ MarksAgree' /\ EvidenceComes' /\ loadingEvidence' \in Judges
            /\ \E new : /\ judgeCalls' = (judgeCalls \ {c}) \cup {new} /\ IsJudgeCall(new)
                        /\ new.kind = "evidence" /\ new.by = c.by
        BY <2>1, <2>3, <3>1, <3>2, LoadingEvidence
      <3>4. PICK new : /\ judgeCalls' = (judgeCalls \ {c}) \cup {new} /\ IsJudgeCall(new)
                       /\ new.kind = "evidence" /\ new.by = c.by
        BY <3>3
      <3>5. JudgeTypes'
        BY <1>1, <1>2, <1>4, <1>6, <2>2, <3>1, <3>3, <3>4 DEF JudgeInv, JudgeTypes
      <3>6. WantedIsShown' /\ StatusesAgree'
        <4>1. \A d \in judgeCalls : d # c => d \in judgeCalls'  BY <3>4
        <4>2. \A d \in judgeCalls' : d \in judgeCalls \ {c} \/ d.kind \in AboutEvidence
          BY <3>4 DEF AboutEvidence
        <4> QED  BY <1>5, <4>1, <4>2
      <3>7. OneWaits'
        <4>1. Waits(new) <=> Waits(c)  BY <3>4 DEF Waits, Moving
        <4> QED  BY <3>1, <3>4, <4>1 DEF JudgeInv, OneWaits
      <3> QED  BY <3>3, <3>5, <3>6, <3>7 DEF JudgeInv
    <2> QED  BY <2>4, <2>5
  <1>7. CASE c.stage # "done"
    <2>1. /\ Released(c) /\ judgeCalls' = judgeCalls \ {c}
          /\ UNCHANGED <<judges, timelines, loadingEvidence, judgeBegun, mixed, refused>>
      BY <1>7 DEF Refreshed
    <2>2. OneWaits' /\ judgeBusy' \in BOOLEAN /\ refreshing' \in BOOLEAN
      BY <1>3, <2>1, ReleasedWaits
    <2>3. JudgeTypes'  BY <1>1, <2>1, <2>2 DEF JudgeInv, JudgeTypes
    <2>4. WantedIsShown' /\ StatusesAgree'  BY <1>5, <2>1
    <2>5. MarksAgree' /\ EvidenceComes'
      <3>1. \A d \in judgeCalls : d.kind \in AboutEvidence => d \in judgeCalls'
        BY <2>1 DEF AboutEvidence
      <3> QED  BY <2>1, <3>1, EvidencesUntouched
    <2> QED  BY <2>2, <2>3, <2>4, <2>5 DEF JudgeInv
  <1> QED  BY <1>6, <1>7

LEMMA ReceivedAbility ==
  ASSUME JudgeInv, NEW c \in judgeCalls, ReceiveAbility(c)
  PROVE  JudgeInv'
  <1>1. c.stage # "sent" /\ UNCHANGED <<judge, marked, selected>>
    BY DEF ReceiveAbility
  <1>2. c.kind \in {"evidence", "mark", "open", "start", "submit", "refresh"}
    BY DEF JudgeInv, JudgeTypes, IsJudgeCall, Opening, Moving, AboutEvidence
  <1>3. CASE c.kind = "evidence"  BY <1>1, <1>3, LoadedEvidence DEF ReceiveAbility
  <1>4. CASE c.kind = "mark"  BY <1>1, <1>4, MarkedEvidence DEF ReceiveAbility
  <1>5. CASE c.kind = "open"  BY <1>1, <1>5, OpenedJudge DEF ReceiveAbility
  <1>6. CASE c.kind = "start"  BY <1>1, <1>6, StartedJudge DEF ReceiveAbility
  <1>7. CASE c.kind = "submit"  BY <1>1, <1>7, SubmittedJudge DEF ReceiveAbility
  <1>8. CASE c.kind = "refresh"  BY <1>1, <1>8, RefreshedJudges DEF ReceiveAbility
  <1> QED  BY <1>2, <1>3, <1>4, <1>5, <1>6, <1>7, <1>8

\* Every step keeps the invariant.
LEMMA JudgesStep == JudgeInv /\ [JudgeNext]_judgeVars => JudgeInv'
  <1> SUFFICES ASSUME JudgeInv, [JudgeNext]_judgeVars  PROVE JudgeInv'
    OBVIOUS
  <1>1. CASE UNCHANGED judgeVars
    BY <1>1 DEF judgeVars, JudgeInv, JudgeTypes, WantedIsShown, StatusesAgree, Agrees, StatusOf,
       OneWaits, MarksAgree, EvidenceComes
  <1>2. ASSUME NEW c \in judgeCalls, ServeAbility(c)  PROVE JudgeInv'  BY <1>2, ServingJudges
  <1>3. ASSUME NEW c \in judgeCalls, ReceiveAbility(c)  PROVE JudgeInv'  BY <1>3, ReceivedAbility
  <1>4. ASSUME NEW a \in Judges, SelectAbility(a)  PROVE JudgeInv'  BY <1>4, SelectingAbility
  <1>5. ASSUME NEW a \in Judges, OpenJudge(a)  PROVE JudgeInv'  BY <1>5, OpeningJudge
  <1>6. CASE ToggleMilestone  BY <1>6, TogglingMilestone
  <1>7. CASE RefreshAbilityData  BY <1>7, AskingAbilities
  <1>8. CASE StartJudge  BY <1>8, StartingJudge
  <1>9. CASE TypeAnswers  BY <1>9, TypingAnswers
  <1>10. CASE SubmitJudge  BY <1>10, SubmittingJudge
  <1>11. CASE CloseJudge  BY <1>11, ClosingJudge
  <1> QED
    BY <1>1, <1>2, <1>3, <1>4, <1>5, <1>6, <1>7, <1>8, <1>9, <1>10, <1>11 DEF JudgeNext

LEMMA JudgesHold == JudgeInv => JudgesFit /\ EvidenceFits
  <1> SUFFICES ASSUME JudgeInv  PROVE JudgesFit /\ EvidenceFits
    OBVIOUS
  <1>1. JudgesFit
    <2>1. \A c \in judgeCalls : c.kind = "submit" => c.data = c.of
      BY DEF JudgeInv, WantedIsShown
    <2>2. shownJudge /\ ~strayed => active.id = wanted  BY DEF JudgeInv, WantedIsShown
    <2>3. ASSUME NEW j \in Judges \ hazy, ~Asking(Moving, {j})  PROVE Agrees(j)
      BY <2>3 DEF Asking, JudgeInv, StatusesAgree
    <2> QED  BY <2>1, <2>2, <2>3 DEF JudgesFit, Agrees
  <1>2. EvidenceFits
    <2>1. ASSUME NEW a \in Judges \ mixed, ~Asking({"mark"}, {a})
          PROVE  timelines[a] \in {Unknown, marked[a]}
      BY <2>1 DEF Asking, JudgeInv, MarksAgree
    <2>2. timelines[selected] # Unknown \/ selected \in refused \/ Asking({"evidence"}, {selected})
      BY DEF Asking, JudgeInv, EvidenceComes
    <2>3. judgeBusy => \E c \in judgeCalls : c.kind \in Moving \/ c.by = "submit"
      BY DEF JudgeInv, OneWaits, Waits
    <2> QED  BY <2>1, <2>2, <2>3 DEF EvidenceFits
  <1> QED  BY <1>1, <1>2

\* Answers go to the judge they were typed for; list, dialog and evidences agree with the
\* backend unless calls about them have overlapped or been lost; and no button waits for
\* nothing (StudentAchievementsView.vue and JudgeDialog.vue).
THEOREM JudgesAreTrue == JudgeSpec => [](JudgesFit /\ EvidenceFits)
  BY JudgesStart, JudgesStep, JudgesHold, PTL DEF JudgeSpec
-----------------------------------------------------------------------------
\* The weekly plan.

\* What the weekly plan does, without fairness.
WeekSpec == WeekInit /\ [][WeekNext]_weekVars

\* The calls of the dialog.
Dialogs == {"create", "update", "remove"}

IsWeekCall(c) ==
  /\ c = [n |-> c.n, kind |-> c.kind, id |-> c.id, item |-> c.item, stage |-> c.stage,
          list |-> c.list, alone |-> c.alone]
  /\ c.kind \in {"load", "drag"} \cup Dialogs
  /\ c.alone \in BOOLEAN /\ c.stage \in {"sent", "done", "lost", "refused"}
  /\ c.kind \in {"create", "update", "drag"} => c.item \in Items
  /\ c.kind \in {"update", "drag", "remove"} \/ (c.kind = "create" /\ c.stage = "done") => c.id \in Ids
  /\ c.kind = "load" /\ c.stage = "done" => c.list \in [Ids -> Seq(Items)]

WeekTypes ==
  /\ WeekTypeOK
  /\ week \in [Ids -> Seq(Items)]
  /\ held # NoItem => held.id \in Ids /\ held.item \in Items
  /\ saving \in BOOLEAN /\ loading \in BOOLEAN /\ failed \in BOOLEAN
  /\ opened \in BOOLEAN /\ blurred \in BOOLEAN
  /\ \A c \in weekCalls : IsWeekCall(c)
  /\ \A id \in Ids : id > made => entries[id] = NoItem

\* A call that has been alone is alone, and while nothing is blurred every one has.
AloneIsAlone ==
  /\ \A c \in weekCalls : c.alone => weekCalls = {c}
  /\ ~blurred => \A c \in weekCalls : c.alone

\* The week that the page will show when the call is answered.
WeekAfter(c) ==
  CASE c.kind = "create" -> [week EXCEPT ![c.id] = Append(@, c.item)]
    [] c.kind \in {"update", "drag"} -> [week EXCEPT ![c.id] = [k \in DOMAIN @ |-> c.item]]
    [] c.kind = "remove" -> [week EXCEPT ![c.id] = <<>>]
    [] c.kind = "load" -> c.list

\* What one call leaves to be told.
AnswersAreTrue ==
  /\ ~blurred /\ ~failed =>
       /\ weekCalls = {} => week = Copies
       /\ \A c \in weekCalls : c.kind # "load" =>
            /\ c.stage \in {"sent", "refused"} => week = Copies
            /\ c.stage = "done" => WeekAfter(c) = Copies
  /\ \A c \in weekCalls : c.alone /\ c.kind = "load" /\ c.stage = "done" => c.list = Copies

\* A button waits for a call of its kind.
ButtonsWait ==
  /\ saving => \E c \in weekCalls : c.kind \in Dialogs
  /\ loading /\ ~blurred => \E c \in weekCalls : c.kind = "load"

\* The inductive invariant.
WeekInv == WeekTypes /\ AloneIsAlone /\ AnswersAreTrue /\ ButtonsWait

LEMMA CopiesTyped ==
  ASSUME entries \in [Ids -> Items \cup {NoItem}]
  PROVE  Copies \in [Ids -> Seq(Items)]
  <1>1. \A id \in Ids : (IF entries[id] = NoItem THEN <<>> ELSE <<entries[id]>>) \in Seq(Items)
    OBVIOUS
  <1> QED  BY <1>1 DEF Copies

LEMMA WeekStarts == WeekInit => WeekInv
  <1> SUFFICES ASSUME WeekInit  PROVE WeekInv
    OBVIOUS
  <1>1. PICK item : item = (CHOOSE x \in Items : TRUE)  OBVIOUS
  <1>2. item \in Items
    <2>1. PICK t \in EntryTexts, u \in Times : TRUE  BY WeekAssumption
    <2>2. [text |-> t, time |-> u] \in Items  BY <2>1 DEF Items
    <2> QED  BY <1>1, <2>2
  <1>3. MaxEntries \in Nat \ {0} /\ MaxWeekCalls \in Nat \ {0}  BY WeekAssumption
  <1>4. entries = [id \in Ids |-> IF id = 1 THEN item ELSE NoItem]  BY <1>1 DEF WeekInit
  <1>5. PICK c : c = [n |-> 1, kind |-> "load", id |-> NoItem, item |-> NoItem,
                      stage |-> "sent", list |-> NoItem, alone |-> TRUE]
    BY Zenon
  <1>6. weekCalls = {c} /\ c.kind = "load" /\ c.stage = "sent" /\ c.alone
    BY <1>5 DEF WeekInit
  <1>7. WeekTypes
    <2>1. entries \in [Ids -> Items \cup {NoItem}]  BY <1>2, <1>4
    <2>2. week \in [Ids -> Seq(Items)] /\ \A id \in Ids : week[id] \in Seq(Items)
      BY DEF WeekInit
    <2>3. made \in 1 .. MaxEntries /\ weekBegun \in 1 .. MaxWeekCalls  BY <1>3 DEF WeekInit
    <2>4. IsWeekCall(c)  BY <1>5 DEF IsWeekCall
    <2>5. \A id \in Ids : id > made => entries[id] = NoItem  BY <1>4 DEF WeekInit, Ids
    <2>6. WeekTypeOK  BY Zenon, <2>1, <2>2, <2>3 DEF WeekInit, WeekTypeOK
    <2> QED  BY Zenon, <1>6, <2>1, <2>2, <2>4, <2>5, <2>6 DEF WeekInit, WeekTypes
  <1>8. AloneIsAlone  BY <1>6 DEF AloneIsAlone
  <1>9. AnswersAreTrue  BY <1>6 DEF AnswersAreTrue
  <1>10. ButtonsWait  BY <1>6 DEF ButtonsWait, WeekInit
  <1> QED  BY <1>7, <1>8, <1>9, <1>10 DEF WeekInv

\* What a call writes is what the week shows after it.
LEMMA ServiceWrites ==
  ASSUME WeekInv, NEW c \in weekCalls, Written(c), NEW id,
         id = IF c.kind = "create" THEN made + 1 ELSE c.id
  PROVE  /\ entries' \in [Ids -> Items \cup {NoItem}] /\ made' \in 1 .. MaxEntries
         /\ \A e \in Ids : e > made' => entries'[e] = NoItem
         /\ c.kind # "load" => id \in Ids
         /\ c.kind = "load" => entries' = entries
         /\ c.kind = "create" /\ week = Copies => [week EXCEPT ![id] = Append(@, c.item)] = Copies'
         /\ c.kind \in {"update", "drag"} /\ week = Copies =>
              [week EXCEPT ![id] = [k \in DOMAIN @ |-> c.item]] = Copies'
         /\ c.kind = "remove" /\ week = Copies => [week EXCEPT ![id] = <<>>] = Copies'
  <1>1. /\ IsWeekCall(c) /\ entries \in [Ids -> Items \cup {NoItem}] /\ made \in 1 .. MaxEntries
        /\ \A e \in Ids : e > made => entries[e] = NoItem
        /\ MaxEntries \in Nat /\ NoItem \notin Items
    BY WeekAssumption DEF WeekInv, WeekTypes, WeekTypeOK
  <1>2. CASE c.kind = "create"
    <2>1. /\ made < MaxEntries /\ made' = made + 1 /\ c.item \in Items /\ id = made + 1
          /\ entries' = [entries EXCEPT ![id] = c.item]
      BY <1>1, <1>2 DEF Written, IsWeekCall
    <2>2. id \in Ids /\ id > made /\ made' \in 1 .. MaxEntries  BY <1>1, <2>1 DEF Ids
    <2>3. entries[id] = NoItem  BY <1>1, <2>2
    <2>4. entries' \in [Ids -> Items \cup {NoItem}]  BY Zenon, <1>1, <2>1
    <2>5. \A e \in Ids : e > made' => entries'[e] = NoItem  BY <1>1, <2>1, <2>2 DEF Ids
    <2>6. ASSUME week = Copies  PROVE [week EXCEPT ![id] = Append(@, c.item)] = Copies'
      <3>1. week[id] = <<>>  BY <2>2, <2>3, <2>6 DEF Copies
      <3>2. Append(week[id], c.item) = <<c.item>>  BY <3>1
      <3>3. \A e \in Ids : [week EXCEPT ![id] = <<c.item>>][e]
                           = IF entries'[e] = NoItem THEN <<>> ELSE <<entries'[e]>>
        BY <1>1, <2>1, <2>2, <2>6 DEF Copies
      <3> QED  BY Zenon, <3>2, <3>3, <2>6 DEF Copies
    <2> QED  BY <1>2, <2>2, <2>4, <2>5, <2>6
  <1>3. CASE c.kind \in {"update", "drag"}
    <2>1. /\ entries[id] # NoItem /\ entries' = [entries EXCEPT ![id] = c.item] /\ made' = made
          /\ c.item \in Items /\ id \in Ids
      BY <1>1, <1>3 DEF Written, IsWeekCall
    <2>2. entries' \in [Ids -> Items \cup {NoItem}]  BY <1>1, <2>1
    <2>3. \A e \in Ids : e > made' => entries'[e] = NoItem  BY <1>1, <2>1
    <2>4. ASSUME week = Copies  PROVE [week EXCEPT ![id] = [k \in DOMAIN @ |-> c.item]] = Copies'
      <3>1. week[id] = <<entries[id]>>  BY <2>1, <2>4 DEF Copies
      <3>2. [k \in DOMAIN week[id] |-> c.item] = <<c.item>>  BY <3>1
      <3>3. \A e \in Ids : [week EXCEPT ![id] = <<c.item>>][e]
                           = IF entries'[e] = NoItem THEN <<>> ELSE <<entries'[e]>>
        BY <1>1, <2>1, <2>4 DEF Copies
      <3> QED  BY Zenon, <3>2, <3>3, <2>4 DEF Copies
    <2> QED  BY <1>1, <1>3, <2>1, <2>2, <2>3, <2>4
  <1>4. CASE c.kind = "remove"
    <2>1. entries' = [entries EXCEPT ![id] = NoItem] /\ made' = made /\ id \in Ids
      BY <1>1, <1>4 DEF Written, IsWeekCall
    <2>2. entries' \in [Ids -> Items \cup {NoItem}]  BY <1>1, <2>1
    <2>3. \A e \in Ids : e > made' => entries'[e] = NoItem  BY <1>1, <2>1
    <2>4. ASSUME week = Copies  PROVE [week EXCEPT ![id] = <<>>] = Copies'
      <3>1. \A e \in Ids : [week EXCEPT ![id] = <<>>][e]
                           = IF entries'[e] = NoItem THEN <<>> ELSE <<entries'[e]>>
        BY <1>1, <2>1, <2>4 DEF Copies
      <3> QED  BY Zenon, <3>1, <2>4 DEF Copies
    <2> QED  BY <1>1, <1>4, <2>1, <2>2, <2>3, <2>4
  <1>5. CASE c.kind = "load"
    <2>1. entries' = entries /\ made' = made  BY <1>5 DEF Written
    <2> QED  BY <1>1, <1>5, <2>1
  <1> QED  BY <1>1, <1>2, <1>3, <1>4, <1>5 DEF IsWeekCall, Dialogs

\* A call is served, refused, or its answer is lost.
LEMMA ServingKeeps ==
  ASSUME WeekInv, NEW c \in weekCalls, ServeEntry(c)
  PROVE  WeekInv'
  <1>1. /\ c.stage = "sent" /\ IsWeekCall(c)
        /\ UNCHANGED <<week, held, form, opened, saving, loading, failed, weekBegun, blurred>>
    BY DEF ServeEntry, WeekInv, WeekTypes
  <1>2. PICK s \in {"done", "lost", "refused"} :
          /\ EntryStage(c, s)
          /\ IF s = "refused" THEN UNCHANGED <<entries, made>> ELSE Written(c)
    BY DEF ServeEntry
  <1>3. PICK id : id = IF c.kind = "create" THEN made + 1 ELSE c.id  OBVIOUS
  <1>4. PICK list : list = IF c.kind = "load" /\ s = "done" THEN Copies ELSE NoItem  OBVIOUS
  <1>5. PICK new : new = [c EXCEPT !.stage = s, !.id = id, !.list = list]  OBVIOUS
  <1>6. weekCalls' = (weekCalls \ {c}) \cup {new}
    <2>1. new = [c EXCEPT !.stage = s, !.id = IF c.kind = "create" THEN made + 1 ELSE @,
                          !.list = IF c.kind = "load" /\ s = "done" THEN Copies ELSE NoItem]
      BY <1>1, <1>3, <1>4, <1>5 DEF IsWeekCall
    <2> QED  BY <1>2, <2>1 DEF EntryStage
  <1>7. /\ new = [n |-> c.n, kind |-> c.kind, id |-> id, item |-> c.item, stage |-> s,
                  list |-> list, alone |-> c.alone]
        /\ new.n = c.n /\ new.kind = c.kind /\ new.id = id /\ new.item = c.item /\ new.stage = s
        /\ new.list = list /\ new.alone = c.alone
    BY Zenon, <1>1, <1>5 DEF IsWeekCall
  <1>8. /\ entries' \in [Ids -> Items \cup {NoItem}] /\ made' \in 1 .. MaxEntries
        /\ \A e \in Ids : e > made' => entries'[e] = NoItem
        /\ c.kind = "load" => Copies' = Copies
        /\ s = "refused" => Copies' = Copies
        /\ s # "refused" /\ c.kind # "load" => id \in Ids
    <2>1. CASE s = "refused"
      BY <1>2, <2>1 DEF WeekInv, WeekTypes, WeekTypeOK, Copies
    <2>2. CASE s # "refused"
      <3>1. Written(c)  BY <1>2, <2>2
      <3> QED  BY Zenon, <1>3, <2>2, <3>1, ServiceWrites DEF Copies
    <2> QED  BY <2>1, <2>2
  <1>9. ASSUME s = "done", week = Copies, c.kind # "load"  PROVE WeekAfter(new)' = Copies'
    <2>1. Written(c)  BY <1>2, <1>9
    <2>2. CASE c.kind = "create"
      <3>1. WeekAfter(new)' = [week EXCEPT ![id] = Append(@, c.item)]
        BY <1>1, <1>7, <2>2 DEF WeekAfter
      <3> QED  BY <3>1, <2>1, <2>2, <1>3, <1>9, ServiceWrites
    <2>3. CASE c.kind \in {"update", "drag"}
      <3>1. WeekAfter(new)' = [week EXCEPT ![id] = [k \in DOMAIN @ |-> c.item]]
        BY <1>1, <1>7, <2>3 DEF WeekAfter
      <3> QED  BY Zenon, <3>1, <2>1, <2>3, <1>3, <1>9, ServiceWrites
    <2>4. CASE c.kind = "remove"
      <3>1. WeekAfter(new)' = [week EXCEPT ![id] = <<>>]
        BY <1>1, <1>7, <2>4 DEF WeekAfter
      <3> QED  BY <3>1, <2>1, <2>4, <1>3, <1>9, ServiceWrites
    <2> QED  BY <1>1, <1>9, <2>2, <2>3, <2>4 DEF IsWeekCall, Dialogs
  <1>10. WeekTypes'
    <2>1. IsWeekCall(new)
      <3>1. c.kind = "load" /\ s = "done" => list \in [Ids -> Seq(Items)]
        BY <1>4, CopiesTyped DEF WeekInv, WeekTypes, WeekTypeOK
      <3>2. c.kind \in {"update", "drag", "remove"} => id = c.id  BY <1>3
      <3>3. c.kind = "create" /\ s = "done" => id \in Ids  BY <1>8
      <3> QED  BY <1>1, <1>7, <3>1, <3>2, <3>3 DEF IsWeekCall
    <2>2. \A d \in weekCalls' : IsWeekCall(d)  BY <1>6, <2>1 DEF WeekInv, WeekTypes
    <2>3. WeekTypeOK'  BY <1>1, <1>8 DEF WeekInv, WeekTypes, WeekTypeOK
    <2> QED  BY <1>1, <1>8, <2>2, <2>3 DEF WeekInv, WeekTypes, IsWeekCall
  <1>11. AloneIsAlone'  BY <1>1, <1>6, <1>7 DEF WeekInv, AloneIsAlone
  <1>12. AnswersAreTrue'
    <2>1. ASSUME ~blurred', ~failed'
          PROVE  /\ weekCalls' = {} => week' = Copies'
                 /\ \A d \in weekCalls' : d.kind # "load" =>
                      /\ d.stage \in {"sent", "refused"} => week' = Copies'
                      /\ d.stage = "done" => WeekAfter(d)' = Copies'
      <3>1. weekCalls = {c}  BY <1>1, <2>1 DEF WeekInv, AloneIsAlone
      <3>2. weekCalls' = {new}  BY <1>6, <3>1
      <3>3. c.kind # "load" => week = Copies
        BY <1>1, <2>1 DEF WeekInv, AnswersAreTrue
      <3> QED  BY <1>1, <1>7, <1>8, <1>9, <3>2, <3>3
    <2>2. ASSUME NEW d \in weekCalls', d.alone, d.kind = "load", d.stage = "done"
          PROVE  d.list = Copies'
      <3>1. d = new  BY <1>6, <2>2 DEF WeekInv, AloneIsAlone
      <3>2. list = Copies /\ c.kind = "load"  BY <1>4, <1>7, <2>2, <3>1
      <3> QED  BY <1>7, <1>8, <3>1, <3>2
    <2> QED  BY <2>1, <2>2 DEF AnswersAreTrue
  <1>13. ButtonsWait'  BY <1>1, <1>6, <1>7 DEF WeekInv, ButtonsWait
  <1> QED  BY <1>10, <1>11, <1>12, <1>13 DEF WeekInv

\* A call that begins is alone when no other is under way; the others are not.
LEMMA SentCalls ==
  ASSUME WeekInv, NEW kind, NEW id, NEW item, NEW others, others \subseteq weekCalls,
         Sent(kind, id, item, others),
         IsWeekCall([n |-> 1, kind |-> kind, id |-> id, item |-> item, stage |-> "sent",
                     list |-> NoItem, alone |-> TRUE])
  PROVE  /\ weekBegun' \in 1 .. MaxWeekCalls
         /\ \A c \in weekCalls' : IsWeekCall(c)
         /\ \A c \in weekCalls' : c.alone => weekCalls' = {c}
         /\ \E c \in weekCalls' : c.kind = kind
         /\ \A c \in others : \E d \in weekCalls' : d.kind = c.kind
         /\ others = {} =>
              \E c : /\ weekCalls' = {c}
                     /\ c.kind = kind /\ c.stage = "sent" /\ c.alone
  <1>1. /\ weekBegun < MaxWeekCalls /\ weekBegun' = weekBegun + 1
        /\ weekCalls' = {[c EXCEPT !.alone = FALSE] : c \in others}
                         \cup {NewCall(kind, id, item, others)}
    BY DEF Sent
  <1>2. PICK n : NewCall(kind, id, item, others) =
                   [n |-> n, kind |-> kind, id |-> id, item |-> item, stage |-> "sent",
                    list |-> NoItem, alone |-> others = {}]
    BY Zenon DEF NewCall
  <1>3. PICK new : new = [n |-> n, kind |-> kind, id |-> id, item |-> item, stage |-> "sent",
                          list |-> NoItem, alone |-> others = {}]
    BY Zenon
  <1>4. new.kind = kind /\ new.stage = "sent" /\ new.alone = (others = {}) /\ IsWeekCall(new)
    BY <1>3 DEF IsWeekCall
  <1>5. \A c \in others : LET d == [c EXCEPT !.alone = FALSE]
                          IN  d.kind = c.kind /\ d.alone = FALSE /\ IsWeekCall(d)
    <2> SUFFICES ASSUME NEW c \in others, NEW d, d = [c EXCEPT !.alone = FALSE]
                 PROVE  d.kind = c.kind /\ d.alone = FALSE /\ IsWeekCall(d)
      BY Zenon
    <2>1. IsWeekCall(c)  BY DEF WeekInv, WeekTypes
    <2>2. /\ d = [n |-> c.n, kind |-> c.kind, id |-> c.id, item |-> c.item, stage |-> c.stage,
                  list |-> c.list, alone |-> FALSE]
          /\ d.n = c.n /\ d.kind = c.kind /\ d.id = c.id /\ d.item = c.item /\ d.stage = c.stage
          /\ d.list = c.list /\ d.alone = FALSE
      BY Zenon, <2>1 DEF IsWeekCall
    <2> QED  BY Zenon, <2>1, <2>2 DEF IsWeekCall
  <1>6. \A d \in weekCalls' : d = new \/ \E c \in others : d = [c EXCEPT !.alone = FALSE]
    BY <1>1, <1>2, <1>3
  <1>7. weekBegun' \in 1 .. MaxWeekCalls
    BY <1>1, WeekAssumption DEF WeekInv, WeekTypes, WeekTypeOK
  <1>8. \A c \in weekCalls' : IsWeekCall(c)  BY <1>4, <1>5, <1>6
  <1>9. ASSUME NEW c \in weekCalls', c.alone  PROVE weekCalls' = {c}
    <2>1. c = new  BY Zenon, <1>5, <1>6, <1>9
    <2>2. others = {}  BY Zenon, <1>4, <1>9, <2>1
    <2> QED  BY <1>6, <2>1, <2>2
  <1>10. new \in weekCalls' /\ \A c \in others : [c EXCEPT !.alone = FALSE] \in weekCalls'
    BY Zenon, <1>1, <1>2, <1>3
  <1>11. others = {} => weekCalls' = {new}  BY <1>6, <1>10
  <1> QED  BY Zenon, <1>4, <1>5, <1>7, <1>8, <1>9, <1>10, <1>11

\* A change that begins: what it finds shown is shown until it is answered.
LEMMA BegunChanges ==
  ASSUME WeekInv, NEW kind, NEW id, NEW item, BeginChange(kind, id, item),
         IsWeekCall([n |-> 1, kind |-> kind, id |-> id, item |-> item, stage |-> "sent",
                     list |-> NoItem, alone |-> TRUE]),
         UNCHANGED <<entries, made, week>>,
         failed' = failed \/ kind = "load"
  PROVE  /\ weekBegun' \in 1 .. MaxWeekCalls /\ blurred' \in BOOLEAN
         /\ \A c \in weekCalls' : IsWeekCall(c)
         /\ AloneIsAlone' /\ AnswersAreTrue'
         /\ \E c \in weekCalls' : c.kind = kind
         /\ \A c \in weekCalls : \E d \in weekCalls' : d.kind = c.kind
         /\ blurred => blurred'
  <1>1. Sent(kind, id, item, weekCalls) /\ blurred' = (blurred \/ weekCalls # {})
    BY DEF BeginChange
  <1>2. /\ weekBegun' \in 1 .. MaxWeekCalls
        /\ \A c \in weekCalls' : IsWeekCall(c)
        /\ \A c \in weekCalls' : c.alone => weekCalls' = {c}
        /\ \E c \in weekCalls' : c.kind = kind
        /\ \A c \in weekCalls : \E d \in weekCalls' : d.kind = c.kind
        /\ weekCalls = {} =>
              \E c : /\ weekCalls' = {c}
                     /\ c.kind = kind /\ c.stage = "sent" /\ c.alone
    BY <1>1, SentCalls
  <1>3. blurred' \in BOOLEAN  BY <1>1 DEF WeekInv, WeekTypes
  <1>4. AloneIsAlone'  BY Zenon, <1>1, <1>2 DEF AloneIsAlone
  <1>5. AnswersAreTrue'
    <2>1. Copies' = Copies  BY DEF Copies
    <2>2. ASSUME ~blurred', ~failed'
          PROVE  /\ weekCalls' = {} => week' = Copies'
                 /\ \A d \in weekCalls' : d.kind # "load" =>
                      /\ d.stage \in {"sent", "refused"} => week' = Copies'
                      /\ d.stage = "done" => WeekAfter(d)' = Copies'
      <3>1. ~blurred /\ weekCalls = {}  BY Zenon, <1>1, <2>2
      <3>2. PICK c : weekCalls' = {c} /\ c.kind = kind /\ c.stage = "sent"  BY <1>2, <3>1
      <3>3. kind # "load" => week = Copies
        BY <2>2, <3>1 DEF WeekInv, AnswersAreTrue
      <3> QED  BY <2>1, <3>2, <3>3
    <2>3. ASSUME NEW d \in weekCalls', d.alone  PROVE d.stage # "done"
      <3>1. weekCalls' = {d}  BY <1>2, <2>3
      <3>2. CASE weekCalls = {}  BY <1>2, <3>1, <3>2
      <3>3. CASE weekCalls # {}
        <4>1. PICK c \in weekCalls : TRUE  BY <3>3
        <4>2. PICK new : new = NewCall(kind, id, item, weekCalls)  OBVIOUS
        <4>3. new.stage = "sent"  BY <4>2 DEF NewCall
        <4>4. new \in weekCalls'  BY <1>1, <4>2 DEF Sent
        <4> QED  BY <3>1, <4>3, <4>4
      <3> QED  BY <3>2, <3>3
    <2> QED  BY <2>2, <2>3 DEF AnswersAreTrue
  <1> QED  BY Zenon, <1>1, <1>2, <1>3, <1>4, <1>5

\* The user opens, closes, or takes hold of something: no call begins.
LEMMA LookingKeeps ==
  ASSUME WeekInv,
         \/ OpenNew \/ CloseDialog
         \/ \E id \in Ids : BeginResize(id) \/ OpenEntry(id)
  PROVE  WeekInv'
  <1>1. UNCHANGED <<entries, made, week, saving, loading, failed, weekCalls, weekBegun, blurred>>
    BY DEF OpenNew, CloseDialog, BeginResize, OpenEntry
  <1>2. /\ opened' \in BOOLEAN /\ form' \in Ids \cup {NoItem}
        /\ held' # NoItem => held'.id \in Ids /\ held'.item \in Items
    <2>1. CASE OpenNew \/ CloseDialog
      BY Zenon, <2>1 DEF OpenNew, CloseDialog, WeekInv, WeekTypes, WeekTypeOK
    <2>2. ASSUME NEW id \in Ids, OpenEntry(id)
          PROVE  /\ opened' \in BOOLEAN /\ form' \in Ids \cup {NoItem}
                 /\ held' # NoItem => held'.id \in Ids /\ held'.item \in Items
      BY <2>2 DEF OpenEntry, WeekInv, WeekTypes, WeekTypeOK
    <2>3. ASSUME NEW id \in Ids, BeginResize(id)
          PROVE  /\ opened' \in BOOLEAN /\ form' \in Ids \cup {NoItem}
                 /\ held' # NoItem => held'.id \in Ids /\ held'.item \in Items
      <3>1. PICK k \in DOMAIN week[id] : held' = [id |-> id, item |-> week[id][k]]
        BY <2>3 DEF BeginResize
      <3>2. week[id] \in Seq(Items)  BY DEF WeekInv, WeekTypes
      <3>3. week[id][k] \in Items  BY <3>1, <3>2, ElementOfSeq
      <3> QED  BY <2>3, <3>1, <3>3 DEF BeginResize, WeekInv, WeekTypes, WeekTypeOK
    <2> QED  BY <2>1, <2>2, <2>3
  <1>3. WeekTypes'  BY <1>1, <1>2 DEF WeekInv, WeekTypes, WeekTypeOK
  <1>4. AloneIsAlone'  BY <1>1 DEF WeekInv, AloneIsAlone
  <1>5. AnswersAreTrue'  BY Zenon, <1>1 DEF WeekInv, AnswersAreTrue, WeekAfter, Copies
  <1>6. ButtonsWait'  BY <1>1 DEF WeekInv, ButtonsWait
  <1> QED  BY <1>3, <1>4, <1>5, <1>6 DEF WeekInv

\* An entry is dropped at another time.
LEMMA DraggingKeeps ==
  ASSUME WeekInv, NEW id \in Ids, NEW item \in Items, NEW time \in Times, Drop(id, item, time),
         UNCHANGED <<entries, made, week, form, opened, saving, loading, failed>>,
         held' # NoItem => held' = held
  PROVE  WeekInv'
  <1>1. PICK new : new = [item EXCEPT !.time = time]  BY Zenon
  <1>2. new \in Items  BY <1>1 DEF Items
  <1>3. BeginChange("drag", id, new)  BY <1>1 DEF Drop
  <1>4. IsWeekCall([n |-> 1, kind |-> "drag", id |-> id, item |-> new, stage |-> "sent",
                    list |-> NoItem, alone |-> TRUE])
    BY <1>2 DEF IsWeekCall, Dialogs
  <1>5. /\ weekBegun' \in 1 .. MaxWeekCalls /\ blurred' \in BOOLEAN
        /\ \A c \in weekCalls' : IsWeekCall(c)
        /\ AloneIsAlone' /\ AnswersAreTrue'
        /\ \A c \in weekCalls : \E d \in weekCalls' : d.kind = c.kind
        /\ blurred => blurred'
    BY <1>3, <1>4, BegunChanges
  <1>6. WeekTypes'  BY <1>5 DEF WeekInv, WeekTypes, WeekTypeOK
  <1>7. ButtonsWait'
    <2>1. \A kinds : (\E c \in weekCalls : c.kind \in kinds) => \E d \in weekCalls' : d.kind \in kinds
      BY <1>5
    <2> QED  BY <1>5, <2>1 DEF WeekInv, ButtonsWait
  <1> QED  BY <1>5, <1>6, <1>7 DEF WeekInv

\* The dialog saves an entry or removes it.
LEMMA DialogsKeep ==
  ASSUME WeekInv, RemoveEntry \/ \E item \in Items : Save(item)
  PROVE  WeekInv'
  <1>1. PICK kind, item :
          /\ kind \in Dialogs /\ BeginChange(kind, form, item)
          /\ kind \in {"create", "update"} => item \in Items
          /\ kind \in {"update", "remove"} => form # NoItem
    BY DEF RemoveEntry, Save, Dialogs
  <1>2. /\ saving' = TRUE
        /\ UNCHANGED <<entries, made, week, held, form, opened, loading, failed>>
    BY DEF RemoveEntry, Save
  <1>3. IsWeekCall([n |-> 1, kind |-> kind, id |-> form, item |-> item, stage |-> "sent",
                    list |-> NoItem, alone |-> TRUE])
    BY <1>1 DEF IsWeekCall, Dialogs, WeekInv, WeekTypes, WeekTypeOK
  <1>4. /\ weekBegun' \in 1 .. MaxWeekCalls /\ blurred' \in BOOLEAN
        /\ \A c \in weekCalls' : IsWeekCall(c)
        /\ AloneIsAlone' /\ AnswersAreTrue'
        /\ \E c \in weekCalls' : c.kind = kind
        /\ \A c \in weekCalls : \E d \in weekCalls' : d.kind = c.kind
        /\ blurred => blurred'
    BY <1>1, <1>2, <1>3, BegunChanges
  <1>5. WeekTypes'  BY <1>2, <1>4 DEF WeekInv, WeekTypes, WeekTypeOK
  <1>6. ButtonsWait'
    <2>1. (\E c \in weekCalls : c.kind = "load") => \E d \in weekCalls' : d.kind = "load"
      BY <1>4
    <2> QED  BY <1>1, <1>2, <1>4, <2>1 DEF WeekInv, ButtonsWait
  <1> QED  BY <1>4, <1>5, <1>6 DEF WeekInv

\* The page asks for the week again.
LEMMA ReloadKeeps ==
  ASSUME WeekInv, Reload
  PROVE  WeekInv'
  <1>1. /\ loading' = TRUE /\ failed' = FALSE /\ BeginChange("load", NoItem, NoItem)
        /\ UNCHANGED <<entries, made, week, held, form, opened, saving>>
    BY DEF Reload
  <1>2. IsWeekCall([n |-> 1, kind |-> "load", id |-> NoItem, item |-> NoItem, stage |-> "sent",
                    list |-> NoItem, alone |-> TRUE])
    BY DEF IsWeekCall, Dialogs
  <1>3. /\ weekBegun' \in 1 .. MaxWeekCalls /\ blurred' \in BOOLEAN
        /\ \A c \in weekCalls' : IsWeekCall(c)
        /\ AloneIsAlone' /\ AnswersAreTrue'
        /\ \E c \in weekCalls' : c.kind = "load"
        /\ \A c \in weekCalls : \E d \in weekCalls' : d.kind = c.kind
    BY <1>1, <1>2, BegunChanges
  <1>4. WeekTypes'  BY Zenon, <1>1, <1>3 DEF WeekInv, WeekTypes, WeekTypeOK
  <1>5. ButtonsWait'
    <2>1. (\E c \in weekCalls : c.kind \in Dialogs) => \E d \in weekCalls' : d.kind \in Dialogs
      BY <1>3
    <2> QED  BY <1>1, <1>3, <2>1 DEF WeekInv, ButtonsWait
  <1> QED  BY <1>3, <1>4, <1>5 DEF WeekInv

\* The answer of a load, a drag or a dialog.
LEMMA LoadsKeep ==
  ASSUME WeekInv, NEW c \in weekCalls, c.kind = "load", ReceiveEntry(c)
  PROVE  WeekInv'
  <1>1. /\ c.stage # "sent" /\ Loaded(c) /\ IsWeekCall(c)
        /\ UNCHANGED <<entries, made, held, form>>
    BY DEF ReceiveEntry, WeekInv, WeekTypes
  <1>2. /\ loading' = FALSE /\ weekCalls' = weekCalls \ {c}
        /\ UNCHANGED <<opened, saving, weekBegun>>
        /\ c.stage = "done" => week' = c.list /\ blurred' = (blurred /\ ~c.alone) /\ failed' = failed
        /\ c.stage # "done" => failed' = TRUE /\ week' = week /\ blurred' = blurred
    BY <1>1 DEF Loaded
  <1>3. WeekTypes'
    <2>1. week' \in [Ids -> Seq(Items)]
      BY <1>1, <1>2 DEF WeekInv, WeekTypes, IsWeekCall
    <2>2. blurred' \in BOOLEAN /\ failed' \in BOOLEAN
      BY Zenon, <1>1, <1>2 DEF WeekInv, WeekTypes, IsWeekCall
    <2>3. WeekTypeOK'  BY Zenon, <1>1, <1>2, <2>1, <2>2 DEF WeekInv, WeekTypes, WeekTypeOK
    <2> QED  BY Zenon, <1>1, <1>2, <2>1, <2>2, <2>3 DEF WeekInv, WeekTypes
  <1>4. \A d \in weekCalls' : ~d.alone
    BY <1>2 DEF WeekInv, AloneIsAlone
  <1>5. ~blurred' => c.alone /\ weekCalls' = {}
    <2>1. ASSUME ~blurred'  PROVE c.alone
      <3>1. CASE ~blurred  BY <3>1 DEF WeekInv, AloneIsAlone
      <3>2. CASE blurred  BY Zenon, <1>2, <2>1, <3>2
      <3> QED  BY <3>1, <3>2
    <2> QED  BY <1>2, <2>1 DEF WeekInv, AloneIsAlone
  <1>6. AloneIsAlone'  BY <1>4, <1>5 DEF AloneIsAlone
  <1>7. AnswersAreTrue'
    <2>1. ASSUME ~blurred', ~failed'  PROVE week' = Copies'
      <3>1. c.stage = "done"  BY <1>2, <2>1
      <3>2. c.list = Copies  BY <1>5, <2>1, <3>1 DEF WeekInv, AnswersAreTrue
      <3> QED  BY <1>1, <1>2, <3>1, <3>2 DEF Copies
    <2> QED  BY <1>4, <1>5, <2>1 DEF AnswersAreTrue
  <1>8. ButtonsWait'  BY <1>2 DEF WeekInv, ButtonsWait, Dialogs
  <1> QED  BY <1>3, <1>6, <1>7, <1>8 DEF WeekInv

LEMMA AnsweredTypes ==
  ASSUME WeekInv, NEW c \in weekCalls, c.stage = "done", c.kind \in {"create", "update", "drag"}
  PROVE  WeekAfter(c) \in [Ids -> Seq(Items)]
  <1>1. IsWeekCall(c) /\ week \in [Ids -> Seq(Items)]  BY DEF WeekInv, WeekTypes
  <1>2. c.item \in Items /\ c.id \in Ids  BY <1>1 DEF IsWeekCall
  <1>3. week[c.id] \in Seq(Items)  BY <1>1, <1>2
  <1>4. Append(week[c.id], c.item) \in Seq(Items)  BY <1>2, <1>3
  <1>5. [k \in DOMAIN week[c.id] |-> c.item] \in Seq(Items)
    <2>1. DOMAIN week[c.id] = 1 .. Len(week[c.id]) /\ Len(week[c.id]) \in Nat  BY <1>3
    <2> QED  BY <1>2, <2>1, SeqDef
  <1> QED  BY <1>1, <1>2, <1>4, <1>5 DEF WeekAfter

\* The answer of a drag comes.
LEMMA DragsKeep ==
  ASSUME WeekInv, NEW c \in weekCalls, c.kind = "drag", ReceiveEntry(c)
  PROVE  WeekInv'
  <1>1. /\ c.stage # "sent" /\ Dragged(c) /\ IsWeekCall(c)
        /\ UNCHANGED <<entries, made, held, form, opened, saving>>
    BY DEF ReceiveEntry, Dragged, WeekInv, WeekTypes
  <1>2. CASE c.stage = "done"
    <2>1. /\ week' = WeekAfter(c) /\ weekCalls' = weekCalls \ {c}
          /\ UNCHANGED <<loading, failed, weekBegun, blurred>>
      BY <1>1, <1>2 DEF Dragged, Replaced, WeekAfter
    <2>2. WeekTypes'
      <3>1. week' \in [Ids -> Seq(Items)]  BY <1>2, <2>1, AnsweredTypes
      <3>2. WeekTypeOK'  BY <1>1, <2>1, <3>1 DEF WeekInv, WeekTypes, WeekTypeOK
      <3> QED  BY <1>1, <2>1, <3>1, <3>2 DEF WeekInv, WeekTypes
    <2>3. \A d \in weekCalls' : ~d.alone  BY <2>1 DEF WeekInv, AloneIsAlone
    <2>4. ~blurred' => weekCalls' = {}  BY <2>1 DEF WeekInv, AloneIsAlone
    <2>5. AloneIsAlone'  BY <2>3, <2>4 DEF AloneIsAlone
    <2>6. AnswersAreTrue'
      <3>1. ASSUME ~blurred', ~failed'  PROVE week' = Copies'
        BY <1>1, <1>2, <2>1, <3>1 DEF WeekInv, AnswersAreTrue, Copies
      <3> QED  BY <2>3, <2>4, <3>1 DEF AnswersAreTrue
    <2>7. ButtonsWait'  BY <1>1, <2>1 DEF WeekInv, ButtonsWait, Dialogs
    <2> QED  BY <2>2, <2>5, <2>6, <2>7 DEF WeekInv
  <1>3. CASE c.stage # "done"
    <2>1. /\ Sent("load", NoItem, NoItem, weekCalls \ {c})
          /\ loading' = TRUE /\ failed' = FALSE /\ week' = week
          /\ blurred' = (blurred \/ weekCalls # {c})
      BY <1>1, <1>3 DEF Dragged, DragFailed
    <2>2. IsWeekCall([n |-> 1, kind |-> "load", id |-> NoItem, item |-> NoItem, stage |-> "sent",
                      list |-> NoItem, alone |-> TRUE])
      BY DEF IsWeekCall, Dialogs
    <2>3. PICK others : others = weekCalls \ {c}  BY Zenon
    <2>4. others \subseteq weekCalls /\ Sent("load", NoItem, NoItem, others)  BY <2>1, <2>3
    <2>5. /\ weekBegun' \in 1 .. MaxWeekCalls
          /\ \A d \in weekCalls' : IsWeekCall(d)
          /\ \A d \in weekCalls' : d.alone => weekCalls' = {d}
          /\ \E d \in weekCalls' : d.kind = "load"
          /\ \A e \in others : \E d \in weekCalls' : d.kind = e.kind
          /\ others = {} =>
               \E d : weekCalls' = {d} /\ d.kind = "load" /\ d.stage = "sent" /\ d.alone
      BY <2>2, <2>4, SentCalls
    <2>6. WeekTypes'  BY Zenon, <1>1, <2>1, <2>5 DEF WeekInv, WeekTypes, WeekTypeOK
    <2>7. ~blurred' => others = {}  BY Zenon, <2>1, <2>3
    <2>8. AloneIsAlone'  BY <2>5, <2>7 DEF AloneIsAlone
    <2>9. AnswersAreTrue'
      <3>1. \A d \in weekCalls' : d.alone => d.stage # "done"
        <4>1. PICK new : new = NewCall("load", NoItem, NoItem, others)  OBVIOUS
        <4>2. new.stage = "sent"  BY <4>1 DEF NewCall
        <4>3. new \in weekCalls'  BY <2>4, <4>1 DEF Sent
        <4> QED  BY <2>5, <4>2, <4>3
      <3> QED  BY <2>5, <2>7, <3>1 DEF AnswersAreTrue
    <2>10. ButtonsWait'
      <3>1. ASSUME saving'  PROVE \E d \in weekCalls' : d.kind \in Dialogs
        <4>1. PICK e \in weekCalls : e.kind \in Dialogs
          BY <1>1, <3>1 DEF WeekInv, ButtonsWait
        <4>2. e \in others  BY <2>3, <4>1 DEF Dialogs
        <4> QED  BY <2>5, <4>1, <4>2
      <3> QED  BY <2>5, <3>1 DEF ButtonsWait
    <2> QED  BY <2>6, <2>8, <2>9, <2>10 DEF WeekInv
  <1> QED  BY <1>2, <1>3

\* The answer to the dialog comes.
LEMMA SavesKeep ==
  ASSUME WeekInv, NEW c \in weekCalls, c.kind \in Dialogs, ReceiveEntry(c)
  PROVE  WeekInv'
  <1>1. /\ c.stage # "sent" /\ Saved(c) /\ IsWeekCall(c)
        /\ UNCHANGED <<entries, made, held, form>>
    BY DEF ReceiveEntry, WeekInv, WeekTypes, Dialogs
  <1>2. /\ saving' = FALSE /\ weekCalls' = weekCalls \ {c}
        /\ opened' = (opened /\ c.stage # "done")
        /\ blurred' = (blurred \/ c.stage = "lost" \/ (c.kind = "remove" /\ form # c.id))
        /\ UNCHANGED <<loading, failed, weekBegun>>
    BY <1>1 DEF Saved
  <1>3. /\ c.stage # "done" => week' = week
        /\ c.stage = "done" /\ c.kind \in {"create", "update"} => week' = WeekAfter(c)
        /\ c.stage = "done" /\ c.kind = "remove" =>
             week' = [id \in Ids |-> IF id = form THEN <<>> ELSE week[id]]
    BY Zenon, <1>1 DEF Saved, Replaced, WeekAfter, Dialogs
  <1>4. week' \in [Ids -> Seq(Items)]
    <2>1. CASE c.stage # "done"  BY <1>3, <2>1 DEF WeekInv, WeekTypes
    <2>2. CASE c.stage = "done" /\ c.kind \in {"create", "update"}
      BY <1>3, <2>2, AnsweredTypes
    <2>3. CASE c.stage = "done" /\ c.kind = "remove"
      <3>1. <<>> \in Seq(Items)  OBVIOUS
      <3>2. \A id \in Ids : week[id] \in Seq(Items)  BY DEF WeekInv, WeekTypes
      <3>3. \A id \in Ids : (IF id = form THEN <<>> ELSE week[id]) \in Seq(Items)  BY <3>1, <3>2
      <3> QED  BY Zenon, <1>3, <2>3, <3>3
    <2> QED  BY <2>1, <2>2, <2>3 DEF Dialogs
  <1>5. opened' \in BOOLEAN /\ blurred' \in BOOLEAN  BY <1>2 DEF WeekInv, WeekTypes
  <1>6. WeekTypes'
    <2>1. WeekTypeOK'  BY Zenon, <1>1, <1>2, <1>4, <1>5 DEF WeekInv, WeekTypes, WeekTypeOK
    <2> QED  BY Zenon, <1>1, <1>2, <1>4, <1>5, <2>1 DEF WeekInv, WeekTypes
  <1>7. \A d \in weekCalls' : ~d.alone  BY <1>2 DEF WeekInv, AloneIsAlone
  <1>8. ~blurred' => weekCalls' = {}  BY Zenon, <1>2 DEF WeekInv, AloneIsAlone
  <1>9. AloneIsAlone'  BY <1>7, <1>8 DEF AloneIsAlone
  <1>10. AnswersAreTrue'
    <2>1. ASSUME ~blurred', ~failed'  PROVE week' = Copies'
      <3>1. /\ ~blurred /\ ~failed /\ c.stage # "lost" /\ c.kind # "load"
            /\ c.kind = "remove" => form = c.id
        BY Zenon, <1>2, <2>1 DEF Dialogs
      <3>2. Copies' = Copies  BY <1>1 DEF Copies
      <3>3. CASE c.stage # "done"
        <4>1. c.stage \in {"sent", "refused"} => week = Copies
          BY <3>1 DEF WeekInv, AnswersAreTrue
        <4>2. c.stage \in {"done", "lost", "refused"}  BY <1>1 DEF IsWeekCall
        <4> QED  BY <1>3, <3>1, <3>2, <3>3, <4>1, <4>2
      <3>4. CASE c.stage = "done"
        <4>1. WeekAfter(c) = Copies  BY <3>1, <3>4 DEF WeekInv, AnswersAreTrue
        <4>2. CASE c.kind \in {"create", "update"}  BY <1>3, <3>2, <3>4, <4>1, <4>2
        <4>3. CASE c.kind = "remove"
          <5>1. /\ week' = [id \in Ids |-> IF id = c.id THEN <<>> ELSE week[id]]
                /\ c.id \in Ids /\ week \in [Ids -> Seq(Items)]
            BY <1>1, <1>3, <3>1, <3>4, <4>3 DEF IsWeekCall, WeekInv, WeekTypes
          <5>2. WeekAfter(c) = [week EXCEPT ![c.id] = <<>>]  BY <4>3 DEF WeekAfter
          <5>3. week' = [week EXCEPT ![c.id] = <<>>]  BY Zenon, <5>1
          <5> QED  BY <3>2, <4>1, <5>2, <5>3
        <4> QED  BY <4>2, <4>3 DEF Dialogs
      <3> QED  BY <3>3, <3>4
    <2> QED  BY <1>7, <1>8, <2>1 DEF AnswersAreTrue
  <1>11. ButtonsWait'  BY Zenon, <1>2, <1>1 DEF WeekInv, ButtonsWait, Dialogs
  <1> QED  BY <1>6, <1>9, <1>10, <1>11 DEF WeekInv

\* Every step keeps the invariant.
LEMMA WeekSteps == WeekInv /\ [WeekNext]_weekVars => WeekInv'
  <1> SUFFICES ASSUME WeekInv, [WeekNext]_weekVars  PROVE WeekInv'
    OBVIOUS
  <1>1. CASE UNCHANGED weekVars
    BY Zenon, <1>1 DEF weekVars, WeekInv, WeekTypes, WeekTypeOK, AloneIsAlone,
       AnswersAreTrue, WeekAfter, Copies, ButtonsWait
  <1>2. ASSUME NEW c \in weekCalls, ServeEntry(c)  PROVE WeekInv'  BY <1>2, ServingKeeps
  <1>3. ASSUME NEW c \in weekCalls, ReceiveEntry(c)  PROVE WeekInv'
    <2>1. IsWeekCall(c)  BY DEF WeekInv, WeekTypes
    <2> QED  BY <1>3, <2>1, LoadsKeep, DragsKeep, SavesKeep DEF IsWeekCall
  <1>4. ASSUME NEW id \in Ids, NEW time \in Times, DropItem(id, time)  PROVE WeekInv'
    <2>1. week[id] \in Seq(Items) /\ week[id] # <<>>
      BY <1>4 DEF WeekInv, WeekTypes, DropItem
    <2>2. week[id][1] \in Items  BY <2>1
    <2>3. /\ Drop(id, week[id][1], time)
          /\ UNCHANGED <<entries, made, week, held, form, opened, saving, loading, failed>>
      BY <1>4 DEF DropItem
    <2> QED  BY <2>2, <2>3, DraggingKeeps
  <1>5. ASSUME NEW time \in Times, EndResize(time)  PROVE WeekInv'
    <2>1. /\ held # NoItem /\ Drop(held.id, held.item, time) /\ held' = NoItem
          /\ UNCHANGED <<entries, made, week, form, opened, saving, loading, failed>>
      BY <1>5 DEF EndResize
    <2>2. held.id \in Ids /\ held.item \in Items  BY <2>1 DEF WeekInv, WeekTypes
    <2> QED  BY <2>1, <2>2, DraggingKeeps
  <1> QED
    BY <1>1, <1>2, <1>3, <1>4, <1>5, LookingKeeps, DialogsKeep, ReloadKeeps DEF WeekNext

LEMMA WeekHolds == WeekInv => WeekIsTrue
  BY DEF WeekInv, AnswersAreTrue, ButtonsWait, Dialogs, WeekIsTrue

\* Unless calls have overlapped or been lost, the week shows the entries of the backend, and
\* a button waits only for a call (the weekly plan).
THEOREM CalendarIsTrue == WeekSpec => []WeekIsTrue
  BY WeekStarts, WeekSteps, WeekHolds, PTL DEF WeekSpec
-----------------------------------------------------------------------------
\* The events.

\* What the page of events does, without fairness.
EventsSpec == EventsInit /\ [][EventsNext]_eventsVars

FollowKinds == {"follow", "unfollow"}

\* A call of the page: a plan is imported with the goal of its text, or of a later one.
IsEventsCall(c) ==
  /\ c = [n |-> c.n, kind |-> c.kind, of |-> c.of, goal |-> c.goal, stage |-> c.stage, got |-> c.got]
  /\ c.kind \in {"search", "relations", "reserve", "events", "plan", "import"} \cup FollowKinds
  /\ c.kind = "search" => c.of \in Filters
  /\ c.kind = "reserve" => c.of \in Events
  /\ c.kind \in {"events", "plan"} => c.of \in 1 .. texts
  /\ c.kind = "import" => c.of \in 1 .. texts /\ (c.goal = c.of \/ c.of < texts)
  /\ c.kind # "relations" /\ c.stage = "done" => c.got = c.of
  /\ c.kind = "relations" /\ c.stage = "done" =>
       c.got \in [booked : SUBSET Events, followed : BOOLEAN]

EventsTypes ==
  /\ EventsTypeOK
  /\ related \in [booked : SUBSET Events, followed : BOOLEAN]
  /\ booked \subseteq Events /\ followed \in BOOLEAN
  /\ searching \in BOOLEAN /\ searchFailed \in BOOLEAN /\ following \in BOOLEAN
  /\ thinking \in BOOLEAN /\ dialog \in BOOLEAN /\ importing \in BOOLEAN
  /\ texts \in Nat
  /\ dialog => proposals # Nil
  /\ \A c \in eventsCalls : IsEventsCall(c)

\* Without doubt one search is under way at most, and it is for the filter.
SearchesFit ==
  "results" \notin doubts =>
    /\ \A c, d \in eventsCalls :
         c.kind = "search" /\ d.kind = "search" => c = d /\ c.of = filter
    /\ (\A c \in eventsCalls : c.kind # "search") =>
         ~searching /\ (searchFailed \/ results = filter)

\* The call has been carried out.
ServedYet(c) == c.stage \in {"done", "lost"}

\* What the backend has of the page's reservations, and the page does not know.
Untold == {c.of : c \in {d \in eventsCalls : d.kind = "reserve" /\ ServedYet(d)}}

\* The backend has what is shown as reserved, what answers under way say is, and, unless
\* in doubt, nothing else.
BookingsFit ==
  /\ related.booked \subseteq booked
  /\ \A c \in eventsCalls :
       /\ c.kind = "reserve" /\ ServedYet(c) => c.of \in booked
       /\ c.kind = "relations" /\ c.stage = "done" => c.got.booked \subseteq booked
  /\ "booked" \notin doubts =>
       /\ (\A c \in eventsCalls : c.kind # "relations") => booked = related.booked \cup Untold
       /\ \A c \in eventsCalls : c.kind = "relations" =>
            /\ \A d \in eventsCalls : d.kind # "reserve"
            /\ c.stage = "done" => c.got.booked = booked

\* One call about following is under way at most, and it accounts for the difference.
FollowsFit ==
  /\ \A c, d \in eventsCalls : c.kind \in FollowKinds /\ d.kind \in FollowKinds => c = d /\ following
  /\ "followed" \notin doubts =>
       /\ (\A c \in eventsCalls : c.kind # "relations") =>
            \/ /\ followed = related.followed
               /\ \A c \in eventsCalls : c.kind \in FollowKinds => ~ServedYet(c)
            \/ \E c \in eventsCalls : /\ c.kind \in FollowKinds /\ ServedYet(c)
                                      /\ followed = (c.kind = "follow")
       /\ \A c \in eventsCalls : c.kind = "relations" =>
            /\ \A d \in eventsCalls : d.kind \notin FollowKinds
            /\ c.stage = "done" => c.got.followed = followed

\* A plan is written with the goal of its text, or before the last text was answered.
GoalsFit == \A w \in written : w.plan \in 1 .. texts /\ (w.goal = w.plan \/ w.plan < texts)

\* The inductive invariant.
EventsInv == EventsTypes /\ SearchesFit /\ BookingsFit /\ FollowsFit /\ GoalsFit

LEMMA EventsStart == EventsInit => EventsInv
  <1> SUFFICES ASSUME EventsInit  PROVE EventsInv
    OBVIOUS
  <1>1. PICK e : e = (CHOOSE x \in Events : TRUE)  OBVIOUS
  <1>2. PICK f : f = (CHOOSE x \in Filters : TRUE)  OBVIOUS
  <1>3. e \in Events /\ f \in Filters  BY <1>1, <1>2, EventsAssumption
  <1>4. booked = {e} /\ filter = f  BY <1>1, <1>2 DEF EventsInit
  <1>5. /\ eventsCalls = {New("search", f, Nil, 1), New("relations", Nil, Nil, 2)}
        /\ related = [booked |-> {}, followed |-> FALSE]
    BY <1>4 DEF EventsInit
  <1>6. EventsTypes
    <2>1. /\ related \in [booked : SUBSET Events, followed : BOOLEAN]
          /\ related.booked = {} /\ related.followed = FALSE
      BY <1>5
    <2>2. EventsTypeOK  BY Zenon, <1>3, <1>4, <2>1 DEF EventsInit, EventsTypeOK
    <2>3. \A c \in eventsCalls : IsEventsCall(c)
      BY <1>3, <1>5 DEF New, IsEventsCall, FollowKinds
    <2> QED  BY Zenon, <1>3, <1>4, <2>1, <2>2, <2>3 DEF EventsInit, EventsTypes
  <1>7. SearchesFit
    BY <1>4, <1>5 DEF EventsInit, SearchesFit, New
  <1>8. BookingsFit
    BY <1>5 DEF EventsInit, BookingsFit, New, ServedYet
  <1>9. FollowsFit
    BY <1>5 DEF EventsInit, FollowsFit, New, ServedYet, FollowKinds
  <1>10. GoalsFit  BY DEF EventsInit, GoalsFit
  <1> QED  BY <1>6, <1>7, <1>8, <1>9, <1>10 DEF EventsInv

\* A call is served, refused, or its answer is lost.
LEMMA ServingFits ==
  ASSUME EventsInv, NEW c \in eventsCalls, Serve(c)
  PROVE  EventsInv'
  <1>1. /\ c.stage = "sent" /\ IsEventsCall(c)
        /\ UNCHANGED <<filter, results, searching, searchFailed, related, reserving, following,
                       texts, thinking, proposals, dialog, importing, eventsBegun, doubts>>
    BY DEF Serve, EventsInv, EventsTypes
  <1>2. PICK s \in {"done", "lost", "refused"} :
          /\ Stage(c, s)
          /\ IF s = "refused" THEN UNCHANGED <<booked, followed, written>> ELSE Served(c)
    BY DEF Serve
  <1>3. PICK got : got = IF s = "done" THEN Answer(c) ELSE Nil  OBVIOUS
  <1>4. PICK new : new = [c EXCEPT !.stage = s, !.got = got]  OBVIOUS
  <1>5. /\ new = [n |-> c.n, kind |-> c.kind, of |-> c.of, goal |-> c.goal, stage |-> s, got |-> got]
        /\ new.n = c.n /\ new.kind = c.kind /\ new.of = c.of /\ new.goal = c.goal
        /\ new.stage = s /\ new.got = got
    BY Zenon, <1>1, <1>4 DEF IsEventsCall
  <1>6. eventsCalls' = (eventsCalls \ {c}) \cup {new}
    BY <1>2, <1>3, <1>4 DEF Stage
  <1>7. /\ booked' = IF s # "refused" /\ c.kind = "reserve" THEN booked \cup {c.of} ELSE booked
        /\ c.kind \notin FollowKinds \/ s = "refused" => followed' = followed
        /\ c.kind \in FollowKinds /\ s # "refused" => followed' = (c.kind = "follow")
        /\ written' = IF s # "refused" /\ c.kind = "import"
                      THEN written \cup {[plan |-> c.of, goal |-> c.goal]} ELSE written
    BY Zenon, <1>2 DEF Served, FollowKinds
  <1>8. EventsTypes'
    <2>1. booked' \subseteq Events /\ followed' \in BOOLEAN
      BY Zenon, <1>1, <1>7 DEF EventsInv, EventsTypes, IsEventsCall
    <2>2. c.kind = "relations" /\ s = "done" => got = [booked |-> booked', followed |-> followed']
      BY <1>3 DEF Answer
    <2>3. c.kind # "relations" /\ s = "done" => got = c.of  BY <1>3 DEF Answer
    <2>4. IsEventsCall(new)'
      BY <1>1, <1>5, <2>1, <2>2, <2>3 DEF IsEventsCall
    <2>5. \A d \in eventsCalls' : IsEventsCall(d)'
      BY <1>1, <1>6, <2>4 DEF EventsInv, EventsTypes, IsEventsCall
    <2>6. EventsTypeOK'  BY <1>1, <2>1 DEF EventsInv, EventsTypes, EventsTypeOK
    <2> QED  BY <1>1, <2>1, <2>5, <2>6 DEF EventsInv, EventsTypes
  <1>9. SearchesFit'
    <2> SUFFICES ASSUME "results" \notin doubts'  PROVE SearchesFit'
      BY DEF SearchesFit
    <2>1. \A d, e \in eventsCalls :
             d.kind = "search" /\ e.kind = "search" => d = e /\ d.of = filter
      BY <1>1 DEF EventsInv, SearchesFit
    <2>2. \A d, e \in eventsCalls' :
             d.kind = "search" /\ e.kind = "search" => d = e /\ d.of = filter'
      BY <1>1, <1>5, <1>6, <2>1
    <2>3. (\A d \in eventsCalls' : d.kind # "search") => \A d \in eventsCalls : d.kind # "search"
      BY <1>5, <1>6
    <2> QED  BY <1>1, <2>2, <2>3 DEF EventsInv, SearchesFit
  <1>10. BookingsFit'
    <2>1. /\ booked \subseteq booked'
          /\ c.kind = "reserve" /\ s # "refused" => c.of \in booked'
      BY <1>7
    <2>2. c.kind = "relations" /\ s = "done" => got.booked = booked'
      BY <1>3 DEF Answer
    <2>3. \A d \in eventsCalls' :
            /\ d.kind = "reserve" /\ ServedYet(d) => d.of \in booked'
            /\ d.kind = "relations" /\ d.stage = "done" => d.got.booked \subseteq booked'
      BY <1>5, <1>6, <2>1, <2>2 DEF EventsInv, BookingsFit, ServedYet
    <2>4. ASSUME "booked" \notin doubts', \A d \in eventsCalls' : d.kind # "relations"
          PROVE  booked' = (related.booked \cup Untold)'
      <3>1. booked = related.booked \cup Untold
        BY <1>1, <1>5, <1>6, <2>4 DEF EventsInv, BookingsFit
      <3>2. Untold' = IF s # "refused" /\ c.kind = "reserve" THEN Untold \cup {c.of} ELSE Untold
        <4>1. \A x : x \in Untold <=> \E d \in eventsCalls :
                                        d.kind = "reserve" /\ d.stage \in {"done", "lost"} /\ x = d.of
          BY DEF Untold, ServedYet
        <4>2. \A x : x \in Untold' <=> \E d \in eventsCalls' :
                                        d.kind = "reserve" /\ d.stage \in {"done", "lost"} /\ x = d.of
          BY DEF Untold, ServedYet
        <4>3. \A x : x \in Untold' <=> x \in Untold \/ (x = c.of /\ s # "refused" /\ c.kind = "reserve")
          BY <4>1, <4>2, <1>1, <1>5, <1>6
        <4> QED  BY <4>3
      <3> QED  BY <3>1, <3>2, <1>1, <1>7
    <2>5. ASSUME "booked" \notin doubts', NEW d \in eventsCalls', d.kind = "relations"
          PROVE  /\ \A e \in eventsCalls' : e.kind # "reserve"
                 /\ d.stage = "done" => d.got.booked = booked'
      <3>1. \A e \in eventsCalls : e.kind # "reserve"
        BY <1>1, <1>5, <1>6, <2>5 DEF EventsInv, BookingsFit
      <3>2. booked' = booked  BY <3>1, <1>7
      <3> QED  BY <1>1, <1>5, <1>6, <2>2, <2>5, <3>1, <3>2 DEF EventsInv, BookingsFit
    <2> QED  BY <1>1, <2>1, <2>3, <2>4, <2>5 DEF EventsInv, BookingsFit
  <1>11. FollowsFit'
    <2>1. \A d, e \in eventsCalls' :
            d.kind \in FollowKinds /\ e.kind \in FollowKinds => d = e /\ following'
      BY <1>1, <1>5, <1>6 DEF EventsInv, FollowsFit
    <2>2. ASSUME "followed" \notin doubts', \A d \in eventsCalls' : d.kind # "relations"
          PROVE  \/ /\ followed' = related'.followed
                    /\ \A d \in eventsCalls' : d.kind \in FollowKinds => ~ServedYet(d)
                 \/ \E d \in eventsCalls' : /\ d.kind \in FollowKinds /\ ServedYet(d)
                                            /\ followed' = (d.kind = "follow")
      <3>1. \/ /\ followed = related.followed
               /\ \A d \in eventsCalls : d.kind \in FollowKinds => ~ServedYet(d)
            \/ \E d \in eventsCalls : /\ d.kind \in FollowKinds /\ ServedYet(d)
                                      /\ followed = (d.kind = "follow")
        BY <1>1, <1>5, <1>6, <2>2 DEF EventsInv, FollowsFit
      <3>2. CASE c.kind \in FollowKinds /\ s # "refused"
        BY <3>2, <1>5, <1>6, <1>7 DEF ServedYet
      <3>3. CASE c.kind \in FollowKinds /\ s = "refused"
        <4>1. \A d \in eventsCalls : d.kind \in FollowKinds => d = c
          BY <3>3 DEF EventsInv, FollowsFit
        <4>2. followed = related.followed  BY <4>1, <3>1, <1>1 DEF ServedYet
        <4> QED  BY <4>1, <4>2, <3>3, <1>1, <1>5, <1>6, <1>7 DEF ServedYet
      <3>4. CASE c.kind \notin FollowKinds
        BY <3>1, <3>4, <1>1, <1>5, <1>6, <1>7 DEF ServedYet
      <3> QED  BY <3>2, <3>3, <3>4
    <2>3. ASSUME "followed" \notin doubts', NEW d \in eventsCalls', d.kind = "relations"
          PROVE  /\ \A e \in eventsCalls' : e.kind \notin FollowKinds
                 /\ d.stage = "done" => d.got.followed = followed'
      <3>1. \A e \in eventsCalls : e.kind \notin FollowKinds
        BY <1>1, <1>5, <1>6, <2>3 DEF EventsInv, FollowsFit
      <3>2. followed' = followed  BY <3>1, <1>7
      <3>3. c.kind = "relations" /\ s = "done" => got.followed = followed'
        BY <1>3 DEF Answer
      <3> QED  BY <1>1, <1>5, <1>6, <2>3, <3>1, <3>2, <3>3 DEF EventsInv, FollowsFit
    <2> QED  BY <2>1, <2>2, <2>3 DEF FollowsFit
  <1>12. GoalsFit'
    BY <1>1, <1>7 DEF EventsInv, GoalsFit, IsEventsCall
  <1> QED  BY <1>8, <1>9, <1>10, <1>11, <1>12 DEF EventsInv

\* A call that begins is one more, as it was asked for.
LEMMA BegunCalls ==
  ASSUME NEW kind, NEW of, NEW goal, Begin(kind, of, goal)
  PROVE  \E new : /\ new = [n |-> new.n, kind |-> kind, of |-> of, goal |-> goal,
                            stage |-> "sent", got |-> Nil]
                  /\ new.kind = kind /\ new.of = of /\ new.goal = goal
                  /\ new.stage = "sent" /\ new.got = Nil
                  /\ eventsCalls' = eventsCalls \cup {new}
  <1>1. PICK n : eventsCalls' = eventsCalls \cup {New(kind, of, goal, n)}
    BY Zenon DEF Begin
  <1>2. PICK new : new = New(kind, of, goal, n)  OBVIOUS
  <1> QED  BY <1>1, <1>2 DEF New

\* A filter is chosen and the events are searched.
LEMMA LoadingFits ==
  ASSUME EventsInv, NEW f \in Filters, LoadEvents(f)
  PROVE  EventsInv'
  <1>1. /\ filter' = f /\ searching' = TRUE /\ searchFailed' = FALSE
        /\ doubts' = IF Under({"search"}) THEN doubts \cup {"results"} ELSE doubts \ {"results"}
        /\ UNCHANGED <<booked, followed, results, related, reserving, following, texts, thinking,
                       proposals, dialog, importing, written>>
    BY DEF LoadEvents
  <1>2. PICK new :
          /\ new = [n |-> new.n, kind |-> "search", of |-> f, goal |-> Nil,
                    stage |-> "sent", got |-> Nil]
          /\ new.kind = "search" /\ new.of = f /\ new.goal = Nil
          /\ new.stage = "sent" /\ new.got = Nil
          /\ eventsCalls' = eventsCalls \cup {new}
    BY BegunCalls DEF LoadEvents
  <1>3. /\ "booked" \in doubts' <=> "booked" \in doubts
        /\ "followed" \in doubts' <=> "followed" \in doubts
        /\ "results" \notin doubts' => \A c \in eventsCalls : c.kind # "search"
    BY <1>1 DEF Under
  <1>4. EventsTypes'
    <2>1. \A d \in eventsCalls' : IsEventsCall(d)'
      BY <1>1, <1>2 DEF EventsInv, EventsTypes, IsEventsCall, FollowKinds
    <2>2. EventsTypeOK'  BY Zenon, <1>1 DEF EventsInv, EventsTypes, EventsTypeOK
    <2> QED  BY Zenon, <1>1, <2>1, <2>2 DEF EventsInv, EventsTypes
  <1>5. SearchesFit'  BY <1>1, <1>2, <1>3 DEF SearchesFit
  <1>6. BookingsFit'
    <2>1. Untold' = Untold  BY <1>2 DEF Untold, ServedYet
    <2> QED  BY <1>1, <1>2, <1>3, <2>1 DEF EventsInv, BookingsFit, ServedYet
  <1>7. FollowsFit'  BY <1>1, <1>2, <1>3 DEF EventsInv, FollowsFit, ServedYet, FollowKinds
  <1>8. GoalsFit'  BY <1>1 DEF EventsInv, GoalsFit
  <1> QED  BY <1>4, <1>5, <1>6, <1>7, <1>8 DEF EventsInv

\* A location is typed.
LEMMA TypingFits ==
  ASSUME EventsInv, NEW f \in Filters, TypeLocation(f)
  PROVE  EventsInv'
  <1>1. /\ filter' = f /\ doubts' = doubts \cup {"results"}
        /\ UNCHANGED <<booked, followed, results, searching, searchFailed, related, reserving,
                       following, texts, thinking, proposals, dialog, importing, written,
                       eventsCalls, eventsBegun>>
    BY DEF TypeLocation
  <1>2. EventsTypes'
    <2>1. EventsTypeOK'  BY Zenon, <1>1 DEF EventsInv, EventsTypes, EventsTypeOK
    <2>2. \A c \in eventsCalls' : IsEventsCall(c)'
      BY Zenon, <1>1 DEF EventsInv, EventsTypes, IsEventsCall
    <2> QED  BY Zenon, <1>1, <2>1, <2>2 DEF EventsInv, EventsTypes
  <1>3. /\ "booked" \in doubts' <=> "booked" \in doubts
        /\ "followed" \in doubts' <=> "followed" \in doubts
    BY <1>1
  <1>4. SearchesFit'  BY <1>1 DEF SearchesFit
  <1>5. BookingsFit'  BY <1>1, <1>3 DEF EventsInv, BookingsFit, Untold, ServedYet
  <1>6. FollowsFit'  BY <1>1, <1>3 DEF EventsInv, FollowsFit, ServedYet
  <1>7. GoalsFit'  BY <1>1 DEF EventsInv, GoalsFit
  <1> QED  BY <1>2, <1>4, <1>5, <1>6, <1>7 DEF EventsInv

\* An event is reserved.
LEMMA ReservingFits ==
  ASSUME EventsInv, NEW e \in Events, Reserve(e)
  PROVE  EventsInv'
  <1>1. /\ reserving' = e /\ doubts' = Crossing("booked")
        /\ UNCHANGED <<booked, followed, filter, results, searching, searchFailed, related,
                       following, texts, thinking, proposals, dialog, importing, written>>
    BY DEF Reserve
  <1>2. PICK new :
          /\ new = [n |-> new.n, kind |-> "reserve", of |-> e, goal |-> Nil,
                    stage |-> "sent", got |-> Nil]
          /\ new.kind = "reserve" /\ new.of = e /\ new.goal = Nil
          /\ new.stage = "sent" /\ new.got = Nil
          /\ eventsCalls' = eventsCalls \cup {new}
    BY BegunCalls DEF Reserve
  <1>3. /\ "results" \in doubts' <=> "results" \in doubts
        /\ "followed" \in doubts' <=> "followed" \in doubts
        /\ "booked" \notin doubts' => "booked" \notin doubts
                                      /\ \A c \in eventsCalls : c.kind # "relations"
    BY <1>1 DEF Crossing, Under
  <1>4. EventsTypes'
    <2>1. \A d \in eventsCalls' : IsEventsCall(d)'
      BY <1>1, <1>2 DEF EventsInv, EventsTypes, IsEventsCall, FollowKinds
    <2>2. EventsTypeOK'  BY <1>1 DEF EventsInv, EventsTypes, EventsTypeOK
    <2> QED  BY <1>1, <2>1, <2>2 DEF EventsInv, EventsTypes
  <1>5. SearchesFit'  BY <1>1, <1>2, <1>3 DEF EventsInv, SearchesFit
  <1>6. BookingsFit'
    <2>1. Untold' = Untold  BY <1>2 DEF Untold, ServedYet
    <2> QED  BY <1>1, <1>2, <1>3, <2>1 DEF EventsInv, BookingsFit, ServedYet
  <1>7. FollowsFit'  BY <1>1, <1>2, <1>3 DEF EventsInv, FollowsFit, ServedYet, FollowKinds
  <1>8. GoalsFit'  BY <1>1 DEF EventsInv, GoalsFit
  <1> QED  BY <1>4, <1>5, <1>6, <1>7, <1>8 DEF EventsInv

\* The button waits, so that one call of its kind is under way.
LEMMA FollowingFits ==
  ASSUME EventsInv, ToggleFollow
  PROVE  EventsInv'
  <1>1. /\ ~following /\ following' = TRUE /\ doubts' = Crossing("followed")
        /\ UNCHANGED <<booked, followed, filter, results, searching, searchFailed, related,
                       reserving, texts, thinking, proposals, dialog, importing, written>>
    BY DEF ToggleFollow
  <1>2. PICK kind \in FollowKinds : Begin(kind, Nil, Nil)
    BY DEF ToggleFollow, FollowKinds
  <1>3. PICK new :
          /\ new = [n |-> new.n, kind |-> kind, of |-> Nil, goal |-> Nil,
                    stage |-> "sent", got |-> Nil]
          /\ new.kind = kind /\ new.of = Nil /\ new.goal = Nil
          /\ new.stage = "sent" /\ new.got = Nil
          /\ eventsCalls' = eventsCalls \cup {new}
    BY <1>2, BegunCalls
  <1>4. /\ "results" \in doubts' <=> "results" \in doubts
        /\ "booked" \in doubts' <=> "booked" \in doubts
        /\ "followed" \notin doubts' => "followed" \notin doubts
                                        /\ \A c \in eventsCalls : c.kind # "relations"
    BY <1>1 DEF Crossing, Under
  <1>5. \A c \in eventsCalls : c.kind \notin FollowKinds
    BY <1>1 DEF EventsInv, FollowsFit
  <1>6. EventsTypes'
    <2>1. \A d \in eventsCalls' : IsEventsCall(d)'
      BY <1>1, <1>3 DEF EventsInv, EventsTypes, IsEventsCall, FollowKinds
    <2>2. EventsTypeOK'  BY <1>1 DEF EventsInv, EventsTypes, EventsTypeOK
    <2> QED  BY <1>1, <2>1, <2>2 DEF EventsInv, EventsTypes
  <1>7. SearchesFit'  BY <1>1, <1>3, <1>4 DEF EventsInv, SearchesFit, FollowKinds
  <1>8. BookingsFit'
    <2>1. Untold' = Untold  BY <1>3 DEF Untold, ServedYet
    <2> QED  BY <1>1, <1>3, <1>4, <2>1 DEF EventsInv, BookingsFit, ServedYet, FollowKinds
  <1>9. FollowsFit'
    BY <1>1, <1>3, <1>4, <1>5 DEF EventsInv, FollowsFit, ServedYet, FollowKinds
  <1>10. GoalsFit'  BY <1>1 DEF EventsInv, GoalsFit
  <1> QED  BY <1>6, <1>7, <1>8, <1>9, <1>10 DEF EventsInv

\* A call of the assistant says nothing of events, reservations or follows.
LEMMA OtherCallsFit ==
  ASSUME EventsInv,
         UNCHANGED <<booked, followed, filter, results, searching, searchFailed, related,
                     following, doubts>>,
         \A c \in eventsCalls : c.kind \in {"search", "relations", "reserve"} \cup FollowKinds =>
                                  c \in eventsCalls',
         \A c \in eventsCalls' : c \in eventsCalls
                                 \/ c.kind \notin {"search", "relations", "reserve"} \cup FollowKinds
  PROVE  SearchesFit' /\ BookingsFit' /\ FollowsFit'
  <1>1. SearchesFit'  BY DEF EventsInv, SearchesFit
  <1>2. BookingsFit'
    <2>1. Untold' = Untold  BY DEF Untold, ServedYet
    <2> QED  BY <2>1 DEF EventsInv, BookingsFit, ServedYet
  <1>3. FollowsFit'  BY DEF EventsInv, FollowsFit, ServedYet
  <1> QED  BY <1>1, <1>2, <1>3

\* A text is sent to the assistant.
LEMMA AskingFits ==
  ASSUME EventsInv, NEW kind \in {"events", "plan"}, SubmitAi(kind)
  PROVE  EventsInv'
  <1>1. /\ thinking' = TRUE /\ texts' = texts + 1
        /\ UNCHANGED <<booked, followed, filter, results, searching, searchFailed, related,
                       reserving, following, proposals, dialog, importing, written, doubts>>
    BY DEF SubmitAi
  <1>2. PICK new :
          /\ new = [n |-> new.n, kind |-> kind, of |-> texts + 1, goal |-> Nil,
                    stage |-> "sent", got |-> Nil]
          /\ new.kind = kind /\ new.of = texts + 1 /\ new.goal = Nil
          /\ new.stage = "sent" /\ new.got = Nil
          /\ eventsCalls' = eventsCalls \cup {new}
    BY BegunCalls DEF SubmitAi
  <1>3. SearchesFit' /\ BookingsFit' /\ FollowsFit'
    <2>1. \A c \in eventsCalls : c \in eventsCalls'  BY <1>2
    <2>2. \A c \in eventsCalls' : c \in eventsCalls
                                  \/ c.kind \notin {"search", "relations", "reserve"} \cup FollowKinds
      BY <1>2 DEF FollowKinds
    <2> QED  BY <1>1, <2>1, <2>2, OtherCallsFit
  <1>4. texts \in Nat /\ texts' \in Nat /\ 1 .. texts \subseteq 1 .. texts' /\ texts' \in 1 .. texts'
    BY <1>1 DEF EventsInv, EventsTypes
  <1>5. EventsTypes'
    <2>1. \A d \in eventsCalls : IsEventsCall(d)'
      <3> SUFFICES ASSUME NEW d \in eventsCalls  PROVE IsEventsCall(d)'
        OBVIOUS
      <3>1. IsEventsCall(d)  BY DEF EventsInv, EventsTypes
      <3>2. d.of \in 1 .. texts => d.of \in 1 .. texts' /\ (d.of < texts => d.of < texts')
        BY <1>1, <1>4
      <3> QED  BY <1>1, <1>4, <3>1, <3>2 DEF IsEventsCall
    <2>2. IsEventsCall(new)'  BY <1>1, <1>2, <1>4 DEF IsEventsCall, FollowKinds
    <2>3. EventsTypeOK'  BY <1>1, <1>4 DEF EventsInv, EventsTypes, EventsTypeOK
    <2> QED  BY <1>1, <1>2, <1>4, <2>1, <2>2, <2>3 DEF EventsInv, EventsTypes
  <1>6. GoalsFit'
    <2> SUFFICES ASSUME NEW w \in written
                 PROVE  w.plan \in 1 .. texts' /\ (w.goal = w.plan \/ w.plan < texts')
      BY <1>1 DEF GoalsFit
    <2>1. w.plan \in 1 .. texts /\ (w.goal = w.plan \/ w.plan < texts)
      BY DEF EventsInv, GoalsFit
    <2> QED  BY <1>1, <1>4, <2>1
  <1> QED  BY <1>3, <1>5, <1>6 DEF EventsInv

\* The dialog of the plans is opened or closed, or a plan imported.
LEMMA PlansFit ==
  ASSUME EventsInv, OpenPlans \/ ClosePlans \/ ImportPlan
  PROVE  EventsInv'
  <1>1. UNCHANGED <<booked, followed, filter, results, searching, searchFailed, related,
                    following, texts, thinking, proposals, written, doubts>>
    BY DEF OpenPlans, ClosePlans, ImportPlan
  <1>2. /\ dialog' \in BOOLEAN /\ importing' \in BOOLEAN
        /\ dialog' => proposals # Nil
    BY Zenon DEF EventsInv, EventsTypes, OpenPlans, ClosePlans, ImportPlan
  <1>3. EventsTypeOK'
    BY <1>1, <1>2 DEF EventsInv, EventsTypes, EventsTypeOK, OpenPlans, ClosePlans, ImportPlan
  <1>4. GoalsFit'  BY <1>1 DEF EventsInv, GoalsFit
  <1>5. CASE eventsCalls' = eventsCalls
    <2>1. SearchesFit' /\ BookingsFit' /\ FollowsFit'  BY <1>1, <1>5, OtherCallsFit
    <2>2. \A d \in eventsCalls' : IsEventsCall(d)'
      BY <1>1, <1>5 DEF EventsInv, EventsTypes, IsEventsCall
    <2>3. EventsTypes'  BY <1>1, <1>2, <1>3, <2>2 DEF EventsInv, EventsTypes
    <2> QED  BY <1>4, <2>1, <2>3 DEF EventsInv
  <1>6. CASE ImportPlan
    <2>1. dialog /\ LastText = texts  BY <1>6 DEF ImportPlan, LastText
    <2>2. PICK new :
          /\ new = [n |-> new.n, kind |-> "import", of |-> proposals, goal |-> texts,
                    stage |-> "sent", got |-> Nil]
          /\ new.kind = "import" /\ new.of = proposals /\ new.goal = texts
          /\ new.stage = "sent" /\ new.got = Nil
          /\ eventsCalls' = eventsCalls \cup {new}
      BY <1>6, <2>1, BegunCalls DEF ImportPlan
    <2>3. SearchesFit' /\ BookingsFit' /\ FollowsFit'
      <3>1. \A c \in eventsCalls : c \in eventsCalls'  BY <2>2
      <3>2. \A c \in eventsCalls' : c \in eventsCalls
                                    \/ c.kind \notin {"search", "relations", "reserve"} \cup FollowKinds
        BY <2>2 DEF FollowKinds
      <3> QED  BY <1>1, <3>1, <3>2, OtherCallsFit
    <2>4. texts \in Nat /\ proposals \in 1 .. texts
      BY <2>1 DEF EventsInv, EventsTypes, EventsTypeOK
    <2>5. proposals = texts \/ proposals < texts  BY <2>4
    <2>6. \A d \in eventsCalls' : IsEventsCall(d)'
      BY <1>1, <2>2, <2>4, <2>5 DEF EventsInv, EventsTypes, IsEventsCall, FollowKinds
    <2>7. EventsTypes'  BY <1>1, <1>2, <1>3, <2>6 DEF EventsInv, EventsTypes
    <2> QED  BY <1>4, <2>3, <2>7 DEF EventsInv
  <1> QED  BY <1>5, <1>6 DEF OpenPlans, ClosePlans

\* The answer of a call comes, or that it failed.
LEMMA ReceivingFits ==
  ASSUME EventsInv, NEW c \in eventsCalls, ReceiveEvents(c)
  PROVE  EventsInv'
  <1>1. /\ c.stage # "sent" /\ eventsCalls' = eventsCalls \ {c} /\ IsEventsCall(c)
        /\ UNCHANGED <<booked, followed, filter, texts, written, eventsBegun>>
    BY DEF ReceiveEvents, EventsInv, EventsTypes
  <1>2. GoalsFit'  BY <1>1 DEF EventsInv, GoalsFit
  <1>3. \A d \in eventsCalls' : IsEventsCall(d)'
    BY <1>1 DEF EventsInv, EventsTypes, IsEventsCall
  <1>4. CASE c.kind = "search"
    <2>1. Searched(c)  BY <1>4 DEF ReceiveEvents
    <2>2. /\ searching' = FALSE
          /\ \/ c.stage = "done" /\ results' = c.of /\ searchFailed' = searchFailed
             \/ searchFailed' = TRUE /\ results' = results
          /\ UNCHANGED <<related, reserving, following, thinking, proposals, dialog, importing,
                         doubts>>
      BY <1>1, <1>4, <2>1 DEF Searched, FailedLoudly, IsEventsCall
    <2>3. EventsTypes'
      <3>1. EventsTypeOK'
        BY Zenon, <1>1, <1>4, <2>2 DEF EventsInv, EventsTypes, EventsTypeOK, IsEventsCall
      <3> QED  BY Zenon, <1>1, <1>3, <2>2, <3>1 DEF EventsInv, EventsTypes
    <2>4. SearchesFit'
      <3> SUFFICES ASSUME "results" \notin doubts'  PROVE SearchesFit'
        BY DEF SearchesFit
      <3>1. c.of = filter /\ \A d \in eventsCalls' : d.kind # "search"
        BY <1>1, <1>4, <2>2 DEF EventsInv, SearchesFit
      <3> QED  BY <1>1, <2>2, <3>1 DEF SearchesFit
    <2>5. BookingsFit'
      <3>1. Untold' = Untold  BY <1>1, <1>4 DEF Untold, ServedYet
      <3> QED  BY <1>1, <1>4, <2>2, <3>1 DEF EventsInv, BookingsFit, ServedYet
    <2>6. FollowsFit'  BY <1>1, <1>4, <2>2 DEF EventsInv, FollowsFit, ServedYet, FollowKinds
    <2> QED  BY <1>2, <2>3, <2>4, <2>5, <2>6 DEF EventsInv
  <1>5. CASE c.kind = "relations"
    <2>1. Related(c)  BY <1>5 DEF ReceiveEvents
    <2>2. UNCHANGED <<searching, searchFailed, results, reserving, following, thinking,
                      proposals, dialog, importing>>
      BY <2>1 DEF Related
    <2>3. \/ c.stage = "done" /\ related' = c.got /\ doubts' = doubts
          \/ doubts' = doubts \cup {"booked", "followed"} /\ related' = related
      BY <2>1 DEF Related
    <2>4. related' \in [booked : SUBSET Events, followed : BOOLEAN]
      BY <1>1, <1>5, <2>3 DEF EventsInv, EventsTypes, IsEventsCall
    <2>5. EventsTypes'
      <3>1. EventsTypeOK'
        BY <1>1, <2>2, <2>4 DEF EventsInv, EventsTypes, EventsTypeOK
      <3> QED  BY <1>1, <1>3, <2>2, <2>4, <3>1 DEF EventsInv, EventsTypes
    <2>6. SearchesFit'  BY <1>1, <1>5, <2>2, <2>3 DEF EventsInv, SearchesFit
    <2>7. BookingsFit'
      <3>1. related'.booked \subseteq booked'
        BY <1>1, <1>5, <2>3 DEF EventsInv, BookingsFit
      <3>2. ASSUME "booked" \notin doubts'
            PROVE  related'.booked = booked /\ \A d \in eventsCalls : d.kind # "reserve"
        BY <1>5, <2>3, <3>2 DEF EventsInv, BookingsFit
      <3>3. (\A d \in eventsCalls : d.kind # "reserve") => Untold' = {}
        BY <1>1 DEF Untold
      <3>4. \A d \in eventsCalls' :
              d.kind = "relations" /\ "booked" \notin doubts' /\ d.stage = "done" =>
                d.got.booked = booked'
        BY <1>1, <2>3 DEF EventsInv, BookingsFit
      <3> QED  BY <1>1, <3>1, <3>2, <3>3, <3>4 DEF EventsInv, BookingsFit
    <2>8. FollowsFit'
      <3>1. ASSUME "followed" \notin doubts'
            PROVE  related'.followed = followed /\ \A d \in eventsCalls : d.kind \notin FollowKinds
        BY <1>5, <2>3, <3>1 DEF EventsInv, FollowsFit
      <3>2. \A d \in eventsCalls' : d.kind = "relations" /\ "followed" \notin doubts' =>
              (d.stage = "done" => d.got.followed = followed')
        BY <1>1, <2>3 DEF EventsInv, FollowsFit
      <3> QED  BY <1>1, <2>2, <3>1, <3>2 DEF EventsInv, FollowsFit
    <2> QED  BY <1>2, <2>5, <2>6, <2>7, <2>8 DEF EventsInv
  <1>6. CASE c.kind = "reserve"
    <2>1. Reserved(c) /\ c.of \in Events  BY <1>1, <1>6 DEF ReceiveEvents, IsEventsCall
    <2>2. /\ related' = IF c.stage = "done" THEN [related EXCEPT !.booked = @ \cup {c.of}] ELSE related
          /\ doubts' = IF c.stage = "lost" THEN doubts \cup {"booked"} ELSE doubts
          /\ reserving' = Nil
          /\ UNCHANGED <<searching, searchFailed, results, following, thinking, proposals,
                         dialog, importing>>
      BY <2>1 DEF Reserved, Also
    <2>3. /\ related' \in [booked : SUBSET Events, followed : BOOLEAN]
          /\ related'.booked = IF c.stage = "done" THEN related.booked \cup {c.of} ELSE related.booked
          /\ related'.followed = related.followed
      BY <2>1, <2>2 DEF EventsInv, EventsTypes
    <2>4. EventsTypes'
      <3>1. EventsTypeOK'
        BY <1>1, <2>2, <2>3 DEF EventsInv, EventsTypes, EventsTypeOK
      <3> QED  BY <1>1, <1>3, <2>2, <2>3, <3>1 DEF EventsInv, EventsTypes
    <2>5. SearchesFit'  BY <1>1, <1>6, <2>2 DEF EventsInv, SearchesFit
    <2>6. BookingsFit'
      <3>1. related'.booked \subseteq booked'
        BY <1>1, <1>6, <2>3 DEF EventsInv, BookingsFit, ServedYet
      <3>2. ASSUME "booked" \notin doubts', \A d \in eventsCalls' : d.kind # "relations"
            PROVE  booked' = related'.booked \cup Untold'
        <4>1. c.stage \in {"done", "refused"} \/ ~ServedYet(c)  BY <2>2, <3>2 DEF ServedYet
        <4>2. \A d \in eventsCalls : d.kind # "relations"  BY <1>1, <1>6, <3>2
        <4>3. booked = related.booked \cup Untold
          BY <2>2, <3>2, <4>2 DEF EventsInv, BookingsFit
        <4>4. \A x : x \in Untold <=> \E d \in eventsCalls :
                                        d.kind = "reserve" /\ ServedYet(d) /\ x = d.of
          BY DEF Untold
        <4>5. \A x : x \in Untold' <=> \E d \in eventsCalls' :
                                        d.kind = "reserve" /\ ServedYet(d) /\ x = d.of
          BY DEF Untold, ServedYet
        <4>6. CASE c.stage = "done"
          <5>1. \A x : x \in Untold <=> x \in Untold' \/ x = c.of
            BY <4>4, <4>5, <4>6, <1>1, <1>6 DEF ServedYet
          <5> QED  BY <5>1, <4>3, <4>6, <1>1, <2>3
        <4>7. CASE c.stage # "done"
          <5>1. \A x : x \in Untold <=> x \in Untold'
            BY <4>1, <4>4, <4>5, <4>7, <1>1 DEF ServedYet
          <5> QED  BY <5>1, <4>3, <4>7, <1>1, <2>3
        <4> QED  BY <4>6, <4>7
      <3>3. \A d \in eventsCalls' :
              /\ d.kind = "reserve" /\ ServedYet(d) => d.of \in booked'
              /\ d.kind = "relations" /\ d.stage = "done" => d.got.booked \subseteq booked'
        BY <1>1 DEF EventsInv, BookingsFit
      <3>4. "booked" \notin doubts' => \A d \in eventsCalls' : d.kind # "relations"
        BY <1>1, <1>6, <2>2 DEF EventsInv, BookingsFit
      <3> QED  BY <3>1, <3>2, <3>3, <3>4 DEF BookingsFit, ServedYet
    <2>7. FollowsFit'
      BY <1>1, <1>6, <2>2, <2>3 DEF EventsInv, FollowsFit, ServedYet, FollowKinds
    <2> QED  BY <1>2, <2>4, <2>5, <2>6, <2>7 DEF EventsInv
  <1>7. CASE c.kind \in FollowKinds
    <2>1. Followed(c)  BY Zenon, <1>7 DEF ReceiveEvents, FollowKinds
    <2>2. /\ related' = IF c.stage = "done" THEN [related EXCEPT !.followed = c.kind = "follow"]
                        ELSE related
          /\ doubts' = IF c.stage = "lost" THEN doubts \cup {"followed"} ELSE doubts
          /\ following' = FALSE
          /\ UNCHANGED <<searching, searchFailed, results, reserving, thinking, proposals,
                         dialog, importing>>
      BY <2>1 DEF Followed
    <2>3. /\ related' \in [booked : SUBSET Events, followed : BOOLEAN]
          /\ related'.booked = related.booked
          /\ related'.followed = IF c.stage = "done" THEN c.kind = "follow" ELSE related.followed
      BY Zenon, <2>2 DEF EventsInv, EventsTypes
    <2>4. EventsTypes'
      <3>1. EventsTypeOK'
        BY Zenon, <1>1, <2>2, <2>3 DEF EventsInv, EventsTypes, EventsTypeOK
      <3> QED  BY Zenon, <1>1, <1>3, <2>2, <2>3, <3>1 DEF EventsInv, EventsTypes
    <2>5. SearchesFit'  BY <1>1, <1>7, <2>2 DEF EventsInv, SearchesFit, FollowKinds
    <2>6. BookingsFit'
      <3>1. Untold' = Untold  BY <1>1, <1>7 DEF Untold, ServedYet, FollowKinds
      <3> QED  BY <1>1, <1>7, <2>2, <2>3, <3>1 DEF EventsInv, BookingsFit, ServedYet, FollowKinds
    <2>7. FollowsFit'
      <3>1. \A d \in eventsCalls' : d.kind \notin FollowKinds
        BY <1>1, <1>7 DEF EventsInv, FollowsFit
      <3>2. ASSUME "followed" \notin doubts'  PROVE followed' = related'.followed
        <4>1. "followed" \notin doubts /\ (c.stage = "done" \/ ~ServedYet(c))
          BY <2>2, <3>2 DEF ServedYet
        <4>2. \A d \in eventsCalls : d.kind # "relations"
          BY <1>7, <4>1 DEF EventsInv, FollowsFit
        <4>3. \A d \in eventsCalls : d.kind \in FollowKinds => d = c
          BY <1>7 DEF EventsInv, FollowsFit
        <4> QED  BY <1>1, <1>7, <2>3, <4>1, <4>2, <4>3 DEF EventsInv, FollowsFit, ServedYet
      <3>3. "followed" \notin doubts' => \A d \in eventsCalls' : d.kind # "relations"
        BY <1>1, <1>7, <2>2 DEF EventsInv, FollowsFit
      <3> QED  BY <3>1, <3>2, <3>3 DEF FollowsFit
    <2> QED  BY <1>2, <2>4, <2>5, <2>6, <2>7 DEF EventsInv
  <1>8. CASE c.kind \in {"events", "plan", "import"}
    <2>1. Advised(c) \/ Imported(c)  BY Zenon, <1>8 DEF ReceiveEvents
    <2>2. /\ UNCHANGED <<searching, searchFailed, results, related, reserving, following, doubts>>
          /\ \/ thinking' = FALSE /\ importing' = importing
             \/ importing' = FALSE /\ thinking' = thinking
      BY <2>1 DEF Advised, Imported
    <2>3. \/ dialog' = dialog /\ proposals' = proposals
          \/ /\ c.kind = "plan" /\ c.stage = "done"
             /\ \E some \in BOOLEAN : proposals' = (IF some THEN c.got ELSE Nil) /\ dialog' = some
      BY <2>1 DEF Advised, Imported
    <2>4. /\ proposals' \in 1 .. texts \cup {Nil}
          /\ dialog' \in BOOLEAN /\ (dialog' => proposals' # Nil)
      <3>1. CASE dialog' = dialog /\ proposals' = proposals
        BY <3>1 DEF EventsInv, EventsTypes, EventsTypeOK
      <3>2. CASE /\ c.kind = "plan" /\ c.stage = "done"
                 /\ \E some \in BOOLEAN : proposals' = (IF some THEN c.got ELSE Nil) /\ dialog' = some
        <4>1. c.got \in 1 .. texts  BY <1>1, <3>2 DEF IsEventsCall
        <4>2. c.got # Nil  BY <4>1, NilAssumption
        <4> QED  BY <3>2, <4>1, <4>2
      <3> QED  BY <2>3, <3>1, <3>2
    <2>5. EventsTypes'
      <3>1. EventsTypeOK'
        BY Zenon, <1>1, <2>2, <2>4 DEF EventsInv, EventsTypes, EventsTypeOK
      <3> QED  BY Zenon, <1>1, <1>3, <2>2, <2>4, <3>1 DEF EventsInv, EventsTypes
    <2>6. SearchesFit' /\ BookingsFit' /\ FollowsFit'
      <3>1. c.kind \notin {"search", "relations", "reserve"} \cup FollowKinds
        BY <1>8 DEF FollowKinds
      <3> QED  BY <1>1, <2>2, <3>1, OtherCallsFit
    <2> QED  BY <1>2, <2>5, <2>6 DEF EventsInv
  <1> QED  BY <1>1, <1>4, <1>5, <1>6, <1>7, <1>8 DEF IsEventsCall

\* Every step keeps the invariant.
LEMMA EventsStep == EventsInv /\ [EventsNext]_eventsVars => EventsInv'
  <1> SUFFICES ASSUME EventsInv, [EventsNext]_eventsVars  PROVE EventsInv'
    OBVIOUS
  <1>1. CASE UNCHANGED eventsVars
    <2>1. UNCHANGED <<booked, followed, filter, results, searching, searchFailed, related,
                      reserving, following, texts, thinking, proposals, dialog, importing, written,
                      eventsCalls, doubts>>
      BY <1>1 DEF eventsVars
    <2>2. SearchesFit' /\ BookingsFit' /\ FollowsFit'  BY <2>1, OtherCallsFit
    <2>3. EventsTypes'  BY <2>1 DEF EventsInv, EventsTypes, EventsTypeOK, IsEventsCall
    <2>4. GoalsFit'  BY <2>1 DEF EventsInv, GoalsFit
    <2> QED  BY <2>2, <2>3, <2>4 DEF EventsInv
  <1> QED
    BY <1>1, ServingFits, LoadingFits, TypingFits, ReservingFits, FollowingFits, AskingFits, PlansFit,
       ReceivingFits DEF EventsNext

LEMMA EventsHold == EventsInv => EventsFit
  <1> SUFFICES ASSUME EventsInv  PROVE EventsFit
    OBVIOUS
  <1>1. /\ \A c \in eventsCalls : c.kind = "relations" => c.kind \in {"relations", "reserve"}
        /\ ~Under({"search"}) => \A c \in eventsCalls : c.kind # "search"
        /\ ~Under({"relations", "reserve"}) =>
             \A c \in eventsCalls : c.kind # "relations" /\ c.kind # "reserve"
        /\ ~Under({"relations", "follow", "unfollow"}) =>
             \A c \in eventsCalls : c.kind # "relations" /\ c.kind \notin FollowKinds
    BY DEF Under, FollowKinds
  <1>2. (\A c \in eventsCalls : c.kind # "reserve") => Untold = {}
    BY DEF Untold
  <1> QED  BY <1>1, <1>2 DEF EventsInv, SearchesFit, BookingsFit, FollowsFit, GoalsFit, EventsFit

\* Whatever calls overlap and are lost: results are of the filter, reservations and follows
\* are those of the backend unless in doubt, and a plan is written with the goal it was made
\* for unless a later text was sent (the page of events).
THEOREM EventsAreTrue == EventsSpec => []EventsFit
  BY EventsStart, EventsStep, EventsHold, PTL DEF EventsSpec
-----------------------------------------------------------------------------
\* The résumés.  Names and places.

\* What the page does with its lines, without what is played around it.
ResumeSpec == ResumeInit /\ [][ResumeNext]_resumeVars

\* One of the suffixes up to the number of the names in use gives a name that is not.
LEMMA AllocatedIsNew ==
  ASSUME NEW n \in Nat, NEW used, IsFiniteSet(used)
  PROVE  Allocated(n, used) \in Nat \X Nat /\ Allocated(n, used)[1] = n
         /\ Allocated(n, used) \notin used
  <1> DEFINE top == Cardinality(used) + 1
             free == {s \in 1 .. top : <<n, s>> \notin used}
             names == [s \in 1 .. top |-> <<n, s>>]
  <1>1. Cardinality(used) \in Nat  BY FS_CardinalityType
  <1>2. free # {}
    <2> SUFFICES ASSUME free = {}  PROVE FALSE
      OBVIOUS
    <2>1. names \in [1 .. top -> used]  OBVIOUS
    <2>2. IsFiniteSet(1 .. top) /\ Cardinality(1 .. top) = top
      BY <1>1, FS_Interval
    <2>3. PICK s, r \in 1 .. top : s # r /\ names[s] = names[r]
      <3> HIDE DEF names
      <3> QED  BY <2>1, <2>2, <1>1, FS_PigeonHole
    <2> QED  BY <2>3
  <1>3. PICK s \in free : \A r \in free : s <= r
    <2>1. free \in SUBSET Nat  BY <1>1
    <2> QED  BY Zenon, <2>1, <1>2, LeastNumber
  <1>4. \A r \in 1 .. s - 1 : <<n, r>> \in used
    <2> SUFFICES ASSUME NEW r \in 1 .. s - 1, <<n, r>> \notin used  PROVE FALSE
      OBVIOUS
    <2>1. r \in free /\ r < s  BY <1>1
    <2> QED  BY <2>1, <1>3, <1>1
  <1> DEFINE all == {<<n, r>> : r \in 1 .. top}
  <1>5. <<n, s>> \in all /\ <<n, s>> \notin used
        /\ \A r \in 1 .. <<n, s>>[2] - 1 : <<n, r>> \in used
    BY <1>3, <1>4
  <1>6. Allocated(n, used) \in all /\ Allocated(n, used) \notin used
    BY <1>5 DEF Allocated
  <1> QED  BY <1>6, <1>1

\* Names tell apart what had different ids, and different names where it had some.
LEMMA NamesDiffer ==
  ASSUME NEW S, IsFiniteSet(S), \A x \in S : x.id \in Nat /\ x.key \in Keys,
         \A x, y \in S : Same(x, y) => x = y
  PROVE  /\ \A x \in S : NameOf(x, S) \in Nat \X Nat
         /\ \A x, y \in S : NameOf(x, S) = NameOf(y, S) => x = y
  <1> DEFINE used == {y.key : y \in S} \ {None}
  <1>1. IsFiniteSet(used)
    <2>1. IsFiniteSet({y.key : y \in S})
      <3> DEFINE T == {y.key : y \in S}
                 f == [y \in S |-> y.key]
      <3>1. f \in Surjection(S, T)  BY DEF Surjection
      <3> HIDE DEF T, f
      <3> QED  BY <3>1, FS_Surjection DEF T
    <2> QED  BY Zenon, <2>1, FS_RemoveElement
  <1>2. \A x \in S : x.key = None =>
          /\ Allocated(x.id, used) \in Nat \X Nat /\ Allocated(x.id, used)[1] = x.id
          /\ Allocated(x.id, used) \notin used
    <2> HIDE DEF used
    <2> QED  BY <1>1, AllocatedIsNew
  <1>3. \A x \in S : NameOf(x, S) = IF x.key # None THEN x.key ELSE Allocated(x.id, used)
    BY DEF NameOf
  <1>4. \A x \in S : x.key # None => x.key \in used  OBVIOUS
  <1> HIDE DEF used
  <1>5. \A x \in S : NameOf(x, S) \in Nat \X Nat  BY <1>2, <1>3 DEF Keys
  <1>6. ASSUME NEW x \in S, NEW y \in S, NameOf(x, S) = NameOf(y, S)  PROVE x = y
    <2>1. CASE x.key # None /\ y.key # None  BY <2>1, <1>6, <1>3 DEF Same
    <2>2. CASE x.key = None /\ y.key = None  BY <2>2, <1>6, <1>3, <1>2 DEF Same
    <2>3. CASE (x.key = None) # (y.key = None)  BY <2>3, <1>6, <1>3, <1>2, <1>4
    <2> QED  BY <2>1, <2>2, <2>3
  <1> QED  BY <1>5, <1>6

\* The places of a file are finite in number, and those of a line follow those of
\* the lines before it.
LEMMA PlacesCounted ==
  ASSUME NEW file, NEW n \in Nat, DOMAIN file = 1 .. n,
         \A i \in 1 .. n : Len(file[i].versions) \in Nat
                           /\ DOMAIN file[i].versions = 1 .. Len(file[i].versions)
  PROVE  /\ IsFiniteSet(Places(file)) /\ Cardinality(Places(file)) \in Nat
         /\ \A i \in 0 .. n : VersionsBefore(file, i) \in 0 .. Cardinality(Places(file))
         /\ \A i \in 1 .. n :
              VersionsBefore(file, i) = VersionsBefore(file, i - 1) + Len(file[i].versions)
         /\ \A i, k \in 0 .. n : i <= k => VersionsBefore(file, i) <= VersionsBefore(file, k)
  <1> DEFINE P == Places(file)
             Upto(i) == {p \in P : p[1] <= i}
             Own(i) == {i} \X DOMAIN file[i].versions
  <1>0. P = UNION {Own(i) : i \in 1 .. n}  BY DEF Places
  <1>1. \A i \in 1 .. n : IsFiniteSet(Own(i)) /\ Cardinality(Own(i)) = Len(file[i].versions)
    <2> SUFFICES ASSUME NEW i \in 1 .. n
                 PROVE  IsFiniteSet(Own(i)) /\ Cardinality(Own(i)) = Len(file[i].versions)
      BY Zenon
    <2>1. IsFiniteSet({i}) /\ Cardinality({i}) = 1  BY Zenon, FS_Singleton
    <2>2. /\ IsFiniteSet(DOMAIN file[i].versions)
          /\ Cardinality(DOMAIN file[i].versions) = Len(file[i].versions)
      BY FS_Interval
    <2>3. /\ IsFiniteSet({i} \X DOMAIN file[i].versions)
          /\ Cardinality({i} \X DOMAIN file[i].versions) =
               Cardinality({i}) * Cardinality(DOMAIN file[i].versions)
      BY Zenon, <2>1, <2>2, FS_Product
    <2> QED  BY <2>1, <2>2, <2>3
  <1>2. IsFiniteSet(P)
    <2>1. IsFiniteSet(1 .. n)  BY FS_Interval
    <2>2. IsFiniteSet({Own(i) : i \in 1 .. n})
      <3> DEFINE T == {Own(i) : i \in 1 .. n}
                 f == [i \in 1 .. n |-> Own(i)]
      <3>1. f \in Surjection(1 .. n, T)
        <4> HIDE DEF Own
        <4> QED  BY DEF Surjection
      <3> HIDE DEF T, f
      <3> QED  BY <2>1, <3>1, FS_Surjection DEF T
    <2>3. \A T \in {Own(i) : i \in 1 .. n} : IsFiniteSet(T)  BY <1>1
    <2>4. IsFiniteSet(UNION {Own(i) : i \in 1 .. n})
      <3> DEFINE A == {Own(i) : i \in 1 .. n}
      <3> HIDE DEF A
      <3> QED  BY Zenon, <2>2, <2>3, FS_UNION DEF A
    <2> QED  BY <2>4, <1>0
  <1>3. \A i : VersionsBefore(file, i) = Cardinality(Upto(i))  BY DEF VersionsBefore
  <1>4. \A i \in 0 .. n : IsFiniteSet(Upto(i))
                          /\ Cardinality(Upto(i)) \in 0 .. Cardinality(P)
    <2> SUFFICES ASSUME NEW i \in 0 .. n
                 PROVE IsFiniteSet(Upto(i)) /\ Cardinality(Upto(i)) \in 0 .. Cardinality(P)
      BY Zenon
    <2>1. Upto(i) \in SUBSET P  OBVIOUS
    <2>2. IsFiniteSet(Upto(i)) /\ Cardinality(Upto(i)) <= Cardinality(P)
      <3> HIDE DEF Upto, P
      <3> QED  BY <2>1, <1>2, FS_Subset
    <2> QED  BY <2>2, <1>2, FS_CardinalityType
  <1>5. ASSUME NEW i \in 1 .. n
        PROVE  Cardinality(Upto(i)) = Cardinality(Upto(i - 1)) + Len(file[i].versions)
    <2>1. \A p \in P : p[1] \in 1 .. n /\ p \in Own(p[1])  BY <1>0
    <2>2. Own(i) \subseteq P  BY <1>0
    <2>3. Upto(i) = Upto(i - 1) \cup Own(i)
      <3>1. ASSUME NEW p \in P  PROVE p[1] <= i <=> p[1] <= i - 1 \/ p[1] = i
        BY <2>1
      <3>2. \A p \in P : p[1] = i <=> p \in Own(i)  BY <2>1
      <3> HIDE DEF P
      <3>3. ASSUME NEW p  PROVE p \in Upto(i) <=> p \in Upto(i - 1) \/ p \in Own(i)
        <4> HIDE DEF Own
        <4> QED  BY <3>1, <3>2, <2>2
      <3> QED  BY <3>3
    <2>4. Upto(i - 1) \cap Own(i) = {}
      <3>1. \A p \in Own(i) : p[1] = i  OBVIOUS
      <3> QED  BY <3>1
    <2>5. i - 1 \in 0 .. n  OBVIOUS
    <2> DEFINE A == Upto(i - 1)
               B == Own(i)
    <2>6. IsFiniteSet(A) /\ IsFiniteSet(B)  BY Zenon, <2>5, <1>1, <1>4
    <2>7. Cardinality(A \cup B) = Cardinality(A) + Cardinality(B) - Cardinality({})
      <3>1. A \cap B = {}  BY <2>4
      <3> HIDE DEF A, B
      <3> QED  BY <2>6, <3>1, FS_Union
    <2> HIDE DEF Upto, Own, P
    <2> QED  BY <2>3, <2>5, <2>7, <1>1, <1>4, FS_EmptySet
  <1>6. ASSUME NEW i \in 0 .. n, NEW k \in 0 .. n, i <= k
        PROVE  Cardinality(Upto(i)) <= Cardinality(Upto(k))
    <2>1. \A p \in P : p[1] \in Nat  BY <1>0
    <2>2. Upto(i) \in SUBSET Upto(k)
      <3>1. \A p \in P : p[1] <= i => p[1] <= k  BY <2>1, <1>6
      <3> HIDE DEF P
      <3> QED  BY <3>1
    <2> HIDE DEF Upto, P
    <2> QED  BY <2>2, <1>4, FS_Subset
  <1> QED  BY Zenon, <1>2, <1>3, <1>4, <1>5, <1>6, FS_CardinalityType
-----------------------------------------------------------------------------
\* What is known of the lines.

\* The library file has the types of a file, and its fingerprints are true.
FileIsTrue(file) ==
  /\ file \in Seq(FiledLines)
  /\ \A l \in ToSet(file) : \A v \in ToSet(l.versions) : IsTrue(v)

\* The editor is open on nothing, on a new résumé, or on a line of the page.
EditorFits ==
  \/ editor.mode \in {"closed", "create"}
  \/ editor.mode = "edit" /\ \E l \in Lines : l.id = editor.line

\* The lines are sound, and the counters are positive numbers.
LinesAreSound ==
  /\ AreSound(lines, nextLine, nextVersion)
  /\ nextLine \in Nat \ {0} /\ nextVersion \in Nat \ {0}

\* The inductive invariant: the lines are sound, and so is what the file will bring.
ResumeInv ==
  /\ LinesAreSound
  /\ library # None => FileIsTrue(library)
  /\ EditorFits

\* The lines by their places.
LEMMA LinesOf ==
  ASSUME NEW file, NEW n \in Nat, NEW m \in Nat, AreSound(file, n, m)
  PROVE  /\ Len(file) \in Nat /\ DOMAIN file = 1 .. Len(file)
         /\ \A i \in DOMAIN file :
              /\ file[i] \in ResumeLines /\ file[i] \in ToSet(file)
              /\ IsSound(file[i]) /\ file[i].id \in 1 .. n - 1
              /\ Len(file[i].versions) \in Nat
              /\ DOMAIN file[i].versions = 1 .. Len(file[i].versions)
              /\ \A j \in DOMAIN file[i].versions :
                   /\ file[i].versions[j] \in Versions
                   /\ file[i].versions[j] \in ToSet(file[i].versions)
                   /\ file[i].versions[j].id \in 1 .. m - 1
                   /\ VersionValid(file[i].versions[j]) /\ IsTrue(file[i].versions[j])
         /\ \A l \in ToSet(file) : \E i \in DOMAIN file : l = file[i]
         /\ \A i, k \in DOMAIN file : file[i].id = file[k].id => i = k
         /\ \A i, k \in DOMAIN file :
              \A j \in DOMAIN file[i].versions, h \in DOMAIN file[k].versions :
                file[i].versions[j].id = file[k].versions[h].id => i = k /\ j = h
  <1>1. file \in Seq(ResumeLines)  BY DEF AreSound
  <1>2. Len(file) \in Nat /\ DOMAIN file = 1 .. Len(file)
        /\ \A i \in DOMAIN file : file[i] \in ResumeLines
    BY <1>1
  <1>3. \A i \in DOMAIN file :
          /\ file[i].versions \in Seq(Versions)
          /\ file[i] \in ToSet(file) /\ IsSound(file[i]) /\ file[i].id \in 1 .. n - 1
          /\ \A v \in ToSet(file[i].versions) : v.id \in 1 .. m - 1
    <2>1. \A i \in DOMAIN file : file[i] \in ToSet(file)  BY DEF ToSet
    <2> QED  BY Zenon, <2>1, <1>2 DEF AreSound, ResumeLines
  <1>4. \A i \in DOMAIN file :
          /\ Len(file[i].versions) \in Nat
          /\ DOMAIN file[i].versions = 1 .. Len(file[i].versions)
          /\ \A j \in DOMAIN file[i].versions :
               /\ file[i].versions[j] \in Versions
               /\ file[i].versions[j] \in ToSet(file[i].versions)
    BY <1>3 DEF ToSet
  <1>5. \A i \in DOMAIN file : \A v \in ToSet(file[i].versions) : VersionValid(v) /\ IsTrue(v)
    BY <1>3 DEF IsSound
  <1>6. \A l \in ToSet(file) : \E i \in DOMAIN file : l = file[i]  BY DEF ToSet
  <1>7. /\ \A i, k \in DOMAIN file : file[i].id = file[k].id => i = k
        /\ \A i, k \in DOMAIN file :
             \A j \in DOMAIN file[i].versions, h \in DOMAIN file[k].versions :
               file[i].versions[j].id = file[k].versions[h].id => i = k /\ j = h
    BY DEF AreSound, Same
  <1> QED  BY <1>2, <1>3, <1>4, <1>5, <1>6, <1>7

\* A line in the place of an old one, of the same id and name, whose versions have the
\* ids and names of the old ones, but for one that is new.
Succeeds(l, old, n) ==
  /\ l \in ResumeLines /\ IsSound(l)
  /\ l.id = old.id /\ l.key = old.key
  /\ DOMAIN old.versions \subseteq DOMAIN l.versions
  /\ \A j \in DOMAIN l.versions :
       LET v == l.versions[j]
       IN  IF j \in DOMAIN old.versions
           THEN v.id = old.versions[j].id /\ v.key = old.versions[j].key
           ELSE v.id = n /\ v.key = None /\ j = Len(old.versions) + 1

\* Such a line keeps the lines sound, and its versions are those that are changed.
LEMMA LineIsPut ==
  ASSUME AreSound(lines, nextLine, nextVersion), nextLine \in Nat, nextVersion \in Nat,
         NEW k \in DOMAIN lines, NEW l, Succeeds(l, lines[k], nextVersion),
         NEW m \in Nat, m >= nextVersion,
         Len(l.versions) > Len(lines[k].versions) => m > nextVersion,
         lines' = Put(l)
  PROVE  /\ AreSound(lines', nextLine, m)
         /\ DOMAIN lines' = DOMAIN lines /\ lines'[k] = l
         /\ \A i \in DOMAIN lines : lines'[i].id = lines[i].id
         /\ \A v \in AllVersions, w \in AllVersions' :
              w.id = v.id => \/ w = v
                             \/ \E j \in DOMAIN lines[k].versions :
                                  v = lines[k].versions[j] /\ w = l.versions[j]
         /\ \A v \in AllVersions : \E w \in AllVersions' : w.id = v.id
  <1> USE DEF Succeeds
  <1> DEFINE new == lines'
             Old(i) == lines[i].versions
             Now(i) == new[i].versions
  <1>1. /\ Len(lines) \in Nat /\ DOMAIN lines = 1 .. Len(lines)
        /\ \A i \in DOMAIN lines :
             /\ lines[i] \in ResumeLines /\ IsSound(lines[i]) /\ lines[i].id \in 1 .. nextLine - 1
             /\ Len(Old(i)) \in Nat /\ DOMAIN Old(i) = 1 .. Len(Old(i))
             /\ \A j \in DOMAIN Old(i) :
                  Old(i)[j] \in Versions /\ Old(i)[j].id \in 1 .. nextVersion - 1
        /\ \A i, h \in DOMAIN lines : lines[i].id = lines[h].id => i = h
        /\ \A i, h \in DOMAIN lines : \A j \in DOMAIN Old(i), g \in DOMAIN Old(h) :
             Old(i)[j].id = Old(h)[g].id => i = h /\ j = g
    BY Zenon, LinesOf
  <1>2. DOMAIN new = DOMAIN lines /\ new[k] = l /\ \A i \in DOMAIN lines \ {k} : new[i] = lines[i]
    BY <1>1 DEF Put
  <1>3. new \in Seq(ResumeLines)
    <2>1. new = [i \in 1 .. Len(lines) |-> new[i]]  BY <1>1 DEF Put
    <2>2. \A i \in 1 .. Len(lines) : new[i] \in ResumeLines  BY <1>1, <1>2
    <2> HIDE DEF new
    <2> QED  BY <1>1, <2>1, <2>2
  <1>4. \A i \in DOMAIN lines : new[i].id = lines[i].id /\ new[i].key = lines[i].key
    BY <1>2
  <1>5. l.versions \in Seq(Versions) /\ Len(l.versions) \in Nat
        /\ DOMAIN l.versions = 1 .. Len(l.versions)
    BY DEF ResumeLines
  <1>6. \A j \in DOMAIN l.versions :
          \/ j \in DOMAIN Old(k) /\ l.versions[j].id = Old(k)[j].id
                                 /\ l.versions[j].key = Old(k)[j].key
          \/ /\ j \notin DOMAIN Old(k) /\ j = Len(Old(k)) + 1 /\ m > nextVersion
             /\ l.versions[j].id = nextVersion /\ l.versions[j].key = None
    <2> SUFFICES ASSUME NEW j \in DOMAIN l.versions, j \notin DOMAIN Old(k)
                 PROVE  j = Len(Old(k)) + 1 /\ m > nextVersion
      OBVIOUS
    <2>1. j = Len(Old(k)) + 1  OBVIOUS
    <2> QED  BY <2>1, <1>1, <1>5
  <1>7. \A i \in DOMAIN new : IsSound(new[i]) /\ new[i].id \in 1 .. nextLine - 1
    BY <1>1, <1>2
  <1>8. \A i \in DOMAIN new : \A j \in DOMAIN Now(i) :
          \/ j \in DOMAIN Old(i) /\ Now(i)[j].id = Old(i)[j].id /\ Now(i)[j].key = Old(i)[j].key
          \/ /\ i = k /\ j = Len(Old(k)) + 1 /\ m > nextVersion
             /\ Now(i)[j].id = nextVersion /\ Now(i)[j].key = None
    BY <1>2, <1>6
  <1> HIDE DEF new
  <1>9. \A i \in DOMAIN new : \A j \in DOMAIN Now(i) : Now(i)[j].id \in 1 .. m - 1
    <2> SUFFICES ASSUME NEW i \in DOMAIN new, NEW j \in DOMAIN Now(i)
                 PROVE  Now(i)[j].id \in 1 .. m - 1
      OBVIOUS
    <2>1. \A h \in DOMAIN Old(i) : Old(i)[h].id \in 1 .. nextVersion - 1  BY <1>1, <1>2
    <2>2. nextVersion \in 1 .. nextVersion
      <3>1. PICK v \in ToSet(Old(k)) : TRUE  BY <1>1 DEF IsSound
      <3>2. \E h \in DOMAIN Old(k) : TRUE  BY <3>1 DEF ToSet
      <3> QED  BY <3>2, <1>1
    <2> QED  BY <2>1, <2>2, <1>8
  <1>10. ASSUME NEW i \in DOMAIN new, NEW h \in DOMAIN new
         PROVE  /\ Same(new[i], new[h]) => i = h
                /\ \A j \in DOMAIN Now(i), g \in DOMAIN Now(h) :
                     Same(Now(i)[j], Now(h)[g]) => i = h /\ j = g
    <2>1. Same(new[i], new[h]) => i = h  BY <1>2, <1>4 DEF AreSound, Same
    <2>2. ASSUME NEW j \in DOMAIN Now(i), NEW g \in DOMAIN Now(h), Same(Now(i)[j], Now(h)[g])
          PROVE  i = h /\ j = g
      <3>1. CASE j \in DOMAIN Old(i) /\ Now(i)[j].id = Old(i)[j].id
                 /\ Now(i)[j].key = Old(i)[j].key
        <4>1. CASE g \in DOMAIN Old(h) /\ Now(h)[g].id = Old(h)[g].id
                   /\ Now(h)[g].key = Old(h)[g].key
          <5>1. Same(Old(i)[j], Old(h)[g])  BY <2>2, <3>1, <4>1 DEF Same
          <5> QED  BY <5>1, <3>1, <4>1, <1>2 DEF AreSound
        <4>2. CASE Now(h)[g].id = nextVersion /\ Now(h)[g].key = None
          <5>1. Now(i)[j].id \in 1 .. nextVersion - 1  BY <3>1, <1>1, <1>2
          <5> QED  BY <5>1, <2>2, <4>2 DEF Same
        <4> QED  BY <4>1, <4>2, <1>8
      <3>2. CASE i = k /\ j = Len(Old(k)) + 1 /\ Now(i)[j].id = nextVersion
                 /\ Now(i)[j].key = None
        <4>1. CASE g \in DOMAIN Old(h) /\ Now(h)[g].id = Old(h)[g].id
          <5>1. Now(h)[g].id \in 1 .. nextVersion - 1  BY <4>1, <1>1, <1>2
          <5> QED  BY <5>1, <2>2, <3>2 DEF Same
        <4>2. CASE h = k /\ g = Len(Old(k)) + 1
          BY <3>2, <4>2
        <4> QED  BY <4>1, <4>2, <1>8
      <3> QED  BY <3>1, <3>2, <1>8
    <2> QED  BY <2>1, <2>2
  <1>11. AreSound(new, nextLine, m)
    <2>1. \A x \in ToSet(new) : \E i \in DOMAIN new : x = new[i]  BY DEF ToSet
    <2>2. \A x \in ToSet(new) :
            /\ IsSound(x) /\ x.id \in 1 .. nextLine - 1
            /\ \A v \in ToSet(x.versions) : v.id \in 1 .. m - 1
      <3> SUFFICES ASSUME NEW i \in DOMAIN new
                   PROVE  \A v \in ToSet(new[i].versions) : v.id \in 1 .. m - 1
        BY <2>1, <1>7
      <3> QED  BY <1>9 DEF ToSet
    <2> QED  BY Zenon, <2>2, <1>3, <1>10 DEF AreSound
  <1>12. /\ \A v \in AllVersions : \E i \in DOMAIN lines : \E j \in DOMAIN Old(i) : v = Old(i)[j]
         /\ \A i \in DOMAIN new : \A j \in DOMAIN Now(i) : Now(i)[j] \in AllVersions'
         /\ \A w \in AllVersions' : \E i \in DOMAIN new : \E j \in DOMAIN Now(i) : w = Now(i)[j]
    BY DEF AllVersions, Lines, ToSet, new
  <1>13. ASSUME NEW v \in AllVersions, NEW w \in AllVersions', w.id = v.id
         PROVE  \/ w = v
                \/ \E j \in DOMAIN lines[k].versions :
                     v = lines[k].versions[j] /\ w = l.versions[j]
    <2>1. PICK i \in DOMAIN lines : \E j \in DOMAIN Old(i) : v = Old(i)[j]  BY <1>12
    <2>2. PICK j \in DOMAIN Old(i) : v = Old(i)[j]  BY <2>1
    <2>3. PICK h \in DOMAIN new : \E g \in DOMAIN Now(h) : w = Now(h)[g]  BY <1>12
    <2>4. PICK g \in DOMAIN Now(h) : w = Now(h)[g]  BY <2>3
    <2>5. v.id \in 1 .. nextVersion - 1  BY <2>2, <1>1
    <2>6. g \in DOMAIN Old(h) /\ w.id = Old(h)[g].id  BY <2>4, <2>5, <1>8, <1>13
    <2>7. Old(i)[j].id = Old(h)[g].id  BY <2>2, <2>6, <1>13
    <2>8. h \in DOMAIN lines  BY <1>2
    <2>9. i = h /\ j = g
      <3>1. \A a, b \in DOMAIN lines : \A c \in DOMAIN Old(a), d \in DOMAIN Old(b) :
              Old(a)[c].id = Old(b)[d].id => a = b /\ c = d
        BY Zenon, <1>1
      <3> QED  BY <2>2, <2>6, <2>7, <2>8, <3>1
    <2>10. CASE h = k  BY <2>2, <2>4, <2>9, <2>10, <1>2
    <2>11. CASE h # k  BY <2>2, <2>4, <2>9, <2>11, <1>2
    <2> QED  BY <2>10, <2>11
  <1>14. ASSUME NEW v \in AllVersions  PROVE \E w \in AllVersions' : w.id = v.id
    <2>1. PICK i \in DOMAIN lines : \E j \in DOMAIN Old(i) : v = Old(i)[j]  BY <1>12
    <2>2. PICK j \in DOMAIN Old(i) : v = Old(i)[j]  BY <2>1
    <2>3. i \in DOMAIN new /\ j \in DOMAIN Now(i) /\ Now(i)[j].id = v.id
      BY <2>2, <1>2
    <2> QED  BY <2>3, <1>12
  <1> QED  BY <1>2, <1>4, <1>11, <1>13, <1>14 DEF new
-----------------------------------------------------------------------------
\* The operations of the store put lines that succeed the old ones.

\* A line with a version changed, and maybe its title, and what is sent out.
Changed(old, x, title, chosen) ==
  [old EXCEPT !.title = title, !.active = chosen,
     !.versions = [i \in DOMAIN @ |-> IF @[i].id = x.id THEN x ELSE @[i]]]

\* One version of a line is another now, under its old id and name.  A draft stays the
\* draft it was, and what is sent out is the same version or this one.
LEMMA VersionIsPut ==
  ASSUME NEW n \in Nat, NEW m \in Nat, NEW file, AreSound(file, n, m), NEW k \in DOMAIN file,
         NEW v \in ToSet(file[k].versions), NEW x \in Versions, NEW title \in Titles,
         NEW chosen \in Nat, NEW l,
         x.id = v.id, x.key = v.key, VersionValid(x), IsTrue(x),
         \/ chosen = file[k].active /\ x.status = v.status
         \/ chosen = x.id /\ x.status # "draft",
         l = Changed(file[k], x, title, chosen)
  PROVE  /\ Succeeds(l, file[k], m)
         /\ DOMAIN l.versions = DOMAIN file[k].versions
         /\ \A i \in DOMAIN l.versions :
              IF file[k].versions[i] = v THEN l.versions[i] = x
              ELSE l.versions[i] = file[k].versions[i]
  <1> DEFINE old == file[k]
             Vs == old.versions
             Ns == [i \in DOMAIN Vs |-> IF Vs[i].id = x.id THEN x ELSE Vs[i]]
  <1>1. /\ old \in ResumeLines /\ IsSound(old) /\ Len(Vs) \in Nat
        /\ DOMAIN Vs = 1 .. Len(Vs)
        /\ \A j \in DOMAIN Vs : Vs[j] \in Versions /\ VersionValid(Vs[j]) /\ IsTrue(Vs[j])
        /\ \A j, h \in DOMAIN Vs : Vs[j].id = Vs[h].id => j = h
    <2> HIDE DEF Ns
    <2> QED  BY LinesOf
  <1>2. PICK p \in DOMAIN Vs : v = Vs[p]  BY DEF ToSet
  <1>3. /\ DOMAIN Ns = DOMAIN Vs /\ Ns[p] = x
        /\ \A i \in DOMAIN Vs : i # p => Ns[i] = Vs[i] /\ Vs[i] # v
    BY <1>1, <1>2
  <1>4. Ns \in Seq(Versions)
    <2>1. Ns \in [1 .. Len(Vs) -> Versions]
      <3>1. \A i \in 1 .. Len(Vs) : (IF Vs[i].id = x.id THEN x ELSE Vs[i]) \in Versions
        BY <1>1
      <3> QED  BY <1>1, <3>1
    <2> HIDE DEF Ns
    <2> QED  BY <2>1, <1>1
  <1>5. /\ l.id = old.id /\ l.key = old.key /\ l.title = title /\ l.active = chosen
        /\ l.versions = Ns
    BY <1>1 DEF ResumeLines, Changed
  <1>6. l \in ResumeLines
    <2> HIDE DEF Ns
    <2>1. l = [old EXCEPT !.title = title, !.active = chosen, !.versions = Ns]
      BY DEF Ns, Changed
    <2> QED  BY Zenon, <2>1, <1>1, <1>4 DEF ResumeLines
  <1> HIDE DEF Ns
  <1>7. \A i \in DOMAIN Vs : Ns[i].id = Vs[i].id /\ Ns[i].key = Vs[i].key
    BY <1>2, <1>3
  <1>8. \A i \in DOMAIN Vs : Ns[i].status = "draft" => Vs[i].status = "draft"
    <2>1. OneDraft(old)  BY <1>1 DEF IsSound
    <2> QED  BY <1>2, <1>3
  <1>9. OneDraft(l)
    BY <1>1, <1>3, <1>5, <1>8 DEF IsSound, OneDraft
  <1>10. \A w \in ToSet(l.versions) : VersionValid(w) /\ IsTrue(w)
    BY <1>1, <1>2, <1>3, <1>5 DEF ToSet
  <1>11. \E w \in ToSet(l.versions) : w.id = l.active /\ (w.status # "draft" \/ DraftOnly(l))
    <2>1. CASE chosen = old.active /\ x.status = v.status
      <3>1. PICK u \in ToSet(Vs) : u.id = old.active /\ (u.status # "draft" \/ DraftOnly(old))
        BY <1>1 DEF IsSound
      <3>2. PICK q \in DOMAIN Vs : u = Vs[q]  BY <3>1 DEF ToSet
      <3>3. Ns[q] \in ToSet(l.versions) /\ Ns[q].id = l.active /\ Ns[q].status = u.status
        BY <2>1, <3>1, <3>2, <1>2, <1>3, <1>5, <1>7 DEF ToSet
      <3>4. ASSUME DraftOnly(old)  PROVE DraftOnly(l)
        <4>1. \A i \in DOMAIN Vs : Vs[i].status = "draft"
          BY <3>4 DEF DraftOnly, DraftsOf, ToSet
        <4>2. \A i \in DOMAIN Vs : Ns[i].status = "draft"  BY <4>1, <2>1, <1>2, <1>3
        <4>3. \A w \in ToSet(l.versions) : w.status = "draft"  BY <4>2, <1>3, <1>5 DEF ToSet
        <4> QED  BY <4>3 DEF DraftOnly, DraftsOf
      <3> QED  BY <3>1, <3>3, <3>4
    <2>2. CASE chosen = x.id /\ x.status # "draft"
      BY <2>2, <1>2, <1>3, <1>5 DEF ToSet
    <2> QED  BY <2>1, <2>2
  <1>12. IsSound(l)  BY <1>9, <1>10, <1>11 DEF IsSound
  <1>13. Succeeds(l, old, m)  BY <1>3, <1>5, <1>6, <1>7, <1>12 DEF Succeeds
  <1> QED  BY <1>2, <1>3, <1>5, <1>13

\* A version of a line is made the one that is sent out.
LEMMA ActiveIsSet ==
  ASSUME NEW n \in Nat, NEW m \in Nat, NEW file, AreSound(file, n, m), NEW k \in DOMAIN file,
         NEW v \in ToSet(file[k].versions), v.status # "draft"
  PROVE  LET l == [file[k] EXCEPT !.active = v.id]
         IN  Succeeds(l, file[k], m) /\ l.versions = file[k].versions
  <1> DEFINE l == [file[k] EXCEPT !.active = v.id]
  <1>1. /\ file[k] \in ResumeLines /\ IsSound(file[k])
        /\ \A j \in DOMAIN file[k].versions : file[k].versions[j].id \in 1 .. m - 1
    BY LinesOf
  <1>2. v.id \in Nat  BY <1>1 DEF ToSet
  <1>3. /\ l \in ResumeLines /\ l.id = file[k].id /\ l.key = file[k].key
        /\ l.versions = file[k].versions /\ l.active = v.id
    BY <1>1, <1>2 DEF ResumeLines
  <1> HIDE DEF l
  <1>4. IsSound(l)  BY <1>1, <1>3 DEF IsSound, OneDraft
  <1> QED  BY <1>3, <1>4 DEF Succeeds, l

\* A line with a version more.
Enlarged(old, v) == [old EXCEPT !.versions = Append(@, v)]

\* A draft is added where there was none.
LEMMA DraftIsAdded ==
  ASSUME NEW n \in Nat, NEW m \in Nat, NEW file, AreSound(file, n, m), NEW k \in DOMAIN file,
         DraftsOf(file[k]) = {}, NEW source \in {"manual", "agent", "import"},
         NEW text \in Contents
  PROVE  LET l == Enlarged(file[k], Version(m, None, "draft", source, text, None))
         IN  /\ Succeeds(l, file[k], m)
             /\ \A j \in DOMAIN file[k].versions : l.versions[j] = file[k].versions[j]
  <1> DEFINE old == file[k]
             Vs == old.versions
             x == Version(m, None, "draft", source, text, None)
             Ns == Append(Vs, x)
             l == [old EXCEPT !.versions = Ns]
  <1>1. /\ old \in ResumeLines /\ IsSound(old) /\ Len(Vs) \in Nat
        /\ DOMAIN Vs = 1 .. Len(Vs)
        /\ \A j \in DOMAIN Vs : Vs[j] \in Versions /\ VersionValid(Vs[j]) /\ IsTrue(Vs[j])
    <2> HIDE DEF l, x, Ns
    <2> QED  BY LinesOf
  <1>2. x \in Versions /\ VersionValid(x) /\ IsTrue(x) /\ x.id = m /\ x.key = None
        /\ x.status = "draft"
    BY DEF Version, Versions, VersionValid, IsTrue, Carries, Keys
  <1> HIDE DEF x
  <1>3. Vs \in Seq(Versions)  BY <1>1 DEF ResumeLines
  <1>4. /\ Ns \in Seq(Versions) /\ Len(Ns) = Len(Vs) + 1 /\ DOMAIN Ns = 1 .. Len(Vs) + 1
        /\ Ns[Len(Vs) + 1] = x /\ \A j \in DOMAIN Vs : Ns[j] = Vs[j]
    BY <1>1, <1>2, <1>3
  <1> HIDE DEF Ns
  <1>5. /\ l \in ResumeLines /\ l.id = old.id /\ l.key = old.key
        /\ l.versions = Ns /\ l.active = old.active
    BY Zenon, <1>1, <1>4 DEF ResumeLines
  <1> HIDE DEF l
  <1>6. \A j \in DOMAIN Vs : Vs[j].status # "draft"
    BY DEF DraftsOf, ToSet
  <1>7. \A j \in DOMAIN Ns : j \in DOMAIN Vs \/ j = Len(Vs) + 1  BY <1>1, <1>4
  <1>8. OneDraft(l)  BY <1>4, <1>5, <1>6, <1>7 DEF OneDraft
  <1>9. \A w \in ToSet(l.versions) : VersionValid(w) /\ IsTrue(w)
    BY <1>1, <1>2, <1>4, <1>5, <1>7 DEF ToSet
  <1>10. \E w \in ToSet(l.versions) : w.id = l.active /\ w.status # "draft"
    <2>1. PICK u \in ToSet(Vs) : u.id = old.active  BY <1>1 DEF IsSound
    <2>2. PICK q \in DOMAIN Vs : u = Vs[q]  BY <2>1 DEF ToSet
    <2>3. q \in DOMAIN Ns  BY <1>1, <1>4
    <2> QED  BY <2>1, <2>2, <2>3, <1>4, <1>5, <1>6 DEF ToSet
  <1>11. IsSound(l)  BY <1>8, <1>9, <1>10 DEF IsSound
  <1>12. \A j \in DOMAIN Ns : j \notin DOMAIN Vs => j = Len(Vs) + 1 /\ Ns[j] = x
    BY <1>4, <1>7
  <1>13. DOMAIN Vs \subseteq DOMAIN Ns  BY <1>1, <1>4
  <1>14. Succeeds(l, old, m)
    BY <1>2, <1>4, <1>5, <1>11, <1>12, <1>13 DEF Succeeds
  <1>15. l = Enlarged(old, Version(m, None, "draft", source, text, None))
    BY DEF l, Ns, x, Enlarged
  <1>16. \A j \in DOMAIN Vs : l.versions[j] = Vs[j]  BY <1>4, <1>5
  <1> QED  BY <1>14, <1>15, <1>16
-----------------------------------------------------------------------------
\* The lines stay sound.

\* What VersionsAreKept asks of a step.
StepKeeps ==
  \A v \in AllVersions :
    /\ \A w \in AllVersions' :
         w.id = v.id /\ w # v =>
           /\ v.status = "draft" \/ <<v.status, w.status>> = <<"final", "exported">>
           /\ w.text # v.text \/ w.source # v.source =>
                v.status = "draft" /\ (editor.draft = v.id \/ w.source = "agent")
    /\ ReadLibrary \/ \E w \in AllVersions' : w.id = v.id

\* The lines have the places they had, or are there at least, by their ids.
LinesInPlace ==
  DOMAIN lines' = DOMAIN lines /\ \A i \in DOMAIN lines : lines'[i].id = lines[i].id

LinesStay == \A l \in Lines : \E k \in Lines' : k.id = l.id

\* A draft is given another text.
LEMMA DraftIsUpdated ==
  ASSUME LinesAreSound, NEW k \in DOMAIN lines, NEW l, NEW title \in Titles,
         l = [lines[k] EXCEPT !.title = title], NEW v \in DraftsOf(l),
         NEW source \in {"manual", "agent", "import"}, NEW text \in Contents,
         source = "agent" \/ (source = v.source /\ editor.draft = v.id),
         UpdateResumeDraft(l, v, source, text)
  PROVE  LinesAreSound' /\ StepKeeps /\ LinesInPlace
  <1> DEFINE x == Edited(v, source, text)
             new == PutVersion(l, x)
  <1>1. lines[k] \in ResumeLines /\ \A w \in ToSet(lines[k].versions) : w \in Versions
    <2>1. \A w \in ToSet(lines[k].versions) :
            \E j \in DOMAIN lines[k].versions : w = lines[k].versions[j]
      BY DEF ToSet
    <2> QED  BY <2>1, LinesOf DEF LinesAreSound
  <1>2. l.versions = lines[k].versions  BY <1>1 DEF ResumeLines
  <1>3. v \in ToSet(lines[k].versions) /\ v \in Versions /\ v.status = "draft"
    BY <1>1, <1>2 DEF DraftsOf
  <1>4. /\ x \in Versions /\ x.id = v.id /\ x.key = v.key /\ x.status = v.status
        /\ x.source = source /\ VersionValid(x) /\ IsTrue(x)
    BY Zenon, <1>3 DEF Edited, Versions, VersionValid, IsTrue, Carries
  <1> HIDE DEF x
  <1>5. new = Changed(lines[k], x, title, lines[k].active)
    BY Zenon, <1>1, <1>2 DEF PutVersion, ResumeLines, Changed
  <1>6. lines[k].active \in Nat  BY <1>1 DEF ResumeLines
  <1> HIDE DEF new
  <1>7. /\ Succeeds(new, lines[k], nextVersion)
        /\ DOMAIN new.versions = DOMAIN lines[k].versions
        /\ \A i \in DOMAIN new.versions :
             IF lines[k].versions[i] = v THEN new.versions[i] = x
             ELSE new.versions[i] = lines[k].versions[i]
    BY <1>3, <1>4, <1>5, <1>6, VersionIsPut DEF LinesAreSound
  <1>8. lines' = Put(new)  BY DEF UpdateResumeDraft, new, x
  <1>9. Len(new.versions) = Len(lines[k].versions)
    <2>1. /\ new.versions \in Seq(Versions) /\ lines[k].versions \in Seq(Versions)
      BY <1>1, <1>7 DEF Succeeds, ResumeLines
    <2> QED  BY <2>1, <1>7
  <1>10. /\ AreSound(lines', nextLine, nextVersion)
         /\ DOMAIN lines' = DOMAIN lines
         /\ \A i \in DOMAIN lines : lines'[i].id = lines[i].id
         /\ \A u \in AllVersions, w \in AllVersions' :
              w.id = u.id => \/ w = u
                             \/ \E j \in DOMAIN lines[k].versions :
                                  u = lines[k].versions[j] /\ w = new.versions[j]
         /\ \A u \in AllVersions : \E w \in AllVersions' : w.id = u.id
    <2>1. nextVersion >= nextVersion /\ ~(Len(new.versions) > Len(lines[k].versions))
      <3>1. lines[k].versions \in Seq(Versions)  BY <1>1 DEF ResumeLines
      <3> QED  BY <3>1, <1>9 DEF LinesAreSound
    <2> QED  BY <2>1, <1>7, <1>8, LineIsPut DEF LinesAreSound
  <1>11. UNCHANGED <<nextLine, nextVersion>>  BY DEF UpdateResumeDraft
  <1>12. StepKeeps
    <2> SUFFICES ASSUME NEW u \in AllVersions, NEW w \in AllVersions', w.id = u.id, w # u
                 PROVE  /\ u.status = "draft"
                        /\ editor.draft = u.id \/ w.source = "agent"
      BY <1>10 DEF StepKeeps
    <2>1. PICK j \in DOMAIN lines[k].versions :
            u = lines[k].versions[j] /\ w = new.versions[j]
      BY <1>10
    <2>2. u = v /\ w = x  BY <2>1, <1>7
    <2> QED  BY <2>2, <1>3, <1>4
  <1> QED  BY <1>10, <1>11, <1>12 DEF LinesAreSound, LinesInPlace

\* A version is confirmed, or marked as exported.
LEMMA VersionIsSettled ==
  ASSUME LinesAreSound, NEW k \in DOMAIN lines, NEW v \in ToSet(lines[k].versions),
         NEW status,
         <<v.status, status>> \in {<<"draft", "final">>, <<"final", "exported">>},
         Settle(lines[k], v, status), UNCHANGED <<nextLine, nextVersion>>
  PROVE  LinesAreSound' /\ StepKeeps /\ LinesInPlace
  <1> DEFINE x == [v EXCEPT !.status = status]
             new == [PutVersion(lines[k], x) EXCEPT !.active = v.id]
  <1>1. /\ lines[k] \in ResumeLines
        /\ v \in Versions /\ VersionValid(v) /\ IsTrue(v)
    <2>1. \E j \in DOMAIN lines[k].versions : v = lines[k].versions[j]
      BY DEF ToSet
    <2> QED  BY <2>1, LinesOf DEF LinesAreSound
  <1>2. status \in {"final", "exported"} /\ (v.status = "draft" \/ v.status = "final")
        /\ (v.status = "draft" \/ <<v.status, status>> = <<"final", "exported">>)
    OBVIOUS
  <1>3. /\ x \in Versions /\ x.id = v.id /\ x.key = v.key /\ x.status = status
        /\ x.source = v.source /\ x.text = v.text /\ VersionValid(x) /\ IsTrue(x)
    BY <1>1, <1>2 DEF Versions, VersionValid, IsTrue, Carries
  <1> HIDE DEF x
  <1>4. new = Changed(lines[k], x, lines[k].title, x.id)
    BY Zenon, <1>1, <1>3 DEF PutVersion, ResumeLines, Changed
  <1>5. lines[k].title \in Titles /\ x.id \in Nat  BY <1>1, <1>3 DEF ResumeLines, Versions
  <1> HIDE DEF new
  <1>6. /\ Succeeds(new, lines[k], nextVersion)
        /\ DOMAIN new.versions = DOMAIN lines[k].versions
        /\ \A i \in DOMAIN new.versions :
             IF lines[k].versions[i] = v THEN new.versions[i] = x
             ELSE new.versions[i] = lines[k].versions[i]
    BY <1>2, <1>3, <1>4, <1>5, VersionIsPut DEF LinesAreSound
  <1>7. lines' = Put(new)  BY DEF Settle, new, x
  <1>8. nextVersion >= nextVersion /\ ~(Len(new.versions) > Len(lines[k].versions))
    <2>1. /\ new.versions \in Seq(Versions) /\ lines[k].versions \in Seq(Versions)
      BY <1>1, <1>6 DEF Succeeds, ResumeLines
    <2> QED  BY <2>1, <1>6 DEF LinesAreSound
  <1>9. /\ AreSound(lines', nextLine, nextVersion)
        /\ DOMAIN lines' = DOMAIN lines
        /\ \A i \in DOMAIN lines : lines'[i].id = lines[i].id
        /\ \A u \in AllVersions, w \in AllVersions' :
             w.id = u.id => \/ w = u
                            \/ \E j \in DOMAIN lines[k].versions :
                                 u = lines[k].versions[j] /\ w = new.versions[j]
        /\ \A u \in AllVersions : \E w \in AllVersions' : w.id = u.id
    BY <1>6, <1>7, <1>8, LineIsPut DEF LinesAreSound
  <1>10. StepKeeps
    <2> SUFFICES ASSUME NEW u \in AllVersions, NEW w \in AllVersions', w.id = u.id, w # u
                 PROVE  /\ u.status = "draft" \/ <<u.status, w.status>> = <<"final", "exported">>
                        /\ w.text = u.text /\ w.source = u.source
      BY <1>9 DEF StepKeeps
    <2>1. PICK j \in DOMAIN lines[k].versions :
            u = lines[k].versions[j] /\ w = new.versions[j]
      BY <1>9
    <2>2. u = v /\ w = x  BY <2>1, <1>6
    <2> QED  BY <2>2, <1>2, <1>3
  <1> QED  BY <1>9, <1>10 DEF LinesAreSound, LinesInPlace

\* Another version is made the one that is sent out.
LEMMA ActiveIsChanged ==
  ASSUME LinesAreSound, NEW k \in DOMAIN lines, NEW v \in ToSet(lines[k].versions),
         SetActiveResumeVersion(lines[k], v), UNCHANGED <<nextLine, nextVersion>>
  PROVE  LinesAreSound' /\ StepKeeps /\ LinesInPlace
  <1> DEFINE new == [lines[k] EXCEPT !.active = v.id]
  <1>1. lines' = Put(new) /\ v.status # "draft"  BY DEF SetActiveResumeVersion
  <1>2. Succeeds(new, lines[k], nextVersion) /\ new.versions = lines[k].versions
    BY <1>1, ActiveIsSet DEF LinesAreSound
  <1> HIDE DEF new
  <1>3. lines[k].versions \in Seq(Versions)
    <2>1. lines[k] \in ResumeLines  BY LinesOf DEF LinesAreSound
    <2> QED  BY <2>1 DEF ResumeLines
  <1>4. nextVersion >= nextVersion /\ ~(Len(new.versions) > Len(lines[k].versions))
    BY <1>2, <1>3 DEF LinesAreSound
  <1>5. /\ AreSound(lines', nextLine, nextVersion)
        /\ DOMAIN lines' = DOMAIN lines
        /\ \A i \in DOMAIN lines : lines'[i].id = lines[i].id
        /\ \A u \in AllVersions, w \in AllVersions' :
             w.id = u.id => \/ w = u
                            \/ \E j \in DOMAIN lines[k].versions :
                                 u = lines[k].versions[j] /\ w = new.versions[j]
        /\ \A u \in AllVersions : \E w \in AllVersions' : w.id = u.id
    BY <1>1, <1>2, <1>4, LineIsPut DEF LinesAreSound
  <1>6. StepKeeps  BY <1>2, <1>5 DEF StepKeeps
  <1> QED  BY <1>5, <1>6 DEF LinesAreSound, LinesInPlace

\* A draft is made of another text.
LEMMA DraftIsCreated ==
  ASSUME LinesAreSound, NEW k \in DOMAIN lines,
         NEW source \in {"manual", "agent", "import"}, NEW text \in Contents,
         CreateResumeDraft(lines[k], source, text)
  PROVE  LinesAreSound' /\ StepKeeps /\ LinesInPlace
  <1> DEFINE new == Enlarged(lines[k], Version(nextVersion, None, "draft", source, text, None))
  <1>1. /\ lines' = Put(new) /\ DraftsOf(lines[k]) = {}
        /\ nextVersion' = nextVersion + 1 /\ nextLine' = nextLine
    BY DEF CreateResumeDraft, Enlarged
  <1>2. /\ Succeeds(new, lines[k], nextVersion)
        /\ \A j \in DOMAIN lines[k].versions : new.versions[j] = lines[k].versions[j]
    <2>1. nextLine \in Nat /\ nextVersion \in Nat  BY DEF LinesAreSound
    <2> QED  BY <1>1, <2>1, DraftIsAdded DEF LinesAreSound
  <1> HIDE DEF new
  <1>3. /\ nextVersion + 1 \in Nat /\ nextVersion + 1 >= nextVersion
        /\ nextVersion + 1 > nextVersion
    BY DEF LinesAreSound
  <1>4. /\ AreSound(lines', nextLine, nextVersion + 1)
        /\ DOMAIN lines' = DOMAIN lines
        /\ \A i \in DOMAIN lines : lines'[i].id = lines[i].id
        /\ \A u \in AllVersions, w \in AllVersions' :
             w.id = u.id => \/ w = u
                            \/ \E j \in DOMAIN lines[k].versions :
                                 u = lines[k].versions[j] /\ w = new.versions[j]
        /\ \A u \in AllVersions : \E w \in AllVersions' : w.id = u.id
    BY <1>1, <1>2, <1>3, LineIsPut DEF LinesAreSound
  <1>5. StepKeeps  BY <1>2, <1>4 DEF StepKeeps
  <1> QED  BY <1>1, <1>3, <1>4, <1>5 DEF LinesAreSound, LinesInPlace
\* The line of the next id is there after a step.
LineIsNew == \E k \in Lines' : k.id = nextLine

\* A line of one new version comes before the others.
LEMMA LineIsPrepended ==
  ASSUME LinesAreSound, NEW status \in {"draft", "final"}, NEW source \in {"manual", "import"},
         NEW title \in Titles, NEW text \in Contents,
         NEW provenance \in {None} \cup [of : Contents \cup {None}, plan : SUBSET PlanFields],
         provenance # None => provenance.of \in {None, text},
         Prepend(status, source, title, text, provenance)
  PROVE  LinesAreSound' /\ StepKeeps /\ LineIsNew
  <1> DEFINE v == Version(nextVersion, None, status, source, text, provenance)
             l == [id |-> nextLine, key |-> None, title |-> title, active |-> nextVersion,
                   versions |-> <<v>>]
             new == lines'
  <1>1. /\ lines \in Seq(ResumeLines) /\ Len(lines) \in Nat /\ DOMAIN lines = 1 .. Len(lines)
        /\ nextLine \in Nat /\ nextVersion \in Nat
        /\ nextLine' = nextLine + 1 /\ nextVersion' = nextVersion + 1
        /\ new = <<l>> \o lines /\ Carries(status, source, provenance)
    BY DEF LinesAreSound, AreSound, Prepend
  <1>2. \A i \in DOMAIN lines :
          /\ lines[i] \in ToSet(lines) /\ IsSound(lines[i])
          /\ lines[i].id \in 1 .. nextLine - 1
          /\ \A j \in DOMAIN lines[i].versions :
               lines[i].versions[j].id \in 1 .. nextVersion - 1
    <2> HIDE DEF l, v, new
    <2> QED  BY LinesOf DEF LinesAreSound
  <1>3. nextLine \in 1 .. nextLine /\ nextVersion \in 1 .. nextVersion
    BY DEF LinesAreSound
  <1>4. /\ v \in Versions /\ VersionValid(v) /\ IsTrue(v) /\ v.id = nextVersion /\ v.key = None
        /\ v.status = status
    BY <1>1 DEF Version, Versions, VersionValid, IsTrue, Keys
  <1> HIDE DEF v
  <1>5. /\ l \in ResumeLines /\ l.id = nextLine /\ l.key = None /\ l.active = nextVersion
        /\ DOMAIN l.versions = {1} /\ l.versions[1] = v /\ ToSet(l.versions) = {v}
    BY <1>1, <1>4 DEF ResumeLines, Keys, ToSet
  <1> HIDE DEF l
  <1>6. IsSound(l)
    BY <1>4, <1>5 DEF IsSound, OneDraft, DraftOnly, DraftsOf
  <1>7. /\ new \in Seq(ResumeLines) /\ DOMAIN new = 1 .. Len(lines) + 1 /\ new[1] = l
        /\ \A i \in 2 .. Len(lines) + 1 : new[i] = lines[i - 1] /\ i - 1 \in DOMAIN lines
    BY <1>1, <1>5
  <1> HIDE DEF new
  <1>8. \A i \in DOMAIN new : i = 1 \/ i \in 2 .. Len(lines) + 1  BY <1>1, <1>7
  <1>9. \A i \in DOMAIN new :
          /\ IsSound(new[i]) /\ new[i].id \in 1 .. nextLine
          /\ \A j \in DOMAIN new[i].versions : new[i].versions[j].id \in 1 .. nextVersion
    <2> SUFFICES ASSUME NEW i \in DOMAIN new
                 PROVE  /\ IsSound(new[i]) /\ new[i].id \in 1 .. nextLine
                        /\ \A j \in DOMAIN new[i].versions :
                             new[i].versions[j].id \in 1 .. nextVersion
      OBVIOUS
    <2>1. CASE i = 1  BY <2>1, <1>3, <1>4, <1>5, <1>6, <1>7
    <2>2. CASE i \in 2 .. Len(lines) + 1
      <3>1. \A n \in 1 .. nextLine - 1 : n \in 1 .. nextLine  BY <1>1
      <3>2. \A n \in 1 .. nextVersion - 1 : n \in 1 .. nextVersion  BY <1>1
      <3> QED  BY <2>2, <3>1, <3>2, <1>2, <1>7
    <2> QED  BY <2>1, <2>2, <1>8
  <1>10. ASSUME NEW i \in DOMAIN new, NEW h \in DOMAIN new
         PROVE  /\ Same(new[i], new[h]) => i = h
                /\ \A j \in DOMAIN new[i].versions, g \in DOMAIN new[h].versions :
                     Same(new[i].versions[j], new[h].versions[g]) => i = h /\ j = g
    <2>1. \A a \in DOMAIN lines :
            /\ ~Same(l, lines[a]) /\ ~Same(lines[a], l)
            /\ \A j \in DOMAIN lines[a].versions :
                 ~Same(v, lines[a].versions[j]) /\ ~Same(lines[a].versions[j], v)
      <3> SUFFICES ASSUME NEW a \in DOMAIN lines
                   PROVE  /\ ~Same(l, lines[a]) /\ ~Same(lines[a], l)
                          /\ \A j \in DOMAIN lines[a].versions :
                               ~Same(v, lines[a].versions[j]) /\ ~Same(lines[a].versions[j], v)
        OBVIOUS
      <3>1. nextLine \notin 1 .. nextLine - 1 /\ nextVersion \notin 1 .. nextVersion - 1
        BY <1>1
      <3> QED  BY <3>1, <1>2, <1>4, <1>5 DEF Same
    <2>2. CASE i = 1 /\ h = 1  BY <2>2, <1>5, <1>7
    <2>3. CASE i = 1 /\ h \in 2 .. Len(lines) + 1  BY <2>1, <2>3, <1>5, <1>7
    <2>4. CASE h = 1 /\ i \in 2 .. Len(lines) + 1  BY <2>1, <2>4, <1>5, <1>7
    <2>5. CASE i \in 2 .. Len(lines) + 1 /\ h \in 2 .. Len(lines) + 1
      <3> DEFINE a == i - 1
                 b == h - 1
      <3>1. a \in DOMAIN lines /\ b \in DOMAIN lines /\ new[i] = lines[a] /\ new[h] = lines[b]
            /\ (a = b => i = h)
        BY <2>5, <1>7
      <3> HIDE DEF a, b
      <3>2. /\ Same(lines[a], lines[b]) => a = b
            /\ \A j \in DOMAIN lines[a].versions, g \in DOMAIN lines[b].versions :
                 Same(lines[a].versions[j], lines[b].versions[g]) => a = b /\ j = g
        BY <3>1 DEF LinesAreSound, AreSound
      <3> QED  BY <3>1, <3>2
    <2> QED  BY <2>2, <2>3, <2>4, <2>5, <1>8
  <1>11. AreSound(new, nextLine + 1, nextVersion + 1)
    <2> DEFINE n == nextLine + 1
               m == nextVersion + 1
    <2>1. n - 1 = nextLine /\ m - 1 = nextVersion
      <3>1. nextLine \in Nat /\ nextVersion \in Nat  BY <1>1
      <3> QED  BY <3>1
    <2> HIDE DEF n, m
    <2>2. \A k \in ToSet(new) :
            /\ IsSound(k) /\ k.id \in 1 .. n - 1
            /\ \A w \in ToSet(k.versions) : w.id \in 1 .. m - 1
      BY <2>1, <1>9 DEF ToSet
    <2>3. \A i, h \in DOMAIN new :
            /\ Same(new[i], new[h]) => i = h
            /\ \A j \in DOMAIN new[i].versions, g \in DOMAIN new[h].versions :
                 Same(new[i].versions[j], new[h].versions[g]) => i = h /\ j = g
      BY <1>10
    <2>4. AreSound(new, n, m)  BY <2>2, <2>3, <1>7 DEF AreSound
    <2> QED  BY <2>4 DEF n, m
  <1>12. \A a \in DOMAIN lines : a + 1 \in DOMAIN new /\ new[a + 1] = lines[a]
    <2> SUFFICES ASSUME NEW a \in DOMAIN lines
                 PROVE  a + 1 \in DOMAIN new /\ new[a + 1] = lines[a]
      OBVIOUS
    <2>1. a + 1 \in 2 .. Len(lines) + 1 /\ a + 1 - 1 = a  BY <1>1
    <2> QED  BY <2>1, <1>7
  <1>13. /\ \A k \in Lines : \E a \in DOMAIN lines : k = lines[a]
         /\ \A i \in DOMAIN new : new[i] \in Lines'
         /\ \A k \in Lines' : \E i \in DOMAIN new : k = new[i]
    BY DEF Lines, ToSet, new
  <1>14. Lines \subseteq Lines' /\ l \in Lines' /\ \A k \in Lines' : k \in Lines \/ k = l
    <2>1. \A k \in Lines : k \in Lines'  BY <1>12, <1>13
    <2>2. l \in Lines'  BY <1>7, <1>8, <1>13
    <2>3. \A i \in DOMAIN new : new[i] = l \/ new[i] \in Lines
      BY <1>7, <1>8 DEF Lines, ToSet
    <2> QED  BY <2>1, <2>2, <2>3, <1>13
  <1>15. StepKeeps
    <2>1. AllVersions' = AllVersions \cup {v}  BY <1>5, <1>14 DEF AllVersions
    <2>2. \A u \in AllVersions :
            \E i \in DOMAIN lines : \E j \in DOMAIN lines[i].versions : u = lines[i].versions[j]
      BY DEF AllVersions, Lines, ToSet
    <2>3. \A u \in AllVersions : u.id # nextVersion
      <3>1. nextVersion \notin 1 .. nextVersion - 1  BY <1>1
      <3> QED  BY <2>2, <3>1, <1>2
    <2>4. \A u, w \in AllVersions : u.id = w.id => u = w
      <3> SUFFICES ASSUME NEW u \in AllVersions, NEW w \in AllVersions, u.id = w.id  PROVE u = w
        OBVIOUS
      <3>1. PICK i \in DOMAIN lines : \E j \in DOMAIN lines[i].versions : u = lines[i].versions[j]
        BY <2>2
      <3>2. PICK h \in DOMAIN lines : \E g \in DOMAIN lines[h].versions : w = lines[h].versions[g]
        BY <2>2
      <3> QED  BY <3>1, <3>2, LinesOf DEF LinesAreSound
    <2> QED  BY <2>1, <2>3, <2>4, <1>4 DEF StepKeeps
  <1> QED  BY <1>1, <1>5, <1>11, <1>14, <1>15 DEF LinesAreSound, LineIsNew, new
-----------------------------------------------------------------------------
\* The library file.

\* The lines of a file by their places.
LEMMA LinesOfFile ==
  ASSUME NEW file, FileIsTrue(file)
  PROVE  /\ Len(file) \in Nat /\ DOMAIN file = 1 .. Len(file)
         /\ \A i \in DOMAIN file :
              /\ file[i] \in FiledLines /\ file[i] \in ToSet(file)
              /\ file[i].versions \in Seq(Versions)
              /\ Len(file[i].versions) \in Nat
              /\ DOMAIN file[i].versions = 1 .. Len(file[i].versions)
              /\ \A j \in DOMAIN file[i].versions :
                   file[i].versions[j] \in Versions /\ IsTrue(file[i].versions[j])
  <1>1. Len(file) \in Nat /\ DOMAIN file = 1 .. Len(file)
        /\ \A i \in DOMAIN file : file[i] \in FiledLines
    BY DEF FileIsTrue
  <1>2. \A i \in DOMAIN file :
          /\ file[i] \in ToSet(file) /\ file[i].versions \in Seq(Versions)
          /\ \A v \in ToSet(file[i].versions) : IsTrue(v)
    <2>1. \A i \in DOMAIN file : file[i] \in ToSet(file)  BY DEF ToSet
    <2> QED  BY <2>1, <1>1 DEF FileIsTrue, FiledLines
  <1>3. \A i \in DOMAIN file :
          /\ Len(file[i].versions) \in Nat
          /\ DOMAIN file[i].versions = 1 .. Len(file[i].versions)
          /\ \A j \in DOMAIN file[i].versions :
               file[i].versions[j] \in Versions /\ IsTrue(file[i].versions[j])
    BY <1>2 DEF ToSet
  <1> QED  BY <1>1, <1>2, <1>3

\* The versions of a file that is read are numbered in the order of their places.
LEMMA NumbersFollowPlaces ==
  ASSUME NEW file, FileIsTrue(file), NEW base \in Nat \ {0}
  PROVE  LET IdOf(i, j) == base + VersionsBefore(file, i - 1) + j - 1
             all == Cardinality(Places(file))
         IN  /\ all \in Nat
             /\ \A i \in DOMAIN file : \A j \in DOMAIN file[i].versions :
                  IdOf(i, j) \in base .. base + all - 1
             /\ \A i, k \in DOMAIN file :
                  \A j \in DOMAIN file[i].versions, h \in DOMAIN file[k].versions :
                    IdOf(i, j) = IdOf(k, h) => i = k /\ j = h
  <1> DEFINE n == Len(file)
             all == Cardinality(Places(file))
             Before(i) == VersionsBefore(file, i)
             L(i) == Len(file[i].versions)
             IdOf(i, j) == base + Before(i - 1) + j - 1
  <1>1. n \in Nat /\ DOMAIN file = 1 .. n
        /\ \A i \in 1 .. n : L(i) \in Nat /\ DOMAIN file[i].versions = 1 .. L(i)
    BY LinesOfFile
  <1>2. /\ all \in Nat
        /\ \A i \in 0 .. n : Before(i) \in 0 .. all
        /\ \A i \in 1 .. n : Before(i) = Before(i - 1) + L(i)
        /\ \A i, k \in 0 .. n : i <= k => Before(i) <= Before(k)
    <2>1. \A i \in 1 .. n : Len(file[i].versions) \in Nat
                            /\ DOMAIN file[i].versions = 1 .. Len(file[i].versions)
      BY <1>1
    <2> QED  BY Zenon, <1>1, <2>1, PlacesCounted
  <1> HIDE DEF n, all, Before, L
  <1>3. ASSUME NEW i \in 1 .. n, NEW j \in 1 .. L(i)
        PROVE  IdOf(i, j) \in base .. base + all - 1 /\ IdOf(i, j) < base + Before(i)
               /\ IdOf(i, j) >= base + Before(i - 1)
    <2>1. i - 1 \in 0 .. n /\ i \in 0 .. n  BY <1>1
    <2>2. Before(i - 1) \in Nat /\ Before(i) \in Nat /\ Before(i) <= all /\ L(i) \in Nat
      BY <2>1, <1>1, <1>2
    <2>3. Before(i) = Before(i - 1) + L(i) /\ j \in Nat /\ 1 <= j /\ j <= L(i)
      BY <1>2, <2>2
    <2> QED  BY <2>2, <2>3, <1>2
  <1>4. ASSUME NEW i \in 1 .. n, NEW k \in 1 .. n, NEW j \in 1 .. L(i), NEW h \in 1 .. L(k),
               i < k
        PROVE  IdOf(i, j) < IdOf(k, h)
    <2>1. i \in 0 .. n /\ k - 1 \in 0 .. n /\ i <= k - 1  BY <1>1, <1>4
    <2>2. Before(i) <= Before(k - 1)  BY <2>1, <1>2
    <2>3. Before(i) \in Nat /\ Before(k - 1) \in Nat  BY <2>1, <1>2
    <2>4. IdOf(i, j) < base + Before(i) /\ IdOf(k, h) >= base + Before(k - 1)
          /\ IdOf(i, j) \in Int /\ IdOf(k, h) \in Int
      <3>1. IdOf(i, j) \in base .. base + all - 1 /\ IdOf(k, h) \in base .. base + all - 1
        BY <1>3
      <3> QED  BY <3>1, <1>3
    <2> HIDE DEF IdOf
    <2> QED  BY <2>2, <2>3, <2>4
  <1>5. ASSUME NEW i \in 1 .. n, NEW k \in 1 .. n, NEW j \in 1 .. L(i), NEW h \in 1 .. L(k),
               IdOf(i, j) = IdOf(k, h)
        PROVE  i = k /\ j = h
    <2>1. IdOf(i, j) \in base .. base + all - 1  BY <1>3
    <2>2. ~(i < k) /\ ~(k < i)
      <3>1. IdOf(i, j) \in Int /\ ~(IdOf(i, j) < IdOf(i, j))  BY <2>1
      <3> HIDE DEF IdOf
      <3> QED  BY <3>1, <1>4, <1>5
    <2>3. i = k  BY <2>2, <1>1
    <2>4. Before(i - 1) \in Nat
      <3>1. i - 1 \in 0 .. n  BY <1>1
      <3> QED  BY <3>1, <1>2
    <2>5. j \in Nat /\ h \in Nat  BY <1>1
    <2> QED  BY <2>3, <2>4, <2>5, <1>5
  <1>6. \A i \in 1 .. n : \A j \in 1 .. L(i) : IdOf(i, j) \in base .. base + all - 1
    BY <1>3
  <1>7. \A i, k \in 1 .. n : \A j \in 1 .. L(i), h \in 1 .. L(k) :
          IdOf(i, j) = IdOf(k, h) => i = k /\ j = h
    BY <1>5
  <1> HIDE DEF IdOf
  <1>8. /\ all \in Nat
        /\ \A i \in DOMAIN file : \A j \in DOMAIN file[i].versions :
             IdOf(i, j) \in base .. base + all - 1
        /\ \A i, k \in DOMAIN file :
             \A j \in DOMAIN file[i].versions, h \in DOMAIN file[k].versions :
               IdOf(i, j) = IdOf(k, h) => i = k /\ j = h
    <2>1. \A i \in DOMAIN file : i \in 1 .. n /\ DOMAIN file[i].versions = 1 .. L(i)
      BY <1>1
    <2>2. \A i \in DOMAIN file : \A j \in DOMAIN file[i].versions :
            IdOf(i, j) \in base .. base + all - 1
      BY Zenon, <2>1, <1>6
    <2>3. ASSUME NEW i \in DOMAIN file, NEW k \in DOMAIN file,
                 NEW j \in DOMAIN file[i].versions, NEW h \in DOMAIN file[k].versions,
                 IdOf(i, j) = IdOf(k, h)
          PROVE  i = k /\ j = h
      <3>1. i \in 1 .. n /\ k \in 1 .. n /\ j \in 1 .. L(i) /\ h \in 1 .. L(k)
        BY Zenon, <2>1
      <3> QED  BY <2>3, <3>1, <1>7
    <2> QED  BY <2>2, <2>3, <1>2
  <1> QED  BY <1>8 DEF IdOf, all, Before

\* The lines of a file that is read are sound, and all their ids are new.
LEMMA LibraryIsRead ==
  ASSUME LinesAreSound, NEW file, FileIsTrue(file), LibraryValid(file), ReplaceFromLibrary(file)
  PROVE  LinesAreSound' /\ \A v \in AllVersions, w \in AllVersions' : w.id # v.id
  <1> DEFINE n == Len(file)
             all == Cardinality(Places(file))
             IdOf(i, j) == nextVersion + VersionsBefore(file, i - 1) + j - 1
             Vs(i) == file[i].versions
             Ns(i) == [j \in DOMAIN Vs(i) |-> [Vs(i)[j] EXCEPT !.id = IdOf(i, j)]]
             SentOut(i) == CHOOSE j \in DOMAIN Vs(i) : Vs(i)[j].key = file[i].active
             L(i) == [id |-> nextLine + i - 1, key |-> file[i].key, title |-> file[i].title,
                      active |-> IdOf(i, SentOut(i)), versions |-> Ns(i)]
             new == lines'
  <1>1. /\ new = [i \in DOMAIN file |-> L(i)]
        /\ nextLine' = nextLine + n /\ nextVersion' = nextVersion + all
    BY DEF ReplaceFromLibrary, FreshFrom
  <1>2. /\ n \in Nat /\ DOMAIN file = 1 .. n
        /\ \A i \in 1 .. n :
             /\ file[i] \in FiledLines /\ file[i] \in ToSet(file)
             /\ Vs(i) \in Seq(Versions) /\ Len(Vs(i)) \in Nat /\ DOMAIN Vs(i) = 1 .. Len(Vs(i))
             /\ \A j \in DOMAIN Vs(i) : Vs(i)[j] \in Versions /\ IsTrue(Vs(i)[j])
    <2> HIDE DEF L, Ns
    <2> QED  BY LinesOfFile
  <1>3. /\ all \in Nat
        /\ \A i \in 1 .. n : \A j \in DOMAIN Vs(i) :
             IdOf(i, j) \in nextVersion .. nextVersion + all - 1
        /\ \A i, k \in 1 .. n : \A j \in DOMAIN Vs(i), h \in DOMAIN Vs(k) :
             IdOf(i, j) = IdOf(k, h) => i = k /\ j = h
    <2> HIDE DEF L, Ns
    <2>1. nextVersion \in Nat \ {0}  BY DEF LinesAreSound
    <2> QED  BY Zenon, <2>1, <1>2, NumbersFollowPlaces
  <1>4. /\ \A i, k \in 1 .. n :
             /\ file[i].key = file[k].key => i = k
             /\ \A j \in DOMAIN Vs(i), h \in DOMAIN Vs(k) :
                  Vs(i)[j].key = Vs(k)[h].key => i = k /\ j = h
        /\ \A i \in 1 .. n :
             /\ OneDraft(file[i])
             /\ \E v \in ToSet(Vs(i)) : v.key = file[i].active /\ v.status # "draft"
             /\ \A v \in ToSet(Vs(i)) : VersionValid(v)
    BY Zenon, <1>2 DEF LibraryValid
  <1>5. nextVersion \in Nat \ {0} /\ nextLine \in Nat \ {0}  BY DEF LinesAreSound
  <1> HIDE DEF IdOf, all, n
  <1>6. \A i \in 1 .. n : \A j \in DOMAIN Vs(i) :
          /\ Vs(i)[j] \in ToSet(Vs(i)) /\ IdOf(i, j) \in 1 .. nextVersion + all - 1
          /\ IdOf(i, j) >= nextVersion /\ IdOf(i, j) \in Nat
    <2>1. \A a \in nextVersion .. nextVersion + all - 1 :
            a \in 1 .. nextVersion + all - 1 /\ a >= nextVersion /\ a \in Nat
      BY <1>3, <1>5
    <2> QED  BY <2>1, <1>3 DEF ToSet
  <1>7. \A i \in 1 .. n :
          /\ DOMAIN Ns(i) = DOMAIN Vs(i)
          /\ \A j \in DOMAIN Vs(i) :
               /\ Ns(i)[j] \in Versions /\ Ns(i)[j].id = IdOf(i, j)
               /\ Ns(i)[j].key = Vs(i)[j].key /\ Ns(i)[j].status = Vs(i)[j].status
               /\ VersionValid(Ns(i)[j]) /\ IsTrue(Ns(i)[j])
    <2> SUFFICES ASSUME NEW i \in 1 .. n, NEW j \in DOMAIN Vs(i)
                 PROVE  /\ Ns(i)[j] \in Versions /\ Ns(i)[j].id = IdOf(i, j)
                        /\ Ns(i)[j].key = Vs(i)[j].key /\ Ns(i)[j].status = Vs(i)[j].status
                        /\ VersionValid(Ns(i)[j]) /\ IsTrue(Ns(i)[j])
      BY Zenon
    <2> DEFINE v == Vs(i)[j]
    <2>1. v \in Versions /\ IsTrue(v) /\ VersionValid(v) /\ IdOf(i, j) \in Nat
      BY <1>2, <1>4, <1>6
    <2>2. Ns(i)[j] = [v EXCEPT !.id = IdOf(i, j)]  OBVIOUS
    <2> HIDE DEF v, Ns
    <2> QED  BY <2>1, <2>2 DEF Versions, VersionValid, IsTrue, v
  <1>8. \A i \in 1 .. n : Ns(i) \in Seq(Versions)
    <2> SUFFICES ASSUME NEW i \in 1 .. n  PROVE Ns(i) \in Seq(Versions)
      OBVIOUS
    <2>1. Ns(i) \in [1 .. Len(Vs(i)) -> Versions]
      <3>1. DOMAIN Vs(i) = 1 .. Len(Vs(i))  BY <1>2
      <3>2. \A j \in DOMAIN Vs(i) : [Vs(i)[j] EXCEPT !.id = IdOf(i, j)] \in Versions  BY Zenon, <1>7
      <3> QED  BY <3>1, <3>2
    <2>2. Len(Vs(i)) \in Nat  BY <1>2
    <2> HIDE DEF Ns
    <2> QED  BY <2>1, <2>2
  <1>9. \A i \in 1 .. n :
          /\ SentOut(i) \in DOMAIN Vs(i) /\ Vs(i)[SentOut(i)].status # "draft"
          /\ IdOf(i, SentOut(i)) \in Nat
    <2> SUFFICES ASSUME NEW i \in 1 .. n
                 PROVE  SentOut(i) \in DOMAIN Vs(i) /\ Vs(i)[SentOut(i)].status # "draft"
      BY Zenon, <1>6
    <2>1. \E j \in DOMAIN Vs(i) : Vs(i)[j].key = file[i].active /\ Vs(i)[j].status # "draft"
      BY <1>4 DEF ToSet
    <2>2. PICK j \in DOMAIN Vs(i) : Vs(i)[j].key = file[i].active /\ Vs(i)[j].status # "draft"
      BY <2>1
    <2>3. SentOut(i) \in DOMAIN Vs(i) /\ Vs(i)[SentOut(i)].key = file[i].active
      BY <2>1
    <2> HIDE DEF SentOut
    <2>4. SentOut(i) = j  BY <2>2, <2>3, <1>4
    <2> QED  BY <2>2, <2>4
  <1> HIDE DEF Ns, SentOut
  <1>10. \A i \in 1 .. n :
           /\ L(i) \in ResumeLines /\ L(i).id = nextLine + i - 1 /\ L(i).key = file[i].key
           /\ L(i).versions = Ns(i) /\ L(i).active = IdOf(i, SentOut(i))
    <2> SUFFICES ASSUME NEW i \in 1 .. n  PROVE L(i) \in ResumeLines
      OBVIOUS
    <2>1. nextLine + i - 1 \in Nat  BY <1>2, <1>5
    <2> QED  BY <2>1, <1>2, <1>8, <1>9 DEF ResumeLines, FiledLines
  <1> HIDE DEF L
  <1>11. new \in Seq(ResumeLines) /\ DOMAIN new = 1 .. n /\ \A i \in 1 .. n : new[i] = L(i)
    BY <1>1, <1>2, <1>10
  <1> HIDE DEF new
  <1>12. \A i \in 1 .. n : IsSound(L(i))
    <2> SUFFICES ASSUME NEW i \in 1 .. n  PROVE IsSound(L(i))
      OBVIOUS
    <2>1. OneDraft(L(i))
      <3>1. OneDraft(file[i])  BY <1>4
      <3> QED  BY <3>1, <1>7, <1>10 DEF OneDraft
    <2>2. /\ Ns(i)[SentOut(i)] \in ToSet(L(i).versions) /\ Ns(i)[SentOut(i)].id = L(i).active
          /\ Ns(i)[SentOut(i)].status # "draft"
      BY <1>7, <1>9, <1>10 DEF ToSet
    <2>3. \A v \in ToSet(L(i).versions) : VersionValid(v) /\ IsTrue(v)
      BY <1>7, <1>10 DEF ToSet
    <2> QED  BY <2>1, <2>2, <2>3 DEF IsSound
  <1> DEFINE a == nextLine + n
             b == nextVersion + all
  <1>13. /\ \A i \in 1 .. n : L(i).id \in 1 .. a - 1
         /\ \A i \in 1 .. n : \A j \in DOMAIN Vs(i) : IdOf(i, j) \in 1 .. b - 1
    <2>1. \A i \in 1 .. n : nextLine + i - 1 \in 1 .. nextLine + n - 1  BY <1>2, <1>5
    <2>2. a - 1 = nextLine + n - 1 /\ b - 1 = nextVersion + all - 1
      <3>1. n \in Nat /\ all \in Nat  BY <1>2, <1>3
      <3> QED  BY <3>1, <1>5
    <2> HIDE DEF a, b
    <2> QED  BY <2>1, <2>2, <1>6, <1>10
  <1> HIDE DEF a, b
  <1>14. \A x \in ToSet(new) :
           /\ IsSound(x) /\ x.id \in 1 .. a - 1
           /\ \A v \in ToSet(x.versions) : v.id \in 1 .. b - 1
    BY <1>7, <1>10, <1>11, <1>12, <1>13 DEF ToSet
  <1>15. \A i, k \in DOMAIN new :
           /\ Same(new[i], new[k]) => i = k
           /\ \A j \in DOMAIN new[i].versions, h \in DOMAIN new[k].versions :
                Same(new[i].versions[j], new[k].versions[h]) => i = k /\ j = h
    <2> SUFFICES ASSUME NEW i \in 1 .. n, NEW k \in 1 .. n
                 PROVE  /\ Same(L(i), L(k)) => i = k
                        /\ \A j \in DOMAIN Vs(i), h \in DOMAIN Vs(k) :
                             Same(Ns(i)[j], Ns(k)[h]) => i = k /\ j = h
      BY <1>7, <1>10, <1>11
    <2>1. nextLine + i - 1 = nextLine + k - 1 => i = k  BY <1>2, <1>5
    <2>2. Same(L(i), L(k)) => i = k  BY <2>1, <1>4, <1>10 DEF Same
    <2>3. \A j \in DOMAIN Vs(i), h \in DOMAIN Vs(k) :
            Same(Ns(i)[j], Ns(k)[h]) => i = k /\ j = h
      BY <1>3, <1>4, <1>7 DEF Same
    <2> QED  BY <2>2, <2>3
  <1>16. AreSound(new, a, b)  BY <1>11, <1>14, <1>15 DEF AreSound
  <1>17. nextLine + n \in Nat \ {0} /\ nextVersion + all \in Nat \ {0}
    <2>1. n \in Nat /\ all \in Nat  BY <1>2, <1>3
    <2> QED  BY <2>1, <1>5
  <1>18. ASSUME NEW v \in AllVersions, NEW w \in AllVersions'  PROVE w.id # v.id
    <2>1. \E i \in DOMAIN lines : \E j \in DOMAIN lines[i].versions : v = lines[i].versions[j]
      BY DEF AllVersions, Lines, ToSet
    <2>2. v.id \in 1 .. nextVersion - 1  BY <2>1, <1>5, LinesOf DEF LinesAreSound
    <2>3. \E i \in DOMAIN new : \E j \in DOMAIN new[i].versions : w = new[i].versions[j]
      BY DEF AllVersions, Lines, ToSet, new
    <2>4. w.id >= nextVersion /\ w.id \in Nat  BY <2>3, <1>6, <1>7, <1>10, <1>11
    <2> QED  BY <2>2, <2>4, <1>5
  <1>19. LinesAreSound'  BY <1>1, <1>16, <1>17 DEF LinesAreSound, new, a, b
  <1> QED  BY <1>18, <1>19
\* Things with different numbers can be put in the order of their numbers.
LEMMA OrderExists ==
  ASSUME NEW n \in Nat, NEW s, DOMAIN s = 1 .. n,
         \A i \in 1 .. n : s[i].id \in Nat,
         \A i, k \in 1 .. n : s[i].id = s[k].id => i = k
  PROVE  \E t \in [1 .. n -> ToSet(s)] : \A i, j \in 1 .. n : i < j => t[i].id < t[j].id
  <1> DEFINE I == 1 .. n
             UpTo(i) == {k \in I : s[k].id <= s[i].id}
             Rank == [i \in I |-> Cardinality(UpTo(i))]
  <1>1. IsFiniteSet(I) /\ Cardinality(I) = n  BY FS_Interval
  <1>2. \A i \in I : /\ IsFiniteSet(UpTo(i)) /\ Cardinality(UpTo(i)) \in I
    <2> SUFFICES ASSUME NEW i \in I
                 PROVE  IsFiniteSet(UpTo(i)) /\ Cardinality(UpTo(i)) \in I
      BY Zenon
    <2>1. UpTo(i) \in SUBSET I /\ i \in UpTo(i)  OBVIOUS
    <2> HIDE DEF UpTo
    <2>2. IsFiniteSet(UpTo(i)) /\ Cardinality(UpTo(i)) <= n
      <3> HIDE DEF I
      <3> QED  BY <2>1, <1>1, FS_Subset
    <2>3. Cardinality(UpTo(i)) \in Nat /\ Cardinality(UpTo(i)) # 0
      BY <2>1, <2>2, FS_CardinalityType, FS_EmptySet
    <2> QED  BY <2>2, <2>3
  <1>3. ASSUME NEW i \in I, NEW k \in I, s[i].id < s[k].id  PROVE Rank[i] < Rank[k]
    <2>1. UpTo(i) \in SUBSET UpTo(k)  BY <1>3
    <2>2. k \in UpTo(k) /\ k \notin UpTo(i)  BY <1>3
    <2> HIDE DEF UpTo
    <2>3. Cardinality(UpTo(i)) <= Cardinality(UpTo(k))
          /\ Cardinality(UpTo(i)) # Cardinality(UpTo(k))
      BY <2>1, <2>2, <1>2, FS_Subset
    <2>4. Cardinality(UpTo(i)) \in Nat /\ Cardinality(UpTo(k)) \in Nat  BY <1>2
    <2> QED  BY <2>3, <2>4
  <1>4. Rank \in [I -> I]  BY Zenon, <1>2
  <1> HIDE DEF UpTo, Rank
  <1>5. Rank \in Injection(I, I)
    <2>1. ASSUME NEW i \in I, NEW k \in I, Rank[i] = Rank[k]  PROVE i = k
      <3>1. Rank[i] \in Nat /\ Rank[k] \in Nat  BY <1>4
      <3>2. ~(s[i].id < s[k].id) /\ ~(s[k].id < s[i].id)  BY <3>1, <2>1, <1>3
      <3>3. s[i].id = s[k].id  BY <3>2
      <3> QED  BY <3>3
    <2> HIDE DEF I
    <2> QED  BY <2>1, <1>4 DEF Injection, IsInjective
  <1>6. Rank \in Surjection(I, I)
    <2> HIDE DEF I
    <2> QED  BY <1>1, <1>5, FS_Injection
  <1>7. \A r \in I : \E i \in I : Rank[i] = r  BY <1>6 DEF Surjection
  <1> DEFINE At(r) == CHOOSE i \in I : Rank[i] = r
             t == [r \in I |-> s[At(r)]]
  <1>8. \A r \in I : At(r) \in I /\ Rank[At(r)] = r  BY <1>7
  <1> HIDE DEF At
  <1>9. t \in [I -> ToSet(s)]  BY <1>8 DEF ToSet
  <1>10. ASSUME NEW i \in I, NEW j \in I, i < j  PROVE t[i].id < t[j].id
    <2>1. At(i) \in I /\ At(j) \in I /\ Rank[At(i)] = i /\ Rank[At(j)] = j  BY <1>8
    <2>2. ~(s[At(j)].id < s[At(i)].id)
      <3>1. ~(j < i)  BY <1>10
      <3> QED  BY <2>1, <3>1, <1>3
    <2>3. s[At(j)].id # s[At(i)].id  BY <2>1, <1>10
    <2>4. s[At(i)].id \in Nat /\ s[At(j)].id \in Nat  BY <2>1
    <2> QED  BY <2>2, <2>3, <2>4
  <1> HIDE DEF t
  <1> QED  BY Zenon, <1>9, <1>10

\* A file has every line once, and its versions in their places.
LEMMA LinesByAge ==
  ASSUME LinesAreSound
  PROVE  /\ \A i \in DOMAIN lines : ByAge[i] \in Lines
         /\ \A i, k \in DOMAIN lines : ByAge[i] = ByAge[k] => i = k
  <1> DEFINE n == Len(lines)
  <1>1. /\ n \in Nat /\ DOMAIN lines = 1 .. n
        /\ \A i \in 1 .. n : lines[i].id \in 1 .. nextLine - 1
        /\ \A i, k \in 1 .. n : lines[i].id = lines[k].id => i = k
    BY LinesOf DEF LinesAreSound
  <1>2. \A i \in 1 .. n : lines[i].id \in Nat  BY <1>1
  <1> HIDE DEF n
  <1>3. \E t \in [DOMAIN lines -> Lines] :
          \A i, j \in DOMAIN lines : i < j => t[i].id < t[j].id
    BY Zenon, <1>1, <1>2, OrderExists DEF Lines
  <1>4. ByAge \in [DOMAIN lines -> Lines]
        /\ \A i, j \in DOMAIN lines : i < j => ByAge[i].id < ByAge[j].id
    BY <1>3 DEF ByAge
  <1>5. \A l \in Lines : l.id \in Nat  BY <1>1, <1>2 DEF Lines, ToSet
  <1>6. ASSUME NEW i \in DOMAIN lines, NEW k \in DOMAIN lines, ByAge[i] = ByAge[k]  PROVE i = k
    <2>1. ByAge[i].id \in Nat /\ ~(ByAge[i].id < ByAge[i].id)  BY <1>4, <1>5
    <2>2. ~(i < k) /\ ~(k < i)  BY <2>1, <1>4, <1>6
    <2>3. i \in Nat /\ k \in Nat  BY <1>1
    <2> QED  BY <2>2, <2>3
  <1> QED  BY <1>4, <1>6

\* The names in a file differ, and its versions are those of the page.
LEMMA NamesOfLines ==
  ASSUME LinesAreSound
  PROVE  /\ \A l \in Lines : NameOf(l, Lines) \in Keys
         /\ \A l, k \in Lines : NameOf(l, Lines) = NameOf(k, Lines) => l = k
         /\ \A v \in AllVersions : NameOf(v, AllVersions) \in Keys
         /\ \A v, w \in AllVersions :
              /\ NameOf(v, AllVersions) = NameOf(w, AllVersions) => v = w
              /\ v.id = w.id => v = w
  <1>1. /\ Len(lines) \in Nat /\ DOMAIN lines = 1 .. Len(lines)
        /\ \A i \in DOMAIN lines :
             /\ lines[i] \in ResumeLines
             /\ Len(lines[i].versions) \in Nat
             /\ DOMAIN lines[i].versions = 1 .. Len(lines[i].versions)
             /\ \A j \in DOMAIN lines[i].versions : lines[i].versions[j] \in Versions
    BY LinesOf DEF LinesAreSound
  <1>2. /\ \A l \in Lines : \E i \in DOMAIN lines : l = lines[i]
        /\ \A v \in AllVersions : \E i \in DOMAIN lines : \E j \in DOMAIN lines[i].versions :
             v = lines[i].versions[j]
    BY DEF Lines, AllVersions, ToSet
  <1>3. IsFiniteSet(Lines)
    <2>1. lines \in Surjection(1 .. Len(lines), Lines)
      <3>1. lines \in [1 .. Len(lines) -> Lines]
        <4>1. \A i \in DOMAIN lines : lines[i] \in Lines  BY DEF Lines, ToSet
        <4>2. lines \in Seq(ResumeLines)  BY DEF LinesAreSound, AreSound
        <4> QED  BY <4>1, <4>2, <1>1
      <3> QED  BY <3>1, <1>1, <1>2 DEF Surjection
    <2>2. IsFiniteSet(1 .. Len(lines))  BY <1>1, FS_Interval
    <2> QED  BY <2>1, <2>2, FS_Surjection
  <1>4. IsFiniteSet(AllVersions)
    <2> DEFINE V(l) == ToSet(l.versions)
               T == {V(l) : l \in Lines}
               f == [l \in Lines |-> V(l)]
    <2>1. f \in Surjection(Lines, T)
      <3> HIDE DEF V
      <3> QED  BY DEF Surjection
    <2>2. IsFiniteSet(T)
      <3> HIDE DEF T, f
      <3> QED  BY <2>1, <1>3, FS_Surjection
    <2>3. ASSUME NEW l \in Lines  PROVE IsFiniteSet(V(l))
      <3>1. PICK i \in DOMAIN lines : l = lines[i]  BY <1>2
      <3> DEFINE s == l.versions
      <3>2. s \in Seq(Versions) /\ Len(s) \in Nat /\ DOMAIN s = 1 .. Len(s)
        BY <3>1, <1>1 DEF ResumeLines
      <3> HIDE DEF s
      <3>3. s \in Surjection(1 .. Len(s), ToSet(s))
        <4>1. s \in [1 .. Len(s) -> ToSet(s)]  BY <3>2 DEF ToSet
        <4> QED  BY <4>1, <3>2 DEF Surjection, ToSet
      <3>4. IsFiniteSet(1 .. Len(s))  BY <3>2, FS_Interval
      <3> QED  BY <3>3, <3>4, FS_Surjection DEF s
    <2>4. \A S \in T : IsFiniteSet(S)  BY <2>3
    <2>5. AllVersions = UNION T  BY DEF AllVersions
    <2> HIDE DEF T
    <2> QED  BY <2>2, <2>4, <2>5, FS_UNION
  <1>5. /\ \A l \in Lines : l.id \in Nat /\ l.key \in Keys
        /\ \A v \in AllVersions : v.id \in Nat /\ v.key \in Keys
    BY <1>1, <1>2 DEF ResumeLines, Versions
  <1>6. \A l, k \in Lines : Same(l, k) => l = k
    BY <1>2 DEF LinesAreSound, AreSound
  <1>7. \A v, w \in AllVersions : Same(v, w) => v = w
    <2> SUFFICES ASSUME NEW v \in AllVersions, NEW w \in AllVersions, Same(v, w)  PROVE v = w
      OBVIOUS
    <2>1. PICK i \in DOMAIN lines : \E j \in DOMAIN lines[i].versions : v = lines[i].versions[j]
      BY <1>2
    <2>2. PICK h \in DOMAIN lines : \E g \in DOMAIN lines[h].versions : w = lines[h].versions[g]
      BY <1>2
    <2> QED  BY <2>1, <2>2 DEF LinesAreSound, AreSound
  <1>8. /\ \A l \in Lines : NameOf(l, Lines) \in Nat \X Nat
        /\ \A l, k \in Lines : NameOf(l, Lines) = NameOf(k, Lines) => l = k
    BY <1>3, <1>5, <1>6, NamesDiffer
  <1>9. /\ \A v \in AllVersions : NameOf(v, AllVersions) \in Nat \X Nat
        /\ \A v, w \in AllVersions : NameOf(v, AllVersions) = NameOf(w, AllVersions) => v = w
    BY <1>4, <1>5, <1>7, NamesDiffer
  <1>10. \A v, w \in AllVersions : v.id = w.id => v = w  BY <1>7 DEF Same
  <1> QED  BY <1>8, <1>9, <1>10 DEF Keys

\* The file of the page is true, and it can be read when no line is but a draft.
LEMMA FileIsWritten ==
  ASSUME LinesAreSound
  PROVE  /\ FileIsTrue(BuildResumeLibrary)
         /\ (\A l \in Lines : ~DraftOnly(l)) => LibraryValid(BuildResumeLibrary)
  <1> DEFINE file == BuildResumeLibrary
             n == Len(lines)
             Vs(l) == l.versions
             Ns(l) == [j \in DOMAIN Vs(l) |->
                         [Vs(l)[j] EXCEPT !.key = NameOf(Vs(l)[j], AllVersions), !.id = 0]]
             SentOut(l) == CHOOSE v \in ToSet(l.versions) : v.id = l.active
  <1>1. /\ n \in Nat /\ DOMAIN lines = 1 .. n
        /\ \A i \in 1 .. n :
             /\ lines[i] \in ResumeLines /\ IsSound(lines[i])
             /\ \A j \in DOMAIN lines[i].versions :
                  VersionValid(lines[i].versions[j]) /\ IsTrue(lines[i].versions[j])
    <2> HIDE DEF Ns, SentOut
    <2> QED  BY LinesOf DEF LinesAreSound
  <1>2. \A i, k \in 1 .. n : \A j \in DOMAIN lines[i].versions, h \in DOMAIN lines[k].versions :
          lines[i].versions[j].id = lines[k].versions[h].id => i = k /\ j = h
    <2> HIDE DEF Ns, SentOut
    <2> QED  BY Zenon, <1>1, LinesOf DEF LinesAreSound
  <1>3. \A l \in Lines :
          /\ l \in ResumeLines /\ IsSound(l)
          /\ \E i \in 1 .. n : l = lines[i]
          /\ Vs(l) \in Seq(Versions) /\ Len(Vs(l)) \in Nat /\ DOMAIN Vs(l) = 1 .. Len(Vs(l))
          /\ \A j \in DOMAIN Vs(l) :
               /\ Vs(l)[j] \in Versions /\ Vs(l)[j] \in AllVersions /\ Vs(l)[j] \in ToSet(Vs(l))
               /\ VersionValid(Vs(l)[j]) /\ IsTrue(Vs(l)[j])
          /\ \A v \in ToSet(Vs(l)) : v \in AllVersions
    <2> SUFFICES ASSUME NEW l \in Lines
                 PROVE  /\ l \in ResumeLines /\ IsSound(l)
                        /\ \E i \in 1 .. n : l = lines[i]
                        /\ Vs(l) \in Seq(Versions) /\ Len(Vs(l)) \in Nat
                        /\ DOMAIN Vs(l) = 1 .. Len(Vs(l))
                        /\ \A j \in DOMAIN Vs(l) :
                             /\ Vs(l)[j] \in Versions /\ Vs(l)[j] \in AllVersions
                             /\ Vs(l)[j] \in ToSet(Vs(l))
                             /\ VersionValid(Vs(l)[j]) /\ IsTrue(Vs(l)[j])
                        /\ \A v \in ToSet(Vs(l)) : v \in AllVersions
      OBVIOUS
    <2>1. \E i \in 1 .. n : l = lines[i]  BY <1>1 DEF Lines, ToSet
    <2>2. PICK i \in 1 .. n : l = lines[i]  BY <2>1
    <2>3. l \in ResumeLines /\ IsSound(l)  BY <2>2, <1>1
    <2>4. Vs(l) \in Seq(Versions) /\ Len(Vs(l)) \in Nat /\ DOMAIN Vs(l) = 1 .. Len(Vs(l))
      BY <2>3 DEF ResumeLines
    <2>5. \A v \in ToSet(Vs(l)) : v \in AllVersions  BY DEF AllVersions
    <2>6. \A j \in DOMAIN Vs(l) : Vs(l)[j] \in Versions /\ Vs(l)[j] \in ToSet(Vs(l))
      BY <2>4 DEF ToSet
    <2> QED  BY <2>1, <2>2, <2>3, <2>4, <2>5, <2>6, <1>1
  <1>4. \A l \in Lines :
          /\ DOMAIN Ns(l) = DOMAIN Vs(l)
          /\ \A j \in DOMAIN Vs(l) :
               /\ Ns(l)[j] \in Versions /\ Ns(l)[j].status = Vs(l)[j].status
               /\ Ns(l)[j].key = NameOf(Vs(l)[j], AllVersions)
               /\ VersionValid(Ns(l)[j]) /\ IsTrue(Ns(l)[j])
    <2> SUFFICES ASSUME NEW l \in Lines, NEW j \in DOMAIN Vs(l)
                 PROVE  /\ Ns(l)[j] \in Versions /\ Ns(l)[j].status = Vs(l)[j].status
                        /\ Ns(l)[j].key = NameOf(Vs(l)[j], AllVersions)
                        /\ VersionValid(Ns(l)[j]) /\ IsTrue(Ns(l)[j])
      BY Zenon
    <2> DEFINE v == Vs(l)[j]
               name == NameOf(v, AllVersions)
    <2>1. v \in Versions /\ VersionValid(v) /\ IsTrue(v) /\ name \in Keys
      BY <1>3, NamesOfLines
    <2>2. Ns(l)[j] = [v EXCEPT !.key = name, !.id = 0]  BY Zenon
    <2> HIDE DEF v, name, Ns
    <2>3. /\ Ns(l)[j] \in Versions /\ Ns(l)[j].status = v.status /\ Ns(l)[j].key = name
          /\ Ns(l)[j].provenance = v.provenance /\ Ns(l)[j].source = v.source
          /\ Ns(l)[j].text = v.text
      <3> DEFINE w == Ns(l)[j]
      <3>1. v = [id |-> v.id, key |-> v.key, status |-> v.status, source |-> v.source,
                 text |-> v.text, provenance |-> v.provenance]
        BY <2>1 DEF Versions
      <3>2. w = [id |-> 0, key |-> name, status |-> v.status, source |-> v.source,
                 text |-> v.text, provenance |-> v.provenance]
        <4> HIDE DEF w
        <4>1. w = [v EXCEPT !.key = name, !.id = 0]  BY <2>2 DEF w
        <4> QED  BY Zenon, <3>1, <4>1
      <3> HIDE DEF w
      <3>3. w \in Versions  BY <2>1, <3>2 DEF Versions
      <3> QED  BY <3>2, <3>3 DEF w
    <2> QED  BY <2>1, <2>3 DEF VersionValid, IsTrue, v, name
  <1>5. \A l \in Lines : Ns(l) \in Seq(Versions)
    <2> SUFFICES ASSUME NEW l \in Lines  PROVE Ns(l) \in Seq(Versions)
      BY Zenon
    <2>1. Ns(l) \in [1 .. Len(Vs(l)) -> Versions]
      <3>1. DOMAIN Vs(l) = 1 .. Len(Vs(l))  BY <1>3
      <3>2. \A j \in DOMAIN Vs(l) :
              [Vs(l)[j] EXCEPT !.key = NameOf(Vs(l)[j], AllVersions), !.id = 0] \in Versions
        BY Zenon, <1>4
      <3> QED  BY Zenon, <3>1, <3>2
    <2>2. Len(Vs(l)) \in Nat  BY <1>3
    <2> HIDE DEF Ns
    <2> QED  BY <2>1, <2>2
  <1>6. \A l \in Lines : SentOut(l) \in ToSet(Vs(l)) /\ SentOut(l) \in AllVersions
                         /\ (SentOut(l).status # "draft" \/ DraftOnly(l))
    <2> SUFFICES ASSUME NEW l \in Lines
                 PROVE  SentOut(l) \in ToSet(Vs(l)) /\ SentOut(l) \in AllVersions
                        /\ (SentOut(l).status # "draft" \/ DraftOnly(l))
      OBVIOUS
    <2>1. PICK u \in ToSet(Vs(l)) : u.id = l.active /\ (u.status # "draft" \/ DraftOnly(l))
      BY <1>3 DEF IsSound
    <2>2. SentOut(l) \in ToSet(Vs(l)) /\ SentOut(l).id = l.active  BY <2>1
    <2> HIDE DEF SentOut
    <2>3. SentOut(l) = u  BY <2>1, <2>2, <1>3, NamesOfLines
    <2> QED  BY <2>1, <2>2, <2>3, <1>3
  <1>7. \A l \in Lines :
          /\ Filed(l).key = NameOf(l, Lines) /\ Filed(l).versions = Ns(l)
          /\ Filed(l).active = NameOf(SentOut(l), AllVersions)
          /\ Filed(l).title = l.title
          /\ Filed(l) = [key |-> Filed(l).key, title |-> Filed(l).title,
                         active |-> Filed(l).active, versions |-> Filed(l).versions]
    BY DEF Filed
  <1> HIDE DEF Ns, SentOut
  <1>8. \A l \in Lines : Filed(l) \in FiledLines
    <2> SUFFICES ASSUME NEW l \in Lines  PROVE Filed(l) \in FiledLines
      OBVIOUS
    <2>1. NameOf(l, Lines) \in Keys /\ NameOf(SentOut(l), AllVersions) \in Keys
      BY <1>6, NamesOfLines
    <2>2. l.title \in Titles  BY <1>3 DEF ResumeLines
    <2> QED  BY <2>1, <2>2, <1>5, <1>7 DEF FiledLines
  <1>9. \A i \in 1 .. n : ByAge[i] \in Lines  BY <1>1, LinesByAge
  <1>10. file \in Seq(FiledLines) /\ DOMAIN file = 1 .. n
         /\ \A i \in 1 .. n : file[i] = Filed(ByAge[i])
    BY <1>1, <1>8, <1>9 DEF BuildResumeLibrary
  <1> HIDE DEF file, n
  <1>11. \A x \in ToSet(file) : \E l \in Lines : x = Filed(l)
    BY <1>9, <1>10 DEF ToSet
  <1>12. FileIsTrue(file)
    <2>1. \A l \in Lines : \A v \in ToSet(Filed(l).versions) : IsTrue(v)
      BY <1>4, <1>7 DEF ToSet
    <2> QED  BY <2>1, <1>10, <1>11 DEF FileIsTrue
  <1>13. ASSUME \A l \in Lines : ~DraftOnly(l)  PROVE LibraryValid(file)
    <2>1. ASSUME NEW i \in 1 .. n, NEW k \in 1 .. n
          PROVE  /\ file[i].key = file[k].key => i = k
                 /\ \A j \in DOMAIN file[i].versions, m \in DOMAIN file[k].versions :
                      file[i].versions[j].key = file[k].versions[m].key => i = k /\ j = m
      <3> DEFINE a == ByAge[i]
                 b == ByAge[k]
      <3>1. /\ a \in Lines /\ b \in Lines /\ (a = b => i = k)
            /\ file[i].key = NameOf(a, Lines) /\ file[k].key = NameOf(b, Lines)
            /\ file[i].versions = Ns(a) /\ file[k].versions = Ns(b)
        BY <1>1, <1>7, <1>9, <1>10, LinesByAge
      <3> HIDE DEF a, b
      <3>2. file[i].key = file[k].key => i = k  BY Zenon, <3>1, NamesOfLines
      <3>3. ASSUME NEW j \in DOMAIN Vs(a), NEW m \in DOMAIN Vs(b), Ns(a)[j].key = Ns(b)[m].key
            PROVE  i = k /\ j = m
        <4>1. NameOf(Vs(a)[j], AllVersions) = NameOf(Vs(b)[m], AllVersions)
          BY <3>1, <3>3, <1>4
        <4>2. Vs(a)[j] = Vs(b)[m]
          <5>1. Vs(a)[j] \in AllVersions /\ Vs(b)[m] \in AllVersions  BY <3>1, <1>3
          <5> QED  BY <4>1, <5>1, NamesOfLines
        <4>3. PICK p \in 1 .. n : a = lines[p]  BY <3>1, <1>3
        <4>4. PICK q \in 1 .. n : b = lines[q]  BY <3>1, <1>3
        <4>5. p = q /\ j = m  BY <4>2, <4>3, <4>4, <1>2
        <4> QED  BY <4>3, <4>4, <4>5, <3>1
      <3> QED  BY <3>1, <3>2, <3>3, <1>4
    <2>2. ASSUME NEW l \in Lines
          PROVE  /\ OneDraft(Filed(l))
                 /\ \E v \in ToSet(Filed(l).versions) :
                      v.key = Filed(l).active /\ v.status # "draft"
                 /\ \A v \in ToSet(Filed(l).versions) : VersionValid(v)
      <3>1. OneDraft(Filed(l))
        <4>1. OneDraft(l)  BY <1>3 DEF IsSound
        <4> QED  BY <4>1, <1>4, <1>7 DEF OneDraft
      <3>2. PICK j \in DOMAIN Vs(l) : SentOut(l) = Vs(l)[j]
        <4>1. SentOut(l) \in ToSet(Vs(l))  BY <1>6
        <4> QED  BY <4>1 DEF ToSet
      <3>3. SentOut(l).status # "draft"  BY <1>6, <1>13
      <3>4. /\ Ns(l)[j] \in ToSet(Filed(l).versions) /\ Ns(l)[j].key = Filed(l).active
            /\ Ns(l)[j].status # "draft"
        BY <3>2, <3>3, <1>4, <1>7 DEF ToSet
      <3>5. \A v \in ToSet(Filed(l).versions) : VersionValid(v)
        BY <1>4, <1>7 DEF ToSet
      <3> QED  BY <3>1, <3>4, <3>5
    <2>3. \A x \in ToSet(file) :
            /\ OneDraft(x)
            /\ \E v \in ToSet(x.versions) : v.key = x.active /\ v.status # "draft"
            /\ \A v \in ToSet(x.versions) : VersionValid(v)
      BY <2>2, <1>11
    <2> QED  BY <2>1, <2>3, <1>10 DEF LibraryValid
  <1> QED  BY <1>12, <1>13 DEF file
-----------------------------------------------------------------------------
\* The page.

\* The page starts from the lines it is delivered with, in a file of its own or of
\* another machine.
LEMMA PageIsDelivered ==
  AreSound(Delivered, Len(Delivered) + 1, FirstVersion)
  /\ Len(Delivered) + 1 \in Nat \ {0} /\ FirstVersion \in Nat \ {0}
  <1>1. Delivered \in Seq(ResumeLines)  BY DeliveredAssumption DEF AreSound
  <1>2. Len(Delivered) \in Nat /\ DOMAIN Delivered = 1 .. Len(Delivered)
        /\ \A i \in 1 .. Len(Delivered) : Delivered[i].versions \in Seq(Versions)
    <2>1. Len(Delivered) \in Nat /\ DOMAIN Delivered = 1 .. Len(Delivered)  BY <1>1
    <2>2. \A i \in 1 .. Len(Delivered) : Delivered[i] \in ResumeLines  BY <1>1, <2>1
    <2> QED  BY <2>1, <2>2 DEF ResumeLines
  <1>3. \A i \in 1 .. Len(Delivered) :
          /\ Len(Delivered[i].versions) \in Nat
          /\ DOMAIN Delivered[i].versions = 1 .. Len(Delivered[i].versions)
    BY <1>2
  <1>4. Cardinality(Places(Delivered)) \in Nat  BY <1>2, <1>3, PlacesCounted
  <1> QED  BY <1>2, <1>4, DeliveredAssumption DEF FirstVersion

LEMMA ResumesStart == ResumeInit => ResumeInv
  <1> SUFFICES ASSUME ResumeInit  PROVE ResumeInv
    OBVIOUS
  <1>1. LinesAreSound  BY PageIsDelivered DEF ResumeInit, LinesAreSound
  <1>2. library # None => FileIsTrue(library)
    BY ForeignAssumption DEF ResumeInit, FileIsTrue
  <1>3. EditorFits  BY DEF ResumeInit, EditorFits, Closed
  <1> QED  BY <1>1, <1>2, <1>3 DEF ResumeInv

LEMMA LinesStayInPlace == LinesInPlace => LinesStay
  BY DEF LinesInPlace, LinesStay, Lines, ToSet

\* What a line has by its place.
LEMMA LineHasPlace ==
  ASSUME LinesAreSound, NEW l \in Lines
  PROVE  /\ \E k \in DOMAIN lines : l = lines[k]
         /\ l \in ResumeLines
         /\ \A v \in ToSet(l.versions) : v \in Versions
  <1>1. PICK k \in DOMAIN lines : l = lines[k]  BY DEF Lines, ToSet
  <1>2. l \in ResumeLines /\ \A j \in DOMAIN l.versions : l.versions[j] \in Versions
    BY <1>1, LinesOf DEF LinesAreSound
  <1> QED  BY <1>1, <1>2 DEF ToSet

\* Nothing is lost when the lines are not touched.
LEMMA UntouchedKeeps ==
  ASSUME LinesAreSound, UNCHANGED <<lines, nextLine, nextVersion>>
  PROVE  LinesAreSound' /\ StepKeeps /\ LinesStay
  <1>1. LinesAreSound'  BY DEF LinesAreSound
  <1>2. AllVersions' = AllVersions /\ Lines' = Lines  BY DEF AllVersions, Lines
  <1>3. \A v, w \in AllVersions : v.id = w.id => v = w  BY NamesOfLines
  <1> QED  BY <1>1, <1>2, <1>3 DEF StepKeeps, LinesStay

\* A draft is opened, or made.
LEMMA EditingStarts ==
  ASSUME ResumeInv, NEW l \in Lines, StartEditing(l)
  PROVE  ResumeInv' /\ StepKeeps
  <1>1. LinesAreSound  BY DEF ResumeInv
  <1>2. PICK k \in DOMAIN lines : l = lines[k]  BY <1>1, LineHasPlace
  <1>3. LinesAreSound' /\ StepKeeps /\ LinesStay
    <2>1. CASE UNCHANGED <<lines, nextLine, nextVersion>>  BY <2>1, <1>1, UntouchedKeeps
    <2>2. CASE \E base \in Application(l) : CreateResumeDraft(l, "manual", base.text)
      <3>1. PICK base \in Application(l) : CreateResumeDraft(l, "manual", base.text)  BY <2>2
      <3>2. base.text \in Contents
        <4>1. base \in Versions  BY <1>1, LineHasPlace DEF Application
        <4> QED  BY <4>1 DEF Versions
      <3> QED  BY <3>1, <3>2, <1>1, <1>2, DraftIsCreated, LinesStayInPlace
    <2> QED  BY <2>1, <2>2 DEF StartEditing
  <1>4. editor'.mode = "edit" /\ editor'.line = l.id /\ library' = library
    BY DEF StartEditing
  <1>5. EditorFits'  BY <1>3, <1>4 DEF EditorFits, LinesStay
  <1> QED  BY <1>3, <1>4, <1>5 DEF ResumeInv

\* A draft is saved: its line is still there, by the id the editor was opened on.
LEMMA DraftIsSaved ==
  ASSUME ResumeInv, NEW title \in Titles, NEW text \in Texts, SaveDraft(title, text)
  PROVE  ResumeInv' /\ StepKeeps
  <1> DEFINE l == LineOf(editor.line)
             t == [l EXCEPT !.title = title]
  <1>1. LinesAreSound  BY DEF ResumeInv
  <1>2. editor.mode = "edit" /\ editor' = Closed /\ library' = library
        /\ \E v \in DraftsOf(l) :
             v.id = editor.draft /\ UpdateResumeDraft(t, v, v.source, text)
    BY DEF SaveDraft
  <1>3. l \in Lines
    <2>1. \E k \in Lines : k.id = editor.line  BY <1>2 DEF ResumeInv, EditorFits
    <2> QED  BY <2>1 DEF LineOf
  <1> HIDE DEF l
  <1>4. PICK k \in DOMAIN lines : l = lines[k]  BY <1>1, <1>3, LineHasPlace
  <1>5. PICK v \in DraftsOf(l) :
          v.id = editor.draft /\ UpdateResumeDraft(t, v, v.source, text)
    BY <1>2
  <1>6. v \in DraftsOf(t) /\ v.source \in {"manual", "agent", "import"}
    <2>1. l \in ResumeLines /\ v \in Versions  BY <1>1, <1>3, LineHasPlace DEF DraftsOf
    <2>2. t.versions = l.versions  BY <2>1 DEF ResumeLines
    <2> QED  BY <2>1, <2>2 DEF DraftsOf, Versions
  <1>7. t = [lines[k] EXCEPT !.title = title] /\ text \in Contents  BY <1>4 DEF Contents
  <1> HIDE DEF t
  <1>8. LinesAreSound' /\ StepKeeps
    BY <1>1, <1>5, <1>6, <1>7, DraftIsUpdated
  <1>9. EditorFits'  BY <1>2 DEF EditorFits, Closed
  <1> QED  BY <1>2, <1>8, <1>9 DEF ResumeInv

\* The agent writes the draft of its line.
LEMMA AgentWrites ==
  ASSUME ResumeInv, AgentDraft
  PROVE  ResumeInv' /\ StepKeeps
  <1>1. LinesAreSound /\ editor' = Closed /\ library' = library  BY DEF ResumeInv, AgentDraft
  <1>2. PICK l \in Lines :
          \/ \E v \in DraftsOf(l) : UpdateResumeDraft(l, v, "agent", AgentText)
          \/ CreateResumeDraft(l, "agent", AgentText)
    BY Zenon DEF AgentDraft
  <1>3. PICK k \in DOMAIN lines : l = lines[k]  BY <1>1, LineHasPlace
  <1>4. l \in ResumeLines  BY <1>1, LineHasPlace
  <1>5. l.title \in Titles /\ l = [lines[k] EXCEPT !.title = l.title]
    BY <1>3, <1>4 DEF ResumeLines
  <1>6. AgentText \in Contents  BY DEF Contents
  <1>7. LinesAreSound' /\ StepKeeps
    <2>1. CASE \E v \in DraftsOf(l) : UpdateResumeDraft(l, v, "agent", AgentText)
      <3>1. PICK v \in DraftsOf(l) : UpdateResumeDraft(l, v, "agent", AgentText)  BY <2>1
      <3>2. PICK title \in Titles : l = [lines[k] EXCEPT !.title = title]  BY <1>5
      <3> QED  BY <3>1, <3>2, <1>1, <1>6, DraftIsUpdated
    <2>2. CASE CreateResumeDraft(l, "agent", AgentText)
      BY <2>2, <1>1, <1>3, <1>6, DraftIsCreated
    <2> QED  BY <2>1, <2>2, <1>2
  <1>8. EditorFits'  BY <1>1 DEF EditorFits, Closed
  <1> QED  BY <1>1, <1>7, <1>8 DEF ResumeInv

\* A version of a line is confirmed, marked or chosen while the editor is closed.
LEMMA LineIsTouched ==
  ASSUME ResumeInv, NEW l \in Lines, ConfirmDraft(l) \/ MarkExported(l) \/ SetCurrentVersion(l)
  PROVE  ResumeInv' /\ StepKeeps
  <1>1. LinesAreSound /\ editor = Closed
        /\ UNCHANGED <<nextLine, nextVersion, editor, library>>
    BY DEF ResumeInv, ConfirmDraft, MarkExported, SetCurrentVersion
  <1>2. PICK k \in DOMAIN lines : l = lines[k]  BY <1>1, LineHasPlace
  <1>3. LinesAreSound' /\ StepKeeps
    <2>1. CASE ConfirmDraft(l)
      <3>1. PICK v \in DraftsOf(l) : v.status = "draft" /\ Settle(l, v, "final")
        BY <2>1 DEF ConfirmDraft, FinalizeResumeVersion
      <3>2. v \in ToSet(lines[k].versions)  BY <1>2 DEF DraftsOf
      <3>3. <<v.status, "final">> \in {<<"draft", "final">>, <<"final", "exported">>}
        BY <3>1
      <3> QED  BY <3>1, <3>2, <3>3, <1>1, <1>2, VersionIsSettled
    <2>2. CASE MarkExported(l)
      <3>1. PICK v \in Application(l) : v.status = "final" /\ Settle(l, v, "exported")
        BY <2>2 DEF MarkExported, MarkResumeVersionExported
      <3>2. v \in ToSet(lines[k].versions)  BY <1>2 DEF Application
      <3>3. <<v.status, "exported">> \in {<<"draft", "final">>, <<"final", "exported">>}
        BY <3>1
      <3> QED  BY <3>1, <3>2, <3>3, <1>1, <1>2, VersionIsSettled
    <2>3. CASE SetCurrentVersion(l)
      <3>1. PICK v \in ToSet(l.versions) : SetActiveResumeVersion(l, v)
        BY <2>3 DEF SetCurrentVersion
      <3> QED  BY <3>1, <1>1, <1>2, ActiveIsChanged
    <2> QED  BY <2>1, <2>2, <2>3
  <1>4. EditorFits'  BY <1>1 DEF EditorFits, Closed
  <1> QED  BY <1>1, <1>3, <1>4 DEF ResumeInv

\* A new line is written, or read from a file.
LEMMA LineIsAdded ==
  ASSUME ResumeInv,
         \/ \E title \in Titles, text \in Texts : SaveNew(title, text)
         \/ \E file \in Imports : ImportFile(file)
  PROVE  ResumeInv' /\ StepKeeps
  <1>1. LinesAreSound /\ library' = library  BY DEF ResumeInv, SaveNew, ImportFile
  <1>2. CASE \E title \in Titles, text \in Texts : SaveNew(title, text)
    <2>1. PICK title \in Titles, text \in Texts : SaveNew(title, text)  BY <1>2
    <2>2. Prepend("draft", "manual", title, text, None) /\ editor' = Closed
      BY <2>1 DEF SaveNew
    <2>3. text \in Contents  BY DEF Contents
    <2>4. LinesAreSound' /\ StepKeeps  BY <2>2, <2>3, <1>1, LineIsPrepended
    <2>5. EditorFits'  BY <2>2 DEF EditorFits, Closed
    <2> QED  BY <1>1, <2>4, <2>5 DEF ResumeInv
  <1>3. CASE \E file \in Imports : ImportFile(file)
    <2>1. PICK file \in Imports : ImportFile(file)  BY <1>3
    <2> DEFINE p == InputOf(file).provenance
    <2>2. /\ file.title \in Titles /\ file.text \in Contents /\ file.plan \in SUBSET PlanFields
      BY ForeignAssumption
    <2>3. p \in [of : Contents \cup {None}, plan : SUBSET PlanFields] /\ p.of = file.text
          /\ InputOf(file).title = file.title /\ InputOf(file).text = file.text
      BY <2>2 DEF InputOf
    <2>4. Prepend("final", "import", file.title, file.text, p)
          /\ editor' = IF editor.mode = "edit" THEN [editor EXCEPT !.line = nextLine] ELSE editor
      BY <2>1, <2>3 DEF ImportFile
    <2> HIDE DEF p
    <2>5. LinesAreSound' /\ StepKeeps /\ LineIsNew
      <3>1. p \in {None} \cup [of : Contents \cup {None}, plan : SUBSET PlanFields]
            /\ (p # None => p.of \in {None, file.text})
        BY <2>3
      <3> QED  BY <2>2, <2>4, <3>1, <1>1, LineIsPrepended
    <2>6. EditorFits'
      <3>1. CASE editor.mode = "edit"
        BY <3>1, <2>4, <2>5 DEF EditorFits, LineIsNew
      <3>2. CASE editor.mode # "edit"
        BY <3>2, <2>4 DEF ResumeInv, EditorFits
      <3> QED  BY <3>1, <3>2
    <2> QED  BY <1>1, <2>5, <2>6 DEF ResumeInv
  <1> QED  BY <1>2, <1>3

\* The file is written or read.
LEMMA LibraryStaysTrue ==
  ASSUME ResumeInv, DownloadLibrary \/ ReadLibrary
  PROVE  ResumeInv' /\ StepKeeps
  <1>1. LinesAreSound /\ editor' = editor /\ editor = Closed
    BY DEF ResumeInv, DownloadLibrary, ReadLibrary
  <1>2. EditorFits'  BY <1>1 DEF EditorFits, Closed
  <1>3. CASE DownloadLibrary
    <2>1. library' = BuildResumeLibrary /\ UNCHANGED <<lines, nextLine, nextVersion>>
      BY <1>3 DEF DownloadLibrary
    <2>2. FileIsTrue(BuildResumeLibrary)  BY <1>1, FileIsWritten
    <2>3. FileIsTrue(library')  BY <2>1, <2>2
    <2> QED  BY <2>1, <2>3, <1>1, <1>2, UntouchedKeeps DEF ResumeInv
  <1>4. CASE ReadLibrary
    <2>1. library # None /\ LibraryValid(library) /\ ReplaceFromLibrary(library)
          /\ library' = library
      BY <1>4 DEF ReadLibrary
    <2>2. FileIsTrue(library)  BY <2>1 DEF ResumeInv
    <2>3. LinesAreSound' /\ \A v \in AllVersions, w \in AllVersions' : w.id # v.id
      BY <2>1, <2>2, <1>1, LibraryIsRead
    <2>4. StepKeeps  BY <2>3, <1>4 DEF StepKeeps
    <2>5. FileIsTrue(library')  BY <2>1, <2>2
    <2> QED  BY <2>3, <2>4, <2>5, <1>2 DEF ResumeInv
  <1> QED  BY <1>3, <1>4

LEMMA ResumesGoOn ==
  ResumeInv /\ [ResumeNext]_resumeVars =>
    ResumeInv' /\ (UNCHANGED resumeVars \/ ReloadPage \/ StepKeeps)
  <1> SUFFICES ASSUME ResumeInv, [ResumeNext]_resumeVars
               PROVE  ResumeInv' /\ (UNCHANGED resumeVars \/ ReloadPage \/ StepKeeps)
    OBVIOUS
  <1>1. CASE UNCHANGED resumeVars
    BY <1>1 DEF resumeVars, ResumeInv, LinesAreSound, FileIsTrue, EditorFits, Lines
  <1>2. CASE \E l \in Lines :
               StartEditing(l) \/ ConfirmDraft(l) \/ MarkExported(l) \/ SetCurrentVersion(l)
    BY <1>2, EditingStarts, LineIsTouched
  <1>3. CASE StartCreating \/ CloseVersion
    <2>1. UNCHANGED <<lines, nextLine, nextVersion, library>>
          /\ editor'.mode \in {"create", "closed"}
      BY <1>3 DEF StartCreating, CloseVersion, Closed
    <2>2. EditorFits'  BY <2>1 DEF EditorFits
    <2> QED  BY <2>1, <2>2, UntouchedKeeps DEF ResumeInv
  <1>4. CASE \E title \in Titles, text \in Texts : SaveNew(title, text)
    BY <1>4, LineIsAdded
  <1>5. CASE \E title \in Titles, text \in Texts : SaveDraft(title, text)
    BY <1>5, DraftIsSaved
  <1>6. CASE \E file \in Imports : ImportFile(file)
    BY <1>6, LineIsAdded
  <1>7. CASE AgentDraft
    BY <1>7, AgentWrites
  <1>8. CASE DownloadLibrary \/ ReadLibrary
    BY <1>8, LibraryStaysTrue
  <1>9. CASE ReloadPage
    <2>1. /\ lines' = Delivered /\ nextLine' = Len(Delivered) + 1 /\ nextVersion' = FirstVersion
          /\ editor' = Closed /\ library' = library
      BY <1>9 DEF ReloadPage
    <2>2. LinesAreSound'  BY <2>1, PageIsDelivered DEF LinesAreSound
    <2>3. EditorFits'  BY <2>1 DEF EditorFits, Closed
    <2> QED  BY <2>1, <2>2, <2>3, <1>9 DEF ResumeInv
  <1> QED  BY <1>1, <1>2, <1>3, <1>4, <1>5, <1>6, <1>7, <1>8, <1>9 DEF ResumeNext

LEMMA ExportHolds == ResumeInv => ExportIsTrue
  <1> SUFFICES ASSUME ResumeInv  PROVE ExportIsTrue
    OBVIOUS
  <1>1. (\A l \in Lines : ~DraftOnly(l)) => LibraryValid(BuildResumeLibrary)
    BY FileIsWritten DEF ResumeInv
  <1>2. \A l \in Lines : \A v \in ToSet(l.versions) : IsTrue(v)
    BY DEF ResumeInv, LinesAreSound, AreSound, IsSound, Lines
  <1> QED  BY <1>1, <1>2 DEF ExportIsTrue, IsTrue

\* What the page would write, whatever was imported, edited, read and loaded again
\* before, can be read, and its fingerprints are of the texts beside them
\* (buildResumeLibrary and what the page and the command line tool ask of a file).
THEOREM ExportsAreTrue == ResumeSpec => []ExportIsTrue
  <1>1. ResumeInv /\ [ResumeNext]_resumeVars => ResumeInv'  BY ResumesGoOn
  <1> QED  BY <1>1, ResumesStart, ExportHolds, PTL DEF ResumeSpec

\* As long as the page is not loaded again: what is final keeps its text and its
\* place, a draft is changed by the editor opened on it or by the agent, and only a
\* library that is read takes anything away (the store of studentWorkbench.ts).
THEOREM VersionsStay == ResumeSpec => VersionsAreKept
  <1>1. ResumeInv /\ [ResumeNext]_resumeVars => ResumeInv'  BY ResumesGoOn
  <1>2. ResumeInv /\ [ResumeNext]_resumeVars => [~ReloadPage => StepKeeps]_resumeVars
    BY ResumesGoOn
  <1>3. ResumeSpec => [][~ReloadPage => StepKeeps]_resumeVars
    BY <1>1, <1>2, ResumesStart, PTL DEF ResumeSpec
  <1> QED  BY <1>3 DEF VersionsAreKept, StepKeeps
-----------------------------------------------------------------------------
\* The pages together: a behaviour plays one scene and leaves the others alone.

PagesInv ==
  /\ SessionInv /\ PanelInv /\ ConsoleInv /\ SelectionInv
  /\ JudgeInv /\ WeekInv /\ EventsInv

LEMMA PagesStart == MCInit => PagesInv
  BY SessionStarts, PanelStarts, ConsoleStarts, SelectionStarts, JudgesStart, WeekStarts,
     EventsStart DEF MCInit, PagesInv

\* A step of the instance is a step of one page, or of none.
LEMMA PagesTakeTurns ==
  [MCNext]_vars =>
    /\ [SessionNext]_sessionVars /\ [PanelNext]_panelVars /\ [ConsoleNext]_consoleVars
    /\ [SelectionNext]_selectionVars /\ [JudgeNext]_judgeVars /\ [WeekNext]_weekVars
    /\ [EventsNext]_eventsVars
  BY DEF MCNext, vars

\* Every step keeps the invariants.
LEMMA PagesStep == PagesInv /\ [MCNext]_vars => PagesInv'
  BY PagesTakeTurns, SessionSteps, PanelSteps, ConsoleSteps, SelectionSteps, JudgesStep,
     WeekSteps, EventsStep DEF PagesInv

LEMMA PagesHold == PagesInv => PagesAreTrue
  BY SessionHolds, PanelHolds, ConsoleHolds, SelectionHolds, JudgesHold, WeekHolds, EventsHold
     DEF PagesInv, PagesAreTrue

\* What a page says is what the backend and the user said to it, whatever calls overlap,
\* are lost or come late, unless the page is said to be in doubt (the pages and dialogs of
\* the student, the store of the session and the router).
THEOREM PagesTellTheTruth == MCSpec => []PagesAreTrue
  BY PagesStart, PagesStep, PagesHold, PTL DEF MCSpec
=============================================================================
