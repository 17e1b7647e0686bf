---------------------------- MODULE BackendProofs ----------------------------
(***************************************************************************)
(* Services of the backend, each on its own part of the state: what is     *)
(* derived from rows agrees with the rows, for any number of events,       *)
(* users, threads and requests; and the binding of workbenches, for any    *)
(* number of clients and codes, any limit and any number of lost replies.  *)
(***************************************************************************)
EXTENDS MCBackend, FiniteSetTheorems, TLAPS

-----------------------------------------------------------------------------
\* The binding of workbenches, see DeviceBinding: what the server calls an
\* active device and what the clients keep are the same, a code binds one device
\* once, and the limit holds although it is only read; and what of this a status
\* call, or two binds at once, can undo.

\* Codes are given out in order.
CodesAreDense == \E k \in 0 .. MaxCodes : Created = 1 .. k

\* What a row holds fits its status.
RowsAreSound ==
  /\ \A d \in With("active") : rows[d].install # None
  /\ \A d \in With("pending") : rows[d].install = None

\* The client c has the token of code d, in its file or on the way there.
Holds(c, d) ==
  \/ files[c].binding = d
  \/ client[c].at \in {"installed", "bound"} /\ client[c].code = d

\* An installation is that of the client that has the token of d, or none.
Fits(d, install) ==
  \A c \in Clients :
    /\ files[c].binding = d => install \in {files[c].install, None}
    /\ client[c].at \in {"installed", "bound"} /\ client[c].code = d =>
         install \in {client[c].install, None}

\* A command works on a code that was given out, with the installation of its
\* file if there is one; a credential it is about to replace is no longer active,
\* if no status call brought it back.
CommandIsSound(c) ==
  /\ client[c].at \in {"replace", "bind", "installed", "bound"} =>
       /\ client[c].code \in Created /\ client[c].install # None
       /\ files[c].install \in {None, client[c].install}
  /\ client[c].at = "bound" => files[c].install # None
  /\ client[c].install # None => client[c].install[1] = c
  /\ files[c].install # None => files[c].install[1] = c
  /\ "status" \notin races /\ client[c].at \in {"bind", "installed", "bound", "left"} =>
       files[c].binding \notin With("active")
  /\ files[c].binding # None => files[c].install # None

\* A row that was read, and what is about to be written of it: no pending row has
\* an installation, and one that is bound has its own.
CopyIsSound(d, row) ==
  /\ d \in Created /\ row \in Row
  /\ Fits(d, row.install)
  /\ d \in With("pending") => row.install = None

PageIsSound(p) ==
  web[p] # None => \A d \in DOMAIN web[p].rows :
    /\ CopyIsSound(d, web[p].rows[d])
    /\ web[p].rows[d].status \in {"revoked", "expired"}

\* A status call has the row as it is, or as it was before it ended, and so have
\* all that are open.
CheckIsSound(c) ==
  check[c] # None =>
    /\ CopyIsSound(check[c].device, check[c].row)
    /\ check[c].device \notin With("pending")
    /\ check[c].row.status = "active" /\ check[c].row.install # None
    /\ check[c].device \in With("active") => rows[check[c].device] = check[c].row
    /\ \A b \in Clients : check[b] # None /\ check[b].device = check[c].device =>
         check[b].row = check[c].row

\* A bind has its row.  If no status call brought a device back it knows of every
\* active device of its installation; and if besides it is the only one, it leaves
\* room for its own.
BindIsSound(c) ==
  server[c] # None =>
    /\ client[c].at = "bind" /\ client[c].code \in With("pending")
    /\ \A b \in Clients \ {c} : server[b] # None =>
         client[b].code # client[c].code /\ "binds" \in races
    /\ server[c].previous # None =>
         /\ server[c].previous \in Created \ With("pending")
         /\ Fits(server[c].previous, client[c].install)
    /\ "status" \notin races => \A d \in With("active") :
         rows[d].install = client[c].install => d = server[c].previous
    /\ races = {} => Refused(c) \/ Cardinality(With("active") \ {server[c].previous}) < MaxActive

CommandsAreSound == \A c \in Clients : CommandIsSound(c)
PagesAreSound == \A p \in Pages : PageIsSound(p)
ChecksAreSound == \A c \in Clients : CheckIsSound(c)
BindsAreSound == \A c \in Clients : BindIsSound(c)

\* A token is that of a bound device, and one client's.
TokensAreOwn ==
  \A c \in Clients : \A d \in Codes : Holds(c, d) =>
    d \in Created \ With("pending") /\ \A b \in Clients \ {c} : ~Holds(b, d)

DevicesFit == \A d \in Created : Fits(d, rows[d].install)

BindingInv ==
  /\ TypeOK
  /\ CodesAreDense /\ RowsAreSound
  /\ CommandsAreSound /\ PagesAreSound /\ ChecksAreSound /\ BindsAreSound
  /\ TokensAreOwn /\ DevicesFit
  /\ ActiveDevices /\ ActiveIsHeld

-----------------------------------------------------------------------------

LEMMA ActiveAreFinite ==
  ASSUME NEW S \in SUBSET Codes
  PROVE  IsFiniteSet(S) /\ Cardinality(S) \in Nat
<1>1. IsFiniteSet(Codes)
  BY BoundsAssumption, FS_Interval DEF Codes
<1> QED
  BY <1>1, FS_Subset, FS_CardinalityType

\* A row that is read: who has its token has its installation.
LEMMA RowIsOwn ==
  ASSUME BindingInv, NEW d \in Created
  PROVE  /\ d \in Codes /\ rows[d] \in Row /\ rows[d].install \in Installs \cup {None}
         /\ Fits(d, rows[d].install) /\ Fits(d, None)
         /\ \A c \in Clients : Holds(c, d) => d \notin With("pending")
BY DEF BindingInv, Created, TypeOK, Row, DevicesFit, Fits, TokensAreOwn

LEMMA RevokedRow ==
  ASSUME NEW row \in Row
  PROVE  Revoked(row) \in Row /\ Revoked(row).status = "revoked" /\ Revoked(row).install = row.install
BY DEF Row, Revoked

\* What a step does to the rows, but for a bind or a status call: some end, and new
\* ones are pending.
RowsGoOn ==
  \A d \in Codes :
    \/ rows'[d] = rows[d]
    \/ /\ d \in Created /\ ~Locked(d)
       /\ rows'[d] \in Row /\ rows'[d].status \in {"revoked", "expired"}
       /\ Fits(d, rows'[d].install)
    \/ d \notin Created /\ rows'[d] = [status |-> "pending", install |-> None]

\* What follows for the sets of rows.
LEMMA RowsAfter ==
  ASSUME BindingInv, RowsGoOn, TypeOK'
  PROVE  /\ Created \subseteq Created' /\ Created' \subseteq Codes
         /\ With("active")' \subseteq With("active")
         /\ \A d \in With("active")' : rows'[d] = rows[d]
         /\ \A d \in With("pending")' : d \notin Created \/ d \in With("pending")
         /\ \A d \in With("pending")' : rows'[d].install = None
         /\ \A d \in With("pending") : Locked(d) => d \in With("pending")'
<1> USE NoneAssumption DEF BindingInv
<1>1. PICK new : new = [status |-> "pending", install |-> None]
  OBVIOUS
<1>2. new \in Row /\ new.status = "pending" /\ new.install = None
  BY <1>1 DEF Row
<1>3. \A d \in Codes : /\ d \notin Created => rows[d] = None
                       /\ d \in Created => rows[d] \in Row
  BY DEF TypeOK, Created
<1>4. \A d \in Codes :
        \/ rows'[d] = rows[d]
        \/ /\ d \in Created /\ ~Locked(d)
           /\ rows'[d] \in Row /\ rows'[d].status \in {"revoked", "expired"}
        \/ d \notin Created /\ rows'[d] = new
  BY <1>1 DEF RowsGoOn
<1>5. Created \subseteq Created' /\ Created' \subseteq Codes /\ Created \subseteq Codes
  BY <1>3, <1>4 DEF Created
<1>6. ASSUME NEW d \in With("active")' PROVE d \in With("active") /\ rows'[d] = rows[d]
  <2>1. d \in Codes /\ d \in Created' /\ rows'[d].status = "active" /\ rows'[d] # None
    BY <1>5 DEF With, Created
  <2>2. rows'[d] = rows[d] /\ d \in Created
    BY <1>2, <1>3, <1>4, <2>1
  <2> QED
    BY <2>1, <2>2 DEF With
<1>7. \A d \in With("pending")' : d \notin Created \/ d \in With("pending")
  BY <1>5, <1>4 DEF With
<1>8. \A d \in With("pending")' : rows'[d].install = None
  BY <1>2, <1>3, <1>4, <1>5, <1>7 DEF With, RowsAreSound, Created
<1>9. ASSUME NEW d \in With("pending"), Locked(d) PROVE d \in With("pending")'
  <2>1. d \in Created /\ d \in Codes /\ rows[d].status = "pending"
    BY <1>5 DEF With
  <2>2. rows'[d] = rows[d]
    BY <1>4, <1>9, <2>1
  <2> QED
    BY <1>5, <2>1, <2>2 DEF With
<1> QED
  BY <1>5, <1>6, <1>7, <1>8, <1>9

\* Tokens stay with the clients that have them, and so do the installations.
TokensStay ==
  /\ \A c \in Clients, d \in Codes : Holds(c, d)' => Holds(c, d)
  /\ \A d \in Codes, install \in Installs \cup {None} : Fits(d, install) => Fits(d, install)'

\* A step that takes no token away from a client and gives it none.
LEMMA NothingWritten ==
  ASSUME BindingInv, files' = files,
         \A c \in Clients : client'[c] = client[c] \/ client'[c].at \notin {"installed", "bound"}
  PROVE  TokensStay
BY DEF TokensStay, Holds, Fits

\* A copy of a row stays sound.
LEMMA CopyStays ==
  ASSUME BindingInv, RowsGoOn, TypeOK', TokensStay, NEW d \in Codes, NEW row, CopyIsSound(d, row)
  PROVE  CopyIsSound(d, row)'
<1>1. row.install \in Installs \cup {None}
  BY DEF CopyIsSound, Row
<1>2. Fits(d, row.install)'
  BY <1>1 DEF CopyIsSound, TokensStay
<1> QED
  BY <1>2, RowsAfter DEF CopyIsSound

LEMMA DevicesStayFit ==
  ASSUME BindingInv, RowsGoOn, TypeOK', TokensStay
  PROVE  DevicesFit'
<1> SUFFICES ASSUME NEW d \in Created' PROVE Fits(d, rows[d].install)'
  BY DEF DevicesFit
<1> USE NoneAssumption
<1>1. d \in Codes /\ rows'[d] \in Row /\ rows'[d].install \in Installs \cup {None}
  BY DEF Created, TypeOK, Row
<1>2. Fits(d, rows'[d].install)
  <2>1. CASE d \in Created
    <3>1. Fits(d, rows[d].install)
      BY <2>1, RowIsOwn
    <3> QED
      BY <1>1, <2>1, <3>1 DEF RowsGoOn
  <2>2. CASE d \notin Created
    <3>1. \A c \in Clients : ~Holds(c, d)
      BY <1>1, <2>2 DEF BindingInv, TokensAreOwn
    <3> QED
      BY <3>1 DEF Fits, Holds
  <2> QED
    BY <2>1, <2>2
<1>3. PICK install : install = rows'[d].install
  OBVIOUS
<1>4. Fits(d, install)'
  BY <1>1, <1>2, <1>3 DEF TokensStay
<1> QED
  BY <1>3, <1>4

\* What was read by the pages and the status calls stays sound.
LEMMA CopiesGoOn ==
  ASSUME BindingInv, RowsGoOn, TypeOK', TokensStay,
         \A p \in Pages : web'[p] = web[p] \/ PageIsSound(p)',
         \A c \in Clients : check'[c] = check[c] \/ CheckIsSound(c)'
  PROVE  PagesAreSound' /\ ChecksAreSound'
<1> USE DEF BindingInv
<1>1. ASSUME NEW p \in Pages, web'[p] = web[p] PROVE PageIsSound(p)'
  <2> SUFFICES ASSUME web[p] # None, NEW d \in DOMAIN web[p].rows
               PROVE  /\ CopyIsSound(d, web[p].rows[d])'
                      /\ web[p].rows[d].status \in {"revoked", "expired"}
    BY <1>1 DEF PageIsSound
  <2>1. CopyIsSound(d, web[p].rows[d]) /\ web[p].rows[d].status \in {"revoked", "expired"}
    BY DEF PagesAreSound, PageIsSound
  <2>2. d \in Codes
    BY <2>1 DEF CopyIsSound, Created
  <2>3. PICK row : row = web[p].rows[d]
    OBVIOUS
  <2>4. CopyIsSound(d, row)'
    BY <2>1, <2>2, <2>3, CopyStays
  <2>5. web'[p].rows[d] = row
    BY <1>1, <2>3
  <2> QED
    BY <1>1, <2>1, <2>3, <2>4 DEF CopyIsSound
<1>2. ASSUME NEW c \in Clients, check'[c] = check[c] PROVE CheckIsSound(c)'
  <2> SUFFICES ASSUME check[c] # None PROVE CheckIsSound(c)'
    BY <1>2 DEF CheckIsSound
  <2>1. PICK d, row : d = check[c].device /\ row = check[c].row
    OBVIOUS
  <2>2. /\ CopyIsSound(d, row) /\ d \notin With("pending")
        /\ row.status = "active" /\ row.install # None
        /\ d \in With("active") => rows[d] = row
    BY <2>1 DEF ChecksAreSound, CheckIsSound
  <2>3. d \in Codes /\ d \in Created
    BY <2>2 DEF CopyIsSound, Created
  <2>4. CopyIsSound(d, row)'
    BY <2>2, <2>3, CopyStays
  <2>5. d \notin With("pending")' /\ (d \in With("active")' => rows'[d] = row)
    BY <2>2, <2>3, RowsAfter
  <2>6. ASSUME NEW b \in Clients, check'[b] # None, check'[b].device = d PROVE check'[b].row = row
    <3>1. CASE check'[b] = check[b]
      BY <2>1, <2>6, <3>1 DEF ChecksAreSound, CheckIsSound
    <3>2. CASE CheckIsSound(b)'
      BY <1>2, <2>1, <2>6, <3>2 DEF CheckIsSound
    <3> QED
      BY <3>1, <3>2
  <2> QED
    BY <1>2, <2>1, <2>2, <2>4, <2>5, <2>6 DEF CheckIsSound
<1> QED
  BY <1>1, <1>2 DEF PagesAreSound, ChecksAreSound

\* Fewer active devices leave more room.
LEMMA RoomStays ==
  ASSUME NEW more \in SUBSET Codes, NEW less \in SUBSET more
  PROVE  /\ Cardinality(more) <= MaxActive => Cardinality(less) <= MaxActive
         /\ Cardinality(more) < MaxActive => Cardinality(less) < MaxActive
<1>1. Cardinality(less) <= Cardinality(more)
  BY ActiveAreFinite, FS_Subset
<1>2. PICK s \in Nat, t \in Nat : s = Cardinality(more) /\ t = Cardinality(less)
  BY ActiveAreFinite
<1> QED
  BY <1>1, <1>2, BoundsAssumption

\* The open binds that stay open keep what they know.
LEMMA BindsGoOn ==
  ASSUME BindingInv, RowsGoOn, TypeOK', TokensStay, races' = races,
         \A c \in Clients : server'[c] \in {server[c], None},
         \A c \in Clients : server'[c] # None => client'[c] = client[c]
  PROVE  BindsAreSound'
<1> USE DEF BindingInv
<1> SUFFICES ASSUME NEW c \in Clients, server'[c] # None PROVE BindIsSound(c)'
  BY DEF BindsAreSound, BindIsSound
<1>1. server'[c] = server[c] /\ server[c] # None /\ client'[c] = client[c] /\ BindIsSound(c)
  BY DEF BindsAreSound
<1>2. client[c].code \in With("pending")' /\ client[c].at = "bind"
  <2>1. Locked(client[c].code) /\ client[c].code \in With("pending") /\ client[c].at = "bind"
    BY <1>1 DEF BindIsSound, Locked
  <2> QED
    BY <2>1, RowsAfter
<1>3. \A b \in Clients \ {c} : server'[b] # None =>
        client'[b].code # client'[c].code /\ "binds" \in races'
  BY <1>1 DEF BindIsSound
<1>4. PICK previous, install : previous = server[c].previous /\ install = client[c].install
  OBVIOUS
<1>5. previous # None => previous \in Created' \ With("pending")' /\ Fits(previous, install)'
  <2> SUFFICES ASSUME previous # None
               PROVE  previous \in Created' \ With("pending")' /\ Fits(previous, install)'
    OBVIOUS
  <2>1. previous \in Created \ With("pending") /\ Fits(previous, install)
    BY <1>1, <1>4 DEF BindIsSound
  <2>2. previous \in Codes /\ install \in Installs \cup {None}
    BY <1>4, <2>1 DEF Created, TypeOK, Command
  <2> QED
    BY <2>1, <2>2, RowsAfter DEF TokensStay
<1>6. "status" \notin races' => \A d \in With("active")' : rows'[d].install = install => d = previous
  BY <1>1, <1>4, RowsAfter DEF BindIsSound
<1>7. races' = {} => Refused(c)' \/ Cardinality(With("active")' \ {previous}) < MaxActive
  <2> SUFFICES ASSUME races = {}
               PROVE  Refused(c)' \/ Cardinality(With("active")' \ {previous}) < MaxActive
    OBVIOUS
  <2>1. CASE Refused(c)
    BY <1>1, <2>1 DEF Refused
  <2>2. CASE ~Refused(c)
    <3>1. Cardinality(With("active") \ {previous}) < MaxActive
      BY <1>1, <1>4, <2>2 DEF BindIsSound
    <3>2. With("active") \ {previous} \in SUBSET Codes
          /\ With("active")' \ {previous} \in SUBSET (With("active") \ {previous})
      BY RowsAfter DEF With, Created
    <3> QED
      BY <3>1, <3>2, RoomStays
  <2> QED
    BY <2>1, <2>2
<1> QED
  BY <1>1, <1>2, <1>3, <1>4, <1>5, <1>6, <1>7 DEF BindIsSound

\* A step that is neither a bind nor a status call that brings a device back.
LEMMA GoesOn ==
  ASSUME BindingInv, RowsGoOn, TypeOK', CodesAreDense', TokensStay, races' = races,
         \A p \in Pages : web'[p] = web[p] \/ PageIsSound(p)',
         \A c \in Clients : check'[c] = check[c] \/ CheckIsSound(c)',
         \A c \in Clients : server'[c] \in {server[c], None},
         \A c \in Clients : server'[c] # None => client'[c] = client[c],
         \A c \in Clients : (client'[c] = client[c] /\ files'[c] = files[c]) \/ CommandIsSound(c)',
         lost' = 0 => lost = 0,
         \A c \in Clients, d \in With("active")' :
           lost' = 0 /\ "status" \notin races /\ Holds(c, d) => Holds(c, d)'
  PROVE  BindingInv'
<1> USE DEF BindingInv
<1>1. PagesAreSound' /\ ChecksAreSound' /\ BindsAreSound' /\ DevicesFit'
  BY CopiesGoOn, BindsGoOn, DevicesStayFit
<1>2. RowsAreSound'
  BY RowsAfter DEF RowsAreSound
<1>3. ASSUME NEW c \in Clients, client'[c] = client[c], files'[c] = files[c] PROVE CommandIsSound(c)'
  BY <1>3, RowsAfter DEF CommandsAreSound, CommandIsSound
<1>4. CommandsAreSound'
  BY <1>3 DEF CommandsAreSound
<1>5. TokensAreOwn'
  BY RowsAfter DEF TokensAreOwn, TokensStay
<1>6. ActiveDevices'
  <2>1. With("active") \in SUBSET Codes /\ With("active")' \in SUBSET With("active")
    BY RowsAfter DEF With, Created
  <2>2. races = {} => Cardinality(With("active")') <= MaxActive
    BY <2>1, RoomStays DEF ActiveDevices
  <2>3. "status" \notin races =>
          \A d, e \in With("active")' : rows'[d].install = rows'[e].install => d = e
    BY RowsAfter DEF ActiveDevices
  <2> QED
    BY <2>2, <2>3 DEF ActiveDevices
<1>7. ActiveIsHeld'
  <2> SUFFICES ASSUME lost' = 0, "status" \notin races, NEW d \in With("active")'
               PROVE  \E c \in Clients : Holds(c, d)'
    BY DEF ActiveIsHeld, Holds
  <2>1. lost = 0 /\ d \in With("active")
    BY RowsAfter
  <2>2. PICK c \in Clients : Holds(c, d)
    BY <2>1 DEF ActiveIsHeld, Holds
  <2> QED
    BY <2>2
<1> QED
  BY <1>1, <1>2, <1>4, <1>5, <1>6, <1>7

\* The rows that do not change keep the codes in order.
LEMMA RowsStayThere ==
  ASSUME BindingInv, rows' = rows
  PROVE  RowsGoOn /\ CodesAreDense' /\ Created' = Created /\ With("active")' = With("active")
         /\ With("pending")' = With("pending")
BY DEF BindingInv, RowsGoOn, CodesAreDense, Created, With

\* disconnect by token: the row is not one that is being bound.
LEMMA OwnEnds ==
  ASSUME BindingInv, NEW c \in Clients, RevokeOwn(c)
  PROVE  /\ RowsGoOn /\ CodesAreDense' /\ rows' \in [Codes -> Row \cup {None}]
         /\ files[c].binding \notin With("active")'
<1> USE NoneAssumption DEF BindingInv
<1>1. CASE files[c].binding \notin With("active")
  BY <1>1, RowsStayThere DEF RevokeOwn, TypeOK
<1>2. CASE files[c].binding \in With("active")
  <2>1. PICK d : d = files[c].binding
    OBVIOUS
  <2>2. d \in Codes /\ d \in Created /\ rows[d].status = "active"
    BY <1>2, <2>1 DEF With, Created
  <2>3. PICK row : row = Revoked(rows[d])
    OBVIOUS
  <2>4. row \in Row /\ row.status = "revoked" /\ row.install = rows[d].install
    BY <2>2, <2>3, RowIsOwn, RevokedRow
  <2>5. rows' = [rows EXCEPT ![d] = row]
    BY <1>2, <2>1, <2>3 DEF RevokeOwn
  <2>6. ~Locked(d)
    BY <2>2 DEF BindsAreSound, BindIsSound, Locked, With
  <2>7. Fits(d, row.install)
    BY <2>2, <2>4, RowIsOwn
  <2>8. rows'[d] = row /\ \A e \in Codes \ {d} : rows'[e] = rows[e]
    BY <2>2, <2>5 DEF TypeOK
  <2>9. RowsGoOn /\ rows' \in [Codes -> Row \cup {None}]
    <3>1. RowsGoOn
      BY <2>2, <2>4, <2>6, <2>7, <2>8 DEF RowsGoOn
    <3> QED
      BY <2>2, <2>4, <2>5, <3>1 DEF TypeOK
  <2>10. Created' = Created
    BY <2>2, <2>4, <2>8 DEF Created
  <2> QED
    BY <2>1, <2>4, <2>8, <2>9, <2>10 DEF With, CodesAreDense
<1> QED
  BY <1>1, <1>2

\* A client that goes on or stops, in a step that writes none of its files.
LEMMA Moved ==
  ASSUME BindingInv, RowsGoOn, CodesAreDense', rows' \in [Codes -> Row \cup {None}],
         NEW c \in Clients, UNCHANGED <<late, web, check, files, opened, races>>,
         server' = [server EXCEPT ![c] = None],
         client' = [client EXCEPT ![c] = client'[c]],
         client'[c] \in Command, client'[c].at \notin {"installed", "bound"}, CommandIsSound(c)',
         client[c].at \notin {"installed", "bound"},
         lost' = lost \/ Lose
  PROVE  BindingInv'
<1> USE DEF BindingInv
<1>1. lost' \in 0 .. MaxLost /\ (lost' = 0 => lost = 0)
  BY BoundsAssumption DEF Lose, TypeOK
<1>2. TypeOK'
  BY <1>1 DEF TypeOK
<1>3. \A b \in Clients : \/ b = c
                         \/ server'[b] = server[b] /\ client'[b] = client[b]
  BY DEF TypeOK
<1>4. server'[c] = None
  BY DEF TypeOK
<1>5. TokensStay
  BY <1>3, NothingWritten
<1>6. \A b \in Clients, d \in With("active")' : Holds(b, d) => Holds(b, d)'
  BY <1>3 DEF Holds
<1> QED
  BY <1>1, <1>2, <1>3, <1>4, <1>5, <1>6, GoesOn

\* A client that is not binding has no bind open.
LEMMA NotBinding ==
  ASSUME BindingInv, NEW c \in Clients, client[c].at # "bind"
  PROVE  server[c] = None /\ server = [server EXCEPT ![c] = None]
BY DEF BindingInv, BindsAreSound, BindIsSound, TypeOK

LEMMA IdleIsSound ==
  ASSUME BindingInv, NEW c \in Clients, Stop(c), files' = files
  PROVE  /\ client' = [client EXCEPT ![c] = client'[c]] /\ client'[c] = Idle
         /\ client'[c] \in Command /\ client'[c].at = "idle" /\ CommandIsSound(c)'
<1> USE NoneAssumption DEF BindingInv
<1>1. client' = [client EXCEPT ![c] = client'[c]] /\ client'[c] = Idle
  BY DEF Stop, TypeOK
<1>2. client'[c] \in Command /\ client'[c].at = "idle" /\ client'[c].install = None
  BY <1>1 DEF Idle, Command
<1>3. CommandIsSound(c)'
  BY <1>2 DEF CommandsAreSound, CommandIsSound
<1> QED
  BY <1>1, <1>2, <1>3

\* connect, and disconnect, begin.
LEMMA Begins ==
  ASSUME BindingInv, NEW c \in Clients, Leave(c) \/ \E d \in Created : Connect(c, d)
  PROVE  BindingInv'
<1> USE NoneAssumption DEF BindingInv
<1>1. /\ UNCHANGED <<rows, late, web, server, check, files, lost, opened, races>>
      /\ client[c] = Idle /\ client[c].at = "idle"
      /\ client' = [client EXCEPT ![c] = client'[c]]
  BY DEF Leave, Connect, Goto, TypeOK, Idle
<1>2. /\ RowsGoOn /\ CodesAreDense' /\ Created' = Created /\ With("active")' = With("active")
      /\ Created \subseteq Codes /\ CommandIsSound(c) /\ files[c] \in Files
  BY <1>1, RowsStayThere DEF Created, CommandsAreSound, TypeOK
<1>3. CASE Leave(c)
  <2>1. client'[c] = [Idle EXCEPT !.at = "leave"]
    BY <1>1, <1>3 DEF Leave, Goto, TypeOK
  <2>2. client'[c] \in Command /\ client'[c].at = "leave" /\ client'[c].install = None
    BY <2>1 DEF Idle, Command
  <2>3. CommandIsSound(c)'
    BY <1>1, <1>2, <2>2 DEF CommandIsSound
  <2> QED
    BY <1>1, <1>2, <2>2, <2>3, NotBinding, Moved DEF TypeOK
<1>4. ASSUME NEW d \in Created, Connect(c, d) PROVE BindingInv'
  <2>1. PICK install : install = IF files[c].install = None THEN <<c, d>> ELSE files[c].install
    OBVIOUS
  <2>2. /\ install \in Installs /\ install # None /\ files[c].install \in {None, install}
        /\ install[1] = c
    BY <1>2, <2>1 DEF Installs, Files, CommandIsSound
  <2>3. PICK at \in {"replace", "bind"} :
          at = IF files[c].binding = None THEN "bind" ELSE "replace"
    OBVIOUS
  <2>4. client'[c] = [at |-> at, code |-> d, install |-> install]
    BY <1>1, <1>4, <2>1, <2>3 DEF Connect, TypeOK
  <2>5. client'[c] \in Command /\ client'[c].at \in {"replace", "bind"}
    BY <1>2, <2>2, <2>4 DEF Command
  <2>6. at = "bind" => files[c].binding \notin With("active")
    BY <1>2, <2>3 DEF With
  <2>7. CommandIsSound(c)'
    BY <1>1, <1>2, <2>2, <2>4, <2>6 DEF CommandIsSound
  <2> QED
    BY <1>1, <1>2, <2>5, <2>7, NotBinding, Moved DEF TypeOK
<1> QED
  BY <1>3, <1>4

\* replace, and disconnect: the client's own device is ended, or found to be no longer
\* active, before the command goes on.
LEMMA OwnStep ==
  ASSUME BindingInv, NEW c \in Clients, Replace(c) \/ Disconnect(c)
  PROVE  BindingInv'
<1> USE NoneAssumption DEF BindingInv
<1>1. client[c].at \in {"replace", "leave"} /\ client[c] \in Command /\ CommandIsSound(c)
  BY DEF Replace, Disconnect, TypeOK, CommandsAreSound
<1>2. UNCHANGED <<late, web, server, check, files, opened, races>> /\ (lost' = lost \/ Lose)
  BY DEF Replace, Disconnect
<1>3. RowsGoOn /\ CodesAreDense' /\ rows' \in [Codes -> Row \cup {None}]
  BY OwnEnds, RowsStayThere DEF Replace, Disconnect, TypeOK
<1>4. CASE Stop(c)
  BY <1>1, <1>2, <1>3, <1>4, IdleIsSound, NotBinding, Moved
<1>5. ASSUME NEW at \in {"bind", "left"}, Goto(c, at), RevokeOwn(c),
             at = "bind" => client[c].at = "replace"
      PROVE  BindingInv'
  <2>1. client' = [client EXCEPT ![c] = client'[c]] /\ client'[c] = [client[c] EXCEPT !.at = at]
    BY <1>5 DEF Goto, TypeOK
  <2>2. /\ client'[c] \in Command /\ client'[c].at = at
        /\ client'[c].code = client[c].code /\ client'[c].install = client[c].install
    BY <1>1, <2>1 DEF Command
  <2>3. files[c].binding \notin With("active")'
    BY <1>5, OwnEnds
  <2>4. Created \subseteq Created'
    BY <1>5, OwnEnds, <1>3 DEF RowsGoOn, Created
  <2>5. CommandIsSound(c)'
    BY <1>1, <1>2, <1>5, <2>2, <2>3, <2>4 DEF CommandIsSound
  <2> QED
    BY <1>1, <1>2, <1>3, <2>1, <2>2, <2>5, NotBinding, Moved
<1> QED
  BY <1>4, <1>5 DEF Replace, Disconnect

\* A step that no command of a client takes part in.
LEMMA Aside ==
  ASSUME BindingInv, RowsGoOn, TypeOK', CodesAreDense',
         \A p \in Pages : web'[p] = web[p] \/ PageIsSound(p)',
         \A c \in Clients : check'[c] = check[c] \/ CheckIsSound(c)',
         UNCHANGED <<server, client, files, lost, races>>
  PROVE  BindingInv'
<1>1. TokensStay
  BY NothingWritten
<1> QED
  BY <1>1, GoesOn DEF Holds

\* Ten minutes go by, a page reads rows it will end.
LEMMA PageReads ==
  ASSUME BindingInv,
         \/ \E d \in Codes : Expire(d)
         \/ \E p \in Pages : BeginCode(p) \/ \E d \in Codes : BeginRevoke(p, d)
         \/ UNCHANGED vars
  PROVE  BindingInv'
<1> USE NoneAssumption DEF BindingInv
<1>1. CASE (\E d \in Codes : Expire(d)) \/ UNCHANGED vars
  <2>1. UNCHANGED <<rows, web, server, check, client, files, lost, races>>
    BY <1>1 DEF Expire, vars
  <2>2. TypeOK'
    BY <1>1, <2>1 DEF TypeOK, Expire, vars
  <2> QED
    BY <2>1, <2>2, RowsStayThere, Aside
<1>2. ASSUME NEW p \in Pages, BeginCode(p) \/ \E d \in Codes : BeginRevoke(p, d)
      PROVE  BindingInv'
  <2>1. UNCHANGED <<rows, late, server, check, client, files, lost, races>>
        /\ opened < MaxOpened /\ opened' = opened + 1
    BY <1>2 DEF BeginCode, BeginRevoke, Open
  <2>2. RowsGoOn /\ CodesAreDense' /\ Created' = Created /\ With("pending")' = With("pending")
        /\ Created \subseteq Codes
    BY <2>1, RowsStayThere DEF Created
  <2>3. \E ds \in SUBSET Created, op \in {"code", "revoke"}, full \in BOOLEAN : \E written :
          /\ written \in [ds -> Row]
          /\ web' = [web EXCEPT ![p] = [op |-> op, rows |-> written, full |-> full]]
          /\ \A d \in ds : /\ written[d].install \in {rows[d].install, None}
                           /\ written[d].status \in {"revoked", "expired"}
    <3>1. CASE BeginCode(p)
      <4>1. With("pending") \in SUBSET Created
        BY DEF With
      <4>2. \A d \in Codes : /\ Ending(d) \in Row /\ Ending(d).install = None
                             /\ Ending(d).status \in {"revoked", "expired"}
        BY DEF Ending, Row
      <4>3. PICK ds, written : ds = With("pending") /\ written = [d \in ds |-> Ending(d)]
        OBVIOUS
      <4>4. written \in [ds -> Row] /\ \A d \in ds : written[d] = Ending(d)
        BY <2>2, <4>1, <4>2, <4>3
      <4>5. Full \in BOOLEAN
        BY DEF Full
      <4>6. web' = [web EXCEPT ![p] = [op |-> "code", rows |-> written, full |-> Full]]
        BY <3>1, <4>3 DEF BeginCode
      <4>7. ds \in SUBSET Created /\ "code" \in {"code", "revoke"}
        BY <4>1, <4>3
      <4>8. \A d \in ds : /\ written[d].install \in {rows[d].install, None}
                          /\ written[d].status \in {"revoked", "expired"}
        BY <2>2, <4>2, <4>4, <4>7
      <4> QED
        BY <4>4, <4>5, <4>6, <4>7, <4>8
    <3>2. ASSUME NEW d \in Codes, BeginRevoke(p, d)
          PROVE  \E ds \in SUBSET Created, op \in {"code", "revoke"}, full \in BOOLEAN : \E written :
                   /\ written \in [ds -> Row]
                   /\ web' = [web EXCEPT ![p] = [op |-> op, rows |-> written, full |-> full]]
                   /\ \A e \in ds : /\ written[e].install \in {rows[e].install, None}
                                    /\ written[e].status \in {"revoked", "expired"}
      <4>1. d \in Created
        BY <3>2 DEF BeginRevoke, With
      <4>2. Revoked(rows[d]) \in Row /\ Revoked(rows[d]).install = rows[d].install
            /\ Revoked(rows[d]).status = "revoked"
        BY <4>1, RowIsOwn, RevokedRow
      <4>3. PICK written : written = [e \in {d} |-> Revoked(rows[e])]
        OBVIOUS
      <4>4. written \in [{d} -> Row] /\ written[d] = Revoked(rows[d])
        BY <4>2, <4>3
      <4>5. web' = [web EXCEPT ![p] = [op |-> "revoke", rows |-> written, full |-> FALSE]]
        BY <3>2, <4>3 DEF BeginRevoke
      <4>6. {d} \in SUBSET Created
        BY <4>1
      <4>7. \A e \in {d} : /\ written[e].install \in {rows[e].install, None}
                           /\ written[e].status \in {"revoked", "expired"}
        BY <4>2, <4>4
      <4> QED
        BY <4>4, <4>5, <4>6, <4>7
    <3> QED
      BY <1>2, <3>1, <3>2
  <2>30. PICK ds \in SUBSET Created, op \in {"code", "revoke"}, full \in BOOLEAN :
          \E written :
            /\ written \in [ds -> Row]
            /\ web' = [web EXCEPT ![p] = [op |-> op, rows |-> written, full |-> full]]
            /\ \A d \in ds : /\ written[d].install \in {rows[d].install, None}
                             /\ written[d].status \in {"revoked", "expired"}
    BY <2>3
  <2>31. PICK written :
            /\ written \in [ds -> Row]
            /\ web' = [web EXCEPT ![p] = [op |-> op, rows |-> written, full |-> full]]
            /\ \A d \in ds : /\ written[d].install \in {rows[d].install, None}
                             /\ written[d].status \in {"revoked", "expired"}
    BY <2>30
  <2>4. PICK request : request = [op |-> op, rows |-> written, full |-> full]
    OBVIOUS
  <2>5. request \in Request
    <3>1. written \in UNION {[es -> Row] : es \in SUBSET Codes}
      BY <2>2, <2>31
    <3> QED
      BY <2>31, <2>4, <3>1 DEF Request
  <2>6. web' = [web EXCEPT ![p] = request] /\ request.rows = written
    BY <2>31, <2>4
  <2>7. web'[p] = request /\ \A q \in Pages \ {p} : web'[q] = web[q]
    BY <2>6 DEF TypeOK
  <2>8. TypeOK'
    BY <2>1, <2>5, <2>6, BoundsAssumption DEF TypeOK
  <2>9. PageIsSound(p)'
    <3> SUFFICES ASSUME NEW d \in ds
                 PROVE  /\ CopyIsSound(d, written[d])'
                        /\ written[d].status \in {"revoked", "expired"}
      BY <2>31, <2>6, <2>7 DEF PageIsSound
    <3>1. PICK row : row = written[d]
      OBVIOUS
    <3>2. /\ d \in Created /\ row \in Row /\ row.install \in {rows[d].install, None}
          /\ row.status \in {"revoked", "expired"}
      BY <2>31, <3>1
    <3>3. Fits(d, rows[d].install) /\ Fits(d, None) /\ (d \in With("pending") => rows[d].install = None)
      BY <3>2, RowIsOwn DEF RowsAreSound
    <3>4. Fits(d, row.install)
      BY <3>2, <3>3
    <3>5. Fits(d, row.install)'
      BY <2>1, <3>4 DEF Fits
    <3>6. CopyIsSound(d, row)'
      BY <2>2, <3>2, <3>3, <3>5 DEF CopyIsSound
    <3> QED
      BY <2>1, <3>1, <3>2, <3>6
  <2> QED
    BY <2>1, <2>2, <2>7, <2>8, <2>9, Aside
<1> QED
  BY <1>1, <1>2

\* A page writes the rows it has read.
LEMMA PageWrites ==
  ASSUME BindingInv, NEW p \in Pages, CommitCode(p) \/ CommitRevoke(p)
  PROVE  BindingInv' /\ RowsGoOn
<1> USE NoneAssumption, BoundsAssumption DEF BindingInv
<1>1. /\ web[p] # None /\ web' = [web EXCEPT ![p] = None]
      /\ UNCHANGED <<server, check, client, files, lost, opened, races>>
      /\ late' \subseteq late
      /\ \A d \in DOMAIN web[p].rows : ~Locked(d)
  BY DEF CommitCode, CommitRevoke, WriteBack
<1>2. PICK written : written = web[p].rows
  OBVIOUS
<1>3. \A d \in DOMAIN written :
        /\ d \in Created /\ written[d] \in Row /\ Fits(d, written[d].install)
        /\ written[d].status \in {"revoked", "expired"}
  BY <1>1, <1>2 DEF PagesAreSound, PageIsSound, CopyIsSound
<1>4. Created \subseteq Codes /\ \A d \in Created : rows[d] \in Row
  BY DEF Created, TypeOK
<1>5. \A d \in Codes : rows[d] \in Row \cup {None}
  BY DEF TypeOK
<1>6. CASE rows' = rows
  <2>1. TypeOK'
    BY <1>1, <1>6 DEF TypeOK
  <2>2. \A q \in Pages : web'[q] = web[q] \/ PageIsSound(q)'
    BY <1>1 DEF PageIsSound, TypeOK
  <2> QED
    BY <1>1, <1>6, <2>1, <2>2, RowsStayThere, Aside
<1>7. ASSUME NEW ks \in SUBSET (Codes \ Created), NEW new, new = [status |-> "pending", install |-> None],
             \E k \in 0 .. MaxCodes : Created \cup ks = 1 .. k,
             rows' = [d \in Codes |-> IF d \in DOMAIN written THEN written[d]
                                      ELSE IF d \in ks THEN new ELSE rows[d]]
      PROVE  BindingInv' /\ RowsGoOn
  <2>1. new \in Row
    BY <1>7 DEF Row
  <2>2. \A d \in Codes : \/ d \in DOMAIN written /\ rows'[d] = written[d]
                         \/ d \in ks /\ rows'[d] = new
                         \/ d \notin ks /\ rows'[d] = rows[d]
    BY <1>3, <1>7
  <2>3. \A d \in Codes : rows'[d] \in Row \cup {None}
    BY <1>3, <1>5, <2>1, <2>2
  <2>4. rows' \in [Codes -> Row \cup {None}]
    BY <1>7, <2>3
  <2>5. RowsGoOn
    BY <1>1, <1>2, <1>3, <1>7, <2>2 DEF RowsGoOn
  <2>6. Created' = Created \cup ks
    <3>1. \A d \in DOMAIN written : d \notin ks
      BY <1>3
    <3>2. \A d \in ks : rows'[d] = new /\ rows'[d] # None
      BY <1>7, <2>1, <3>1
    <3>3. \A d \in Codes \ ks : rows'[d] # None <=> rows[d] # None
      BY <1>3, <1>4, <2>2
    <3> QED
      BY <3>2, <3>3 DEF Created
  <2>7. CodesAreDense'
    BY <1>7, <2>6 DEF CodesAreDense
  <2>8. TypeOK'
    BY <1>1, <2>4 DEF TypeOK
  <2>9. \A q \in Pages : web'[q] = web[q] \/ PageIsSound(q)'
    BY <1>1 DEF PageIsSound, TypeOK
  <2> QED
    BY <1>1, <2>5, <2>7, <2>8, <2>9, Aside
<1>8. PICK k \in 0 .. MaxCodes : Created = 1 .. k
  BY DEF CodesAreDense
<1>9. CASE CommitRevoke(p)
  <2>1. PICK new, ks : new = [status |-> "pending", install |-> None] /\ ks = {}
    OBVIOUS
  <2>2. rows' = [d \in Codes |-> IF d \in DOMAIN written THEN written[d]
                                 ELSE IF d \in ks THEN new ELSE rows[d]]
    BY <1>2, <1>9, <2>1 DEF CommitRevoke
  <2>3. ks \in SUBSET (Codes \ Created) /\ Created \cup ks = 1 .. k
    BY <1>8, <2>1
  <2> QED
    BY <1>7, <1>8, <2>1, <2>2, <2>3
<1>10. CASE CommitCode(p) /\ web[p].full
  BY <1>6, <1>10 DEF CommitCode
<1>11. CASE CommitCode(p) /\ ~web[p].full
  <2>1. Cardinality(Created) = k
    BY <1>8, FS_Interval
  <2>2. Created # Codes
    BY <1>11 DEF CommitCode
  <2>3. k + 1 \in Codes \ Created /\ Created \cup {k + 1} = 1 .. (k + 1) /\ k + 1 \in 0 .. MaxCodes
    BY <1>8, <2>2 DEF Codes
  <2>4. rows' = [d \in Codes |->
                   CASE d \in DOMAIN written -> written[d]
                     [] d = k + 1 -> [status |-> "pending", install |-> None]
                     [] OTHER -> rows[d]]
    BY <1>2, <1>11, <2>1 DEF CommitCode
  <2>5. k + 1 \notin DOMAIN written
    BY <1>3, <2>3
  <2>6. rows' = [d \in Codes |-> IF d \in DOMAIN written THEN written[d]
                                 ELSE IF d \in {k + 1} THEN [status |-> "pending", install |-> None]
                                 ELSE rows[d]]
    BY <2>4, <2>5
  <2>7. {k + 1} \in SUBSET (Codes \ Created)
    BY <2>3
  <2> QED
    BY <1>7, <2>3, <2>6, <2>7
<1> QED
  BY <1>9, <1>10, <1>11

-----------------------------------------------------------------------------
\* The status call: it has the row as it is, or as it was before it ended.

LEMMA CheckReads ==
  ASSUME BindingInv, NEW c \in Clients, BeginCheck(c)
  PROVE  BindingInv'
<1> USE NoneAssumption, BoundsAssumption DEF BindingInv
<1>1. PICK d, row : d = files[c].binding /\ row = rows[d]
  OBVIOUS
<1>2. /\ check[c] = None /\ d \in With("active") /\ opened < MaxOpened /\ opened' = opened + 1
      /\ check' = [check EXCEPT ![c] = [device |-> d, row |-> row]]
      /\ UNCHANGED <<rows, late, web, server, client, files, lost, races>>
  BY <1>1 DEF BeginCheck, Open
<1>3. /\ d \in Created /\ d \in Codes /\ row \in Row /\ Fits(d, row.install)
      /\ row.status = "active" /\ row.install # None /\ d \notin With("pending")
  BY <1>1, <1>2, RowIsOwn DEF With, RowsAreSound
<1>4. PICK entry : entry = [device |-> d, row |-> row]
  OBVIOUS
<1>5. entry \in Check /\ entry.device = d /\ entry.row = row /\ entry # None
  BY <1>3, <1>4 DEF Check
<1>6. check' = [check EXCEPT ![c] = entry]
  BY <1>2, <1>4
<1>7. check'[c] = entry /\ \A b \in Clients \ {c} : check'[b] = check[b]
  BY <1>6 DEF TypeOK
<1>8. TypeOK'
  BY <1>2, <1>5, <1>6 DEF TypeOK
<1>9. /\ Created' = Created /\ With("active")' = With("active") /\ With("pending")' = With("pending")
      /\ RowsGoOn /\ CodesAreDense'
  BY <1>2, RowsStayThere
<1>10. CheckIsSound(c)'
  <2>1. CopyIsSound(d, row)'
    <3>1. Fits(d, row.install)'
      BY <1>2, <1>3 DEF Fits
    <3> QED
      BY <1>3, <1>9, <3>1 DEF CopyIsSound
  <2>2. \A b \in Clients : check'[b] # None /\ check'[b].device = d => check'[b].row = row
    <3>1. \A b \in Clients : check[b] # None /\ check[b].device = d => check[b].row = row
      BY <1>1, <1>2 DEF ChecksAreSound, CheckIsSound
    <3> QED
      BY <1>5, <1>7, <3>1
  <2> QED
    BY <1>1, <1>2, <1>3, <1>5, <1>7, <1>9, <2>1, <2>2 DEF CheckIsSound
<1> QED
  BY <1>2, <1>7, <1>8, <1>9, <1>10, Aside

\* A call that saves what is still there changes nothing; else it brings a device back,
\* which is a bound one still.
LEMMA CheckSaves ==
  ASSUME BindingInv, NEW c \in Clients, CommitCheck(c)
  PROVE  BindingInv'
<1> USE NoneAssumption, BoundsAssumption DEF BindingInv
<1>1. PICK d, row : d = check[c].device /\ row = check[c].row
  OBVIOUS
<1>2. /\ check[c] # None /\ check' = [check EXCEPT ![c] = None]
      /\ rows' = [rows EXCEPT ![d] = row]
      /\ UNCHANGED <<late, web, server, client, files, lost, opened>>
  BY <1>1 DEF CommitCheck
<1>3. /\ d \in Created /\ row \in Row /\ Fits(d, row.install) /\ d \notin With("pending")
      /\ row.status = "active" /\ row.install # None
      /\ d \in With("active") => rows[d] = row
      /\ \A b \in Clients : check[b] # None /\ check[b].device = d => check[b].row = row
  BY <1>1, <1>2 DEF ChecksAreSound, CheckIsSound, CopyIsSound
<1>4. d \in Codes /\ Created \subseteq Codes
  BY <1>3 DEF Created
<1>5. rows'[d] = row /\ \A e \in Codes \ {d} : rows'[e] = rows[e]
  BY <1>2, <1>4 DEF TypeOK
<1>6. check'[c] = None /\ \A b \in Clients : check'[b] \in {check[b], None}
  BY <1>2 DEF TypeOK
<1>7. races' \subseteq {"binds", "status"}
  BY DEF CommitCheck, TypeOK
<1>8. TypeOK'
  BY <1>2, <1>3, <1>7 DEF TypeOK
<1>9. CASE d \in With("active")
  <2>1. rows' = rows
    BY <1>2, <1>3, <1>4, <1>9 DEF TypeOK
  <2>2. races' = races
    BY <1>1, <1>9 DEF CommitCheck
  <2>3. \A b \in Clients : check'[b] = check[b] \/ CheckIsSound(b)'
    BY <1>6 DEF CheckIsSound
  <2> QED
    BY <1>2, <1>8, <2>1, <2>2, <2>3, RowsStayThere, Aside
<1>10. CASE d \notin With("active")
  <2>1. races' = races \cup {"status"}
    BY <1>1, <1>10 DEF CommitCheck
  <2>2. Created' = Created
    BY <1>3, <1>4, <1>5 DEF Created
  <2>3. With("pending")' = With("pending") /\ With("active")' = With("active") \cup {d}
    <3>1. \A e \in Created : /\ rows'[e].status = "pending" <=> rows[e].status = "pending"
                             /\ rows'[e].status = "active" <=> rows[e].status = "active" \/ e = d
      BY <1>3, <1>4, <1>5 DEF With
    <3> QED
      BY <1>3, <2>2, <3>1 DEF With
  <2>4. CodesAreDense' /\ RowsAreSound'
    BY <1>3, <1>4, <1>5, <2>2, <2>3 DEF CodesAreDense, RowsAreSound, With
  <2>5. CommandsAreSound'
    BY <1>2, <2>1, <2>2 DEF CommandsAreSound, CommandIsSound
  <2>6. \A e, install : Fits(e, install) <=> Fits(e, install)'
    BY <1>2 DEF Fits
  <2>7. \A e, copy : CopyIsSound(e, copy) => CopyIsSound(e, copy)'
    BY <2>2, <2>3, <2>6 DEF CopyIsSound
  <2>8. PagesAreSound'
    BY <1>2, <2>7 DEF PagesAreSound, PageIsSound
  <2>9. ChecksAreSound'
    <3> SUFFICES ASSUME NEW b \in Clients, check'[b] # None PROVE CheckIsSound(b)'
      BY DEF ChecksAreSound, CheckIsSound
    <3>1. PICK e, copy : e = check[b].device /\ copy = check[b].row
      OBVIOUS
    <3>2. check'[b] = check[b] /\ check[b] # None
      BY <1>6
    <3>3. /\ CopyIsSound(e, copy) /\ e \notin With("pending")
          /\ copy.status = "active" /\ copy.install # None
          /\ e \in With("active") => rows[e] = copy
          /\ \A a \in Clients : check[a] # None /\ check[a].device = e => check[a].row = copy
      BY <3>1, <3>2 DEF ChecksAreSound, CheckIsSound
    <3>4. e \in Codes
      BY <3>3, <1>4 DEF CopyIsSound
    <3>5. e \in With("active")' => rows'[e] = copy
      BY <1>3, <1>5, <2>3, <3>1, <3>2, <3>3, <3>4
    <3>6. CopyIsSound(e, copy)'
      BY <2>7, <3>3
    <3> QED
      BY <1>6, <2>3, <3>1, <3>2, <3>3, <3>5, <3>6 DEF CheckIsSound
  <2>10. BindsAreSound'
    <3> SUFFICES ASSUME NEW b \in Clients, server[b] # None PROVE BindIsSound(b)'
      BY <1>2 DEF BindsAreSound, BindIsSound
    <3>1. PICK previous, install : previous = server[b].previous /\ install = client[b].install
      OBVIOUS
    <3>2. /\ client[b].at = "bind" /\ client[b].code \in With("pending")
          /\ \A a \in Clients \ {b} : server[a] # None =>
               client[a].code # client[b].code /\ "binds" \in races
          /\ previous # None => previous \in Created \ With("pending") /\ Fits(previous, install)
      BY <3>1 DEF BindsAreSound, BindIsSound
    <3>3. previous # None => Fits(previous, install)'
      BY <2>6, <3>2
    <3> QED
      BY <1>2, <2>1, <2>2, <2>3, <3>1, <3>2, <3>3 DEF BindIsSound
  <2>11. TokensAreOwn'
    BY <1>2, <2>2, <2>3 DEF TokensAreOwn, Holds
  <2>12. DevicesFit'
    <3> SUFFICES ASSUME NEW e \in Created PROVE Fits(e, rows[e].install)'
      BY <2>2 DEF DevicesFit
    <3>1. PICK install : install = rows'[e].install
      OBVIOUS
    <3>2. Fits(e, install)
      BY <1>3, <1>4, <1>5, <3>1 DEF DevicesFit
    <3>3. Fits(e, install)'
      BY <2>6, <3>2
    <3> QED
      BY <3>1, <3>3
  <2>13. ActiveDevices' /\ ActiveIsHeld'
    BY <2>1 DEF ActiveDevices, ActiveIsHeld
  <2> QED
    BY <1>8, <2>4, <2>5, <2>8, <2>9, <2>10, <2>11, <2>12, <2>13
<1> QED
  BY <1>9, <1>10

-----------------------------------------------------------------------------
\* A client writes its files, or removes its credential.

LEMMA InstallationIsWritten ==
  ASSUME BindingInv, NEW c \in Clients, WriteInstallation(c)
  PROVE  BindingInv'
<1> USE NoneAssumption, BoundsAssumption DEF BindingInv
<1>1. /\ UNCHANGED <<rows, late, web, server, check, opened, races>> /\ client[c].at = "installed"
      /\ client' = [client EXCEPT ![c] = client'[c]]
      /\ files' = [files EXCEPT ![c] = files'[c]]
      /\ files'[c] = [files[c] EXCEPT !.install = client[c].install]
      /\ \/ client'[c] = [client[c] EXCEPT !.at = "bound"] /\ lost' = lost
         \/ client'[c] = Idle /\ lost < MaxLost /\ lost' = lost + 1
  BY DEF WriteInstallation, InstallWritten, Goto, Stop, Lose, TypeOK
<1>2. /\ CommandIsSound(c) /\ client[c] \in Command /\ files[c] \in Files
      /\ client[c].install # None /\ files[c].install \in {None, client[c].install}
  BY <1>1 DEF CommandsAreSound, CommandIsSound, TypeOK
<1>3. /\ files'[c] \in Files /\ files'[c].binding = files[c].binding
      /\ files'[c].install = client[c].install
  BY <1>1, <1>2 DEF Files, Command
<1>4. \/ client'[c].at = "bound" /\ client'[c].code = client[c].code
         /\ client'[c].install = client[c].install /\ client'[c] \in Command /\ lost' = lost
      \/ client'[c].at = "idle" /\ client'[c].install = None /\ client'[c] \in Command
         /\ lost' = lost + 1 /\ lost' \in 0 .. MaxLost
  BY <1>1, <1>2 DEF Command, Idle, TypeOK
<1>5. TypeOK'
  BY <1>1, <1>3, <1>4 DEF TypeOK
<1>6. /\ RowsGoOn /\ CodesAreDense' /\ Created' = Created /\ With("active")' = With("active")
  BY <1>1, RowsStayThere
<1>7. CommandIsSound(c)'
  BY <1>1, <1>2, <1>3, <1>4, <1>6 DEF CommandIsSound
<1>8. \A b \in Clients : b = c \/ (client'[b] = client[b] /\ files'[b] = files[b])
  BY <1>1 DEF TypeOK
<1>9. TokensStay
  <2>1. \A b \in Clients, d \in Codes : Holds(b, d)' => Holds(b, d)
    BY <1>1, <1>3, <1>4, <1>8 DEF Holds
  <2>2. ASSUME NEW d \in Codes, NEW install \in Installs \cup {None}, Fits(d, install)
        PROVE  Fits(d, install)'
    <3> SUFFICES ASSUME NEW b \in Clients
                 PROVE  /\ files'[b].binding = d => install \in {files'[b].install, None}
                        /\ client'[b].at \in {"installed", "bound"} /\ client'[b].code = d =>
                             install \in {client'[b].install, None}
      BY DEF Fits
    <3>1. /\ files[b].binding = d => install \in {files[b].install, None}
          /\ client[b].at \in {"installed", "bound"} /\ client[b].code = d =>
               install \in {client[b].install, None}
      BY <2>2 DEF Fits
    <3>2. CASE b = c
      <4>1. files[c].binding = d => files[c].install = client[c].install
        BY <1>2 DEF CommandIsSound
      <4> QED
        BY <1>1, <1>3, <1>4, <3>1, <3>2, <4>1
    <3>3. CASE b # c
      BY <1>8, <3>1, <3>3
    <3> QED
      BY <3>2, <3>3
  <2> QED
    BY <2>1, <2>2 DEF TokensStay
<1>10. \A b \in Clients : server'[b] # None => client'[b] = client[b]
  BY <1>1, <1>8, NotBinding
<1>11. lost' = 0 => lost = 0 /\ \A b \in Clients, d \in With("active")' : Holds(b, d) => Holds(b, d)'
  <2> SUFFICES ASSUME lost' = 0
               PROVE  lost = 0 /\ \A b \in Clients, d \in Codes : Holds(b, d) => Holds(b, d)'
    BY DEF With, Created
  <2>1. lost = 0 /\ client'[c].at = "bound" /\ client'[c].code = client[c].code
    BY <1>4 DEF TypeOK
  <2> QED
    BY <1>1, <1>3, <1>8, <2>1 DEF Holds
<1> QED
  BY <1>1, <1>5, <1>6, <1>7, <1>8, <1>9, <1>10, <1>11, GoesOn

LEMMA BindingIsWritten ==
  ASSUME BindingInv, NEW c \in Clients, WriteBinding(c) \/ RemoveBinding(c)
  PROVE  BindingInv'
<1> USE NoneAssumption, BoundsAssumption DEF BindingInv
<1>1. PICK d : d = IF client[c].at = "bound" THEN client[c].code ELSE None
  OBVIOUS
<1>2. /\ UNCHANGED <<rows, late, web, server, check, lost, opened, races>>
      /\ client[c].at \in {"bound", "left"}
      /\ client' = [client EXCEPT ![c] = client'[c]] /\ client'[c] = Idle
      /\ files' = [files EXCEPT ![c] = files'[c]]
      /\ files'[c] = [files[c] EXCEPT !.binding = d]
  BY <1>1 DEF WriteBinding, RemoveBinding, Stop, TypeOK
<1>3. CommandIsSound(c) /\ client[c] \in Command /\ files[c] \in Files /\ Created \subseteq Codes
  BY DEF CommandsAreSound, TypeOK, Created
<1>4. d \in Codes \cup {None} /\ (client[c].at = "left" => d = None)
      /\ (client[c].at = "bound" => d = client[c].code /\ d \in Codes)
  BY <1>1, <1>2, <1>3 DEF CommandIsSound
<1>5. /\ files'[c] \in Files /\ files'[c].binding = d /\ files'[c].install = files[c].install
      /\ client'[c] \in Command /\ client'[c].at = "idle" /\ client'[c].install = None
  BY <1>2, <1>3, <1>4 DEF Files, Command, Idle
<1>6. TypeOK'
  BY <1>2, <1>5 DEF TypeOK
<1>7. /\ RowsGoOn /\ CodesAreDense' /\ Created' = Created /\ With("active")' = With("active")
  BY <1>2, RowsStayThere
<1>8. CommandIsSound(c)'
  BY <1>2, <1>3, <1>4, <1>5 DEF CommandIsSound
<1>9. \A b \in Clients : b = c \/ (client'[b] = client[b] /\ files'[b] = files[b])
  BY <1>2 DEF TypeOK
<1>10. TokensStay
  <2>1. \A b \in Clients, e \in Codes : Holds(b, e)' => Holds(b, e)
    BY <1>2, <1>4, <1>5, <1>9 DEF Holds
  <2>2. ASSUME NEW e \in Codes, NEW install \in Installs \cup {None}, Fits(e, install)
        PROVE  Fits(e, install)'
    <3> SUFFICES ASSUME NEW b \in Clients
                 PROVE  /\ files'[b].binding = e => install \in {files'[b].install, None}
                        /\ client'[b].at \in {"installed", "bound"} /\ client'[b].code = e =>
                             install \in {client'[b].install, None}
      BY DEF Fits
    <3>1. /\ files[b].binding = e => install \in {files[b].install, None}
          /\ client[b].at \in {"installed", "bound"} /\ client[b].code = e =>
               install \in {client[b].install, None}
      BY <2>2 DEF Fits
    <3>2. CASE b = c
      <4>1. client[c].at = "bound" => files[c].install = client[c].install
        BY <1>3 DEF CommandIsSound
      <4> QED
        BY <1>2, <1>4, <1>5, <3>1, <3>2, <4>1
    <3>3. CASE b # c
      BY <1>9, <3>1, <3>3
    <3> QED
      BY <3>2, <3>3
  <2> QED
    BY <2>1, <2>2 DEF TokensStay
<1>11. \A b \in Clients : server'[b] # None => client'[b] = client[b]
  BY <1>2, <1>9, NotBinding
<1>12. \A b \in Clients, e \in With("active")' :
         lost' = 0 /\ "status" \notin races /\ Holds(b, e) => Holds(b, e)'
  <2> SUFFICES ASSUME NEW e \in With("active"), "status" \notin races, Holds(c, e)
               PROVE  Holds(c, e)'
    BY <1>7, <1>9 DEF Holds
  <2>1. files[c].binding # e
    BY <1>2, <1>3 DEF CommandIsSound
  <2>2. client[c].at = "bound" /\ d = e
    BY <1>2, <1>4, <2>1 DEF Holds
  <2> QED
    BY <1>5, <2>2 DEF Holds
<1> QED
  BY <1>2, <1>6, <1>7, <1>8, <1>9, <1>10, <1>11, <1>12, GoesOn

-----------------------------------------------------------------------------
\* A bind begins: what it reads leaves room for its device.

LEMMA BindBegins ==
  ASSUME BindingInv, NEW c \in Clients, BeginBind(c)
  PROVE  BindingInv'
<1> USE NoneAssumption DEF BindingInv
<1>1. PICK d \in Created : d = client[c].code
  BY DEF BeginBind, CommandsAreSound, CommandIsSound
<1>2. /\ client[c].at = "bind" /\ server[c] = None /\ ~Locked(d)
      /\ UNCHANGED <<rows, late, web, check, files, lost, opened>>
  BY <1>1 DEF BeginBind
<1>3. CASE ~(Bindable(d) /\ d \notin late)
  <2>1. Stop(c) /\ UNCHANGED <<server, races>>
    BY <1>1, <1>3 DEF BeginBind
  <2>2. server' = [server EXCEPT ![c] = None]
    BY <1>2, <2>1 DEF TypeOK
  <2> QED
    BY <1>2, <2>1, <2>2, RowsStayThere, IdleIsSound, Moved DEF TypeOK
<1>4. CASE Bindable(d) /\ d \notin late
  <2>1. PICK install : install = client[c].install
    OBVIOUS
  <2>2. PICK previous :
          /\ server' = [server EXCEPT ![c] = [previous |-> previous, full |-> Full]]
          /\ previous \in IF SameInstall(c) = {} THEN {None} ELSE SameInstall(c)
    BY <1>1, <1>4 DEF BeginBind
  <2>3. /\ client' = client
        /\ races' = IF \E b \in Clients : server[b] # None THEN races \cup {"binds"} ELSE races
    BY <1>1, <1>4 DEF BeginBind
  <2>4. \/ previous = None /\ SameInstall(c) = {}
        \/ previous \in With("active") /\ rows[previous].install = install
    BY <2>1, <2>2 DEF SameInstall
  <2>5. With("active") \subseteq Created \ With("pending") /\ Created \subseteq Codes
        /\ With("pending") \subseteq Created
    BY DEF With, Created
  <2>6. Full \in BOOLEAN
    BY DEF Full
  <2>7. PICK tx : tx = [previous |-> previous, full |-> Full]
    OBVIOUS
  <2>8. tx \in Transaction /\ tx.previous = previous /\ (tx.full <=> Full) /\ tx # None
    BY <2>4, <2>5, <2>6, <2>7 DEF Transaction
  <2>9. server' = [server EXCEPT ![c] = tx]
    BY <2>2, <2>7
  <2>10. server'[c] = tx /\ \A b \in Clients \ {c} : server'[b] = server[b]
    BY <2>9 DEF TypeOK
  <2>11. races' \subseteq {"binds", "status"}
    BY <2>3 DEF TypeOK
  <2>12. TypeOK'
    BY <1>2, <2>3, <2>8, <2>9, <2>11 DEF TypeOK
  <2>13. /\ Created' = Created /\ With("active")' = With("active")
         /\ With("pending")' = With("pending") /\ CodesAreDense' /\ rows' = rows
    BY <1>2, RowsStayThere
  <2>14. "status" \in races' <=> "status" \in races
    BY <2>3
  <2>15. d \in With("pending")
    BY <1>1, <1>4 DEF Bindable, With
  <2>16. \A e, i : Fits(e, i)' <=> Fits(e, i)
    BY <1>2, <2>3 DEF Fits
  <2>17. "status" \notin races => \A e \in With("active") : rows[e].install = install => e = previous
    <3> SUFFICES ASSUME "status" \notin races, NEW e \in With("active"), rows[e].install = install
                 PROVE  e = previous
      OBVIOUS
    <3>1. e \in SameInstall(c)
      BY <2>1 DEF SameInstall
    <3> QED
      BY <2>4, <3>1 DEF ActiveDevices
  <2>18. races = {} => (previous = None /\ Full)
                       \/ Cardinality(With("active") \ {previous}) < MaxActive
    <3> SUFFICES ASSUME races = {}, ~(previous = None /\ Full)
                 PROVE  Cardinality(With("active") \ {previous}) < MaxActive
      OBVIOUS
    <3>1. With("active") \in SUBSET Codes
      BY <2>5
    <3>2. PICK n \in Nat : n = Cardinality(With("active"))
      BY <3>1, ActiveAreFinite
    <3>3. n <= MaxActive
      BY <3>2 DEF ActiveDevices
    <3>4. CASE previous = None
      <4>1. With("active") \ {previous} = With("active")
        BY <2>5, <3>4
      <4>2. ~(n >= MaxActive)
        BY <3>2, <3>4 DEF Full
      <4> QED
        BY <3>2, <4>1, <4>2, BoundsAssumption
    <3>5. CASE previous # None
      <4>1. previous \in With("active") /\ IsFiniteSet(With("active"))
        BY <2>4, <3>1, <3>5, ActiveAreFinite
      <4>2. Cardinality(With("active") \ {previous}) = n - 1
        BY <3>2, <4>1, FS_RemoveElement
      <4> QED
        BY <3>2, <3>3, <4>2, BoundsAssumption
    <3> QED
      BY <3>4, <3>5
  <2>19. BindIsSound(c)'
    <3>1. \A b \in Clients \ {c} : server'[b] # None => client'[b].code # d /\ "binds" \in races'
      BY <1>2, <2>3, <2>10 DEF Locked
    <3>2. previous # None => previous \in Created \ With("pending") /\ Fits(previous, install)
      BY <2>1, <2>4, <2>5 DEF DevicesFit
    <3>3. previous # None => Fits(previous, install)'
      BY <2>16, <3>2
    <3>4. races' = {} => Refused(c)' \/ Cardinality(With("active") \ {previous}) < MaxActive
      <4>1. races' = {} => races = {}
        BY <2>3
      <4>2. previous = None /\ Full => Refused(c)'
        BY <2>8, <2>10 DEF Refused
      <4> QED
        BY <2>18, <4>1, <4>2
    <3>5. client'[c].at = "bind" /\ client'[c].code = d /\ client'[c].install = install
          /\ server'[c].previous = previous
      BY <1>1, <1>2, <2>1, <2>3, <2>8, <2>10
    <3> QED
      BY <2>13, <2>14, <2>15, <2>17, <3>1, <3>2, <3>3, <3>4, <3>5 DEF BindIsSound
  <2>20. ASSUME NEW b \in Clients \ {c}, server[b] # None PROVE BindIsSound(b)'
    <3>1. PICK p, i : p = server[b].previous /\ i = client[b].install
      OBVIOUS
    <3>2. /\ client[b].at = "bind" /\ client[b].code \in With("pending")
          /\ \A a \in Clients \ {b} : server[a] # None =>
               client[a].code # client[b].code /\ "binds" \in races
          /\ p # None => p \in Created \ With("pending") /\ Fits(p, i)
          /\ "status" \notin races => \A e \in With("active") : rows[e].install = i => e = p
      BY <2>20, <3>1 DEF BindsAreSound, BindIsSound
    <3>3. "binds" \in races' /\ client[b].code # d
      BY <1>2, <2>3, <2>20 DEF Locked
    <3>4. p # None => Fits(p, i)'
      BY <2>16, <3>2
    <3> QED
      BY <1>1, <2>3, <2>10, <2>13, <2>14, <2>20, <3>1, <3>2, <3>3, <3>4 DEF BindIsSound
  <2>21. BindsAreSound'
    BY <2>10, <2>19, <2>20 DEF BindsAreSound, BindIsSound
  <2>22. CommandsAreSound' /\ TokensAreOwn'
    BY <1>2, <2>3, <2>13, <2>14 DEF CommandsAreSound, CommandIsSound, TokensAreOwn, Holds
  <2>23. PagesAreSound' /\ ChecksAreSound' /\ DevicesFit' /\ RowsAreSound'
    <3>1. \A e, row : CopyIsSound(e, row)' <=> CopyIsSound(e, row)
      BY <2>13, <2>16 DEF CopyIsSound
    <3>2. PagesAreSound'
      BY <1>2, <3>1 DEF PagesAreSound, PageIsSound
    <3>3. ChecksAreSound'
      BY <1>2, <2>13, <3>1 DEF ChecksAreSound, CheckIsSound
    <3>4. DevicesFit' /\ RowsAreSound'
      BY <2>13, <2>16 DEF DevicesFit, RowsAreSound
    <3> QED
      BY <3>2, <3>3, <3>4
  <2>24. ActiveDevices' /\ ActiveIsHeld'
    <3>1. races' = {} => races = {}
      BY <2>3
    <3> QED
      BY <1>2, <2>3, <2>13, <2>14, <3>1 DEF ActiveDevices, ActiveIsHeld
  <2> QED
    BY <2>12, <2>13, <2>21, <2>22, <2>23, <2>24
<1> QED
  BY <1>3, <1>4

\* A bind that is refused changes no row.
LEMMA BindIsRefused ==
  ASSUME BindingInv, NEW c \in Clients, CommitBind(c), Refused(c)
  PROVE  BindingInv'
<1>1. /\ UNCHANGED <<rows, late, web, check, files, lost, opened, races>> /\ Stop(c)
      /\ server' = [server EXCEPT ![c] = None] /\ client[c].at = "bind"
  BY DEF CommitBind, BindingInv, BindsAreSound, BindIsSound
<1> QED
  BY <1>1, RowsStayThere, IdleIsSound, Moved DEF BindingInv, TypeOK

\* The rows after a bind: its device is active, an earlier one of the installation
\* is not.
LEMMA BoundRows ==
  ASSUME BindingInv, NEW c \in Clients, CommitBind(c), ~Refused(c),
         NEW d, d = client[c].code, NEW previous, previous = server[c].previous,
         NEW install, install = client[c].install
  PROVE  /\ d \in With("pending") /\ d \in Codes /\ previous # d
         /\ install \in Installs /\ install[1] = c
         /\ previous = None \/ (previous \in Created \ With("pending") /\ Fits(previous, install))
         /\ rows' \in [Codes -> Row \cup {None}] /\ Created' = Created
         /\ With("active")' = (With("active") \ {previous}) \cup {d}
         /\ With("pending")' = With("pending") \ {d}
         /\ rows'[d].install = install
         /\ previous # None => rows'[previous].install = install
         /\ \A e \in Codes \ {d, previous} : rows'[e] = rows[e]
<1> USE NoneAssumption DEF BindingInv
<1>1. /\ d \in With("pending") /\ client[c].at = "bind"
      /\ previous # None => previous \in Created \ With("pending") /\ Fits(previous, install)
  BY DEF CommitBind, BindsAreSound, BindIsSound
<1>2. install \in Installs /\ install[1] = c
  BY <1>1 DEF CommandsAreSound, CommandIsSound, TypeOK, Command
<1>3. d \in Created /\ d \in Codes /\ d # None /\ previous # d /\ Created \subseteq Codes
  BY <1>1 DEF With, Created
<1>4. PICK row : row = [status |-> "active", install |-> install]
  OBVIOUS
<1>5. row \in Row /\ row.status = "active" /\ row.install = install
  BY <1>2, <1>4 DEF Row
<1>6. PICK ended : ended = Revoked(row)
  OBVIOUS
<1>7. ended \in Row /\ ended.status = "revoked" /\ ended.install = install
  BY <1>5, <1>6, RevokedRow
<1>8. rows' = [e \in Codes |-> CASE e = d -> row
                                 [] e \in {previous} \ {None} -> ended
                                 [] OTHER -> rows[e]]
  BY <1>4, <1>6 DEF CommitBind, Superseded
<1>9. rows'[d] = row /\ (previous # None => rows'[previous] = ended)
      /\ \A e \in Codes \ {d, previous} : rows'[e] = rows[e]
  <2>1. None \notin Codes
    OBVIOUS
  <2> QED
    BY <1>1, <1>3, <1>8, <2>1
<1>10. rows' \in [Codes -> Row \cup {None}]
  <2>1. \A e \in Codes : rows'[e] \in Row \cup {None}
    BY <1>1, <1>3, <1>5, <1>7, <1>9 DEF TypeOK
  <2> QED
    BY <1>8, <2>1
<1>11. Created' = Created
  BY <1>1, <1>3, <1>5, <1>7, <1>9 DEF Created
<1>12. With("active")' = (With("active") \ {previous}) \cup {d}
       /\ With("pending")' = With("pending") \ {d}
  <2>1. \A e \in Created : /\ rows'[e].status = "active" <=>
                                e = d \/ (e # previous /\ rows[e].status = "active")
                           /\ rows'[e].status = "pending" <=>
                                e # d /\ e # previous /\ rows[e].status = "pending"
    BY <1>1, <1>3, <1>5, <1>7, <1>9
  <2>2. previous \notin With("pending")
    BY <1>1, <1>3 DEF With
  <2> QED
    BY <1>1, <1>3, <1>11, <2>1, <2>2 DEF With
<1> QED
  BY <1>1, <1>2, <1>3, <1>5, <1>7, <1>9, <1>10, <1>11, <1>12

\* A bind adds its device: the limit is kept by those that it read and nobody has
\* added to, and its client has the token unless the reply is lost.
LEMMA BindCommits ==
  ASSUME BindingInv, NEW c \in Clients, CommitBind(c), ~Refused(c)
  PROVE  BindingInv'
<1> USE NoneAssumption, BoundsAssumption DEF BindingInv
<1>1. PICK d, previous, install : /\ d = client[c].code /\ previous = server[c].previous
                                  /\ install = client[c].install
  OBVIOUS
<1>2. /\ d \in With("pending") /\ d \in Codes /\ previous # d
      /\ install \in Installs /\ install[1] = c
      /\ previous = None \/ (previous \in Created \ With("pending") /\ Fits(previous, install))
      /\ rows' \in [Codes -> Row \cup {None}] /\ Created' = Created
      /\ With("active")' = (With("active") \ {previous}) \cup {d}
      /\ With("pending")' = With("pending") \ {d}
      /\ rows'[d].install = install
      /\ previous # None => rows'[previous].install = install
      /\ \A e \in Codes \ {d, previous} : rows'[e] = rows[e]
  BY <1>1, BoundRows
<1>3. /\ client[c].at = "bind" /\ UNCHANGED <<web, check, files, opened, races>> /\ server[c] # None
      /\ server' = [server EXCEPT ![c] = None] /\ late' \subseteq late
      /\ client' = [client EXCEPT ![c] = client'[c]]
      /\ \/ client'[c] = [client[c] EXCEPT !.at = "installed"] /\ lost' = lost
         \/ client'[c] = Idle /\ lost' = lost + 1 /\ lost < MaxLost
  BY DEF CommitBind, BindsAreSound, BindIsSound, Goto, Stop, Lose, TypeOK
<1>4. \/ client'[c].at = "installed" /\ client'[c].code = d
         /\ client'[c].install = install /\ client'[c] \in Command /\ lost' = lost
      \/ client'[c].at = "idle" /\ client'[c].install = None /\ client'[c] \in Command
         /\ lost' = lost + 1 /\ lost' \in 0 .. MaxLost
  BY <1>1, <1>3 DEF Command, Idle, TypeOK
<1>5. TypeOK'
  BY <1>2, <1>3, <1>4 DEF TypeOK
<1>6. \A b \in Clients : b = c \/ (client'[b] = client[b] /\ server'[b] = server[b])
  BY <1>3 DEF TypeOK
<1>7. d \in Created /\ d \notin With("active") /\ Created \subseteq Codes /\ server'[c] = None
      /\ With("active") \subseteq Created \ With("pending") /\ install # None
  BY <1>2, <1>3 DEF With, Created, TypeOK
<1>8. \A b \in Clients : ~Holds(b, d)
  BY <1>2 DEF TokensAreOwn
<1>9. \A b \in Clients, e \in Codes : Holds(b, e)' => (b = c /\ e = d) \/ Holds(b, e)
  BY <1>3, <1>4, <1>6 DEF Holds
<1>10. \A e \in Codes \ {d} : \A i : Fits(e, i) => Fits(e, i)'
  BY <1>3, <1>4, <1>6 DEF Fits
<1>11. \A i \in {install, None} : Fits(d, i)'
  BY <1>3, <1>4, <1>6, <1>8 DEF Fits, Holds
<1>12. CodesAreDense' /\ RowsAreSound'
  <2>1. \A e \in With("active")' : rows'[e].install # None
    BY <1>2, <1>7 DEF RowsAreSound
  <2>2. \A e \in With("pending")' : rows'[e].install = None
    BY <1>2, <1>7 DEF RowsAreSound, With
  <2> QED
    BY <1>2, <2>1, <2>2 DEF CodesAreDense, RowsAreSound
<1>13. CommandsAreSound'
  <2> SUFFICES ASSUME NEW b \in Clients PROVE CommandIsSound(b)'
    BY DEF CommandsAreSound
  <2>1. CommandIsSound(b) /\ files'[b] = files[b] /\ files[b].binding # d
    BY <1>3, <1>8 DEF CommandsAreSound, Holds
  <2>2. files[b].binding \notin With("active") => files[b].binding \notin With("active")'
    BY <1>2, <2>1
  <2>3. CASE b = c
    BY <1>1, <1>2, <1>3, <1>4, <1>7, <2>1, <2>2, <2>3 DEF CommandIsSound
  <2>4. CASE b # c
    BY <1>2, <1>3, <1>6, <2>1, <2>2, <2>4 DEF CommandIsSound
  <2> QED
    BY <2>3, <2>4
<1>14. ASSUME NEW e, NEW row, CopyIsSound(e, row) PROVE CopyIsSound(e, row)'
  <2>1. e \in Codes
    BY <1>7, <1>14 DEF CopyIsSound
  <2>2. CASE e = d
    <3>1. row.install = None
      BY <1>2, <1>14, <2>2 DEF CopyIsSound
    <3>2. Fits(d, None)'
      BY <1>11
    <3> QED
      BY <1>2, <1>14, <2>2, <3>1, <3>2 DEF CopyIsSound
  <2>3. CASE e # d
    <3>1. Fits(e, row.install)'
      BY <1>10, <1>14, <2>1, <2>3 DEF CopyIsSound
    <3> QED
      BY <1>2, <1>14, <3>1 DEF CopyIsSound
  <2> QED
    BY <2>2, <2>3
<1>15. PagesAreSound'
  BY <1>3, <1>14 DEF PagesAreSound, PageIsSound
<1>16. ChecksAreSound'
  <2> SUFFICES ASSUME NEW b \in Clients, check[b] # None PROVE CheckIsSound(b)'
    BY <1>3 DEF ChecksAreSound, CheckIsSound
  <2>1. PICK e, copy : e = check[b].device /\ copy = check[b].row
    OBVIOUS
  <2>2. /\ CopyIsSound(e, copy) /\ e \notin With("pending")
        /\ copy.status = "active" /\ copy.install # None
        /\ e \in With("active") => rows[e] = copy
        /\ \A a \in Clients : check[a] # None /\ check[a].device = e => check[a].row = copy
    BY <2>1 DEF ChecksAreSound, CheckIsSound
  <2>3. e \in Codes /\ e # d
    BY <1>2, <1>7, <2>2 DEF CopyIsSound
  <2>4. e \in With("active")' => rows'[e] = copy
    BY <1>2, <2>2, <2>3
  <2>5. CopyIsSound(e, copy)'
    BY <1>14, <2>2
  <2> QED
    BY <1>2, <1>3, <2>1, <2>2, <2>4, <2>5 DEF CheckIsSound
<1>17. BindsAreSound'
  <2> SUFFICES ASSUME NEW b \in Clients, server'[b] # None PROVE BindIsSound(b)'
    BY DEF BindsAreSound, BindIsSound
  <2>1. b # c /\ server'[b] = server[b] /\ client'[b] = client[b]
    BY <1>6, <1>7
  <2>2. PICK p, i : p = server[b].previous /\ i = client[b].install
    OBVIOUS
  <2>3. /\ client[b].at = "bind" /\ client[b].code \in With("pending") /\ client[b].code # d
        /\ \A a \in Clients \ {b} : server[a] # None =>
             client[a].code # client[b].code /\ "binds" \in races
        /\ p # None => p \in Created \ With("pending") /\ Fits(p, i)
        /\ "status" \notin races => \A e \in With("active") : rows[e].install = i => e = p
    BY <1>1, <1>3, <2>1, <2>2 DEF BindsAreSound, BindIsSound
  <2>4. "binds" \in races
    BY <1>3, <2>1, <2>3
  <2>5. i # install
    BY <1>2, <2>1, <2>2, <2>3 DEF CommandsAreSound, CommandIsSound
  <2>6. p # None => Fits(p, i)'
    BY <1>2, <1>7, <1>10, <2>3
  <2>7. "status" \notin races => \A e \in With("active")' : rows'[e].install = i => e = p
    BY <1>2, <1>7, <2>3, <2>5
  <2>8. \A a \in Clients \ {b} : server'[a] # None => client'[a].code # client'[b].code
    BY <1>6, <1>7, <2>1, <2>3
  <2> QED
    BY <1>2, <1>3, <2>1, <2>2, <2>3, <2>4, <2>6, <2>7, <2>8 DEF BindIsSound
<1>18. TokensAreOwn'
  <2> SUFFICES ASSUME NEW b \in Clients, NEW e \in Codes, Holds(b, e)'
               PROVE  e \in Created' \ With("pending")' /\ \A a \in Clients \ {b} : ~Holds(a, e)'
    BY DEF TokensAreOwn
  <2>1. CASE e = d
    BY <1>2, <1>7, <1>8, <1>9, <2>1
  <2>2. CASE e # d
    BY <1>2, <1>9, <2>2 DEF TokensAreOwn
  <2> QED
    BY <2>1, <2>2
<1>19. DevicesFit'
  <2> SUFFICES ASSUME NEW e \in Created PROVE Fits(e, rows[e].install)'
    BY <1>2 DEF DevicesFit
  <2>1. PICK i : i = rows'[e].install
    OBVIOUS
  <2>2. CASE e = d
    BY <1>2, <1>11, <2>1, <2>2
  <2>3. CASE e = previous
    <3>1. i = install /\ Fits(e, install) /\ e \in Codes \ {d}
      BY <1>2, <1>7, <2>1, <2>3
    <3>2. Fits(e, i)'
      BY <1>10, <3>1
    <3> QED
      BY <2>1, <3>2
  <2>4. CASE e \notin {d, previous}
    <3>1. i = rows[e].install /\ e \in Codes \ {d}
      BY <1>2, <1>7, <2>1, <2>4
    <3>2. Fits(e, i)'
      BY <1>10, <3>1 DEF DevicesFit
    <3> QED
      BY <2>1, <3>2
  <2> QED
    BY <2>2, <2>3, <2>4
<1>20. ActiveDevices'
  <2>1. races = {} => Cardinality(With("active")') <= MaxActive
    <3> SUFFICES ASSUME races = {} PROVE Cardinality(With("active")') <= MaxActive
      OBVIOUS
    <3>1. With("active") \ {previous} \in SUBSET Codes /\ d \notin With("active") \ {previous}
      BY <1>7
    <3>2. PICK n \in Nat : n = Cardinality(With("active") \ {previous})
      BY <3>1, ActiveAreFinite
    <3>3. n < MaxActive
      BY <1>1, <1>3, <3>2 DEF BindsAreSound, BindIsSound
    <3>4. Cardinality((With("active") \ {previous}) \cup {d}) = n + 1
      BY <3>1, <3>2, ActiveAreFinite, FS_AddElement
    <3>5. Cardinality(With("active")') = n + 1
      BY <1>2, <3>4
    <3>6. n + 1 <= MaxActive
      BY <3>2, <3>3
    <3> QED
      BY <3>5, <3>6
  <2>2. "status" \notin races =>
          \A e, f \in With("active")' : rows'[e].install = rows'[f].install => e = f
    <3> SUFFICES ASSUME "status" \notin races,
                        NEW e \in With("active")', NEW f \in With("active")',
                        rows'[e].install = rows'[f].install
                 PROVE  e = f
      OBVIOUS
    <3>1. \A g \in With("active") : rows[g].install = install => g = previous
      BY <1>1, <1>3 DEF BindsAreSound, BindIsSound
    <3>2. \A g \in With("active") \ {previous} : g \in Codes \ {d, previous}
      BY <1>7
    <3>3. \A g \in With("active") \ {previous} : rows'[g] = rows[g] /\ rows[g].install # install
      BY <1>2, <3>1, <3>2
    <3> QED
      BY <1>2, <3>3 DEF ActiveDevices
  <2> QED
    BY <1>3, <2>1, <2>2 DEF ActiveDevices
<1>21. ActiveIsHeld'
  <2> SUFFICES ASSUME lost' = 0, "status" \notin races, NEW e \in With("active")'
               PROVE  \E b \in Clients : Holds(b, e)'
    BY <1>3 DEF ActiveIsHeld, Holds
  <2>1. lost = 0 /\ client'[c].at = "installed" /\ client'[c].code = d
    BY <1>4 DEF TypeOK
  <2>2. CASE e = d
    BY <2>1, <2>2 DEF Holds
  <2>3. CASE e # d
    <3>1. PICK b \in Clients : Holds(b, e)
      BY <1>2, <2>1, <2>3 DEF ActiveIsHeld, Holds
    <3> QED
      BY <1>3, <1>6, <3>1 DEF Holds
  <2> QED
    BY <2>2, <2>3
<1> QED
  BY <1>5, <1>12, <1>13, <1>15, <1>16, <1>17, <1>18, <1>19, <1>20, <1>21

-----------------------------------------------------------------------------

LEMMA BindingBegins == Init => BindingInv
<1> SUFFICES ASSUME Init PROVE BindingInv
  OBVIOUS
<1> USE NoneAssumption, BoundsAssumption
<1>1. Created = {} /\ \A status : With(status) = {}
  BY DEF Init, Created, With
<1>2. TypeOK
  BY DEF Init, TypeOK, Idle, Command, Files
<1>3. CodesAreDense /\ RowsAreSound /\ DevicesFit
  BY <1>1 DEF CodesAreDense, RowsAreSound, DevicesFit
<1>4. \A c \in Clients : client[c].at = "idle" /\ client[c].install = None
                         /\ files[c].binding = None /\ files[c].install = None
  BY DEF Init, Idle
<1>5. CommandsAreSound
  BY <1>1, <1>4 DEF CommandsAreSound, CommandIsSound
<1>6. TokensAreOwn
  BY <1>4 DEF TokensAreOwn, Holds, Codes
<1>7. PagesAreSound /\ ChecksAreSound /\ BindsAreSound /\ ActiveIsHeld
  BY <1>1 DEF Init, PagesAreSound, PageIsSound, ChecksAreSound, CheckIsSound, BindsAreSound,
              BindIsSound, ActiveIsHeld
<1>8. ActiveDevices
  BY <1>1, FS_EmptySet DEF ActiveDevices
<1> QED
  BY <1>2, <1>3, <1>5, <1>6, <1>7, <1>8 DEF BindingInv

LEMMA BindingGoesOn == BindingInv /\ [Next]_vars => BindingInv'
<1> SUFFICES ASSUME BindingInv, [Next]_vars PROVE BindingInv'
  OBVIOUS
<1>1. ASSUME NEW p \in Pages, CommitCode(p) \/ CommitRevoke(p) PROVE BindingInv'
  BY <1>1, PageWrites
<1>2. CASE \/ \E d \in Codes : Expire(d)
           \/ \E p \in Pages : BeginCode(p) \/ \E d \in Codes : BeginRevoke(p, d)
           \/ UNCHANGED vars
  BY <1>2, PageReads
<1>3. ASSUME NEW c \in Clients, Leave(c) \/ \E d \in Created : Connect(c, d)
      PROVE  BindingInv'
  BY <1>3, Begins
<1>4. ASSUME NEW c \in Clients, Replace(c) \/ Disconnect(c)
      PROVE  BindingInv'
  BY <1>4, OwnStep
<1>5. ASSUME NEW c \in Clients, BeginBind(c) \/ CommitBind(c)
      PROVE  BindingInv'
  BY <1>5, BindBegins, BindIsRefused, BindCommits
<1>6. ASSUME NEW c \in Clients, WriteInstallation(c) \/ WriteBinding(c) \/ RemoveBinding(c)
      PROVE  BindingInv'
  BY <1>6, InstallationIsWritten, BindingIsWritten
<1>7. ASSUME NEW c \in Clients, BeginCheck(c) \/ CommitCheck(c)
      PROVE  BindingInv'
  BY <1>7, CheckReads, CheckSaves
<1> QED
  BY <1>1, <1>2, <1>3, <1>4, <1>5, <1>6, <1>7 DEF Next

\* The whole invariant: the transactions only read what others may change before
\* they write, yet codes, rows, binds and tokens stay sound, whatever two pages, a bind
\* and a status call write over one another.
THEOREM BindingInvariance == Spec => []BindingInv
BY BindingBegins, BindingGoesOn, PTL DEF Spec

\* Every variable keeps its type, for any number of clients, pages and codes.
THEOREM DevicesTypeCorrect == Spec => []TypeOK
<1>1. BindingInv => TypeOK
  BY DEF BindingInv
<1> QED
  BY <1>1, BindingInvariance, PTL

\* What the server calls an active device and what the files of the clients hold are
\* the same, whatever was interrupted: at most MaxActive devices, one per installation,
\* each held by its client unless a reply was lost, and each credential its client's own;
\* all but the last of these as long as no status call brings a device back, and the
\* limit as long as no two binds are open together.
THEOREM BindingsMatch == Spec => []BindingsMatchDevices
<1>1. ASSUME BindingInv PROVE BindingIsOwn
  <2> USE <1>1, NoneAssumption DEF BindingInv
  <2> SUFFICES ASSUME NEW c \in Clients, files[c].binding # None, NEW d, d = files[c].binding
               PROVE  /\ rows[d].status \in {"active", "revoked", "expired"}
                      /\ rows[d].install \in {files[c].install, None}
                      /\ rows[d].install = None => rows[d].status # "active"
                      /\ \A b \in Clients \ {c} : files[b].binding # d
    BY DEF BindingIsOwn
  <2>1. d \in Codes /\ Holds(c, d)
    BY DEF TypeOK, Files, Holds
  <2>2. d \in Created \ With("pending") /\ \A b \in Clients \ {c} : ~Holds(b, d)
    BY <2>1 DEF TokensAreOwn
  <2>3. rows[d].install \in {files[c].install, None}
    BY <2>2 DEF DevicesFit, Fits
  <2>4. rows[d] \in Row /\ rows[d].status # "pending"
    BY <2>2, RowIsOwn DEF With
  <2>5. rows[d].install = None => rows[d].status # "active"
    BY <2>2 DEF RowsAreSound, With
  <2> QED
    BY <2>2, <2>3, <2>4, <2>5 DEF Row, Holds
<1>2. BindingInv => BindingsMatchDevices
  BY <1>1 DEF BindingInv, BindingsMatchDevices
<1> QED
  BY <1>2, BindingInvariance, PTL

\* A code binds one device once: but for a status call that read the device before,
\* no step gives an ended row another life, although transactions write rows they read.
THEOREM RevokedFinal == Spec => RevokedIsFinal
<1>1. ASSUME BindingInv, [Next]_vars,
             NEW d \in Created, rows[d].status \in {"revoked", "expired"}, ~StatusSaves(d)
      PROVE  rows'[d].status \in {"revoked", "expired"}
  <2> USE <1>1 DEF BindingInv
  <2>1. d \in Codes /\ d \notin With("pending") /\ d \notin With("active")
    BY DEF With, Created
  <2>2. RowsGoOn => rows'[d].status \in {"revoked", "expired"}
    BY <2>1 DEF RowsGoOn
  <2>3. CASE rows' = rows
    BY <2>3
  <2>4. ASSUME NEW p \in Pages, CommitCode(p) \/ CommitRevoke(p)
        PROVE  rows'[d].status \in {"revoked", "expired"}
    BY <2>2, <2>4, PageWrites
  <2>5. ASSUME NEW c \in Clients, RevokeOwn(c) PROVE rows'[d].status \in {"revoked", "expired"}
    BY <2>2, <2>5, OwnEnds
  <2>6. ASSUME NEW c \in Clients, CommitBind(c), ~Refused(c)
        PROVE  rows'[d].status \in {"revoked", "expired"}
    <3>1. PICK e, previous, install : /\ e = client[c].code /\ previous = server[c].previous
                                      /\ install = client[c].install
      OBVIOUS
    <3>2. /\ e \in With("pending") /\ Created' = Created /\ rows' \in [Codes -> Row \cup {None}]
          /\ With("active")' = (With("active") \ {previous}) \cup {e}
          /\ With("pending")' = With("pending") \ {e}
      BY <2>6, <3>1, BoundRows
    <3>3. d \in Created' /\ d \notin With("active")' /\ d \notin With("pending")'
      BY <2>1, <3>2
    <3>4. rows'[d] \in Row /\ rows'[d].status \notin {"active", "pending"}
      BY <2>1, <3>2, <3>3 DEF Created, With
    <3> QED
      BY <3>4 DEF Row
  <2>7. ASSUME NEW c \in Clients, CommitCheck(c) PROVE rows'[d] = rows[d]
    <3>1. check[c] # None /\ check'[c] = None /\ check[c].device # d
      BY <2>7 DEF CommitCheck, TypeOK, StatusSaves
    <3> QED
      BY <2>1, <2>7, <3>1 DEF CommitCheck, TypeOK
  <2>8. \/ rows' = rows \/ \E p \in Pages : CommitCode(p) \/ CommitRevoke(p)
        \/ \E c \in Clients : RevokeOwn(c) \/ (CommitBind(c) /\ ~Refused(c)) \/ CommitCheck(c)
    BY DEF Next, vars, Expire, BeginRevoke, BeginCode, Connect, Replace, BeginBind, CommitBind,
           WriteInstallation, WriteBinding, Leave, Disconnect, RemoveBinding, BeginCheck
  <2> QED
    BY <2>3, <2>4, <2>5, <2>6, <2>7, <2>8
<1>2. BindingInv /\ [Next]_vars =>
        [\A d \in Created : rows[d].status \in {"revoked", "expired"} =>
           rows'[d].status \in {"revoked", "expired"} \/ StatusSaves(d)]_vars
  BY <1>1
<1> QED
  BY <1>2, BindingInvariance, PTL DEF Spec, RevokedIsFinal

-----------------------------------------------------------------------------
\* The bounds are numbers.
LEMMA Limits ==
  /\ MaxChanges \in Nat /\ MaxWork \in Nat /\ MaxTickets \in Nat
  /\ LastDay \in Nat /\ MaxTalks \in Nat
BY BackendBounds

\* The index of published events, see EventCatalog.

LEMMA EventsInit == E!Init => E!TypeOK
BY DEF E!Init, E!TypeOK, E!Row, E!Actors, E!Transaction, E!Handling

LEMMA MessageIsTyped ==
  ASSUME NEW op, NEW e \in Events, NEW row
  PROVE  E!MessageOf(op, e, row) \subseteq E!Message
BY DEF E!MessageOf, E!Message

LEMMA ReadsRows ==
  ASSUME E!TypeOK, NEW t \in E!Actors, E!Published \subseteq Events,
         NEW set \in SUBSET E!Published, NEW op \in E!Operations
  PROVE  [op |-> op, read |-> E!Reads(set)] \in E!Transaction
<1>1. E!Reads(set) \in [set -> E!Row]
  BY DEF E!Reads, E!Published
<1> QED
  BY <1>1 DEF E!Transaction

\* Every step keeps the types.
LEMMA EventsTyped == E!TypeOK /\ [E!Next]_eventVars => E!TypeOK'
<1> SUFFICES ASSUME E!TypeOK, [E!Next]_eventVars PROVE E!TypeOK'
  OBVIOUS
<1> USE DEF E!TypeOK
<1>0. E!Published \subseteq Events
  BY DEF E!Published
<1>1. CASE UNCHANGED eventVars
  BY <1>1 DEF eventVars
<1>2. ASSUME NEW e \in Events, E!Pass(e) PROVE E!TypeOK'
  BY <1>2 DEF E!Pass
<1>3. ASSUME NEW e \in Events, E!Create(e) PROVE E!TypeOK'
  BY <1>3 DEF E!Create, E!Row, E!ReviewStatus
<1>4. ASSUME NEW e \in Events, E!Delete(e) PROVE E!TypeOK'
  BY <1>4 DEF E!Delete, E!Message
<1>5. ASSUME NEW t \in Threads, NEW op \in {"approve", "reject", "reanalyze"},
             NEW e \in Events, E!BeginReview(t, op, e)
      PROVE  E!TypeOK'
  <2>1. [op |-> op, read |-> E!Reads({e})] \in E!Transaction
    BY <1>0, <1>5, ReadsRows DEF E!BeginReview, E!Actors, E!Operations
  <2> QED
    BY <1>5, <2>1 DEF E!BeginReview, E!Open, E!Actors
<1>6. ASSUME NEW e \in Events, E!BeginAnalysis(e) PROVE E!TypeOK'
  <2>1. [op |-> "analyze", read |-> E!Reads({e} \cap E!Published)] \in E!Transaction
    BY <1>0, ReadsRows DEF E!Actors, E!Operations
  <2> QED
    BY <1>6, <2>1 DEF E!BeginAnalysis, E!Open, E!Actors
<1>7. ASSUME E!BeginExpiration PROVE E!TypeOK'
  <2> DEFINE found == {e \in overdue \cap E!Published : ~events[e].expired}
  <2>1. [op |-> "expire", read |-> E!Reads(found)] \in E!Transaction
    BY <1>0, ReadsRows DEF E!Actors, E!Operations
  <2> QED
    BY <1>7, <2>1 DEF E!BeginExpiration, E!Open, E!Actors
<1>8. ASSUME NEW t \in Threads, E!BeginReindex(t) PROVE E!TypeOK'
  <2>1. E!Visible \subseteq E!Published
    BY DEF E!Visible, E!IsVisible, E!Published
  <2>2. [op |-> "reindex", read |-> E!Reads(E!Visible)] \in E!Transaction
    BY <1>0, <2>1, ReadsRows DEF E!Actors, E!Operations
  <2> QED
    BY <1>8, <2>2 DEF E!BeginReindex, E!Open, E!Actors
<1>9. ASSUME NEW t \in E!Actors, E!Commit(t) PROVE E!TypeOK'
  <2> DEFINE op == open[t].op
             read == open[t].read
  <2>1. open[t] \in E!Transaction /\ DOMAIN read \subseteq Events
    <3>1. open \in [E!Actors -> E!Transaction \cup {None}] /\ open[t] # None
      BY <1>9 DEF E!Commit
    <3>2. open[t] \in E!Transaction
      BY <1>9, <3>1
    <3> QED
      BY <3>2 DEF E!Transaction
  <2>2. PICK written \in [DOMAIN read -> E!Row] :
          LET changed == {e \in DOMAIN read : written[e] # read[e]}
          IN  /\ events' = [e \in Events |-> IF e \in changed THEN written[e] ELSE events[e]]
              /\ changes' = changes \cup UNION {E!MessageOf(op, e, written[e]) : e \in DOMAIN read}
              /\ analyses' = IF op = "reanalyze" THEN analyses \cup DOMAIN read ELSE analyses
              /\ astray' = astray \cup {e \in changed : events[e] # read[e]}
    BY <1>9, Zenon DEF E!Commit
  <2>3. \A e \in DOMAIN read : E!MessageOf(op, e, written[e]) \subseteq E!Message
    BY <2>1, MessageIsTyped
  <2> QED
    BY <1>9, <2>1, <2>2, <2>3 DEF E!Commit
<1>10. ASSUME NEW t \in E!Actors, E!Fail(t) PROVE E!TypeOK'
  <2>1. open[t] \in E!Transaction /\ DOMAIN open[t].read \subseteq Events
    BY <1>10 DEF E!Fail, E!Transaction
  <2> QED
    BY <1>10, <2>1 DEF E!Fail
<1>11. ASSUME NEW t \in E!Actors, E!EndReindex(t) PROVE E!TypeOK'
  <2>1. open[t] \in E!Transaction /\ DOMAIN open[t].read \subseteq Events
    BY <1>11 DEF E!EndReindex, E!Transaction
  <2> QED
    BY <1>11, <2>1 DEF E!EndReindex
<1>12. ASSUME NEW e \in Events, NEW action \in {"UPSERT", "DELETE"}, E!Receive(e, action)
       PROVE  E!TypeOK'
  <2>1. E!WillIndex(e, action) \in BOOLEAN
    BY DEF E!WillIndex
  <2> QED
    BY <1>12, <2>1 DEF E!Receive, E!Handling
<1>13. ASSUME E!Handle PROVE E!TypeOK'
  BY <1>13 DEF E!Handle, E!Handling, E!Message
<1>14. ASSUME E!Drop PROVE E!TypeOK'
  BY <1>14 DEF E!Drop, E!Handling
<1> QED
  BY <1>1, <1>2, <1>3, <1>4, <1>5, <1>6, <1>7, <1>8, <1>9, <1>10, <1>11, <1>12, <1>13, <1>14
  DEF E!Next, E!End, E!Consume

\* What may put the event into the index, or has done so.
Threatened(e) ==
  \/ e \in index
  \/ consumer # None /\ consumer.event = e /\ consumer.puts
  \/ \E t \in E!Actors : open[t] # None /\ open[t].op = "reindex" /\ e \in DOMAIN open[t].read

IsSent(e) == \E action \in {"UPSERT", "DELETE"} : <<e, action>> \in changes

TakesOut(e) == consumer # None /\ consumer.event = e /\ ~consumer.puts

\* An analysis of the event ends with an index message.
IsAnalysed(e) ==
  /\ e \in E!Published
  /\ \/ e \in analyses
     \/ \E t \in E!Actors :
          open[t] # None /\ open[t].op = "analyze" /\ e \in DOMAIN open[t].read

\* What will take it out again.
Cured(e) == IsSent(e) \/ TakesOut(e) \/ IsAnalysed(e)

HiddenIsCured == \A e \in Events \ astray : e \in E!Visible \/ ~Threatened(e) \/ Cured(e)

EventsInv == E!TypeOK /\ HiddenIsCured

LEMMA HiddenIsCuredAtFirst == E!Init => HiddenIsCured
BY DEF E!Init, HiddenIsCured, Threatened

\* Where rows and messages stay, only another open transaction or another
\* index may change what is said of an event.
LEMMA RowsStay ==
  ASSUME UNCHANGED events
  PROVE  E!Visible' = E!Visible /\ E!Published' = E!Published
BY DEF E!Visible, E!Published

\* The end of a transaction can only take its own analysis away.
LEMMA Closes ==
  ASSUME E!TypeOK, NEW t \in E!Actors, open' = [open EXCEPT ![t] = None], NEW e \in Events
  PROVE  /\ \A u \in E!Actors : open'[u] = IF u = t THEN None ELSE open[u]
         /\ (\E u \in E!Actors : open'[u] # None /\ open'[u].op = "reindex"
                                   /\ e \in DOMAIN open'[u].read)
              => \E u \in E!Actors : open[u] # None /\ open[u].op = "reindex"
                                   /\ e \in DOMAIN open[u].read
         /\ (\E u \in E!Actors : open[u] # None /\ open[u].op = "analyze"
                                   /\ e \in DOMAIN open[u].read)
              => \/ \E u \in E!Actors : open'[u] # None /\ open'[u].op = "analyze"
                                   /\ e \in DOMAIN open'[u].read
                 \/ open[t] # None /\ open[t].op = "analyze" /\ e \in DOMAIN open[t].read
<1>1. \A u \in E!Actors : open'[u] = IF u = t THEN None ELSE open[u]
  BY DEF E!TypeOK
<1> QED
  BY <1>1

\* So does a transaction that begins, with what it is and what it read.
LEMMA Opens ==
  ASSUME E!TypeOK, NEW t \in E!Actors, NEW op \in E!Operations, NEW set \in SUBSET E!Published,
         E!Open(t, op, set), NEW e \in Events
  PROVE  /\ (\E u \in E!Actors : open'[u] # None /\ open'[u].op = "reindex"
                                   /\ e \in DOMAIN open'[u].read)
              => \/ \E u \in E!Actors : open[u] # None /\ open[u].op = "reindex"
                                   /\ e \in DOMAIN open[u].read
                 \/ op = "reindex" /\ e \in set
         /\ (\E u \in E!Actors : open[u] # None /\ open[u].op = "analyze"
                                   /\ e \in DOMAIN open[u].read)
              => \E u \in E!Actors : open'[u] # None /\ open'[u].op = "analyze"
                                   /\ e \in DOMAIN open'[u].read
         /\ op = "analyze" /\ e \in set
              => \E u \in E!Actors : open'[u] # None /\ open'[u].op = "analyze"
                                   /\ e \in DOMAIN open'[u].read
<1> DEFINE made == [op |-> op, read |-> E!Reads(set)]
<1>1. \A u \in E!Actors : open'[u] = IF u = t THEN made ELSE open[u]
  BY DEF E!TypeOK, E!Open
<1>2. open[t] = None /\ made.op = op /\ made.read = E!Reads(set) /\ DOMAIN made.read = set
  BY DEF E!Open, E!Reads
<1>3. made # None
  BY ReadsRows, NoRowAssumption DEF E!Published
<1> HIDE DEF made
<1> QED
  BY <1>1, <1>2, <1>3

LEMMA HiddenIsCuredNext ==
  ASSUME EventsInv, [E!Next]_eventVars
  PROVE  HiddenIsCured'
<1> USE DEF EventsInv
<1> SUFFICES ASSUME NEW e \in Events, e \notin astray'
             PROVE  e \in E!Visible' \/ ~Threatened(e)' \/ Cured(e)'
  BY DEF HiddenIsCured
<1> DEFINE Kept == /\ e \notin astray
                   /\ e \in E!Visible => e \in E!Visible'
                   /\ Threatened(e)' => Threatened(e)
                   /\ Cured(e) => Cured(e)'
           Fine == e \in E!Visible' \/ ~Threatened(e)' \/ Cured(e)'
<1>0. ASSUME Kept PROVE Fine
  BY <1>0 DEF HiddenIsCured
<1>1. CASE UNCHANGED eventVars
  BY <1>1, <1>0 DEF eventVars, Threatened, Cured, IsSent, TakesOut, IsAnalysed,
                    E!Visible, E!Published
<1>2. ASSUME NEW v \in Events, E!Pass(v) PROVE Fine
  BY <1>2, <1>0, RowsStay DEF E!Pass, Threatened, Cured, IsSent, TakesOut, IsAnalysed
<1>3. ASSUME NEW v \in Events, E!Create(v) PROVE Fine
  <2>1. CASE v = e
    BY <1>3, <2>1 DEF E!Create, E!TypeOK, E!Row, E!ReviewStatus, E!Published, Cured, IsAnalysed
  <2>2. CASE v # e
    <3>1. events'[e] = events[e]
      BY <1>3, <2>2 DEF E!Create, E!TypeOK
    <3> QED
      BY <1>3, <3>1, <1>0 DEF E!Create, E!Visible, E!Published, Threatened, Cured, IsSent,
                              TakesOut, IsAnalysed
  <2> QED
    BY <2>1, <2>2
<1>4. ASSUME NEW v \in Events, E!Delete(v) PROVE Fine
  <2>1. CASE v = e
    BY <1>4, <2>1 DEF E!Delete, Cured, IsSent
  <2>2. CASE v # e
    <3>1. events'[e] = events[e]
      BY <1>4, <2>2 DEF E!Delete, E!TypeOK
    <3> QED
      BY <1>4, <3>1, <1>0 DEF E!Delete, E!Visible, E!Published, Threatened, Cured, IsSent,
                              TakesOut, IsAnalysed
  <2> QED
    BY <2>1, <2>2
<1>5. ASSUME NEW t \in Threads, NEW op \in {"approve", "reject", "reanalyze"},
             NEW v \in Events, E!BeginReview(t, op, v)
      PROVE  Fine
  <2>1. t \in E!Actors /\ op \in E!Operations /\ {v} \in SUBSET E!Published
    BY <1>5 DEF E!BeginReview, E!Actors, E!Operations
  <2> QED
    BY <1>5, <2>1, <1>0, RowsStay, Opens
    DEF E!BeginReview, Threatened, Cured, IsSent, TakesOut, IsAnalysed
<1>6. ASSUME NEW v \in Events, E!BeginAnalysis(v) PROVE Fine
  <2>1. "listener" \in E!Actors /\ "analyze" \in E!Operations
    BY DEF E!Actors, E!Operations
  <2>2. e \in analyses => e \in analyses' \/ e = v
    BY <1>6 DEF E!BeginAnalysis
  <2>3. IsAnalysed(e) => IsAnalysed(e)'
    BY <1>6, <2>1, <2>2, RowsStay, Opens DEF E!BeginAnalysis, IsAnalysed
  <2> QED
    BY <1>6, <2>1, <2>3, <1>0, RowsStay, Opens
    DEF E!BeginAnalysis, Threatened, Cured, IsSent, TakesOut
<1>7. ASSUME E!BeginExpiration PROVE Fine
  <2>1. "scheduler" \in E!Actors /\ "expire" \in E!Operations
    BY DEF E!Actors, E!Operations
  <2> QED
    BY <1>7, <2>1, <1>0, RowsStay, Opens
    DEF E!BeginExpiration, Threatened, Cured, IsSent, TakesOut, IsAnalysed
<1>8. ASSUME NEW t \in Threads, E!BeginReindex(t) PROVE Fine
  <2>1. t \in E!Actors /\ "reindex" \in E!Operations /\ E!Visible \in SUBSET E!Published
    BY DEF E!Actors, E!Operations, E!Visible, E!IsVisible, E!Published
  <2> QED
    BY <1>8, <2>1, <1>0, RowsStay, Opens
    DEF E!BeginReindex, Threatened, Cured, IsSent, TakesOut, IsAnalysed
<1>9. ASSUME NEW t \in E!Actors, E!Commit(t) PROVE Fine
  <2> DEFINE op == open[t].op
             read == open[t].read
  <2>1. /\ open[t] \in E!Transaction /\ open[t] # None /\ op # "reindex"
        /\ open' = [open EXCEPT ![t] = None]
        /\ UNCHANGED <<overdue, consumer, index>>
    BY <1>9 DEF E!Commit, E!TypeOK
  <2>2. PICK written \in [DOMAIN read -> E!Row] :
          LET changed == {d \in DOMAIN read : written[d] # read[d]}
          IN  /\ \A d \in DOMAIN read : written[d].expired = (read[d].expired \/ op = "expire")
              /\ changed \subseteq E!Published
              /\ events' = [d \in Events |-> IF d \in changed THEN written[d] ELSE events[d]]
              /\ changes' = changes \cup UNION {E!MessageOf(op, d, written[d]) : d \in DOMAIN read}
              /\ analyses' = IF op = "reanalyze" THEN analyses \cup DOMAIN read ELSE analyses
              /\ astray' = astray \cup {d \in changed : events[d] # read[d]}
    BY <1>9 DEF E!Commit
  <2>3. Threatened(e)' => Threatened(e)
    BY <2>1, Closes DEF Threatened
  <2>4. IsSent(e) \/ TakesOut(e) => Cured(e)'
    BY <2>1, <2>2 DEF Cured, IsSent, TakesOut
  <2>5. e \in DOMAIN read /\ E!MessageOf(op, e, written[e]) # {} => Cured(e)'
    BY <2>2 DEF Cured, IsSent, E!MessageOf
  <2>6. CASE e \notin DOMAIN read
    <3>1. events'[e] = events[e] /\ e \notin astray
      BY <2>2, <2>6
    <3>2. IsAnalysed(e) => IsAnalysed(e)'
      BY <2>1, <2>2, <2>6, <3>1, Closes DEF IsAnalysed, E!Published
    <3> QED
      BY <2>3, <2>4, <3>1, <3>2, <1>0 DEF Cured, E!Visible
  <2>7. CASE e \in DOMAIN read /\ written[e] = read[e]
    <3>1. events'[e] = events[e] /\ e \notin astray
      BY <2>2, <2>7
    <3>2. CASE op # "analyze"
      <4>1. IsAnalysed(e) => IsAnalysed(e)'
        BY <2>1, <2>2, <3>1, <3>2, Closes DEF IsAnalysed, E!Published
      <4> QED
        BY <2>3, <2>4, <3>1, <4>1, <1>0 DEF Cured, E!Visible
    <3>3. CASE op = "analyze"
      BY <2>5, <2>7, <3>3 DEF E!MessageOf
    <3> QED
      BY <3>2, <3>3
  <2>8. CASE e \in DOMAIN read /\ written[e] # read[e]
    <3>1. events'[e] = written[e] /\ events[e] = read[e] /\ e \in E!Published /\ e \notin astray
      BY <2>2, <2>8
    <3>2. CASE op = "reanalyze"
      BY <2>2, <2>8, <3>1, <3>2 DEF Cured, IsAnalysed, E!Published
    <3>3. CASE op = "approve" /\ written[e].expired
      <4>1. IsAnalysed(e) => IsAnalysed(e)'
        BY <2>1, <2>2, <2>8, <3>1, <3>3, Closes DEF IsAnalysed, E!Published
      <4>2. e \notin E!Visible
        BY <2>2, <2>8, <3>1, <3>3 DEF E!Visible, E!IsVisible
      <4> QED
        BY <2>3, <2>4, <3>1, <4>1, <4>2, <1>0 DEF Cured
    <3>4. CASE op # "reanalyze" /\ ~(op = "approve" /\ written[e].expired)
      BY <2>5, <2>8, <3>4 DEF E!MessageOf
    <3> QED
      BY <3>2, <3>3, <3>4
  <2> QED
    BY <2>6, <2>7, <2>8
<1>10. ASSUME NEW t \in E!Actors, E!Fail(t) PROVE Fine
  <2>1. IsAnalysed(e) => IsAnalysed(e)'
    BY <1>10, RowsStay, Closes DEF E!Fail, IsAnalysed
  <2> QED
    BY <1>10, <2>1, <1>0, RowsStay, Closes DEF E!Fail, Threatened, Cured, IsSent, TakesOut
<1>11. ASSUME NEW t \in E!Actors, E!EndReindex(t) PROVE Fine
  <2>1. Threatened(e)' => Threatened(e)
    BY <1>11, Closes DEF E!EndReindex, Threatened
  <2>2. IsAnalysed(e) => IsAnalysed(e)'
    BY <1>11, RowsStay, Closes DEF E!EndReindex, IsAnalysed
  <2> QED
    BY <1>11, <2>1, <2>2, <1>0, RowsStay DEF E!EndReindex, Cured, IsSent, TakesOut
<1>12. ASSUME NEW v \in Events, NEW action \in {"UPSERT", "DELETE"}, E!Receive(v, action)
       PROVE  Fine
  <2>1. consumer' # None
    <3>1. E!WillIndex(v, action) \in BOOLEAN
      BY DEF E!WillIndex
    <3> QED
      BY <1>12, <3>1, NoRowAssumption DEF E!Receive, E!Handling
  <2>2. CASE v # e
    BY <1>12, <2>1, <2>2, <1>0, RowsStay
    DEF E!Receive, Threatened, Cured, IsSent, TakesOut, IsAnalysed
  <2>3. CASE v = e /\ e \notin E!Visible
    BY <1>12, <2>1, <2>3 DEF E!Receive, Cured, TakesOut, E!WillIndex
  <2>4. CASE e \in E!Visible
    BY <1>12, <2>4, RowsStay DEF E!Receive
  <2> QED
    BY <2>2, <2>3, <2>4
<1>13. ASSUME E!Handle PROVE Fine
  <2>1. CASE consumer.event # e \/ consumer.puts
    BY <1>13, <2>1, <1>0, RowsStay
    DEF E!Handle, Threatened, Cured, IsSent, TakesOut, IsAnalysed
  <2>2. CASE consumer.event = e /\ ~consumer.puts
    BY <1>13, <2>2 DEF E!Handle, E!Reindexing, Threatened
  <2> QED
    BY <2>1, <2>2
<1>14. ASSUME E!Drop PROVE Fine
  <2>1. consumer.event # e
    BY <1>14 DEF E!Drop
  <2> QED
    BY <1>14, <2>1, <1>0, RowsStay DEF E!Drop, Threatened, Cured, IsSent, TakesOut, IsAnalysed
<1> QED
  BY <1>1, <1>2, <1>3, <1>4, <1>5, <1>6, <1>7, <1>8, <1>9, <1>10, <1>11, <1>12, <1>13, <1>14
  DEF E!Next, E!End, E!Consume

LEMMA EventsNext == EventsInv /\ [E!Next]_eventVars => EventsInv'
BY EventsTyped, HiddenIsCuredNext DEF EventsInv

LEMMA EventsAreTrue == EventsInv => E!IndexHasNoHidden
BY DEF EventsInv, HiddenIsCured, E!IndexHasNoHidden, E!Settled, Threatened, Cured, IsSent,
       TakesOut, IsAnalysed, E!TypeOK

-----------------------------------------------------------------------------
\* The stored profiles, see ProfileSnapshots.

\* This one needs no more than the types: what a refresh writes it accounts for.
ProfilesInv == P!TypeOK /\ P!CleanIsCurrent

LEMMA ProfilesInit == P!Init => ProfilesInv
BY BackendBounds DEF P!Init, ProfilesInv, P!TypeOK, P!CleanIsCurrent, P!Row, P!Change, P!Refresh

LEMMA MarkedIsDirty ==
  ASSUME NEW row \in P!Row \cup {None}
  PROVE  P!Marked(row) \in P!Row /\ P!Marked(row).dirty /\ P!Marked(row) # None
<1>1. P!Marked(row) = [of |-> IF row = None THEN 0 ELSE row.of, dirty |-> TRUE]
  <2>1. CASE row = None
    BY <2>1 DEF P!Marked
  <2>2. CASE row # None
    BY <2>2 DEF P!Marked, P!Row
  <2> QED
    BY <2>1, <2>2
<1>2. P!Marked(row) \in P!Row
  BY <1>1, BackendBounds DEF P!Row
<1>3. P!Marked(row) # None
  BY <1>2, NoRowAssumption
<1>4. P!Marked(row).dirty
  BY <1>1
<1> QED
  BY <1>2, <1>3, <1>4

LEMMA ProfilesTyped == P!TypeOK /\ [P!Next]_profileVars => P!TypeOK'
<1> SUFFICES ASSUME P!TypeOK, [P!Next]_profileVars PROVE P!TypeOK'
  OBVIOUS
<1> USE DEF P!TypeOK
<1>1. CASE UNCHANGED profileVars
  BY <1>1 DEF profileVars
<1>2. ASSUME NEW q \in Requests, NEW u \in Users, P!BeginChange(q, u) PROVE P!TypeOK'
  BY <1>2 DEF P!BeginChange, P!Change
<1>3. ASSUME NEW q \in Requests, P!CommitChange(q) PROVE P!TypeOK'
  <2> DEFINE u == changing[q].user
             row == changing[q].row
  <2>1. u \in Users /\ row \in P!Row \cup {None}
    BY <1>3 DEF P!CommitChange, P!Change
  <2>2. P!Marked(row) \in P!Row
    BY <2>1, MarkedIsDirty
  <2>3. P!Written(u, row, P!Marked(row)) \in P!Row \cup {None}
    BY <2>1, <2>2 DEF P!Written
  <2>4. sources[u] + 1 \in 0..MaxChanges
    BY <1>3, <2>1, BackendBounds DEF P!CommitChange
  <2> QED
    BY <1>3, <2>1, <2>3, <2>4 DEF P!CommitChange
<1>4. ASSUME NEW q \in Requests, P!FailChange(q) PROVE P!TypeOK'
  BY <1>4 DEF P!FailChange
<1>5. ASSUME NEW set \in SUBSET Users, NEW r \in P!Refreshers, P!BeginRefresh(r, set)
      PROVE  reading' \in [P!Refreshers -> P!Refresh \cup {None}]
  <2>1. [u \in set |-> [row |-> profiles[u], of |-> sources[u]]] \in P!Refresh
    BY DEF P!Refresh
  <2> QED
    BY <1>5, <2>1 DEF P!BeginRefresh
<1>6. ASSUME NEW u \in Users, P!BeginMessage(u) PROVE P!TypeOK'
  BY <1>5, <1>6 DEF P!BeginMessage, P!Refreshers
<1>7. ASSUME P!BeginJob PROVE P!TypeOK'
  BY <1>5, <1>7 DEF P!BeginJob, P!Refreshers, P!Dirty
<1>8. ASSUME NEW r \in P!Refreshers, P!CommitRefresh(r) PROVE P!TypeOK'
  <2> DEFINE read == reading[r]
  <2>1. /\ DOMAIN read \subseteq Users
        /\ \A u \in DOMAIN read : read[u].of \in 0..MaxChanges
    BY <1>8 DEF P!CommitRefresh, P!Refresh
  <2>2. \A u \in DOMAIN read : P!Refreshed(read[u]) \in P!Row
    BY <2>1 DEF P!Refreshed, P!Row
  <2> QED
    BY <1>8, <2>1, <2>2 DEF P!CommitRefresh
<1>9. ASSUME NEW r \in P!Refreshers, P!FailRefresh(r) PROVE P!TypeOK'
  BY <1>9 DEF P!FailRefresh, P!Refresh
<1>10. ASSUME NEW u \in Users, P!ChangeChallenges(u) PROVE P!TypeOK'
  BY <1>10, BackendBounds DEF P!ChangeChallenges
<1> QED
  BY <1>1, <1>2, <1>3, <1>4, <1>6, <1>7, <1>8, <1>9, <1>10 DEF P!Next

LEMMA ProfilesNext == ProfilesInv /\ [P!Next]_profileVars => ProfilesInv'
<1> SUFFICES ASSUME ProfilesInv, [P!Next]_profileVars, NEW v \in Users, v \notin crossed', v \notin missed',
                    profiles'[v] # None, ~profiles'[v].dirty
             PROVE  profiles'[v].of = sources'[v]
  BY ProfilesTyped DEF ProfilesInv, P!CleanIsCurrent
<1> USE DEF ProfilesInv, P!TypeOK
<1>0. ASSUME UNCHANGED <<sources, profiles, crossed, missed>> PROVE profiles'[v].of = sources'[v]
  BY <1>0 DEF P!CleanIsCurrent
<1>1. CASE UNCHANGED profileVars
  BY <1>0, <1>1 DEF profileVars
<1>2. ASSUME NEW q \in Requests, NEW u \in Users, P!BeginChange(q, u)
      PROVE  profiles'[v].of = sources'[v]
  BY <1>0, <1>2 DEF P!BeginChange
<1>3. ASSUME NEW q \in Requests, P!CommitChange(q) PROVE profiles'[v].of = sources'[v]
  <2> DEFINE u == changing[q].user
             row == changing[q].row
  <2>1. u \in Users /\ row \in P!Row \cup {None}
    BY <1>3 DEF P!CommitChange, P!Change
  <2>2. P!Marked(row) # None /\ P!Marked(row).dirty
    BY <2>1, MarkedIsDirty
  <2>3. CASE v # u
    BY <1>3, <2>1, <2>3 DEF P!CommitChange, P!CleanIsCurrent
  <2>4. CASE v = u /\ P!Marked(row) # row
    BY <1>3, <2>1, <2>2, <2>4 DEF P!CommitChange, P!Written
  <2>5. CASE v = u /\ P!Marked(row) = row
    BY <1>3, <2>1, <2>2, <2>5 DEF P!CommitChange, P!Written
  <2> QED
    BY <2>3, <2>4, <2>5
<1>4. ASSUME NEW q \in Requests, P!FailChange(q) PROVE profiles'[v].of = sources'[v]
  BY <1>0, <1>4 DEF P!FailChange
<1>5. ASSUME NEW u \in Users, P!BeginMessage(u) PROVE profiles'[v].of = sources'[v]
  BY <1>0, <1>5 DEF P!BeginMessage
<1>6. ASSUME P!BeginJob PROVE profiles'[v].of = sources'[v]
  BY <1>0, <1>6 DEF P!BeginJob
<1>7. ASSUME NEW r \in P!Refreshers, P!CommitRefresh(r) PROVE profiles'[v].of = sources'[v]
  BY <1>7 DEF P!CommitRefresh, P!CleanIsCurrent, P!Refreshed
<1>8. ASSUME NEW r \in P!Refreshers, P!FailRefresh(r) PROVE profiles'[v].of = sources'[v]
  BY <1>0, <1>8 DEF P!FailRefresh
<1>9. ASSUME NEW u \in Users, P!ChangeChallenges(u) PROVE profiles'[v].of = sources'[v]
  BY <1>9 DEF P!ChangeChallenges, P!CleanIsCurrent
<1> QED
  BY <1>1, <1>2, <1>3, <1>4, <1>5, <1>6, <1>7, <1>8, <1>9 DEF P!Next

-----------------------------------------------------------------------------
\* The memories of the coach, see CoachReviews.

\* Logs and memories are of the same days ...
Paired(s) == \A d \in C!Days : s.logs[d] # None <=> s.reviews[d] # None

\* ... and of the same texts.
Agrees(s, d) == s.logs[d] # None => s.reviews[d].text = s.logs[d]

\* No memory was used more often than there were requests.
Counted(s, n) == \A d \in C!Days : s.reviews[d] # None => s.reviews[d].count <= n

\* What a transaction makes of the memory of a day, unused or used.
Rests(read, made, d) ==
  /\ read.reviews[d] = None => made.reviews[d] = None \/ made.reviews[d].count = 0
  /\ read.reviews[d] # None =>
       /\ made.reviews[d].count = read.reviews[d].count
       /\ made.reviews[d].next = read.reviews[d].next

Uses(read, made, d) ==
  /\ read.reviews[d] # None
  /\ read.reviews[d].next <= today
  /\ made.reviews[d].count = read.reviews[d].count + 1
  /\ made.reviews[d].next = today + C!ReviewInterval(made.reviews[d].count)

\* A transaction makes this of what it read: no row is lost, and texts agree
\* where they did.
Follows(read, made, used) ==
  /\ made \in C!State /\ Paired(made)
  /\ \A d \in C!Days :
       /\ read.reviews[d] # None => made.reviews[d] # None
       /\ d \notin used => Rests(read, made, d)
       /\ d \in used => Uses(read, made, d)
       /\ d \notin overwritten => Agrees(made, d)

TalkIsSound(t) ==
  /\ t.read \in C!State /\ t.used \subseteq C!Days /\ t.reply \in C!Reply
  /\ Paired(t.read)
  /\ \A d \in C!Days \ overwritten : Agrees(t.read, d)
  /\ Follows(t.read, t.made, t.used) /\ Counted(t.made, talksBegun)

\* The rows a transaction read are still there.
Present(t) == \A d \in C!Days : t.read.reviews[d] # None => reviews[d] # None

\* The memory counts its uses, and its next one is after the interval of the last.
Spaced(d) ==
  LET uses == asked[d]
      n == Len(uses)
  IN  /\ reviews[d] = None => n = 0
      /\ reviews[d] # None => reviews[d].count = n
      /\ n > 0 => reviews[d].next >= uses[n] + C!ReviewInterval(n)
      /\ \A i \in 1..n - 1 : uses[i + 1] - uses[i] >= C!ReviewInterval(i)

CoachInv ==
  /\ C!CoachTypeOK
  /\ Paired(C!Current) /\ Counted(C!Current, talksBegun)
  /\ \A d \in C!Days \ overwritten : Agrees(C!Current, d) /\ Spaced(d)
  /\ \A c \in Callers : talks[c] # None => TalkIsSound(talks[c]) /\ Present(talks[c])

LEMMA IntervalIsNatural ==
  ASSUME NEW count \in Nat \ {0}
  PROVE  C!ReviewInterval(count) \in Nat
BY BackendBounds DEF C!ReviewInterval

LEMMA IntervalIsOver ==
  ASSUME NEW used \in Nat, NEW interval \in Nat, NEW next \in Nat, NEW day \in Nat,
         next >= used + interval, next <= day
  PROVE  day - used >= interval
OBVIOUS

LEMMA CurrentIs ==
  C!Current.logs = logs /\ C!Current.reviews = reviews
BY DEF C!Current

LEMMA CoachInit == C!CoachInit => CoachInv
<1> SUFFICES ASSUME C!CoachInit PROVE CoachInv
  OBVIOUS
<1>1. C!CoachTypeOK
  <2>1. C!Current \in C!State
    BY DEF C!CoachInit, C!Current, C!State
  <2>2. asked \in [C!Days -> Seq(C!Days)]
    BY DEF C!CoachInit
  <2> QED
    BY <2>1, <2>2, BackendBounds DEF C!CoachInit, C!CoachTypeOK, C!Days, C!Reply
<1>2. Paired(C!Current) /\ Counted(C!Current, talksBegun)
  BY CurrentIs DEF C!CoachInit, Paired, Counted
<1>3. \A d \in C!Days : Agrees(C!Current, d) /\ Spaced(d)
  BY CurrentIs DEF C!CoachInit, Agrees, Spaced
<1> QED
  BY <1>1, <1>2, <1>3 DEF CoachInv, C!CoachInit

\* The memory of a text.
LEMMA UpsertedMemory ==
  ASSUME C!CoachTypeOK, NEW memory \in C!Memory \cup {None}, NEW text \in C!Text
  PROVE  LET made == C!UpsertMemoryReview(memory, text)
         IN  /\ made \in C!Memory /\ made # None
             /\ made.text = text
             /\ memory = None => made.count = 0
             /\ memory # None => made.count = memory.count /\ made.next = memory.next
<1> DEFINE made == C!UpsertMemoryReview(memory, text)
<1>1. CASE memory = None
  <2>1. made = [text |-> text, count |-> 0, next |-> today]
    BY <1>1 DEF C!UpsertMemoryReview
  <2>2. made \in C!Memory
    BY <2>1, BackendBounds DEF C!Memory, C!CoachTypeOK, C!Days
  <2> QED
    BY <1>1, <2>1, <2>2, NoRowAssumption
<1>2. CASE memory # None
  <2>1. made = [text |-> text, count |-> memory.count, next |-> memory.next]
    BY <1>2 DEF C!UpsertMemoryReview, C!Memory
  <2>2. made \in C!Memory
    BY <1>2, <2>1 DEF C!Memory
  <2> QED
    BY <1>2, <2>1, <2>2, NoRowAssumption
<1> QED
  BY <1>1, <1>2

LEMMA NothingFollows ==
  ASSUME CoachInv
  PROVE  Follows(C!Current, C!Current, {}) /\ Counted(C!Current, talksBegun)
BY DEF CoachInv, Follows, C!CoachTypeOK, Rests

\* ensureMemoryReviews: every log has its memory.
LEMMA EnsuredFollows ==
  ASSUME CoachInv
  PROVE  LET made == C!EnsureMemoryReviews(C!Current)
         IN  Follows(C!Current, made, {}) /\ Counted(made, talksBegun) /\ made.logs = logs
<1> DEFINE s == C!Current
           made == C!EnsureMemoryReviews(s)
<1>0. s \in C!State /\ C!CoachTypeOK
  BY DEF CoachInv, C!CoachTypeOK
<1>1. /\ made.logs = s.logs
      /\ made.reviews = [d \in C!Days |-> IF s.logs[d] = None THEN s.reviews[d]
                                          ELSE C!UpsertMemoryReview(s.reviews[d], s.logs[d])]
      /\ made = [logs |-> made.logs, reviews |-> made.reviews]
  BY <1>0 DEF C!EnsureMemoryReviews, C!State
<1>2. ASSUME NEW d \in C!Days
      PROVE  /\ made.reviews[d] \in C!Memory \cup {None}
             /\ made.logs[d] # None <=> made.reviews[d] # None
             /\ s.reviews[d] # None => made.reviews[d] # None
             /\ Rests(s, made, d) /\ Agrees(made, d)
             /\ made.reviews[d] # None => made.reviews[d].count <= talksBegun
  <2>1. CASE s.logs[d] = None
    <3>1. made.reviews[d] = s.reviews[d] /\ s.reviews[d] = None
      BY <1>1, <2>1 DEF CoachInv, Paired
    <3> QED
      BY <1>1, <2>1, <3>1 DEF Rests, Agrees
  <2>2. CASE s.logs[d] # None
    <3>1. s.logs[d] \in C!Text /\ s.reviews[d] \in C!Memory /\ s.reviews[d] # None
      BY <1>0, <2>2 DEF C!State, CoachInv, Paired
    <3>2. made.reviews[d] = C!UpsertMemoryReview(s.reviews[d], s.logs[d])
      BY <1>1, <2>2
    <3>3. s.reviews[d].count <= talksBegun
      BY <3>1 DEF CoachInv, Counted
    <3> HIDE DEF s, made
    <3> QED
      BY <1>0, <1>1, <2>2, <3>1, <3>2, <3>3, UpsertedMemory DEF Rests, Agrees
  <2> QED
    BY <2>1, <2>2
<1>3. made \in C!State
  <2>1. made.reviews \in [C!Days -> C!Memory \cup {None}]
    BY <1>1, <1>2
  <2>2. made.logs \in [C!Days -> C!Text \cup {None}]
    BY <1>0, <1>1 DEF C!State
  <2> HIDE DEF made
  <2> QED
    BY <1>1, <2>1, <2>2 DEF C!State
<1> HIDE DEF made, s
<1>4. QED
  BY <1>1, <1>2, <1>3, CurrentIs DEF Follows, Paired, Counted, s, made

\* saveLog: the log of a day is made again, and its memory with it.
LEMMA SavedFollows ==
  ASSUME CoachInv, NEW s, Follows(C!Current, s, {}), Counted(s, talksBegun),
         NEW d \in C!Days, NEW text \in C!Text
  PROVE  LET made == C!SaveLog(s, d, text)
         IN  Follows(C!Current, made, {}) /\ Counted(made, talksBegun)
<1> DEFINE made == C!SaveLog(s, d, text)
           memory == C!UpsertMemoryReview(s.reviews[d], text)
<1>0. s \in C!State /\ C!CoachTypeOK
  BY DEF CoachInv, Follows
<1>1. /\ made.logs = [s.logs EXCEPT ![d] = text]
      /\ made.reviews = [s.reviews EXCEPT ![d] = memory]
      /\ made = [logs |-> made.logs, reviews |-> made.reviews]
  BY DEF C!SaveLog
<1>2. /\ memory \in C!Memory /\ memory # None
      /\ memory.text = text
      /\ s.reviews[d] = None => memory.count = 0
      /\ s.reviews[d] # None => memory.count = s.reviews[d].count /\ memory.next = s.reviews[d].next
  <2>1. s.reviews[d] \in C!Memory \cup {None}
    BY <1>0 DEF C!State
  <2> QED
    BY <1>0, <2>1, UpsertedMemory
<1>3. made \in C!State
  <2>1. made.logs \in [C!Days -> C!Text \cup {None}]
    BY <1>0, <1>1 DEF C!State
  <2>2. made.reviews \in [C!Days -> C!Memory \cup {None}]
    BY <1>0, <1>1, <1>2 DEF C!State
  <2> HIDE DEF made
  <2> QED
    BY <1>1, <2>1, <2>2 DEF C!State
<1>4. ASSUME NEW e \in C!Days
      PROVE  /\ made.logs[e] = IF e = d THEN text ELSE s.logs[e]
             /\ made.reviews[e] = IF e = d THEN memory ELSE s.reviews[e]
  BY <1>0, <1>1 DEF C!State
<1>5. text # None
  BY NoRowAssumption
<1>6. memory.count <= talksBegun
  <2>1. talksBegun \in Nat
    BY DEF CoachInv, C!CoachTypeOK
  <2> QED
    BY <1>2, <2>1 DEF Follows, Counted
<1>7. Paired(made) /\ Counted(made, talksBegun)
  BY <1>2, <1>4, <1>5, <1>6 DEF Follows, Paired, Counted
<1> HIDE DEF made, memory
<1>8. ASSUME NEW e \in C!Days
      PROVE  /\ C!Current.reviews[e] # None => made.reviews[e] # None
             /\ Rests(C!Current, made, e)
             /\ e \notin overwritten => Agrees(made, e)
  <2>1. CASE e = d
    BY <1>2, <1>4, <1>5, <2>1 DEF Follows, Rests, Agrees
  <2>2. CASE e # d
    BY <1>4, <2>2 DEF Follows, Rests, Agrees
  <2> QED
    BY <2>1, <2>2
<1> QED
  BY <1>3, <1>7, <1>8 DEF Follows, made

\* chat: the memory that has been due for longest is used.
LEMMA UsedFollows ==
  ASSUME CoachInv, talksBegun < MaxTalks,
         NEW d \in C!DueMemories(C!EnsureMemoryReviews(C!Current))
  PROVE  LET s == C!EnsureMemoryReviews(C!Current)
             made == [s EXCEPT !.reviews[d] = C!Used(@)]
         IN  Follows(C!Current, made, {d}) /\ Counted(made, talksBegun + 1)
<1> DEFINE s == C!EnsureMemoryReviews(C!Current)
           made == [s EXCEPT !.reviews[d] = C!Used(@)]
           memory == C!Used(s.reviews[d])
<1>0. /\ Follows(C!Current, s, {}) /\ Counted(s, talksBegun) /\ s.logs = logs
      /\ s \in C!State /\ C!CoachTypeOK /\ talksBegun \in Nat
  BY EnsuredFollows DEF CoachInv, Follows, C!CoachTypeOK
<1>1. d \in C!Days /\ s.reviews[d] # None /\ s.reviews[d].next <= today
  BY DEF C!DueMemories
<1> HIDE DEF s
<1>2. /\ made.logs = s.logs
      /\ made.reviews = [s.reviews EXCEPT ![d] = memory]
      /\ made = [logs |-> made.logs, reviews |-> made.reviews]
  BY <1>0 DEF C!State
<1>3. s.reviews[d] \in C!Memory /\ s.reviews[d].count <= talksBegun
  BY <1>0, <1>1 DEF C!State, Counted
<1>4. memory = [text |-> s.reviews[d].text, count |-> s.reviews[d].count + 1,
                next |-> today + C!ReviewInterval(s.reviews[d].count + 1)]
  BY DEF C!Used
<1>5. memory \in C!Memory /\ memory # None
  <2>1. s.reviews[d].count + 1 \in Nat \ {0} /\ s.reviews[d].count + 1 <= MaxTalks
    BY <1>0, <1>3, Limits DEF C!Memory
  <2>2. today + C!ReviewInterval(s.reviews[d].count + 1) \in Nat
    <3>1. today \in Nat
      BY <1>0, BackendBounds DEF C!CoachTypeOK, C!Days
    <3>2. C!ReviewInterval(s.reviews[d].count + 1) \in Nat
      BY <2>1, IntervalIsNatural
    <3> QED
      BY <3>1, <3>2
  <2>3. memory \in C!Memory
    BY <1>3, <1>4, <2>1, <2>2 DEF C!Memory
  <2> QED
    BY <2>3, NoRowAssumption
<1>6. ASSUME NEW e \in C!Days
      PROVE  made.reviews[e] = IF e = d THEN memory ELSE s.reviews[e]
  BY <1>0, <1>2 DEF C!State
<1>7. made \in C!State
  <2>1. made.reviews \in [C!Days -> C!Memory \cup {None}]
    BY <1>0, <1>2, <1>5 DEF C!State
  <2>2. made.logs \in [C!Days -> C!Text \cup {None}]
    BY <1>0, <1>2 DEF C!State
  <2> HIDE DEF made
  <2> QED
    BY <1>2, <2>1, <2>2 DEF C!State
<1>8. C!Current.reviews[d] # None
  BY <1>0, <1>1, CurrentIs DEF Follows, Paired, CoachInv
<1>9. /\ C!Current.reviews[d].count = s.reviews[d].count
      /\ C!Current.reviews[d].next = s.reviews[d].next
  BY <1>0, <1>1, <1>8 DEF Follows, Rests
<1>10. Uses(C!Current, made, d)
  BY <1>1, <1>4, <1>6, <1>8, <1>9 DEF Uses
<1> HIDE DEF made, memory
<1>11. Paired(made) /\ Counted(made, talksBegun + 1)
  <2>1. \A e \in C!Days : made.reviews[e] # None <=> s.reviews[e] # None
    BY <1>1, <1>5, <1>6
  <2>2. Paired(made)
    BY <1>0, <1>2, <2>1 DEF Follows, Paired
  <2>3. ASSUME NEW e \in C!Days, made.reviews[e] # None
        PROVE  made.reviews[e].count <= talksBegun + 1
    <3>1. CASE e = d
      BY <1>0, <1>3, <1>4, <1>6, <3>1 DEF C!Memory, memory
    <3>2. CASE e # d
      <4>1. made.reviews[e] = s.reviews[e] /\ s.reviews[e] \in C!Memory
        BY <1>0, <1>6, <2>3, <3>2 DEF C!State
      <4>2. s.reviews[e].count <= talksBegun /\ s.reviews[e].count \in Nat
        BY <1>0, <2>3, <4>1, BackendBounds DEF Counted, C!Memory
      <4> QED
        BY <1>0, <4>1, <4>2
    <3> QED
      BY <3>1, <3>2
  <2> QED
    BY <2>2, <2>3 DEF Counted
<1>12. ASSUME NEW e \in C!Days
       PROVE  /\ C!Current.reviews[e] # None => made.reviews[e] # None
              /\ e \notin {d} => Rests(C!Current, made, e)
              /\ e \notin overwritten => Agrees(made, e)
  <2>1. CASE e = d
    BY <1>0, <1>2, <1>4, <1>5, <1>6, <2>1 DEF Follows, Agrees, memory
  <2>2. CASE e # d
    BY <1>0, <1>2, <1>6, <2>2 DEF Follows, Rests, Agrees
  <2> QED
    BY <2>1, <2>2
<1>13. QED
  BY <1>7, <1>10, <1>11, <1>12 DEF Follows, made, s

LEMMA TalkIsTyped ==
  ASSUME NEW t, t \in C!Talk \cup {None}, t # None
  PROVE  t \in C!Talk /\ t.read \in C!State /\ t.made \in C!State /\ t.used \subseteq C!Days
BY DEF C!Talk

\* A request that begins, with what it makes.
LEMMA CoachBegins ==
  ASSUME CoachInv, NEW c \in Callers, NEW made, NEW used \in SUBSET C!Days, NEW reply \in C!Reply,
         Follows(C!Current, made, used), Counted(made, talksBegun + 1),
         C!Begin(c, made, used, reply)
  PROVE  CoachInv'
<1> DEFINE talk == [read |-> C!Current, made |-> made, used |-> used, reply |-> reply]
<1>1. /\ talksBegun' = talksBegun + 1 /\ talksBegun < MaxTalks
      /\ talks' = [talks EXCEPT ![c] = talk]
      /\ UNCHANGED <<today, talked, lastReply, logs, reviews, asked, overwritten>>
  BY DEF C!Begin
<1>2. C!CoachTypeOK /\ talksBegun \in Nat
  BY DEF CoachInv, C!CoachTypeOK
<1>3. C!Current' = C!Current
  BY <1>1 DEF C!Current
<1>4. talk \in C!Talk /\ talk # None
  <2>1. talk \in C!Talk
    BY <1>2 DEF C!Talk, C!CoachTypeOK, Follows
  <2> QED
    BY <2>1, NoRowAssumption
<1>5. C!CoachTypeOK'
  BY <1>1, <1>2, <1>3, <1>4, BackendBounds DEF C!CoachTypeOK
<1>6. \A s : s \in C!State /\ Counted(s, talksBegun) => Counted(s, talksBegun')
  BY <1>1, <1>2, BackendBounds DEF Counted, C!State, C!Memory
<1>7. ASSUME NEW v \in Callers, talks'[v] # None
      PROVE  TalkIsSound(talks[v])' /\ Present(talks[v])'
  <2>1. CASE v = c
    <3>1. talks'[v] = talk
      BY <1>1, <1>2, <2>1 DEF C!CoachTypeOK
    <3>2. Follows(C!Current, made, used)'
      BY <1>1, <1>3 DEF Follows, Rests, Uses, C!ReviewInterval
    <3> QED
      BY <1>1, <1>2, <1>3, <3>1, <3>2, CurrentIs DEF TalkIsSound, Present, CoachInv, C!CoachTypeOK
  <2>2. CASE v # c
    <3>1. talks'[v] = talks[v] /\ TalkIsSound(talks[v]) /\ Present(talks[v])
      BY <1>1, <1>2, <1>7, <2>2 DEF C!CoachTypeOK, CoachInv
    <3>2. Counted(talks[v].made, talksBegun')
      BY <1>6, <3>1 DEF TalkIsSound, Follows
    <3>3. ASSUME Follows(talks[v].read, talks[v].made, talks[v].used)
          PROVE  Follows(talks[v].read, talks[v].made, talks[v].used)'
      <4>1. talks'[v] = talks[v] /\ today' = today /\ overwritten' = overwritten
        BY <1>1, <3>1
      <4>2. ASSUME NEW d \in C!Days
            PROVE  /\ Rests(talks[v].read, talks[v].made, d)' = Rests(talks[v].read, talks[v].made, d)
                   /\ Agrees(talks[v].made, d)' = Agrees(talks[v].made, d)
        BY <4>1 DEF Rests, Agrees
      <4>3. ASSUME NEW d \in C!Days, Uses(talks[v].read, talks[v].made, d)
            PROVE  Uses(talks[v].read, talks[v].made, d)'
        BY <4>1, <4>3 DEF Uses, C!ReviewInterval
      <4>4. Paired(talks[v].made)' = Paired(talks[v].made)
        BY <4>1 DEF Paired
      <4> QED
        BY <3>3, <4>1, <4>2, <4>3, <4>4 DEF Follows
    <3> QED
      BY <1>1, <3>1, <3>2, <3>3 DEF TalkIsSound, Present
  <2> QED
    BY <2>1, <2>2
<1>8. \A d \in C!Days \ overwritten' : Agrees(C!Current, d)' /\ Spaced(d)'
  BY <1>1, <1>3 DEF CoachInv, Agrees, Spaced, C!ReviewInterval
<1>9. Paired(C!Current)' /\ Counted(C!Current, talksBegun)'
  BY <1>2, <1>3, <1>6 DEF CoachInv, Paired, Counted, C!CoachTypeOK
<1> QED
  BY <1>5, <1>7, <1>8, <1>9 DEF CoachInv

\* The requests that a caller can begin.
LEMMA CoachBeginnings ==
  ASSUME CoachInv, NEW c \in Callers,
         \/ C!MemoryReviews(c) \/ C!Chat(c) \/ C!ChatForLog(c)
         \/ \E d \in Named : C!GenerateLog(c, d)
  PROVE  CoachInv'
<1> DEFINE s == C!EnsureMemoryReviews(C!Current)
<1>0. /\ Follows(C!Current, s, {}) /\ Counted(s, talksBegun)
      /\ today \in C!Days /\ talksBegun \in Nat
  BY EnsuredFollows DEF CoachInv, C!CoachTypeOK
<1>1. ASSUME NEW made, Follows(C!Current, made, {}), Counted(made, talksBegun),
             NEW reply \in C!Reply, C!Begin(c, made, {}, reply)
      PROVE  CoachInv'
  <2>1. Counted(made, talksBegun + 1)
    BY <1>0, <1>1, BackendBounds DEF Counted, Follows, C!State, C!Memory
  <2> QED
    BY <1>1, <2>1, CoachBegins
<1>2. ASSUME C!MemoryReviews(c) PROVE CoachInv'
  BY <1>0, <1>1, <1>2 DEF C!MemoryReviews, C!Reply
<1>3. ASSUME C!Chat(c) PROVE CoachInv'
  <2>1. PICK reply \in {"asks", "answers"} :
          \/ C!Begin(c, s, {}, reply)
          \/ \E d \in C!FirstDue(s) : C!Begin(c, [s EXCEPT !.reviews[d] = C!Used(@)], {d}, reply)
    BY <1>3 DEF C!Chat
  <2>2. CASE C!Begin(c, s, {}, reply)
    BY <1>0, <1>1, <2>2 DEF C!Reply
  <2>3. ASSUME NEW d \in C!FirstDue(s),
               C!Begin(c, [s EXCEPT !.reviews[d] = C!Used(@)], {d}, reply)
        PROVE  CoachInv'
    <3>1. d \in C!DueMemories(s) /\ d \in C!Days
      BY DEF C!FirstDue, C!DueMemories
    <3>2. talksBegun < MaxTalks
      BY <2>3 DEF C!Begin
    <3> QED
      BY <2>3, <3>1, <3>2, UsedFollows, CoachBegins DEF C!Reply
  <2> QED
    BY <2>1, <2>2, <2>3
<1>4. ASSUME C!ChatForLog(c) PROVE CoachInv'
  <2>1. CASE C!Begin(c, s, {}, "answers")
    BY <1>0, <1>1, <2>1 DEF C!Reply
  <2>2. CASE C!Begin(c, C!SaveLog(s, today, talksBegun + 1), {}, "answers")
    <3>1. talksBegun + 1 \in C!Text
      BY <1>0, <2>2, BackendBounds DEF C!Begin, C!Text
    <3> QED
      BY <1>0, <1>1, <2>2, <3>1, SavedFollows DEF C!Reply
  <2> QED
    BY <1>4, <2>1, <2>2 DEF C!ChatForLog
<1>5. ASSUME NEW d \in Named, C!GenerateLog(c, d) PROVE CoachInv'
  <2>1. d \in C!Days /\ C!Little \in C!Text
    BY BackendBounds DEF C!Little, C!Text
  <2>2. CASE C!Begin(c, C!SaveLog(C!Current, d, C!Little), {}, None)
    BY <1>1, <2>1, <2>2, NothingFollows, SavedFollows DEF C!Reply
  <2>3. CASE C!Begin(c, C!SaveLog(C!Current, d, talksBegun + 1), {}, None)
    <3>1. talksBegun + 1 \in C!Text
      BY <1>0, <2>3, BackendBounds DEF C!Begin, C!Text
    <3> QED
      BY <1>1, <2>1, <2>3, <3>1, NothingFollows, SavedFollows DEF C!Reply
  <2> QED
    BY <1>5, <2>2, <2>3 DEF C!GenerateLog
<1> QED
  BY <1>2, <1>3, <1>4, <1>5

\* What an open request read and made does not change, and fewer days are asked of it.
LEMMA TalkStaysSound ==
  ASSUME NEW v \in Callers, TalkIsSound(talks[v]), talks'[v] = talks[v],
         UNCHANGED <<today, talksBegun>>, overwritten \subseteq overwritten'
  PROVE  TalkIsSound(talks[v])'
<1> DEFINE t == talks[v]
<1>1. /\ (t.read)' = t.read /\ (t.made)' = t.made /\ (t.used)' = t.used /\ (t.reply)' = t.reply
  OBVIOUS
<1>2. /\ t.made \in C!State /\ Paired(t.made) /\ Counted(t.made, talksBegun)
      /\ t.read \in C!State /\ t.used \subseteq C!Days /\ t.reply \in C!Reply /\ Paired(t.read)
      /\ \A d \in C!Days \ overwritten' : Agrees(t.read, d) /\ Agrees(t.made, d)
      /\ \A d \in C!Days :
           /\ t.read.reviews[d] # None => t.made.reviews[d] # None
           /\ d \notin t.used => Rests(t.read, t.made, d)
           /\ d \in t.used => Uses(t.read, t.made, d)
  BY DEF TalkIsSound, Follows
<1>3. /\ (t.made \in C!State)' /\ Paired(t.made)' /\ Counted(t.made, talksBegun)'
      /\ (t.read \in C!State)' /\ (t.used \subseteq C!Days)' /\ (t.reply \in C!Reply)'
      /\ Paired(t.read)'
  BY <1>1, <1>2 DEF Paired, Counted
<1>4. ASSUME NEW d \in C!Days \ overwritten' PROVE Agrees(t.read, d)' /\ Agrees(t.made, d)'
  BY <1>1, <1>2 DEF Agrees
<1>5. ASSUME NEW d \in C!Days
      PROVE  /\ (t.read.reviews[d] # None => t.made.reviews[d] # None)'
             /\ (d \notin t.used => Rests(t.read, t.made, d))'
             /\ (d \in t.used => Uses(t.read, t.made, d))'
  BY <1>1, <1>2 DEF Rests, Uses, C!ReviewInterval
<1> QED
  BY <1>3, <1>4, <1>5 DEF TalkIsSound, Follows

LEMMA CoachCommits ==
  ASSUME CoachInv, NEW c \in Callers, C!Commit(c)
  PROVE  CoachInv'
<1> DEFINE t == talks[c]
<1>0. /\ t # None /\ TalkIsSound(t) /\ Present(t) /\ t \in C!Talk
      /\ C!CoachTypeOK
      /\ talks' = [talks EXCEPT ![c] = None] /\ UNCHANGED <<today, talksBegun>>
  BY DEF C!Commit, CoachInv, C!CoachTypeOK
<1>1. /\ Follows(t.read, t.made, t.used) /\ Counted(t.made, talksBegun)
      /\ t.read \in C!State /\ t.made \in C!State /\ Paired(t.read) /\ Paired(t.made)
      /\ \A d \in C!Days \ overwritten : Agrees(t.read, d) /\ Agrees(t.made, d)
  BY <1>0 DEF TalkIsSound, Follows
<1>2. /\ Paired(C!Current) /\ Counted(C!Current, talksBegun) /\ C!Current \in C!State
      /\ \A d \in C!Days \ overwritten : Agrees(C!Current, d) /\ Spaced(d)
  BY DEF CoachInv, C!CoachTypeOK
<1> HIDE DEF t
<1>3. ASSUME NEW d \in C!Days
      PROVE  /\ t.read.logs[d] # t.made.logs[d] => logs'[d] = t.made.logs[d]
             /\ t.read.logs[d] = t.made.logs[d] => logs'[d] = logs[d]
             /\ t.read.reviews[d] # t.made.reviews[d] =>
                  /\ reviews'[d] = t.made.reviews[d]
                  /\ t.read.reviews[d] = None => reviews[d] = None
             /\ t.read.reviews[d] = t.made.reviews[d] => reviews'[d] = reviews[d]
             /\ d \notin overwritten' =>
                  /\ d \notin overwritten
                  /\ t.read.logs[d] # t.made.logs[d] => logs[d] = t.read.logs[d]
                  /\ t.read.reviews[d] # t.made.reviews[d] => reviews[d] = t.read.reviews[d]
             /\ asked'[d] = IF d \in t.used THEN Append(asked[d], today) ELSE asked[d]
  BY DEF C!Commit, C!Written, C!Overwrites, C!Insertable, t
\* No row is lost.
<1>4. ASSUME NEW d \in C!Days PROVE reviews[d] # None => reviews'[d] # None
  BY <1>1, <1>3 DEF Follows
<1>5. ASSUME NEW d \in C!Days PROVE logs'[d] # None <=> reviews'[d] # None
  <2>1. /\ t.read.logs[d] # None <=> t.read.reviews[d] # None
        /\ t.made.logs[d] # None <=> t.made.reviews[d] # None
        /\ logs[d] # None <=> reviews[d] # None
        /\ t.read.reviews[d] # None => t.made.reviews[d] # None /\ reviews[d] # None
    BY <1>0, <1>1, <1>2, CurrentIs DEF Paired, Follows, Present
  <2> QED
    BY <1>3, <2>1
<1>6. ASSUME NEW d \in C!Days
      PROVE  /\ logs'[d] \in C!Text \cup {None} /\ reviews'[d] \in C!Memory \cup {None}
             /\ reviews'[d] # None => reviews'[d].count <= talksBegun
  <2>1. /\ logs[d] \in C!Text \cup {None} /\ reviews[d] \in C!Memory \cup {None}
        /\ t.made.logs[d] \in C!Text \cup {None} /\ t.made.reviews[d] \in C!Memory \cup {None}
    BY <1>1, <1>2, CurrentIs DEF C!State
  <2>2. /\ reviews[d] # None => reviews[d].count <= talksBegun
        /\ t.made.reviews[d] # None => t.made.reviews[d].count <= talksBegun
    BY <1>1, <1>2, CurrentIs DEF Counted
  <2> QED
    BY <1>3, <2>1, <2>2
<1>7. ASSUME NEW d \in C!Days, d \notin overwritten' PROVE Agrees(C!Current, d)'
  <2>1. /\ d \notin overwritten
        /\ t.read.logs[d] # None => t.read.reviews[d].text = t.read.logs[d]
        /\ t.made.logs[d] # None => t.made.reviews[d].text = t.made.logs[d]
        /\ logs[d] # None => reviews[d].text = logs[d]
    BY <1>1, <1>2, <1>3, <1>7, CurrentIs DEF Agrees
  <2>2. /\ t.read.logs[d] # None <=> t.read.reviews[d] # None
        /\ t.made.logs[d] # None <=> t.made.reviews[d] # None
        /\ logs[d] # None <=> reviews[d] # None
        /\ t.read.reviews[d] # None => t.made.reviews[d] # None /\ reviews[d] # None
    BY <1>0, <1>1, <1>2, CurrentIs DEF Paired, Follows, Present
  <2>3. logs'[d] # None => reviews'[d].text = logs'[d]
    BY <1>3, <1>7, <2>1, <2>2
  <2> QED
    BY <2>3, CurrentIs DEF Agrees, C!Current
<1>8. ASSUME NEW d \in C!Days, d \notin overwritten' PROVE Spaced(d)'
  <2>0. /\ Spaced(d) /\ asked[d] \in Seq(C!Days) /\ today \in Nat /\ C!Days \subseteq Nat
        /\ Len(asked[d]) \in Nat
    BY <1>0, <1>2, <1>3, <1>8, BackendBounds DEF C!CoachTypeOK, C!Days
  <2>1. CASE d \notin t.used
    <3>1. Rests(t.read, t.made, d) /\ asked'[d] = asked[d]
      BY <1>1, <1>3, <2>1 DEF Follows
    <3>2. CASE t.read.reviews[d] = t.made.reviews[d]
      BY <1>3, <2>0, <3>1, <3>2 DEF Spaced, C!ReviewInterval
    <3>3. CASE t.read.reviews[d] # t.made.reviews[d] /\ t.read.reviews[d] = None
      <4>1. reviews[d] = None /\ reviews'[d] # None /\ reviews'[d].count = 0
        BY <1>3, <3>1, <3>3 DEF Rests
      <4> QED
        BY <2>0, <3>1, <4>1 DEF Spaced
    <3>4. CASE t.read.reviews[d] # t.made.reviews[d] /\ t.read.reviews[d] # None
      <4>1. /\ reviews[d] # None /\ reviews'[d] # None
            /\ reviews'[d].count = reviews[d].count /\ reviews'[d].next = reviews[d].next
        BY <1>1, <1>3, <1>8, <3>1, <3>4 DEF Rests, Follows
      <4> QED
        BY <2>0, <3>1, <4>1 DEF Spaced, C!ReviewInterval
    <3> QED
      BY <3>2, <3>3, <3>4
  <2>2. CASE d \in t.used
    <3> DEFINE n == Len(asked[d])
    <3>1. Uses(t.read, t.made, d) /\ asked'[d] = Append(asked[d], today)
      BY <1>1, <1>3, <2>2 DEF Follows
    <3>2. t.read.reviews[d] \in C!Memory /\ t.read.reviews[d].count \in Nat
      BY <1>1, <3>1, BackendBounds DEF Uses, C!State, C!Memory
    <3>3. t.read.reviews[d] # t.made.reviews[d]
      BY <3>1, <3>2 DEF Uses
    <3>4. /\ reviews[d] = t.read.reviews[d] /\ reviews'[d] = t.made.reviews[d]
          /\ t.made.reviews[d] # None
      BY <1>1, <1>3, <1>8, <3>1, <3>3 DEF Follows, Uses
    <3>5. /\ reviews[d] # None /\ reviews[d].count = n /\ reviews[d].next <= today
          /\ reviews'[d].count = n + 1
          /\ reviews'[d].next = today + C!ReviewInterval(n + 1)
      BY <2>0, <3>1, <3>4 DEF Uses, Spaced
    <3>6. /\ Len(asked'[d]) = n + 1 /\ asked'[d][n + 1] = today
          /\ \A i \in 1..n : asked'[d][i] = asked[d][i]
      BY <2>0, <3>1
    <3>7. /\ n > 0 => reviews[d].next >= asked[d][n] + C!ReviewInterval(n)
          /\ \A i \in 1..n - 1 : asked[d][i + 1] - asked[d][i] >= C!ReviewInterval(i)
      BY <2>0 DEF Spaced
    <3>8. \A i \in 1..n : C!ReviewInterval(i) \in Nat /\ asked[d][i] \in Nat
      <4>1. ASSUME NEW i \in 1..n PROVE i \in Nat \ {0} /\ asked[d][i] \in C!Days
        BY <2>0
      <4> QED
        BY <2>0, <4>1, IntervalIsNatural
    <3>9. reviews[d].next \in Nat
      BY <3>2, <3>4 DEF C!Memory
    <3>10. ASSUME NEW i \in 1..n
           PROVE  asked'[d][i + 1] - asked'[d][i] >= C!ReviewInterval(i)
      <4>1. CASE i = n
        <5>1. n > 0 /\ asked'[d][n] = asked[d][n] /\ asked'[d][n + 1] = today
          BY <2>0, <3>6, <4>1
        <5>2. reviews[d].next >= asked[d][n] + C!ReviewInterval(n) /\ reviews[d].next <= today
          BY <3>5, <3>7, <5>1
        <5>3. C!ReviewInterval(n) \in Nat /\ asked[d][n] \in Nat
          BY <3>8, <4>1
        <5>4. today \in Nat
          BY <2>0
        <5> HIDE DEF n
        <5>5. today - asked[d][n] >= C!ReviewInterval(n)
          BY <3>9, <5>2, <5>3, <5>4, IntervalIsOver
        <5> QED
          BY <4>1, <5>1, <5>5
      <4>2. CASE i # n
        <5>1. i \in 1..n - 1 /\ i + 1 \in 1..n
          BY <2>0, <4>2
        <5> QED
          BY <3>6, <3>7, <5>1
      <4> QED
        BY <4>1, <4>2
    <3>11. C!ReviewInterval(n + 1) \in Nat
      BY <2>0, IntervalIsNatural
    <3>12. today + C!ReviewInterval(n + 1) >= today + C!ReviewInterval(n + 1)
      BY <2>0, <3>11
    <3> HIDE DEF n
    <3>13. n \in Nat
      BY <2>0 DEF n
    <3> QED
      BY <3>4, <3>5, <3>6, <3>10, <3>12, <3>13 DEF Spaced, C!ReviewInterval
  <2> QED
    BY <2>1, <2>2
<1>9. C!CoachTypeOK'
  <2>1. C!Current' \in C!State
    BY <1>6 DEF C!Commit, C!Current, C!State
  <2>2. talks' \in [Callers -> C!Talk \cup {None}]
    BY <1>0 DEF C!CoachTypeOK
  <2>3. asked' \in [C!Days -> Seq(C!Days)]
    BY <1>0 DEF C!Commit, C!CoachTypeOK
  <2>4. overwritten' \subseteq C!Days
    BY <1>0 DEF C!Commit, C!CoachTypeOK
  <2>5. talked' \subseteq 0..today /\ lastReply' \in C!Reply
    <3>1. t.reply \in C!Reply /\ today \in 0..today
      BY <1>0, BackendBounds DEF TalkIsSound, C!CoachTypeOK, C!Days
    <3> QED
      BY <1>0, <3>1 DEF C!Commit, C!CoachTypeOK, t
  <2> QED
    BY <1>0, <2>1, <2>2, <2>3, <2>4, <2>5 DEF C!CoachTypeOK
<1>10. ASSUME NEW v \in Callers, talks'[v] # None
       PROVE  TalkIsSound(talks[v])' /\ Present(talks[v])'
  <2>1. talks'[v] = talks[v] /\ talks[v] # None
    BY <1>0, <1>10 DEF C!CoachTypeOK
  <2>2. TalkIsSound(talks[v]) /\ Present(talks[v])
    BY <2>1 DEF CoachInv
  <2>3. overwritten \subseteq overwritten'
    BY DEF C!Commit
  <2>5. TalkIsSound(talks[v])'
    BY <1>0, <2>1, <2>2, <2>3, TalkStaysSound
  <2>6. Present(talks[v])'
    BY <1>4, <2>1, <2>2 DEF Present
  <2> QED
    BY <2>5, <2>6
<1>11. Paired(C!Current)' /\ Counted(C!Current, talksBegun)'
  BY <1>0, <1>5, <1>6 DEF Paired, Counted, C!Current
<1> QED
  BY <1>7, <1>8, <1>9, <1>10, <1>11 DEF CoachInv

LEMMA CoachNext == CoachInv /\ [C!CoachNext]_coachVars => CoachInv'
<1> SUFFICES ASSUME CoachInv, [C!CoachNext]_coachVars PROVE CoachInv'
  OBVIOUS
<1>1. CASE UNCHANGED coachVars
  <2>1. UNCHANGED <<today, talked, lastReply, logs, reviews, talks, talksBegun, asked, overwritten>>
    BY <1>1 DEF coachVars
  <2>2. C!CoachTypeOK'
    BY <2>1 DEF CoachInv, C!CoachTypeOK, C!Current
  <2>3. Paired(C!Current)' /\ Counted(C!Current, talksBegun)'
    BY <2>1 DEF CoachInv, Paired, Counted, C!Current
  <2>4. \A d \in C!Days \ overwritten' : Agrees(C!Current, d)' /\ Spaced(d)'
    BY <2>1 DEF CoachInv, Agrees, Spaced, C!Current, C!ReviewInterval
  <2>5. ASSUME NEW v \in Callers, talks'[v] # None
        PROVE  TalkIsSound(talks[v])' /\ Present(talks[v])'
    <3>1. talks'[v] = talks[v] /\ TalkIsSound(talks[v]) /\ Present(talks[v])
      BY <2>1, <2>5 DEF CoachInv
    <3>2. Follows(talks[v].read, talks[v].made, talks[v].used)'
      BY <2>1, <3>1 DEF TalkIsSound, Follows, Paired, Agrees, Rests, Uses, C!ReviewInterval
    <3> QED
      BY <2>1, <3>1, <3>2 DEF TalkIsSound, Present, Paired, Agrees, Counted
  <2> QED
    BY <2>2, <2>3, <2>4, <2>5 DEF CoachInv
<1>2. ASSUME NEW c \in Callers, C!RollBack(c) PROVE CoachInv'
  <2>1. /\ talks' = [talks EXCEPT ![c] = None]
        /\ UNCHANGED <<today, talked, lastReply, logs, reviews, talksBegun, asked, overwritten>>
    BY <1>2 DEF C!RollBack
  <2>2. C!CoachTypeOK'
    BY <2>1 DEF CoachInv, C!CoachTypeOK, C!Current
  <2>3. ASSUME NEW v \in Callers, talks'[v] # None
        PROVE  TalkIsSound(talks[v])' /\ Present(talks[v])'
    <3>1. talks'[v] = talks[v] /\ TalkIsSound(talks[v]) /\ Present(talks[v])
      BY <2>1, <2>3 DEF CoachInv, C!CoachTypeOK
    <3> QED
      BY <2>1, <3>1, TalkStaysSound DEF Present
  <2>4. /\ Paired(C!Current)' /\ Counted(C!Current, talksBegun)'
        /\ \A d \in C!Days \ overwritten' : Agrees(C!Current, d)' /\ Spaced(d)'
    BY <2>1 DEF CoachInv, Paired, Counted, Agrees, Spaced, C!Current, C!ReviewInterval
  <2> QED
    BY <2>2, <2>3, <2>4 DEF CoachInv
<1>3. ASSUME C!NextDay PROVE CoachInv'
  <2>1. C!CoachTypeOK'
    BY <1>3, BackendBounds DEF C!NextDay, CoachInv, C!CoachTypeOK, C!Days, C!Current, C!Reply
  <2> QED
    BY <1>3, <2>1 DEF C!NextDay, CoachInv, Paired, Counted, Agrees, Spaced, C!Current,
                      C!ReviewInterval
<1> QED
  BY <1>1, <1>2, <1>3, CoachBeginnings, CoachCommits DEF C!CoachNext

LEMMA MemoriesAreTrue == CoachInv => C!MemoriesAreSpaced
BY CurrentIs DEF CoachInv, C!MemoriesAreSpaced, Paired, Agrees, Spaced

-----------------------------------------------------------------------------
\* The growth tags, see GrowthTags.

\* A tag that is not there has no evidences ...
Rooted(s) == \A n \in Names : s.tags[n] = None => T!Under(s.evidences, n) = {}

\* ... and one that is there is what its evidences add up to.
AddsUp(s) ==
  \A n \in Names : s.tags[n] # None =>
    s.tags[n] = T!RefreshAggregate(s.evidences, n, s.tags[n].born)

TagsTyped(s) ==
  /\ s.evidences \in [T!Keys -> T!EvidenceRow \cup {None}]
  /\ \A n \in Names : s.tags[n] # None =>
       s.tags[n].born \in 0..MaxWork /\ s.tags[n].evidenceCount \in 1..Cardinality(Records)

\* Alone says that nothing else is open, and that nothing was committed since.
WorkIsSound(w) ==
  /\ TagsTyped(work[w].made) /\ Rooted(work[w].made)
  /\ work[w].op = "rebuild" \/ ~overlapped => AddsUp(work[w].made)
  /\ ~overlapped => work[w].alone
  /\ work[w].alone => work[w].read = T!Current /\ \A v \in Workers \ {w} : work[v] = None

TagsInv ==
  /\ T!TagsTypeOK
  /\ Rooted(T!Current)
  /\ ~overlapped => AddsUp(T!Current)
  /\ DOMAIN work = Workers
  /\ \A w \in Workers : work[w] # None => WorkIsSound(w)

LEMMA TagsAre == T!Current.tags = tags /\ T!Current.evidences = evidences
BY DEF T!Current

LEMMA TagsInit == T!TagsInit => TagsInv
<1> SUFFICES ASSUME T!TagsInit PROVE TagsInv
  OBVIOUS
<1>1. T!TagsTypeOK
  <2>1. MaxWork \in Nat
    BY BackendBounds
  <2>2. evidences \in [T!Keys -> T!EvidenceRow \cup {None}] /\ \A n \in Names : tags[n] = None
    BY DEF T!TagsInit
  <2>3. worked \in 0..MaxWork
    BY <2>1 DEF T!TagsInit
  <2>4. overlapped \in BOOLEAN
    BY DEF T!TagsInit
  <2> QED
    BY <2>2, <2>3, <2>4 DEF T!TagsTypeOK
<1>2. Rooted(T!Current) /\ AddsUp(T!Current) /\ DOMAIN work = Workers
  BY TagsAre DEF T!TagsInit, Rooted, AddsUp, T!Under
<1> QED
  BY <1>1, <1>2 DEF TagsInv, T!TagsInit

\* The instance counts as this module does.
LEMMA CardinalityIsOne == \A set : T!Cardinality(set) = Cardinality(set)
BY Zenon DEF T!Cardinality, Cardinality

\* The evidences of a tag are as many as there are records at most.
LEMMA FewUnder ==
  ASSUME NEW facts, NEW n \in Names, T!Under(facts, n) # {}
  PROVE  Cardinality(T!Under(facts, n)) \in 1..Cardinality(Records)
<1> DEFINE under == T!Under(facts, n)
<1>1. IsFiniteSet({n}) /\ Cardinality({n}) = 1
  BY FS_Singleton
<1>2. /\ IsFiniteSet({n} \X Records)
      /\ Cardinality({n} \X Records) = Cardinality(Records)
      /\ Cardinality(Records) \in Nat
  <2>1. IsFiniteSet(Records) /\ Cardinality(Records) \in Nat
    BY FS_CardinalityType, BackendBounds
  <2>2. /\ IsFiniteSet({n} \X Records)
        /\ Cardinality({n} \X Records) = 1 * Cardinality(Records)
    BY <1>1, <2>1, FS_Product
  <2> QED
    BY <2>1, <2>2
<1>3. under \subseteq {n} \X Records
  BY DEF T!Under, T!Keys
<1>4. IsFiniteSet(under) /\ Cardinality(under) <= Cardinality(Records)
  BY <1>2, <1>3, FS_Subset
<1>5. Cardinality(under) \in Nat /\ Cardinality(under) # 0
  BY <1>4, FS_CardinalityType, FS_EmptySet
<1> QED
  BY <1>2, <1>4, <1>5

\* What refreshAggregate makes of a tag.
LEMMA RefreshedTag ==
  ASSUME NEW facts \in [T!Keys -> T!EvidenceRow \cup {None}], NEW n \in Names,
         NEW born \in 0..MaxWork
  PROVE  LET made == T!RefreshAggregate(facts, n, born)
         IN  /\ made = None <=> T!Under(facts, n) = {}
             /\ made # None => made.born = born /\ made.evidenceCount \in 1..Cardinality(Records)
<1> DEFINE under == T!Under(facts, n)
           mine == [k \in under |-> facts[k]]
           made == T!RefreshAggregate(facts, n, born)
<1>1. CASE under = {}
  BY <1>1 DEF T!RefreshAggregate
<1>2. CASE under # {}
  <2>1. made = T!Aggregate(mine, born)
    BY <1>2 DEF T!RefreshAggregate
  <2>2. DOMAIN mine = under
    OBVIOUS
  <2> HIDE DEF mine
  <2>3. made.born = born /\ made.evidenceCount = Cardinality(under)
    BY <2>1, <2>2, CardinalityIsOne DEF T!Aggregate
  <2>4. made \in T!TagRow
    <3>1. under \in SUBSET ({n} \X Records) /\ mine \in [under -> T!EvidenceRow]
      BY DEF T!Under, T!Keys, mine
    <3>2. mine \in UNION {[set -> T!EvidenceRow] : set \in UNION {SUBSET ({m} \X Records) : m \in Names}}
      BY <3>1
    <3> HIDE DEF made, under
    <3> QED
      BY <2>1, <3>2 DEF T!TagRow
  <2> QED
    BY <1>2, <2>3, <2>4, FewUnder, NoRowAssumption
<1> QED
  BY <1>1, <1>2

\* Tags of the same evidences are the same.
LEMMA SameEvidences ==
  ASSUME NEW n \in Names, NEW facts \in [T!Keys -> T!EvidenceRow \cup {None}],
         NEW others \in [T!Keys -> T!EvidenceRow \cup {None}],
         \A k \in T!Keys : k[1] = n => facts[k] = others[k]
  PROVE  /\ T!Under(facts, n) = T!Under(others, n)
         /\ \A born : T!RefreshAggregate(facts, n, born) = T!RefreshAggregate(others, n, born)
<1>1. T!Under(facts, n) = T!Under(others, n)
  BY DEF T!Under
<1>2. [k \in T!Under(facts, n) |-> facts[k]] = [k \in T!Under(others, n) |-> others[k]]
  BY <1>1 DEF T!Under
<1> QED
  BY <1>1, <1>2 DEF T!RefreshAggregate

\* A made row of evidence.
LEMMA EvidenceIsTyped ==
  ASSUME NEW old \in T!EvidenceRow \cup {None}, NEW found \in T!Finding, NEW born \in 0..MaxWork
  PROVE  T!Evidence(old, found, born) \in T!EvidenceRow /\ T!Evidence(old, found, born) # None
<1>1. T!Evidence(old, found, born) \in T!EvidenceRow
  <2>1. (IF old = None THEN born ELSE old.born) \in 0..MaxWork
    BY DEF T!EvidenceRow
  <2>2. found.milestone \in BOOLEAN /\ found.delta \in 3..10
    BY DEF T!Finding
  <2>3. (found.milestone \/ (old # None /\ old.milestone)) \in BOOLEAN
    BY <2>2
  <2> QED
    BY <2>1, <2>2, <2>3 DEF T!Evidence, T!EvidenceRow
<1> QED
  BY <1>1, NoRowAssumption

LEMMA FindingIsTyped ==
  ASSUME NEW found \in Candidates
  PROVE  DOMAIN found \subseteq Names /\ \A n \in DOMAIN found : found[n] \in T!Finding
BY BackendBounds

\* A state whose tags were refreshed, all but those whose evidences stayed.
LEMMA RefreshedState ==
  ASSUME TagsInv, NEW facts \in [T!Keys -> T!EvidenceRow \cup {None}], NEW s,
         s.evidences = facts,
         \A n \in Names :
           \/ \E born \in 0..MaxWork : s.tags[n] = T!RefreshAggregate(facts, n, born)
           \/ s.tags[n] = tags[n] /\ \A k \in T!Keys : k[1] = n => facts[k] = evidences[k]
  PROVE  TagsTyped(s) /\ Rooted(s) /\ (AddsUp(T!Current) => AddsUp(s))
<1>1. evidences \in [T!Keys -> T!EvidenceRow \cup {None}]
  BY DEF TagsInv, T!TagsTypeOK
<1>2. ASSUME NEW n \in Names
      PROVE  /\ s.tags[n] = None => T!Under(facts, n) = {}
             /\ s.tags[n] # None =>
                  /\ s.tags[n].born \in 0..MaxWork
                  /\ s.tags[n].evidenceCount \in 1..Cardinality(Records)
             /\ AddsUp(T!Current) /\ s.tags[n] # None =>
                  s.tags[n] = T!RefreshAggregate(facts, n, s.tags[n].born)
  <2>1. ASSUME NEW born \in 0..MaxWork, s.tags[n] = T!RefreshAggregate(facts, n, born)
        PROVE  <1>2!2
    BY <2>1, RefreshedTag
  <2>2. ASSUME s.tags[n] = tags[n], \A k \in T!Keys : k[1] = n => facts[k] = evidences[k]
        PROVE  <1>2!2
    <3>1. /\ T!Under(facts, n) = T!Under(evidences, n)
          /\ \A born : T!RefreshAggregate(facts, n, born) = T!RefreshAggregate(evidences, n, born)
      BY <1>1, <2>2, SameEvidences
    <3>2. /\ tags[n] = None => T!Under(evidences, n) = {}
          /\ tags[n] # None =>
               /\ tags[n].born \in 0..MaxWork
               /\ tags[n].evidenceCount \in 1..Cardinality(Records)
      BY TagsAre, CardinalityIsOne DEF TagsInv, Rooted, T!TagsTypeOK
    <3>3. AddsUp(T!Current) /\ tags[n] # None =>
            tags[n] = T!RefreshAggregate(evidences, n, tags[n].born)
      BY TagsAre DEF AddsUp
    <3> QED
      BY <2>2, <3>1, <3>2, <3>3
  <2> QED
    BY <2>1, <2>2
<1> QED
  BY <1>2 DEF TagsTyped, Rooted, AddsUp

\* An extraction refreshes the tags its record spoke of or speaks of.
LEMMA ExtractionRefreshes ==
  ASSUME TagsInv, worked \in 0..MaxWork, NEW record \in Records, NEW found \in Candidates
  PROVE  LET s == T!UpsertFromRecord(T!Current, record, found, worked)
         IN  TagsTyped(s) /\ Rooted(s) /\ (AddsUp(T!Current) => AddsUp(s))
<1> DEFINE s == T!UpsertFromRecord(T!Current, record, found, worked)
           facts == s.evidences
<1>1. /\ facts = [k \in T!Keys |->
           IF k[2] # record THEN evidences[k]
           ELSE IF k[1] \in DOMAIN found THEN T!Evidence(evidences[k], found[k[1]], worked)
           ELSE None]
      /\ s.tags = [n \in Names |->
           IF n \notin T!Affected(T!Current, record, found) THEN tags[n]
           ELSE T!RefreshAggregate(facts, n, IF tags[n] = None THEN worked ELSE tags[n].born)]
  BY TagsAre DEF T!UpsertFromRecord
<1>2. evidences \in [T!Keys -> T!EvidenceRow \cup {None}]
  BY DEF TagsInv, T!TagsTypeOK
<1> HIDE DEF s
<1>3. facts \in [T!Keys -> T!EvidenceRow \cup {None}]
  <2>1. ASSUME NEW k \in T!Keys, k[1] \in DOMAIN found
        PROVE  T!Evidence(evidences[k], found[k[1]], worked) \in T!EvidenceRow
    BY <1>2, <2>1, FindingIsTyped, EvidenceIsTyped
  <2> QED
    BY <1>1, <1>2, <2>1
<1>4. ASSUME NEW n \in Names
      PROVE  \/ \E born \in 0..MaxWork : s.tags[n] = T!RefreshAggregate(facts, n, born)
             \/ s.tags[n] = tags[n] /\ \A k \in T!Keys : k[1] = n => facts[k] = evidences[k]
  <2>1. CASE n \in T!Affected(T!Current, record, found)
    <3>1. (IF tags[n] = None THEN worked ELSE tags[n].born) \in 0..MaxWork
      BY DEF TagsInv, T!TagsTypeOK
    <3> QED
      BY <1>1, <2>1, <3>1
  <2>2. CASE n \notin T!Affected(T!Current, record, found)
    <3>1. n \notin DOMAIN found /\ evidences[<<n, record>>] = None
      BY <2>2, TagsAre DEF T!Affected
    <3>2. ASSUME NEW k \in T!Keys, k[1] = n PROVE facts[k] = evidences[k]
      <4>1. k[2] = record => k = <<n, record>>
        BY <3>2 DEF T!Keys
      <4> QED
        BY <1>1, <3>1, <3>2, <4>1
    <3> QED
      BY <1>1, <2>2, <3>2
  <2> QED
    BY <2>1, <2>2
<1> QED
  BY <1>3, <1>4, RefreshedState DEF s

\* A rebuild refreshes every tag.
LEMMA RebuildRefreshes ==
  ASSUME TagsInv, worked \in 0..MaxWork, NEW found \in [Records -> Candidates]
  PROVE  LET s == T!Rebuilt(found, worked)
         IN  TagsTyped(s) /\ Rooted(s) /\ AddsUp(s)
<1> DEFINE s == T!Rebuilt(found, worked)
           facts == T!MadeAgain(found, worked)
<1>1. s.evidences = facts /\ s.tags = [n \in Names |-> T!RefreshAggregate(facts, n, worked)]
  BY DEF T!Rebuilt
<1>2. facts \in [T!Keys -> T!EvidenceRow \cup {None}]
  <2>1. ASSUME NEW k \in T!Keys, k[1] \in DOMAIN found[k[2]]
        PROVE  T!Evidence(None, found[k[2]][k[1]], worked) \in T!EvidenceRow
    <3>1. found[k[2]] \in Candidates
      BY DEF T!Keys
    <3> QED
      BY <2>1, <3>1, FindingIsTyped, EvidenceIsTyped
  <2> QED
    BY <2>1 DEF T!MadeAgain
<1> HIDE DEF s, facts
<1>3. ASSUME NEW n \in Names
      PROVE  /\ s.tags[n] = None <=> T!Under(facts, n) = {}
             /\ s.tags[n] # None =>
                  s.tags[n].born = worked /\ s.tags[n].evidenceCount \in 1..Cardinality(Records)
  BY <1>1, <1>2, RefreshedTag
<1> QED
  BY <1>1, <1>2, <1>3 DEF TagsTyped, Rooted, AddsUp, s

\* A mark refreshes the tag of the evidence.
LEMMA MarkRefreshes ==
  ASSUME TagsInv, NEW k \in T!Keys, evidences[k] # None, NEW milestone \in BOOLEAN
  PROVE  LET s == T!Marked(T!Current, k, milestone)
         IN  TagsTyped(s) /\ Rooted(s) /\ (AddsUp(T!Current) => AddsUp(s))
<1> DEFINE s == T!Marked(T!Current, k, milestone)
           facts == s.evidences
<1>1. /\ facts = [evidences EXCEPT ![k].milestone = milestone]
      /\ s.tags = [n \in Names |-> IF n = k[1] THEN T!RefreshAggregate(facts, n, tags[n].born)
                                   ELSE tags[n]]
  BY TagsAre DEF T!Marked
<1>2. evidences \in [T!Keys -> T!EvidenceRow \cup {None}]
  BY DEF TagsInv, T!TagsTypeOK
<1> HIDE DEF s
<1>3. facts \in [T!Keys -> T!EvidenceRow \cup {None}]
  <2>1. evidences[k] \in T!EvidenceRow
    BY <1>2
  <2>2. [evidences[k] EXCEPT !.milestone = milestone] \in T!EvidenceRow
    BY <2>1 DEF T!EvidenceRow
  <2> QED
    BY <1>1, <1>2, <2>2
<1>4. k[1] \in Names /\ k \in T!Under(evidences, k[1])
  BY DEF T!Keys, T!Under
<1>5. tags[k[1]] # None
  BY <1>4, TagsAre DEF TagsInv, Rooted
<1>6. ASSUME NEW n \in Names
      PROVE  \/ \E born \in 0..MaxWork : s.tags[n] = T!RefreshAggregate(facts, n, born)
             \/ s.tags[n] = tags[n] /\ \A l \in T!Keys : l[1] = n => facts[l] = evidences[l]
  <2>1. CASE n = k[1]
    <3>1. tags[n].born \in 0..MaxWork
      BY <1>5, <2>1 DEF TagsInv, T!TagsTypeOK
    <3> QED
      BY <1>1, <2>1, <3>1
  <2>2. CASE n # k[1]
    BY <1>1, <1>2, <2>2
  <2> QED
    BY <2>1, <2>2
<1> QED
  BY <1>3, <1>6, RefreshedState DEF s

\* A transaction that begins, with what it makes.
LEMMA TagsBegin ==
  ASSUME TagsInv, NEW w \in Workers, NEW op, NEW made, T!Begin(w, op, made),
         TagsTyped(made), Rooted(made), op = "rebuild" \/ AddsUp(T!Current) => AddsUp(made)
  PROVE  TagsInv'
<1> DEFINE busy == {v \in Workers : work[v] # None}
           first == busy = {}
           mine == [op |-> op, read |-> T!Current, made |-> made, alone |-> first]
<1>1. /\ work[w] = None /\ worked < MaxWork /\ worked' = worked + 1
      /\ work' = [v \in Workers |-> IF v = w THEN mine
                    ELSE IF work[v] = None THEN None ELSE [work[v] EXCEPT !.alone = FALSE]]
      /\ overlapped' = (overlapped \/ busy # {})
      /\ UNCHANGED <<tags, evidences>>
  BY DEF T!Begin
<1>2. T!Current' = T!Current
  BY <1>1 DEF T!Current
<1>3. T!TagsTypeOK'
  <2>1. worked' \in 0..MaxWork
    BY <1>1, BackendBounds DEF TagsInv, T!TagsTypeOK
  <2>2. overlapped' \in BOOLEAN
    BY <1>1 DEF TagsInv, T!TagsTypeOK
  <2> QED
    BY <1>1, <2>1, <2>2 DEF TagsInv, T!TagsTypeOK
<1>4. ~overlapped' => ~overlapped /\ busy = {}
  BY <1>1
<1>5. ASSUME NEW v \in Workers, work'[v] # None PROVE WorkIsSound(v)'
  <2>1. CASE v = w
    <3>1. work'[v] = mine
      BY <1>1, <2>1
    <3>2. op = "rebuild" \/ ~overlapped' => AddsUp(made)
      BY <1>4 DEF TagsInv
    <3>3. busy = {} => \A u \in Workers \ {v} : work'[u] = None
      BY <1>1, <2>1
    <3>4. /\ work'[v].made = made /\ work'[v].op = op /\ work'[v].read = T!Current
      BY <3>1
    <3>9. work'[v].alone <=> busy = {}
      <4> HIDE DEF first
      <4>1. work'[v].alone = first
        BY <3>1
      <4> QED
        BY <4>1 DEF first
    <3>5. TagsTyped(work[v].made)' /\ Rooted(work[v].made)'
      BY <3>4 DEF TagsTyped, Rooted
    <3>6. (work[v].op = "rebuild" \/ ~overlapped => AddsUp(work[v].made))'
      BY <3>2, <3>4 DEF AddsUp
    <3>7. (~overlapped => work[v].alone)'
      BY <1>4, <3>9
    <3>8. (work[v].alone => work[v].read = T!Current /\ \A u \in Workers \ {v} : work[u] = None)'
      BY <1>2, <3>3, <3>4, <3>9
    <3> QED
      BY <3>5, <3>6, <3>7, <3>8 DEF WorkIsSound
  <2>2. CASE v # w
    <3>1. work[v] # None /\ work'[v] = [work[v] EXCEPT !.alone = FALSE]
      BY <1>1, <1>5, <2>2
    <3>2. WorkIsSound(v) /\ overlapped'
      BY <1>1, <3>1 DEF TagsInv
    <3> QED
      BY <3>1, <3>2
      DEF WorkIsSound, TagsTyped, Rooted, AddsUp
  <2> QED
    BY <2>1, <2>2
<1>6. Rooted(T!Current)' /\ (~overlapped' => AddsUp(T!Current)')
  BY <1>2, <1>4 DEF TagsInv, Rooted, AddsUp
<1> QED
  BY <1>1, <1>3, <1>5, <1>6 DEF TagsInv

\* A transaction commits: it was alone, or nothing is said of the sums.
LEMMA TagsCommit ==
  ASSUME TagsInv, NEW w \in Workers, T!Commit(w)
  PROVE  TagsInv'
<1> DEFINE read == work[w].read
           made == work[w].made
<1>1. /\ work[w] # None /\ WorkIsSound(w) /\ T!Accepted(read, made)
      /\ tags' = [n \in Names |-> IF made.tags[n] = read.tags[n] THEN tags[n] ELSE made.tags[n]]
      /\ evidences' = [k \in T!Keys |-> IF made.evidences[k] = read.evidences[k]
                                        THEN evidences[k] ELSE made.evidences[k]]
      /\ overlapped' = (overlapped /\ ~(work[w].op = "rebuild" /\ work[w].alone))
      /\ work' = [work EXCEPT ![w] = None]
      /\ worked' = worked
  BY DEF T!Commit, TagsInv
<1>2. TagsTyped(made) /\ Rooted(made)
  BY <1>1 DEF WorkIsSound
<1>3. /\ TagsTyped(T!Current) /\ Rooted(T!Current) /\ T!TagsTypeOK
  BY TagsAre, CardinalityIsOne DEF TagsInv, TagsTyped, T!TagsTypeOK
<1> HIDE DEF read, made
<1>4. T!TagsTypeOK'
  <2>1. evidences' \in [T!Keys -> T!EvidenceRow \cup {None}]
    BY <1>1, <1>2, <1>3 DEF TagsTyped, T!TagsTypeOK
  <2>2. ASSUME NEW n \in Names, tags'[n] # None
        PROVE  tags'[n].born \in 0..MaxWork /\ tags'[n].evidenceCount \in 1..Cardinality(Records)
    BY <1>1, <1>2, <1>3, <2>2, TagsAre DEF TagsTyped
  <2>3. overlapped' \in BOOLEAN
    BY <1>1
  <2> QED
    BY <1>1, <1>3, <2>1, <2>2, <2>3, CardinalityIsOne DEF T!TagsTypeOK
<1>5. ASSUME NEW n \in Names, tags'[n] = None, NEW k \in T!Keys, k[1] = n
      PROVE  evidences'[k] = None
  <2>1. made.tags[n] = None => made.evidences[k] = None
    BY <1>2, <1>5 DEF Rooted, T!Under
  <2>2. tags[n] = None => evidences[k] = None
    BY <1>3, <1>5, TagsAre DEF Rooted, T!Under
  <2>3. CASE made.tags[n] = read.tags[n]
    <3>1. made.evidences[k] # read.evidences[k] => T!Same(tags[n], read.tags[n])
      BY <1>1, <1>5 DEF T!Accepted
    <3> QED
      BY <1>1, <1>5, <2>1, <2>2, <2>3, <3>1 DEF T!Same
  <2>4. CASE made.tags[n] # read.tags[n]
    <3>1. made.tags[n] = None /\ ~T!Same(made.tags[n], read.tags[n])
      BY <1>1, <1>5, <2>4 DEF T!Same
    <3>2. T!Under(evidences, n) \subseteq T!Under(read.evidences, n)
      BY <1>1, <2>4, <3>1 DEF T!Accepted
    <3>3. made.evidences[k] = read.evidences[k] => evidences[k] = None
      BY <1>5, <2>1, <3>1, <3>2 DEF T!Under
    <3> QED
      BY <1>1, <2>1, <3>1, <3>3
  <2> QED
    BY <2>3, <2>4
<1>6. Rooted(T!Current)'
  BY <1>5 DEF Rooted, T!Under, T!Current
<1>7. ASSUME ~overlapped' PROVE work[w].alone /\ AddsUp(made)
  BY <1>1, <1>7 DEF WorkIsSound, made
<1>8. ASSUME ~overlapped' PROVE AddsUp(T!Current)'
  <2>1. read = T!Current /\ AddsUp(made)
    BY <1>1, <1>7, <1>8 DEF WorkIsSound, read
  <2>2. /\ \A n \in Names : tags'[n] = made.tags[n]
        /\ evidences' = [k \in T!Keys |-> made.evidences[k]]
    BY <1>1, <2>1, TagsAre
  <2>3. evidences' = made.evidences
    BY <1>2, <2>2 DEF TagsTyped
  <2> QED
    BY <2>1, <2>2, <2>3 DEF AddsUp, T!Current
<1>9. ASSUME NEW v \in Workers, work'[v] # None PROVE WorkIsSound(v)'
  <2>1. v # w /\ work'[v] = work[v]
    BY <1>1, <1>9 DEF TagsInv
  <2>2. WorkIsSound(v) /\ ~work[w].alone /\ ~work[v].alone
    BY <1>1, <1>9, <2>1 DEF TagsInv, WorkIsSound
  <2>3. overlapped'
    BY <1>7, <2>2
  <2> QED
    BY <2>1, <2>2, <2>3 DEF WorkIsSound, TagsTyped, Rooted, AddsUp
<1> QED
  BY <1>1, <1>4, <1>6, <1>8, <1>9 DEF TagsInv

LEMMA TagsNext == TagsInv /\ [T!TagsNext]_tagVars => TagsInv'
<1> SUFFICES ASSUME TagsInv, [T!TagsNext]_tagVars PROVE TagsInv'
  OBVIOUS
<1>0. worked \in 0..MaxWork
  BY DEF TagsInv, T!TagsTypeOK
<1>1. CASE UNCHANGED tagVars
  BY <1>1 DEF tagVars, TagsInv, T!TagsTypeOK, Rooted, AddsUp, WorkIsSound, TagsTyped, T!Current
<1>2. ASSUME NEW w \in Workers, NEW record \in Records, NEW found \in Candidates,
             T!BeginExtraction(w, record, found)
      PROVE  TagsInv'
  BY <1>0, <1>2, ExtractionRefreshes, TagsBegin DEF T!BeginExtraction
<1>3. ASSUME NEW w \in Workers, NEW found \in [Records -> Candidates], T!Rebuild(w, found)
      PROVE  TagsInv'
  BY <1>0, <1>3, RebuildRefreshes, TagsBegin DEF T!Rebuild
<1>4. ASSUME NEW w \in Workers, NEW k \in T!Keys, NEW milestone \in BOOLEAN,
             T!MarkMilestone(w, k, milestone)
      PROVE  TagsInv'
  BY <1>4, MarkRefreshes, TagsBegin DEF T!MarkMilestone
<1>5. ASSUME NEW w \in Workers, T!RollBack(w) PROVE TagsInv'
  <2>1. /\ work' = [work EXCEPT ![w] = None]
        /\ UNCHANGED <<tags, evidences, worked, overlapped>>
    BY <1>5 DEF T!RollBack
  <2>2. ASSUME NEW v \in Workers, work'[v] # None PROVE WorkIsSound(v)'
    <3>1. work'[v] = work[v] /\ WorkIsSound(v) /\ \A u \in Workers : work'[u] \in {work[u], None}
      BY <2>1, <2>2 DEF TagsInv
    <3> QED
      BY <2>1, <3>1 DEF WorkIsSound, TagsTyped, Rooted, AddsUp, T!Current
  <2> QED
    BY <2>1, <2>2 DEF TagsInv, T!TagsTypeOK, Rooted, AddsUp, T!Current
<1> QED
  BY <1>1, <1>2, <1>3, <1>4, <1>5, TagsCommit DEF T!TagsNext

LEMMA TagsAreTrue == TagsInv => T!TagsAddUp
BY TagsAre DEF TagsInv, T!TagsAddUp, Rooted, AddsUp

(***************************************************************************)
(* The bookings.                                                           *)
(***************************************************************************)

Of(list, source) == B!Of(list, source)

Unique(list, source) == \A i, j \in Of(list, source) : i = j

\* Rows that were read are still there, and are of the same source.
Stays(read, list) ==
  /\ Len(read) <= Len(list)
  /\ \A i \in DOMAIN read : list[i].of = read[i].of

\* The list of a source are those that were read.
Unchanged(read, list, source) ==
  \A i \in Of(list, source) : i \in DOMAIN read /\ list[i] = read[i]

\* What a request works on, and what it found when it began.
SourceFits(r) ==
  /\ r.op \in {"reserve", "cancel", "scan"} => r.of = "booking"
  /\ r.op \in {"challenge", "complete", "giveUp"} => r.of = "challenge"
  /\ r.op = "item" => r.of \in {"challenge", "plan"}
  /\ r.op = "plan" => r.of = "plan"
  /\ r.op \in {"edit", "drop"} => r.number \in Of(r.items, r.of)
  /\ r.op = "reflect" => r.number \in Of(r.records, r.of)

FoundFits(r) ==
  /\ r.booking # None => r.booking.content <= lastCode
  /\ r.op \in {"cancel", "scan"} => r.booking # None /\ r.booking.status = "RESERVED"
  /\ r.op = "reserve" =>
       /\ r.number \in 1..lastCode
       /\ r.booking # None => r.booking.status # "COMPLETED"
       /\ r.booking # None /\ r.booking.status = "RESERVED" => r.number = r.booking.content
  /\ r.op = "challenge" => r.challenge = None
  /\ r.op = "complete" => r.challenge # None /\ r.challenge.status # "CANCELLED"
  /\ r.op = "giveUp" => r.challenge # None /\ r.challenge.status # "COMPLETED"
  /\ r.op = "edit" => r.items[r.number].status = "ACTIVE"

RequestIsSound(r) ==
  /\ SourceFits(r) /\ FoundFits(r)
  /\ Stays(r.items, items) /\ Stays(r.records, records)
  /\ r.booking # None => booking # None
  /\ r.booking = None <=> Of(r.items, "booking") = {}

\* A new booking is inserted once.
Inserts(r) == r.op = "reserve" /\ r.cached /\ r.booking = None

InsertsAlone ==
  \A c \in Callers : requests[c] # None /\ Inserts(requests[c]) =>
    /\ booking = None
    /\ \A d \in Callers : requests[d] # None /\ Inserts(requests[d]) => c = d

\* A request that has its source for itself found it as it is.
Fresh(r) ==
  /\ r.of = "booking" => r.booking = booking
  /\ r.of = "challenge" => r.challenge = challenge
  /\ Unchanged(r.items, items, r.of) /\ Unchanged(r.records, records, r.of)

HasForItself ==
  \A c \in Callers : requests[c] # None /\ requests[c].of \notin disturbed =>
    /\ Fresh(requests[c])
    /\ \A d \in Callers : requests[d] # None /\ requests[d].of = requests[c].of => c = d

RowsFit ==
  /\ Unique(items, "booking")
  /\ booking = None <=> Of(items, "booking") = {}
  /\ B!Is(booking, "COMPLETED") => Of(records, "booking") # {}
  /\ B!Is(challenge, "COMPLETED") => Of(records, "challenge") # {}

BookingFits ==
  /\ Unique(records, "booking")
  /\ ~B!Is(booking, "COMPLETED") => Of(records, "booking") = {}
  /\ B!Is(booking, "CANCELLED") => \A i \in Of(items, "booking") : items[i].status = "CANCELLED"

ChallengeFits ==
  /\ Unique(records, "challenge")
  /\ ~B!Is(challenge, "COMPLETED") => Of(records, "challenge") = {}

\* The code of a booking that stands, and the code of one that is being made.
Own == IF B!Is(booking, "RESERVED") THEN {booking.content} ELSE {}

CodesFit ==
  /\ \A code \in codes :
       \/ code \in Own
       \/ \E c \in Callers : /\ requests[c] # None /\ requests[c].op = "reserve"
                             /\ requests[c].cached /\ requests[c].number = code
  /\ \A c \in Callers :
       requests[c] # None /\ requests[c].op \in {"cancel", "scan"} /\ requests[c].cached => codes = {}

BookingsInv ==
  /\ B!BookingsTypeOK /\ RowsFit /\ InsertsAlone /\ HasForItself
  /\ \A c \in Callers : requests[c] # None => RequestIsSound(requests[c])
  /\ "booking" \notin disturbed => BookingFits /\ CodesFit
  /\ "challenge" \notin disturbed => ChallengeFits

LEMMA RequestIsSomething == None \notin B!Request /\ None \notin B!BookingRow /\ None \notin B!ChallengeRow
BY NoRowAssumption

LEMMA BookingsInit == B!BookingsInit => BookingsInv
<1> SUFFICES ASSUME B!BookingsInit PROVE BookingsInv
  OBVIOUS
<1>1. B!BookingsTypeOK
  BY Limits DEF B!BookingsInit, B!BookingsTypeOK
<1>2. \A source : Of(items, source) = {} /\ Of(records, source) = {}
  BY DEF B!BookingsInit, Of, B!Of
<1>3. RowsFit /\ BookingFits /\ ChallengeFits
  BY <1>2 DEF B!BookingsInit, RowsFit, BookingFits, ChallengeFits, Unique, B!Is
<1>4. \A c \in Callers : requests[c] = None
  BY DEF B!BookingsInit
<1>5. codes = {}
  BY DEF B!BookingsInit
<1> QED
  BY <1>1, <1>3, <1>4, <1>5 DEF BookingsInv, InsertsAlone, HasForItself, CodesFit

\* What is said of an open request stays true when no row changes.
LEMMA RequestStaysSound ==
  ASSUME NEW r, RequestIsSound(r), lastCode \in Nat, lastCode' \in Nat, lastCode <= lastCode',
         r.booking # None => r.booking.content \in Nat,
         UNCHANGED <<booking, items, records>>
  PROVE  RequestIsSound(r)'
<1>1. FoundFits(r)
  BY DEF RequestIsSound
<1>2. r.booking # None => r.booking.content <= lastCode'
  BY <1>1 DEF FoundFits
<1>3. r.op = "reserve" => r.number \in 1..lastCode'
  BY <1>1 DEF FoundFits
<1>4. FoundFits(r)'
  BY <1>1, <1>2, <1>3 DEF FoundFits
<1> QED
  BY <1>4 DEF RequestIsSound, SourceFits, Stays, Of

LEMMA RowsStayFit ==
  ASSUME RowsFit, UNCHANGED <<booking, challenge, items, records>> PROVE RowsFit'
BY DEF RowsFit, Unique, Of, B!Of, B!Is

\* What is looked at before a request begins; last is the last code given out.
MayBegin(op, source, number, last) ==
  /\ op \in {"reserve", "cancel", "scan"} => source = "booking"
  /\ op \in {"challenge", "complete", "giveUp"} => source = "challenge"
  /\ op = "item" => source \in {"challenge", "plan"}
  /\ op = "plan" => source = "plan"
  /\ op \in {"edit", "drop"} => number \in Of(items, source)
  /\ op = "edit" => items[number].status = "ACTIVE"
  /\ op = "reflect" => number \in Of(records, source)
  /\ op \in {"cancel", "scan"} => booking # None /\ booking.status = "RESERVED"
  /\ op = "reserve" => /\ number \in 1..last
                       /\ booking # None => booking.status # "COMPLETED"
                       /\ booking # None /\ booking.status = "RESERVED" => number = booking.content
  /\ op = "challenge" => challenge = None
  /\ op = "complete" => challenge # None /\ challenge.status # "CANCELLED"
  /\ op = "giveUp" => challenge # None /\ challenge.status # "COMPLETED"

\* A request begins with the rows as they are.
LEMMA BookingsBegin ==
  ASSUME BookingsInv, NEW c \in Callers, NEW source \in B!Source, NEW op \in B!Operation,
         NEW number \in Nat, NEW note \in Notes \cup {None},
         B!Begin(c, source, op, number, note),
         lastCode' \in 0..MaxTickets, lastCode <= lastCode',
         NEW last, last = lastCode', MayBegin(op, source, number, last)
  PROVE  BookingsInv'
<1> DEFINE r == [op |-> op, of |-> source, number |-> number, note |-> note, cached |-> FALSE,
                 booking |-> booking, challenge |-> challenge, items |-> items,
                 records |-> records]
<1>1. /\ requests[c] = None /\ requests' = [requests EXCEPT ![c] = r]
      /\ UNCHANGED <<booking, challenge, items, records, codes>>
      /\ disturbed' = IF \E d \in Callers : requests[d] # None /\ requests[d].of = source
                      THEN disturbed \cup {source} ELSE disturbed
  BY DEF B!Begin
<1>2. r \in B!Request /\ r # None
  <2>1. r \in B!Request
    BY DEF BookingsInv, B!BookingsTypeOK, B!Request
  <2> QED
    BY <2>1, RequestIsSomething
<1>3. B!BookingsTypeOK'
  <2>1. requests' \in [Callers -> B!Request \cup {None}]
    BY <1>1, <1>2 DEF BookingsInv, B!BookingsTypeOK
  <2>2. disturbed' \subseteq B!Source
    BY <1>1 DEF BookingsInv, B!BookingsTypeOK
  <2>3. codes' \subseteq 1..lastCode'
    BY <1>1, Limits DEF BookingsInv, B!BookingsTypeOK
  <2>4. booking' # None => booking'.content <= lastCode'
    BY <1>1, Limits DEF BookingsInv, B!BookingsTypeOK, B!BookingRow
  <2> QED
    BY <1>1, <2>1, <2>2, <2>3, <2>4 DEF BookingsInv, B!BookingsTypeOK
<1>4. ASSUME NEW d \in Callers, requests'[d] # None, requests'[d].of \notin disturbed'
      PROVE  /\ Fresh(requests[d])'
             /\ \A e \in Callers : requests'[e] # None /\ requests'[e].of = requests'[d].of => d = e
  <2>1. disturbed \subseteq disturbed'
    BY <1>1
  <2>2. CASE d = c
    <3>1. requests'[d] = r
      BY <1>1, <2>2 DEF BookingsInv, B!BookingsTypeOK
    <3>2. Fresh(r)'
      BY <1>1 DEF Fresh, Unchanged, Of, B!Of
    <3>3. \A e \in Callers : e # c => requests'[e] = requests[e]
      BY <1>1 DEF BookingsInv, B!BookingsTypeOK
    <3> QED
      BY <1>1, <1>4, <2>2, <3>1, <3>2, <3>3
  <2>3. CASE d # c
    <3>1. requests'[d] = requests[d] /\ requests'[c] = r
      BY <1>1, <2>3 DEF BookingsInv, B!BookingsTypeOK
    <3>2. Fresh(requests[d]) /\ r.of # requests[d].of
      BY <1>1, <1>4, <2>1, <3>1 DEF BookingsInv, HasForItself
    <3>3. Fresh(requests[d])'
      BY <1>1, <3>2 DEF Fresh, Unchanged, Of, B!Of
    <3> QED
      BY <1>1, <1>4, <2>1, <3>1, <3>2, <3>3 DEF BookingsInv, B!BookingsTypeOK, HasForItself
  <2> QED
    BY <2>2, <2>3
<1>5. ASSUME NEW d \in Callers, requests'[d] # None PROVE RequestIsSound(requests[d])'
  <2>1. CASE d = c
    <3>1. requests'[d] = r
      BY <1>1, <2>1 DEF BookingsInv, B!BookingsTypeOK
    <3>2. Stays(items, items)' /\ Stays(records, records)'
      BY <1>1, <1>3 DEF Stays, B!BookingsTypeOK
    <3>3. r.booking = None <=> Of(r.items, "booking") = {}
      BY DEF BookingsInv, RowsFit
    <3>4. r.booking # None => r.booking.content <= lastCode'
      BY <1>1, <1>3 DEF B!BookingsTypeOK
    <3>5. SourceFits(r) /\ FoundFits(r)'
      BY <1>1, <3>4 DEF SourceFits, FoundFits, MayBegin, Of
    <3> QED
      BY <1>1, <3>1, <3>2, <3>3, <3>5 DEF RequestIsSound, Stays, SourceFits, FoundFits, Of, B!Of
  <2>2. CASE d # c
    <3>1. requests'[d] = requests[d] /\ requests[d] \in B!Request /\ RequestIsSound(requests[d])
      BY <1>1, <1>5, <2>2 DEF BookingsInv, B!BookingsTypeOK
    <3>2. requests[d].booking # None => requests[d].booking.content \in Nat
      BY <3>1, Limits DEF B!Request, B!BookingRow
    <3>3. lastCode \in Nat /\ lastCode' \in Nat
      BY Limits DEF BookingsInv, B!BookingsTypeOK
    <3> QED
      BY <1>1, <3>1, <3>2, <3>3, RequestStaysSound
  <2> QED
    BY <2>1, <2>2
<1>6. InsertsAlone'
  BY <1>1 DEF BookingsInv, B!BookingsTypeOK, InsertsAlone, Inserts
<1>7. HasForItself'
  BY <1>4 DEF HasForItself
<1>8. RowsFit'
  BY <1>1, RowsStayFit DEF BookingsInv
<1>9. ASSUME "booking" \notin disturbed' PROVE BookingFits' /\ CodesFit'
  <2>1. BookingFits /\ CodesFit
    BY <1>1, <1>9 DEF BookingsInv
  <2>2. \A d \in Callers : d # c => requests'[d] = requests[d]
    BY <1>1 DEF BookingsInv, B!BookingsTypeOK
  <2>3. requests'[c] = r
    BY <1>1 DEF BookingsInv, B!BookingsTypeOK
  <2>4. CodesFit'
    BY <1>1, <2>1, <2>2, <2>3 DEF CodesFit, Own, B!Is
  <2> QED
    BY <1>1, <2>1, <2>4 DEF BookingFits, Unique, Of, B!Of, B!Is
<1>10. ASSUME "challenge" \notin disturbed' PROVE ChallengeFits'
  BY <1>1, <1>10 DEF BookingsInv, ChallengeFits, Unique, Of, B!Of, B!Is
<1> QED
  BY <1>3, <1>5, <1>6, <1>7, <1>8, <1>9, <1>10 DEF BookingsInv

\* What is said of a request does not depend on the codes, nor on whether it
\* has written its own.
LEMMA CachedStaysSound ==
  ASSUME NEW c \in Callers, BookingsInv, requests[c] # None,
         UNCHANGED <<booking, challenge, items, records, lastCode>>,
         requests'[c] = [requests[c] EXCEPT !.cached = TRUE]
  PROVE  /\ requests'[c] \in B!Request /\ requests'[c] # None
         /\ RequestIsSound(requests[c])'
         /\ Fresh(requests[c]) => Fresh(requests[c])'
<1>1. requests[c] \in B!Request /\ RequestIsSound(requests[c])
  BY DEF BookingsInv, B!BookingsTypeOK
<1>2. requests'[c] \in B!Request
  BY <1>1 DEF B!Request
<1>3. /\ requests'[c].op = requests[c].op /\ requests'[c].of = requests[c].of
      /\ requests'[c].number = requests[c].number /\ requests'[c].items = requests[c].items
      /\ requests'[c].records = requests[c].records
      /\ requests'[c].booking = requests[c].booking
      /\ requests'[c].challenge = requests[c].challenge
  BY <1>1 DEF B!Request
<1>4. RequestIsSound(requests[c])'
  BY <1>1, <1>3 DEF RequestIsSound, SourceFits, FoundFits, Stays, Of, B!Of
<1>5. Fresh(requests[c]) => Fresh(requests[c])'
  BY <1>1, <1>3 DEF Fresh, Unchanged, Of, B!Of
<1> QED
  BY <1>2, <1>4, <1>5, RequestIsSomething

LEMMA CacheKeeps == ASSUME BookingsInv, NEW c \in Callers, B!Cache(c) PROVE BookingsInv'
<1> DEFINE r == requests[c]
<1>1. /\ r # None /\ ~r.cached
      /\ requests' = [requests EXCEPT ![c].cached = TRUE]
      /\ r.op = "reserve" => B!Insertable(r)
      /\ UNCHANGED <<booking, challenge, items, records, lastCode, begun, disturbed>>
  BY DEF B!Cache
<1>2. /\ r \in B!Request /\ RequestIsSound(r)
      /\ requests'[c] = [r EXCEPT !.cached = TRUE]
      /\ \A d \in Callers : d # c => requests'[d] = requests[d]
  BY <1>1 DEF BookingsInv, B!BookingsTypeOK
<1>3. /\ requests'[c] \in B!Request /\ requests'[c] # None
      /\ RequestIsSound(requests[c])'
      /\ Fresh(r) => Fresh(requests[c])'
  BY <1>1, <1>2, CachedStaysSound
<1>4. /\ requests'[c].op = r.op /\ requests'[c].of = r.of /\ requests'[c].number = r.number
      /\ requests'[c].booking = r.booking /\ requests'[c].cached
  BY <1>2 DEF B!Request
<1>5. codes' \subseteq codes \cup (IF r.op = "reserve" THEN {r.number} ELSE {})
  BY DEF B!Cache
<1>6. B!BookingsTypeOK'
  <2>1. r.op = "reserve" => r.number \in 1..lastCode
    BY <1>2 DEF RequestIsSound, FoundFits
  <2>2. codes' \subseteq 1..lastCode'
    BY <1>1, <1>5, <2>1 DEF BookingsInv, B!BookingsTypeOK
  <2>3. requests' \in [Callers -> B!Request \cup {None}]
    BY <1>1, <1>2, <1>3 DEF BookingsInv, B!BookingsTypeOK
  <2> QED
    BY <1>1, <2>2, <2>3 DEF BookingsInv, B!BookingsTypeOK
<1>7. ASSUME NEW d \in Callers, requests'[d] # None PROVE RequestIsSound(requests[d])'
  <2>1. CASE d = c
    BY <1>3, <2>1
  <2>2. CASE d # c
    <3>1. requests'[d] = requests[d] /\ RequestIsSound(requests[d])
      BY <1>2, <1>7, <2>2 DEF BookingsInv
    <3> QED
      BY <1>1, <3>1 DEF RequestIsSound, SourceFits, FoundFits, Stays, Of, B!Of
  <2> QED
    BY <2>1, <2>2
<1>8. \A d \in Callers : /\ requests'[d] # None <=> requests[d] # None
                         /\ requests[d] # None => requests'[d].of = requests[d].of
  BY <1>1, <1>2, <1>3, <1>4
<1>9. ASSUME NEW d \in Callers, requests'[d] # None, requests'[d].of \notin disturbed'
      PROVE  /\ Fresh(requests[d])'
             /\ \A e \in Callers : requests'[e] # None /\ requests'[e].of = requests'[d].of => d = e
  <2>1. /\ Fresh(requests[d])
        /\ \A e \in Callers : requests[e] # None /\ requests[e].of = requests[d].of => d = e
    BY <1>1, <1>8, <1>9 DEF BookingsInv, HasForItself
  <2>2. Fresh(requests[d])'
    <3>1. CASE d = c
      BY <1>3, <2>1, <3>1
    <3>2. CASE d # c
      <4>1. requests'[d] = requests[d]
        BY <1>2, <3>2
      <4> QED
        BY <1>1, <2>1, <4>1 DEF Fresh, Unchanged, Of, B!Of
    <3> QED
      BY <3>1, <3>2
  <2> QED
    BY <1>8, <1>9, <2>1, <2>2
<1>10. InsertsAlone'
  <2>1. ASSUME NEW d \in Callers, requests'[d] # None, Inserts(requests[d])'
        PROVE  booking = None
    BY <1>1, <1>2, <1>4, <2>1 DEF BookingsInv, InsertsAlone, Inserts, B!Insertable
  <2>2. ASSUME NEW d \in Callers, requests'[d] # None, Inserts(requests[d])',
               NEW e \in Callers, requests'[e] # None, Inserts(requests[e])'
        PROVE  d = e
    BY <1>1, <1>2, <1>4, <2>2 DEF BookingsInv, InsertsAlone, Inserts, B!Insertable
  <2> QED
    BY <1>1, <2>1, <2>2 DEF InsertsAlone
<1>11. HasForItself'
  BY <1>9 DEF HasForItself
<1>12. RowsFit'
  BY <1>1, RowsStayFit DEF BookingsInv
<1>13. ASSUME "booking" \notin disturbed' PROVE BookingFits' /\ CodesFit'
  <2>1. BookingFits /\ CodesFit
    BY <1>1, <1>13 DEF BookingsInv
  <2>2. ASSUME r.of = "booking" PROVE Fresh(r) /\ \A d \in Callers : requests[d] # None /\ requests[d].of = "booking" => d = c
    BY <1>1, <1>13, <2>2 DEF BookingsInv, HasForItself
  <2>3. \A d \in Callers : requests[d] # None /\ requests[d].op \in {"reserve", "cancel", "scan"}
                             => requests[d].of = "booking"
    BY DEF BookingsInv, RequestIsSound, SourceFits
  <2>4. ASSUME NEW code \in codes'
        PROVE  \/ code \in Own
               \/ \E d \in Callers : /\ requests'[d] # None /\ requests'[d].op = "reserve"
                                     /\ requests'[d].cached /\ requests'[d].number = code
    <3>1. CASE code \in codes
      <4>1. code \in Own \/ \E d \in Callers : /\ requests[d] # None /\ requests[d].op = "reserve"
                                               /\ requests[d].cached /\ requests[d].number = code
        BY <2>1, <3>1 DEF CodesFit
      <4> QED
        BY <1>1, <1>2, <4>1
    <3>2. CASE code \notin codes
      BY <1>3, <1>4, <1>5, <2>4, <3>2
    <3> QED
      BY <3>1, <3>2
  <2>5. ASSUME NEW d \in Callers, requests'[d] # None, requests'[d].op \in {"cancel", "scan"},
               requests'[d].cached, NEW code \in codes'
        PROVE  FALSE
    <3>1. CASE d # c
      <4>1. codes = {} /\ requests[d].of = "booking"
        BY <1>2, <2>1, <2>3, <2>5, <3>1 DEF CodesFit
      <4>2. r.op = "reserve"
        BY <1>5, <2>5, <4>1
      <4> QED
        BY <1>1, <1>2, <2>2, <2>3, <2>5, <3>1, <4>1, <4>2
    <3>2. CASE d = c
      <4>1. r.op \in {"cancel", "scan"} /\ r.of = "booking" /\ r.booking = booking
        BY <1>1, <1>4, <2>2, <2>3, <2>5, <3>2 DEF Fresh
      <4>2. code \in codes /\ code # r.booking.content
        BY <2>5, <4>1 DEF B!Cache
      <4>3. code \notin Own
        BY <4>1, <4>2 DEF Own
      <4>4. PICK e \in Callers : requests[e] # None /\ requests[e].op = "reserve"
        BY <2>1, <4>2, <4>3 DEF CodesFit
      <4> QED
        BY <2>2, <2>3, <4>1, <4>4
    <3> QED
      BY <3>1, <3>2
  <2>6. CodesFit'
    BY <1>1, <2>4, <2>5 DEF CodesFit, Own, B!Is
  <2> QED
    BY <1>1, <2>1, <2>6 DEF BookingFits, Unique, Of, B!Of, B!Is
<1>14. ASSUME "challenge" \notin disturbed' PROVE ChallengeFits'
  BY <1>1, <1>14 DEF BookingsInv, ChallengeFits, Unique, Of, B!Of, B!Is
<1> QED
  BY <1>6, <1>7, <1>10, <1>11, <1>12, <1>13, <1>14 DEF BookingsInv

LEMMA ForgetKeeps ==
  ASSUME BookingsInv, NEW code, B!Forget(code) PROVE BookingsInv'
<1>1. /\ codes' \subseteq codes
      /\ UNCHANGED <<booking, challenge, items, records, lastCode, requests, begun, disturbed>>
  BY DEF B!Forget
<1>2. B!BookingsTypeOK'
  BY <1>1 DEF BookingsInv, B!BookingsTypeOK
<1>3. ASSUME NEW c \in Callers, requests'[c] # None PROVE RequestIsSound(requests[c])'
  <2>1. /\ requests'[c] = requests[c] /\ RequestIsSound(requests[c])
        /\ booking' = booking /\ items' = items /\ records' = records /\ lastCode' = lastCode
    BY <1>1, <1>3 DEF BookingsInv
  <2>2. SourceFits(requests[c])'
    BY <2>1 DEF RequestIsSound, SourceFits, Of, B!Of
  <2>3. FoundFits(requests[c])'
    BY <2>1 DEF RequestIsSound, FoundFits
  <2>4. Stays(requests[c].items, items)' /\ Stays(requests[c].records, records)'
    BY <2>1 DEF RequestIsSound, Stays
  <2>5. /\ requests'[c].booking # None => booking' # None
        /\ requests'[c].booking = None <=> Of(requests[c].items, "booking")' = {}
    BY <2>1 DEF RequestIsSound, Of, B!Of
  <2> QED
    BY <2>2, <2>3, <2>4, <2>5 DEF RequestIsSound
<1>4. HasForItself' /\ InsertsAlone'
  BY <1>1 DEF BookingsInv, HasForItself, Fresh, Unchanged, Of, B!Of, InsertsAlone, Inserts
<1>5. CodesFit => CodesFit'
  BY <1>1 DEF CodesFit, Own, B!Is
<1>6. /\ RowsFit' /\ (BookingFits => BookingFits')
      /\ ChallengeFits => ChallengeFits'
  BY <1>1, RowsStayFit DEF BookingsInv, BookingFits, ChallengeFits, Unique, Of, B!Of, B!Is
<1> QED
  BY <1>1, <1>2, <1>3, <1>4, <1>5, <1>6 DEF BookingsInv

LEMMA FailKeeps == ASSUME BookingsInv, NEW c \in Callers, B!Fail(c) PROVE BookingsInv'
<1>1. /\ requests[c] # None /\ requests' = [requests EXCEPT ![c] = None]
      /\ disturbed' = disturbed \cup {requests[c].of}
      /\ codes' \subseteq codes
      /\ requests[c].op # "reserve" => codes' = codes
      /\ UNCHANGED <<booking, challenge, items, records, lastCode, begun>>
  BY DEF B!Fail
<1>2. \A d \in Callers : requests'[d] # None => d # c /\ requests'[d] = requests[d]
  BY <1>1 DEF BookingsInv, B!BookingsTypeOK
<1>3. B!BookingsTypeOK'
  <2>1. requests[c].of \in B!Source
    BY <1>1 DEF BookingsInv, B!BookingsTypeOK, B!Request
  <2> QED
    BY <1>1, <2>1 DEF BookingsInv, B!BookingsTypeOK
<1>4. ASSUME NEW d \in Callers, requests'[d] # None PROVE RequestIsSound(requests[d])'
  <2>1. requests'[d] = requests[d] /\ RequestIsSound(requests[d])
    BY <1>2, <1>4 DEF BookingsInv
  <2> QED
    BY <1>1, <2>1 DEF RequestIsSound, SourceFits, FoundFits, Stays, Of, B!Of
<1>5. ASSUME NEW d \in Callers, requests'[d] # None, requests'[d].of \notin disturbed'
      PROVE  /\ Fresh(requests[d])'
             /\ \A e \in Callers : requests'[e] # None /\ requests'[e].of = requests'[d].of => d = e
  <2>1. /\ requests'[d] = requests[d] /\ Fresh(requests[d])
        /\ \A e \in Callers : requests[e] # None /\ requests[e].of = requests[d].of => d = e
    BY <1>1, <1>2, <1>5 DEF BookingsInv, HasForItself
  <2>2. Fresh(requests[d])'
    BY <1>1, <2>1 DEF Fresh, Unchanged, Of, B!Of
  <2> QED
    BY <1>2, <2>1, <2>2
<1>6. HasForItself'
  BY <1>5 DEF HasForItself
<1>7. InsertsAlone'
  BY <1>1, <1>2 DEF BookingsInv, InsertsAlone, Inserts
<1>8. RowsFit'
  BY <1>1, RowsStayFit DEF BookingsInv
<1>9. ASSUME "booking" \notin disturbed' PROVE BookingFits' /\ CodesFit'
  <2>1. requests[c].op # "reserve" /\ codes' = codes
    BY <1>1, <1>9 DEF BookingsInv, RequestIsSound, SourceFits
  <2>2. BookingFits /\ CodesFit
    BY <1>1, <1>9 DEF BookingsInv
  <2>3. ASSUME NEW code \in codes, code \notin Own
        PROVE  \E d \in Callers : /\ requests'[d] # None /\ requests'[d].op = "reserve"
                                  /\ requests'[d].cached /\ requests'[d].number = code
    <3>1. PICK d \in Callers : /\ requests[d] # None /\ requests[d].op = "reserve"
                               /\ requests[d].cached /\ requests[d].number = code
      BY <2>2, <2>3 DEF CodesFit
    <3>2. requests'[d] = requests[d]
      BY <1>1, <2>1, <3>1 DEF BookingsInv, B!BookingsTypeOK
    <3> QED
      BY <3>1, <3>2
  <2>4. \A d \in Callers :
          requests'[d] # None /\ requests'[d].op \in {"cancel", "scan"} /\ requests'[d].cached => codes' = {}
    BY <1>2, <2>1, <2>2 DEF CodesFit
  <2>5. CodesFit'
    BY <1>1, <2>1, <2>3, <2>4 DEF CodesFit, Own, B!Is
  <2> QED
    BY <1>1, <2>2, <2>5 DEF BookingFits, Unique, Of, B!Of, B!Is
<1>10. ASSUME "challenge" \notin disturbed' PROVE ChallengeFits'
  BY <1>1, <1>10 DEF BookingsInv, ChallengeFits, Unique, Of, B!Of, B!Is
<1> QED
  BY <1>3, <1>4, <1>6, <1>7, <1>8, <1>9, <1>10 DEF BookingsInv

\* Rows of a source were changed, or made; those of others are as they were.
Grows(old, new, source) ==
  /\ Len(old) <= Len(new)
  /\ \A i \in DOMAIN old : /\ new[i].of = old[i].of
                           /\ old[i].of # source => new[i] = old[i]
  /\ \A i \in DOMAIN new \ DOMAIN old : new[i].of = source

LEMMA Rewrites ==
  ASSUME NEW S, NEW s \in Seq(S), NEW f, f = [i \in DOMAIN s |-> f[i]],
         \A i \in DOMAIN s : f[i] \in S
  PROVE  f \in Seq(S) /\ Len(f) = Len(s) /\ DOMAIN f = DOMAIN s
OBVIOUS

LEMMA Replaces ==
  ASSUME NEW S, NEW s \in Seq(S), NEW n \in DOMAIN s, NEW e \in S
  PROVE  LET new == [s EXCEPT ![n] = e]
         IN  /\ new \in Seq(S) /\ Len(new) = Len(s) /\ DOMAIN new = DOMAIN s
             /\ \A i \in DOMAIN s : new[i] = IF i = n THEN e ELSE s[i]
OBVIOUS

LEMMA Appends ==
  ASSUME NEW S, NEW s \in Seq(S), NEW e \in S
  PROVE  /\ Append(s, e) \in Seq(S) /\ Len(s) + 1 \notin DOMAIN s
         /\ DOMAIN Append(s, e) = DOMAIN s \cup {Len(s) + 1}
         /\ Len(s) < Len(Append(s, e))
         /\ Append(s, e)[Len(s) + 1] = e
         /\ \A i \in DOMAIN s : Append(s, e)[i] = s[i]
OBVIOUS

LEMMA AppendGrows ==
  ASSUME NEW S, NEW s \in Seq(S), NEW e \in S
  PROVE  Grows(s, Append(s, e), e.of)
BY Appends DEF Grows

LEMMA GrowsOf ==
  ASSUME NEW S, NEW old \in Seq(S), NEW new \in Seq(S), NEW source, NEW t,
         Grows(old, new, source)
  PROVE  /\ Of(old, t) \subseteq Of(new, t)
         /\ t # source => Of(new, t) = Of(old, t) /\ \A i \in Of(old, t) : new[i] = old[i]
         /\ Len(old) = Len(new) => Of(new, t) = Of(old, t)
<1>1. DOMAIN old = 1..Len(old) /\ DOMAIN new = 1..Len(new) /\ DOMAIN old \subseteq DOMAIN new
  BY DEF Grows
<1> QED
  BY <1>1 DEF Grows, Of, B!Of

LEMMA WrittenGrows ==
  ASSUME NEW list \in Seq(B!ItemRow), NEW read \in Seq(B!ItemRow), NEW changed, NEW source,
         Stays(read, list),
         \A i \in DOMAIN read : /\ changed[i] \in B!ItemRow /\ changed[i].of = read[i].of
                                /\ read[i].of # source => changed[i] = read[i]
  PROVE  LET new == B!Written(list, read, changed)
         IN  new \in Seq(B!ItemRow) /\ Len(new) = Len(list) /\ Grows(list, new, source)
<1> DEFINE new == B!Written(list, read, changed)
<1>1. /\ new = [i \in DOMAIN list |-> new[i]]
      /\ \A i \in DOMAIN list :
           new[i] = IF i \in DOMAIN read /\ changed[i] # read[i] THEN changed[i] ELSE list[i]
  BY DEF B!Written
<1>2. \A i \in DOMAIN list : new[i] \in B!ItemRow
  BY <1>1
<1> HIDE DEF new
<1>3. new \in Seq(B!ItemRow) /\ Len(new) = Len(list) /\ DOMAIN new = DOMAIN list
  BY <1>1, <1>2, Rewrites
<1>4. Grows(list, new, source)
  BY <1>1, <1>3 DEF Grows, Stays
<1> QED
  BY <1>3, <1>4 DEF new

\* What is known of a request that commits.
Commits(r) ==
  /\ r \in B!Request /\ RequestIsSound(r)
  /\ items \in Seq(B!ItemRow) /\ records \in Seq(B!Record)

LEMMA ItemIsTyped == \A source \in B!Source : B!Item(source) \in B!ItemRow /\ B!Item(source).of = source
BY DEF B!Item, B!ItemRow

LEMMA SyncedGrows ==
  ASSUME NEW r, Commits(r), NEW source \in B!Source
  PROVE  LET new == B!Synced(r, source)
         IN  /\ new \in Seq(B!ItemRow) /\ Grows(items, new, source)
             /\ IF Of(r.items, source) = {} THEN new = Append(items, B!Item(source))
                ELSE Len(new) = Len(items)
<1>1. CASE Of(r.items, source) = {}
  <2>1. B!Synced(r, source) = Append(items, B!Item(source))
    BY <1>1 DEF B!Synced, Of
  <2> QED
    BY <1>1, <2>1, AppendGrows, Appends, ItemIsTyped DEF Commits
<1>2. CASE Of(r.items, source) # {}
  <2> DEFINE changed == [i \in DOMAIN r.items |->
                           IF i \in B!Of(r.items, source) THEN B!Item(source) ELSE r.items[i]]
  <2>1. B!Synced(r, source) = B!Written(items, r.items, changed)
    BY <1>2 DEF B!Synced, Of
  <2>2. r.items \in Seq(B!ItemRow) /\ Stays(r.items, items)
    BY DEF Commits, B!Request, RequestIsSound
  <2>3. \A i \in DOMAIN r.items : /\ changed[i] \in B!ItemRow /\ changed[i].of = r.items[i].of
                                  /\ r.items[i].of # source => changed[i] = r.items[i]
    BY <2>2, ItemIsTyped DEF B!Of
  <2> HIDE DEF changed
  <2>4. items \in Seq(B!ItemRow)
    BY DEF Commits
  <2> DEFINE new == B!Written(items, r.items, changed)
  <2>5. new \in Seq(B!ItemRow) /\ Len(new) = Len(items) /\ Grows(items, new, source)
    BY <2>2, <2>3, <2>4, WrittenGrows
  <2>6. new = B!Synced(r, source)
    BY <2>1
  <2> HIDE DEF new
  <2> QED
    BY <1>2, <2>5, <2>6
<1> QED
  BY <1>1, <1>2

\* The entries that a request cancels: some of those of a source.
LEMMA CancelGrows ==
  ASSUME NEW r, Commits(r), NEW source, NEW is, is \subseteq Of(r.items, source)
  PROVE  LET new == B!Written(items, r.items, B!WithStatus(r.items, is, "CANCELLED"))
         IN  /\ new \in Seq(B!ItemRow) /\ Len(new) = Len(items) /\ Grows(items, new, source)
             /\ \A i \in DOMAIN items :
                  /\ items[i].status = "CANCELLED" => new[i].status = "CANCELLED"
                  /\ i \in is /\ items[i] = r.items[i] => new[i].status = "CANCELLED"
<1> DEFINE changed == B!WithStatus(r.items, is, "CANCELLED")
<1>1. r.items \in Seq(B!ItemRow) /\ Stays(r.items, items)
  BY DEF Commits, B!Request, RequestIsSound
<1>2. \A i \in DOMAIN r.items :
        changed[i] = IF i \in is THEN [r.items[i] EXCEPT !.status = "CANCELLED"] ELSE r.items[i]
  BY DEF B!WithStatus
<1>3. \A i \in DOMAIN r.items :
        /\ changed[i] \in B!ItemRow /\ changed[i].of = r.items[i].of
        /\ r.items[i].of # source => changed[i] = r.items[i]
        /\ i \in is => changed[i].status = "CANCELLED"
        /\ i \notin is => changed[i] = r.items[i]
  <2> TAKE i \in DOMAIN r.items
  <2> DEFINE row == r.items[i]
  <2>1. row \in B!ItemRow /\ (i \in is => row.of = source)
    BY <1>1 DEF Of, B!Of
  <2>2. changed[i] = IF i \in is THEN [row EXCEPT !.status = "CANCELLED"] ELSE row
    BY <1>2
  <2> HIDE DEF row, changed
  <2>3. /\ [row EXCEPT !.status = "CANCELLED"] \in B!ItemRow
        /\ [row EXCEPT !.status = "CANCELLED"].of = row.of
        /\ [row EXCEPT !.status = "CANCELLED"].status = "CANCELLED"
    BY <2>1 DEF B!ItemRow
  <2>4. /\ changed[i] \in B!ItemRow /\ changed[i].of = row.of
        /\ row.of # source => changed[i] = row
        /\ i \in is => changed[i].status = "CANCELLED"
        /\ i \notin is => changed[i] = row
    BY <2>1, <2>2, <2>3
  <2> QED
    BY <2>4 DEF row
<1> HIDE DEF changed
<1> DEFINE new == B!Written(items, r.items, changed)
<1>4. new \in Seq(B!ItemRow) /\ Len(new) = Len(items) /\ Grows(items, new, source)
  <2>1. items \in Seq(B!ItemRow)
    BY DEF Commits
  <2>2. \A i \in DOMAIN r.items : /\ changed[i] \in B!ItemRow /\ changed[i].of = r.items[i].of
                                  /\ r.items[i].of # source => changed[i] = r.items[i]
    BY <1>3
  <2> QED
    BY <1>1, <2>1, <2>2, WrittenGrows
<1>5. \A i \in DOMAIN items :
        new[i] = IF i \in DOMAIN r.items /\ changed[i] # r.items[i] THEN changed[i] ELSE items[i]
  BY DEF B!Written
<1> HIDE DEF new
<1>6. is \subseteq DOMAIN r.items
  BY DEF Of, B!Of
<1> HIDE DEF Commits
<1>7. \A i \in DOMAIN items :
        /\ items[i].status = "CANCELLED" => new[i].status = "CANCELLED"
        /\ i \in is /\ items[i] = r.items[i] => new[i].status = "CANCELLED"
  <2> SUFFICES ASSUME NEW i \in DOMAIN items
               PROVE  /\ items[i].status = "CANCELLED" => new[i].status = "CANCELLED"
                      /\ i \in is /\ items[i] = r.items[i] => new[i].status = "CANCELLED"
    OBVIOUS
  <2>1. CASE i \in DOMAIN r.items /\ changed[i] # r.items[i]
    BY <1>3, <1>5, <2>1
  <2>2. CASE ~(i \in DOMAIN r.items /\ changed[i] # r.items[i])
    <3>1. new[i] = items[i]
      BY <1>5, <2>2
    <3>2. i \in is => changed[i] = r.items[i] /\ changed[i].status = "CANCELLED"
      BY <1>3, <1>6, <2>2
    <3> QED
      BY <3>1, <3>2
  <2> QED
    BY <2>1, <2>2
<1>8. new = B!Written(items, r.items, B!WithStatus(r.items, is, "CANCELLED"))
  BY DEF new, changed
<1> QED
  BY <1>4, <1>7, <1>8

\* What the commit of a request does to the rows.
CommitEffect(r) ==
  /\ booking' \in B!BookingRow \cup {None} /\ (booking' # None => booking'.content <= lastCode)
  /\ challenge' \in B!ChallengeRow \cup {None}
  /\ items' \in Seq(B!ItemRow) /\ records' \in Seq(B!Record)
  /\ Grows(items, items', r.of) /\ Grows(records, records', r.of)
  /\ r.of # "booking" => booking' = booking
  /\ r.of # "challenge" => challenge' = challenge
  /\ booking # None => booking' # None
  /\ RowsFit'
  /\ r.of = "booking" /\ Fresh(r) /\ BookingFits => BookingFits'
  /\ r.of = "challenge" /\ Fresh(r) /\ ChallengeFits => ChallengeFits'

\* Where no new entry is made, the entries of a booking stay what they are.
LEMMA SameEntries ==
  ASSUME RowsFit, NEW source, items \in Seq(B!ItemRow), items' \in Seq(B!ItemRow),
         Grows(items, items', source),
         source # "booking" \/ Len(items') = Len(items),
         booking = None <=> booking' = None
  PROVE  /\ Unique(items, "booking")' /\ (booking = None <=> Of(items, "booking") = {})'
         /\ Of(items, "booking")' = Of(items, "booking")
<1>1. Of(items', "booking") = Of(items, "booking")
  BY GrowsOf
<1> QED
  BY <1>1 DEF RowsFit, Unique

LEMMA NothingGrows ==
  ASSUME NEW list, NEW S, list \in Seq(S), NEW source PROVE Grows(list, list, source)
BY DEF Grows

\* What is completed keeps its record.
LEMMA CompletedHasRecord ==
  ASSUME RowsFit, NEW source, records \in Seq(B!Record), records' \in Seq(B!Record),
         Grows(records, records', source),
         B!Is(booking, "COMPLETED")' => \/ B!Is(booking, "COMPLETED")
                                        \/ Of(records, "booking")' # {},
         B!Is(challenge, "COMPLETED")' => \/ B!Is(challenge, "COMPLETED")
                                          \/ Of(records, "challenge")' # {}
  PROVE  /\ B!Is(booking, "COMPLETED")' => Of(records, "booking")' # {}
         /\ B!Is(challenge, "COMPLETED")' => Of(records, "challenge")' # {}
<1>1. \A t : Of(records, t) \subseteq Of(records', t)
  BY GrowsOf
<1> QED
  BY <1>1 DEF RowsFit

LEMMA BookingRowIsTyped ==
  \A status \in {"RESERVED", "CANCELLED", "COMPLETED"}, content \in 1..MaxTickets :
    /\ B!Row(status, content) \in B!BookingRow /\ B!Row(status, content) # None
    /\ B!Row(status, content).status = status /\ B!Row(status, content).content = content
<1>1. \A status \in {"RESERVED", "CANCELLED", "COMPLETED"}, content \in 1..MaxTickets :
        /\ B!Row(status, content) \in B!BookingRow
        /\ B!Row(status, content).status = status /\ B!Row(status, content).content = content
  BY DEF B!Row, B!BookingRow
<1> QED
  BY <1>1, RequestIsSomething

LEMMA ChallengeRowIsTyped ==
  \A status \in {"ACTIVE", "CANCELLED", "COMPLETED"}, content \in Notes \cup {None} :
    /\ B!Row(status, content) \in B!ChallengeRow /\ B!Row(status, content) # None
    /\ B!Row(status, content).status = status
<1>1. \A status \in {"ACTIVE", "CANCELLED", "COMPLETED"}, content \in Notes \cup {None} :
        /\ B!Row(status, content) \in B!ChallengeRow
        /\ B!Row(status, content).status = status
  BY DEF B!Row, B!ChallengeRow
<1> QED
  BY <1>1, RequestIsSomething

LEMMA ReserveEffect ==
  ASSUME BookingsInv, NEW r, Commits(r), r.op = "reserve", B!CommitReserve(r),
         r.booking = None => booking = None
  PROVE  CommitEffect(r)
<1>1. /\ booking' = IF r.booking # None /\ r.booking.status = "RESERVED" THEN booking
                    ELSE B!Row("RESERVED", r.number)
      /\ items' = B!Synced(r, "booking")
      /\ challenge' = challenge /\ records' = records
  BY DEF B!CommitReserve
<1>2. /\ r.of = "booking" /\ r.number \in 1..lastCode
      /\ r.booking # None => booking # None /\ r.booking.status # "COMPLETED"
      /\ r.booking = None <=> Of(r.items, "booking") = {}
  BY DEF Commits, RequestIsSound, SourceFits, FoundFits
<1>3. /\ B!BookingsTypeOK /\ RowsFit /\ lastCode \in Nat /\ lastCode <= MaxTickets
      /\ items \in Seq(B!ItemRow) /\ records \in Seq(B!Record)
  BY Limits DEF BookingsInv, B!BookingsTypeOK
<1>4. /\ items' \in Seq(B!ItemRow) /\ Grows(items, items', "booking")
      /\ IF Of(r.items, "booking") = {} THEN items' = Append(items, B!Item("booking"))
         ELSE Len(items') = Len(items)
  <2>1. "booking" \in B!Source
    BY DEF B!Source
  <2> QED
    BY <1>1, <2>1, SyncedGrows
<1>5. r.number \in 1..MaxTickets
  BY <1>2, <1>3, Limits
<1>6. /\ booking' \in B!BookingRow \cup {None} /\ booking' # None
      /\ booking'.content <= lastCode
      /\ booking' = booking \/ B!Is(booking, "RESERVED")'
  BY <1>1, <1>2, <1>3, <1>5, BookingRowIsTyped DEF B!BookingsTypeOK, B!Is
<1>7. Unique(items, "booking")' /\ Of(items, "booking")' # {}
  <2>1. CASE r.booking = None
    <3>1. Of(items, "booking") = {} /\ items' = Append(items, B!Item("booking"))
      BY <1>2, <1>3, <1>4, <2>1 DEF RowsFit
    <3>2. /\ DOMAIN items' = DOMAIN items \cup {Len(items) + 1}
          /\ items'[Len(items) + 1] = B!Item("booking")
          /\ \A i \in DOMAIN items : items'[i] = items[i]
      BY <1>3, <3>1, Appends, ItemIsTyped DEF B!Source
    <3>3. B!Item("booking").of = "booking"
      BY DEF B!Item
    <3>4. Of(items', "booking") = {Len(items) + 1}
      BY <3>1, <3>2, <3>3 DEF Of, B!Of
    <3> QED
      BY <3>4 DEF Unique
  <2>2. CASE r.booking # None
    <3>1. Len(items') = Len(items) /\ booking # None
      BY <1>2, <1>4, <2>2
    <3> QED
      BY <1>3, <1>4, <1>6, <3>1, SameEntries DEF RowsFit
  <2> QED
    BY <2>1, <2>2
<1>8. Grows(records, records', "booking")
  BY <1>1, <1>3, NothingGrows
<1>9. RowsFit'
  <2>1. B!Is(booking, "COMPLETED")' => B!Is(booking, "COMPLETED")
    BY <1>6 DEF B!Is
  <2>2. B!Is(challenge, "COMPLETED")' => B!Is(challenge, "COMPLETED")
    BY <1>1 DEF B!Is
  <2>3. records' \in Seq(B!Record)
    BY <1>1, <1>3
  <2> QED
    BY <1>3, <1>6, <1>7, <1>8, <2>1, <2>2, <2>3, CompletedHasRecord DEF RowsFit
<1>10. ASSUME Fresh(r), BookingFits PROVE BookingFits'
  <2>1. r.booking = booking /\ Of(records, "booking") = {}
    BY <1>2, <1>10 DEF Fresh, BookingFits, B!Is
  <2>2. Of(records, "booking")' = {} /\ ~B!Is(booking, "CANCELLED")'
    BY <1>1, <1>2, <1>5, <2>1, BookingRowIsTyped DEF Of, B!Is
  <2> QED
    BY <2>2 DEF BookingFits, Unique
<1> QED
  BY <1>1, <1>2, <1>3, <1>4, <1>6, <1>8, <1>9, <1>10 DEF CommitEffect, B!BookingsTypeOK

LEMMA CancelEffect ==
  ASSUME BookingsInv, NEW r, Commits(r), r.op = "cancel", B!CommitCancel(r)
  PROVE  CommitEffect(r)
<1>1. /\ booking' = B!Row("CANCELLED", r.booking.content)
      /\ items' = B!Written(items, r.items,
                     B!WithStatus(r.items, Of(r.items, "booking"), "CANCELLED"))
      /\ challenge' = challenge /\ records' = records
  BY DEF B!CommitCancel, B!CancelSource, Of
<1>2. /\ r.of = "booking" /\ booking # None /\ r.booking # None /\ r.booking.status = "RESERVED"
      /\ r.booking \in B!BookingRow /\ r.booking.content <= lastCode
  BY DEF Commits, B!Request, RequestIsSound, SourceFits, FoundFits
<1>3. /\ B!BookingsTypeOK /\ RowsFit
      /\ items \in Seq(B!ItemRow) /\ records \in Seq(B!Record)
  BY DEF BookingsInv, B!BookingsTypeOK
<1>4. /\ items' \in Seq(B!ItemRow) /\ Len(items') = Len(items) /\ Grows(items, items', "booking")
      /\ \A i \in DOMAIN items :
           i \in Of(r.items, "booking") /\ items[i] = r.items[i] => items'[i].status = "CANCELLED"
  BY <1>1, CancelGrows
<1>5. r.booking.content \in 1..MaxTickets
  BY <1>2 DEF B!BookingRow
<1>6. /\ booking' \in B!BookingRow /\ booking' # None /\ booking'.content <= lastCode
      /\ booking'.status = "CANCELLED"
  BY <1>1, <1>2, <1>5, BookingRowIsTyped
<1>7. Grows(records, records', "booking")
  BY <1>1, <1>3, NothingGrows
<1>8. RowsFit'
  <2>1. ~B!Is(booking, "COMPLETED")'
    BY <1>6 DEF B!Is
  <2>2. B!Is(challenge, "COMPLETED")' => B!Is(challenge, "COMPLETED")
    BY <1>1 DEF B!Is
  <2>3. records' \in Seq(B!Record) /\ booking # None
    BY <1>1, <1>2, <1>3
  <2>4. Unique(items, "booking")' /\ (booking = None <=> Of(items, "booking") = {})'
    BY <1>3, <1>4, <1>6, <2>3, SameEntries
  <2> QED
    BY <1>3, <1>7, <2>1, <2>2, <2>3, <2>4, CompletedHasRecord DEF RowsFit
<1>9. ASSUME Fresh(r), BookingFits PROVE BookingFits'
  <2>1. r.booking = booking /\ Unchanged(r.items, items, "booking") /\ Of(records, "booking") = {}
    BY <1>2, <1>9 DEF Fresh, BookingFits, B!Is
  <2>2. Of(records, "booking")' = {}
    BY <1>1, <2>1 DEF Of
  <2>3. Of(items', "booking") = Of(items, "booking")
    BY <1>3, <1>4, GrowsOf
  <2>4. \A i \in Of(items, "booking") : /\ i \in DOMAIN items /\ items[i] = r.items[i]
                                        /\ i \in Of(r.items, "booking")
    BY <2>1 DEF Unchanged, Of, B!Of
  <2>5. \A i \in Of(items', "booking") : items'[i].status = "CANCELLED"
    BY <1>4, <2>3, <2>4
  <2> QED
    BY <2>2, <2>5 DEF BookingFits, Unique
<1> QED
  BY <1>1, <1>2, <1>3, <1>4, <1>6, <1>7, <1>8, <1>9 DEF CommitEffect, B!BookingsTypeOK

\* A record for a source that had none, or had one that was read.
LEMMA RecordIsMade ==
  ASSUME NEW r, Commits(r), NEW source \in {"booking", "challenge"}, NEW note \in Notes \cup {None},
         Of(r.records, source) = {} =>
           records' = Append(records, [of |-> source, note |-> note]),
         Of(r.records, source) # {} =>
           records' \in Seq(B!Record) /\ Len(records') = Len(records) /\ Grows(records, records', source)
  PROVE  /\ records' \in Seq(B!Record) /\ Grows(records, records', source)
         /\ Of(records', source) # {}
         /\ Of(records, source) = {} \/ (Of(r.records, source) # {} /\ Unique(records, source))
              => Unique(records', source)
<1>1. /\ records \in Seq(B!Record) /\ r.records \in Seq(B!Record)
      /\ Of(r.records, source) \subseteq Of(records, source)
  BY DEF Commits, B!Request, RequestIsSound, Stays, Of, B!Of
<1>2. CASE Of(r.records, source) = {}
  <2> DEFINE new == [of |-> source, note |-> note]
  <2>1. new \in B!Record /\ new.of = source /\ records' = Append(records, new)
    BY <1>2 DEF B!Record
  <2> HIDE DEF new
  <2>2. /\ records' \in Seq(B!Record) /\ Grows(records, records', source)
        /\ DOMAIN records' = DOMAIN records \cup {Len(records) + 1}
        /\ records'[Len(records) + 1] = new
        /\ \A i \in DOMAIN records : records'[i] = records[i]
    BY <1>1, <2>1, Appends, AppendGrows
  <2>3. Of(records', source) = Of(records, source) \cup {Len(records) + 1}
    BY <2>1, <2>2 DEF Of, B!Of
  <2> QED
    BY <1>2, <2>2, <2>3 DEF Unique
<1>3. CASE Of(r.records, source) # {}
  <2>1. Of(records', source) = Of(records, source)
    BY <1>1, <1>3, GrowsOf
  <2> QED
    BY <1>1, <1>3, <2>1 DEF Unique
<1> QED
  BY <1>2, <1>3

LEMMA ScanEffect ==
  ASSUME BookingsInv, NEW r, Commits(r), r.op = "scan", B!ScanComplete(r)
  PROVE  CommitEffect(r)
<1>1. /\ booking' = B!Row("COMPLETED", r.booking.content)
      /\ records' = IF Of(r.records, "booking") = {}
                    THEN Append(records, [of |-> "booking", note |-> None]) ELSE records
      /\ challenge' = challenge /\ items' = items
  BY DEF B!ScanComplete, B!CreateIfAbsent, Of
<1>2. /\ r.of = "booking" /\ booking # None /\ r.booking # None /\ r.booking.status = "RESERVED"
      /\ r.booking \in B!BookingRow /\ r.booking.content <= lastCode
  BY DEF Commits, B!Request, RequestIsSound, SourceFits, FoundFits
<1>3. /\ B!BookingsTypeOK /\ RowsFit
      /\ items \in Seq(B!ItemRow) /\ records \in Seq(B!Record)
  BY DEF BookingsInv, B!BookingsTypeOK
<1>4. r.booking.content \in 1..MaxTickets
  BY <1>2 DEF B!BookingRow
<1>5. /\ booking' \in B!BookingRow /\ booking' # None /\ booking'.content <= lastCode
      /\ booking'.status = "COMPLETED"
  BY <1>1, <1>2, <1>4, BookingRowIsTyped
<1>6. Grows(items, items', "booking") /\ Grows(records, records, "booking")
  BY <1>1, <1>3, NothingGrows
<1>7. /\ records' \in Seq(B!Record) /\ Grows(records, records', "booking")
      /\ Of(records', "booking") # {}
      /\ Of(records, "booking") = {} => Unique(records', "booking")
  BY <1>1, <1>3, <1>6, RecordIsMade
<1>8. RowsFit'
  <2>1. Of(records, "booking")' # {}
    BY <1>7 DEF Of
  <2>2. B!Is(challenge, "COMPLETED")' => B!Is(challenge, "COMPLETED")
    BY <1>1 DEF B!Is
  <2>3. booking # None /\ Len(items') = Len(items)
    BY <1>1, <1>2
  <2>4. Unique(items, "booking")' /\ (booking = None <=> Of(items, "booking") = {})'
    BY <1>1, <1>3, <1>5, <1>6, <2>3, SameEntries
  <2> QED
    BY <1>3, <1>7, <2>1, <2>2, <2>4, CompletedHasRecord DEF RowsFit
<1>9. ASSUME Fresh(r), BookingFits PROVE BookingFits'
  <2>1. Of(records, "booking") = {}
    BY <1>2, <1>9 DEF Fresh, BookingFits, B!Is
  <2>2. Unique(records, "booking")' /\ B!Is(booking, "COMPLETED")' /\ ~B!Is(booking, "CANCELLED")'
    BY <1>5, <1>7, <2>1 DEF B!Is, Unique, Of
  <2> QED
    BY <2>2 DEF BookingFits
<1> QED
  BY <1>1, <1>2, <1>3, <1>5, <1>6, <1>7, <1>8, <1>9 DEF CommitEffect, B!BookingsTypeOK

LEMMA ChallengeEffect ==
  ASSUME BookingsInv, NEW r, Commits(r), B!CommitChallenge(r), booking' = booking
  PROVE  CommitEffect(r)
<1>1. /\ B!BookingsTypeOK /\ RowsFit
      /\ items \in Seq(B!ItemRow) /\ records \in Seq(B!Record)
  BY DEF BookingsInv, B!BookingsTypeOK
<1>2. r.op \in {"challenge", "complete", "giveUp"} /\ r.of = "challenge"
  BY DEF B!CommitChallenge, Commits, RequestIsSound, SourceFits
<1>3. Grows(items, items, "challenge") /\ Grows(records, records, "challenge")
  BY <1>1, NothingGrows
<1>4. r.challenge \in B!ChallengeRow \cup {None} /\ r.note \in Notes \cup {None}
  BY DEF Commits, B!Request
<1>5. CASE r.op = "challenge"
  <2>1. challenge' = B!Row("ACTIVE", None) /\ items' = items /\ records' = records
    BY <1>5 DEF B!CommitChallenge
  <2>2. challenge' \in B!ChallengeRow /\ ~B!Is(challenge, "COMPLETED")'
    BY <2>1, ChallengeRowIsTyped DEF B!Is
  <2>3. RowsFit'
    BY <1>1, <2>1, <2>2 DEF RowsFit, Unique, Of, B!Of, B!Is
  <2>4. ASSUME Fresh(r), ChallengeFits PROVE ChallengeFits'
    <3>1. challenge = None
      BY <1>2, <1>5, <2>4 DEF Fresh, Commits, RequestIsSound, FoundFits
    <3> QED
      BY <2>1, <2>2, <2>4, <3>1 DEF ChallengeFits, Unique, Of, B!Of, B!Is
  <2> QED
    BY <1>1, <1>2, <1>3, <2>1, <2>2, <2>3, <2>4 DEF CommitEffect, B!BookingsTypeOK
<1>6. CASE r.op = "complete"
  <2>1. /\ challenge' = B!Row("COMPLETED", r.note) /\ items' = items
        /\ records' = B!CreateFromChallenge(r, r.note)
    BY <1>6 DEF B!CommitChallenge
  <2>2. challenge' \in B!ChallengeRow /\ B!Is(challenge, "COMPLETED")'
    BY <1>4, <2>1, ChallengeRowIsTyped DEF B!Is
  <2>3. Of(r.records, "challenge") = {} =>
          records' = Append(records, [of |-> "challenge", note |-> r.note])
    BY <2>1 DEF B!CreateFromChallenge, Of
  <2>4. ASSUME Of(r.records, "challenge") # {}
        PROVE  /\ records' \in Seq(B!Record) /\ Len(records') = Len(records)
               /\ Grows(records, records', "challenge")
    <3>1. records' = [i \in DOMAIN records |->
                        IF i \in Of(r.records, "challenge") THEN [records[i] EXCEPT !.note = r.note]
                        ELSE records[i]]
      BY <2>1, <2>4 DEF B!CreateFromChallenge, Of
    <3>2. \A i \in Of(r.records, "challenge") : i \in DOMAIN records /\ records[i].of = "challenge"
      BY DEF Commits, B!Request, RequestIsSound, Stays, Of, B!Of
    <3>3. \A i \in DOMAIN records : /\ records'[i] \in B!Record /\ records'[i].of = records[i].of
                                    /\ records[i].of # "challenge" => records'[i] = records[i]
      <4> SUFFICES ASSUME NEW i \in DOMAIN records
                   PROVE  /\ records'[i] \in B!Record /\ records'[i].of = records[i].of
                          /\ records[i].of # "challenge" => records'[i] = records[i]
        OBVIOUS
      <4>1. records[i] \in B!Record
        BY <1>1
      <4>2. /\ [records[i] EXCEPT !.note = r.note] \in B!Record
            /\ [records[i] EXCEPT !.note = r.note].of = records[i].of
        BY <1>4, <4>1 DEF B!Record
      <4> QED
        BY <3>1, <3>2, <4>1, <4>2
    <3>4. records' = [i \in DOMAIN records |-> records'[i]]
      BY <3>1
    <3>5. /\ records' \in Seq(B!Record) /\ Len(records') = Len(records)
          /\ DOMAIN records' = DOMAIN records
      BY <1>1, <3>3, <3>4, Rewrites
    <3> QED
      BY <1>1, <3>3, <3>5 DEF Grows
  <2>5. /\ records' \in Seq(B!Record) /\ Grows(records, records', "challenge")
        /\ Of(records', "challenge") # {}
        /\ Of(records, "challenge") = {} \/ (Of(r.records, "challenge") # {} /\ Unique(records, "challenge"))
             => Unique(records', "challenge")
    BY <1>4, <2>3, <2>4, RecordIsMade
  <2>6. RowsFit'
    <3>1. Of(records, "challenge")' # {}
      BY <2>5 DEF Of
    <3>2. B!Is(booking, "COMPLETED")' => B!Is(booking, "COMPLETED")
      BY DEF B!Is
    <3>3. Unique(items, "booking")' /\ (booking = None <=> Of(items, "booking") = {})'
      BY <1>1, <2>1 DEF RowsFit, Unique, Of
    <3> QED
      BY <1>1, <2>5, <3>1, <3>2, <3>3, CompletedHasRecord DEF RowsFit
  <2>7. ASSUME Fresh(r), ChallengeFits PROVE ChallengeFits'
    <3>1. Of(records, "challenge") # {} => Of(r.records, "challenge") # {}
      BY <1>2, <2>7 DEF Fresh, Unchanged, Of, B!Of
    <3>2. Unique(records', "challenge")
      BY <2>5, <2>7, <3>1 DEF ChallengeFits
    <3> QED
      BY <2>2, <3>2 DEF ChallengeFits, Unique, Of
  <2> QED
    BY <1>1, <1>2, <1>3, <2>1, <2>2, <2>5, <2>6, <2>7 DEF CommitEffect, B!BookingsTypeOK
<1>7. CASE r.op = "giveUp"
  <2>1. /\ challenge' = IF r.challenge.status = "CANCELLED" THEN challenge
                        ELSE B!Row("CANCELLED", r.challenge.content)
        /\ items' = B!Written(items, r.items,
                       B!WithStatus(r.items, Of(r.items, "challenge"), "CANCELLED"))
        /\ records' = records
    BY <1>7 DEF B!CommitChallenge, B!CancelSource, Of
  <2>2. r.challenge \in B!ChallengeRow /\ r.challenge.status # "COMPLETED"
    BY <1>4, <1>7 DEF Commits, RequestIsSound, FoundFits
  <2>3. /\ challenge' \in B!ChallengeRow \cup {None}
        /\ challenge' = challenge \/ ~B!Is(challenge, "COMPLETED")'
    <3>1. r.challenge.content \in Notes \cup {None}
      BY <2>2 DEF B!ChallengeRow
    <3> QED
      BY <1>1, <2>1, <3>1, ChallengeRowIsTyped DEF B!BookingsTypeOK, B!Is
  <2>4. items' \in Seq(B!ItemRow) /\ Len(items') = Len(items) /\ Grows(items, items', "challenge")
    BY <2>1, CancelGrows
  <2>5. RowsFit'
    <3>1. Unique(items, "booking")' /\ (booking = None <=> Of(items, "booking") = {})'
      BY <1>1, <2>4, SameEntries
    <3>2. /\ B!Is(booking, "COMPLETED")' => B!Is(booking, "COMPLETED")
          /\ B!Is(challenge, "COMPLETED")' => B!Is(challenge, "COMPLETED")
      BY <2>3 DEF B!Is
    <3> QED
      BY <1>1, <2>1, <3>1, <3>2 DEF RowsFit, Of
  <2>6. ASSUME Fresh(r), ChallengeFits PROVE ChallengeFits'
    <3>1. Of(records, "challenge") = {} /\ Of(records, "challenge")' = {}
      BY <1>2, <2>1, <2>2, <2>6 DEF Fresh, ChallengeFits, B!Is, Of
    <3> QED
      BY <3>1 DEF ChallengeFits, Unique
  <2> QED
    BY <1>1, <1>2, <1>3, <2>1, <2>3, <2>4, <2>5, <2>6 DEF CommitEffect, B!BookingsTypeOK
<1> QED
  BY <1>2, <1>5, <1>6, <1>7

\* An entry that the student edits keeps its source, and its status if it was
\* read as it is.
LEMMA EditGrows ==
  ASSUME NEW r, Commits(r), r.op = "edit",
         items' = [items EXCEPT ![r.number] = [r.items[r.number] EXCEPT !.edited = TRUE]]
  PROVE  /\ items' \in Seq(B!ItemRow) /\ Len(items') = Len(items) /\ Grows(items, items', r.of)
         /\ \A i \in DOMAIN items :
              i # r.number \/ items[i] = r.items[i] => items'[i].status = items[i].status
<1>1. /\ items \in Seq(B!ItemRow) /\ r.items \in Seq(B!ItemRow)
      /\ r.number \in DOMAIN r.items /\ r.items[r.number].of = r.of
      /\ r.number \in DOMAIN items /\ items[r.number].of = r.of
  BY DEF Commits, B!Request, RequestIsSound, SourceFits, Stays, Of, B!Of
<1> DEFINE row == r.items[r.number]
           edited == [row EXCEPT !.edited = TRUE]
<1>2. edited \in B!ItemRow /\ edited.of = r.of /\ edited.status = row.status
  <2>1. row \in B!ItemRow /\ row.of = r.of
    BY <1>1
  <2> HIDE DEF row
  <2> QED
    BY <2>1 DEF B!ItemRow
<1> HIDE DEF edited
<1>3. /\ items' \in Seq(B!ItemRow) /\ Len(items') = Len(items) /\ DOMAIN items' = DOMAIN items
      /\ \A i \in DOMAIN items : items'[i] = IF i = r.number THEN edited ELSE items[i]
  <2>1. items' = [items EXCEPT ![r.number] = edited]
    BY DEF edited
  <2> QED
    BY ONLY <1>1, <1>2, <2>1, Replaces
<1>4. Grows(items, items', r.of)
  BY <1>1, <1>2, <1>3 DEF Grows
<1> QED
  BY <1>2, <1>3, <1>4

\* What a change of the schedule leaves of the entries.
LEMMA ItemsGrow ==
  ASSUME NEW r, Commits(r), B!CommitItem(r)
  PROVE  /\ items' \in Seq(B!ItemRow) /\ Grows(items, items', r.of)
         /\ r.of = "booking" =>
              /\ Len(items') = Len(items)
              /\ \A i \in DOMAIN items :
                   /\ i # r.number \/ items[i] = r.items[i]
                   /\ items[i].status = "CANCELLED"
                   => items'[i].status = "CANCELLED"
<1>1. items \in Seq(B!ItemRow) /\ r.of \in B!Source /\ SourceFits(r)
  BY DEF Commits, B!Request, RequestIsSound
<1>2. CASE r.op = "item" /\ items' = Append(items, B!Item(r.of))
  <2>1. r.of # "booking" /\ B!Item(r.of) \in B!ItemRow /\ B!Item(r.of).of = r.of
    BY <1>1, <1>2, ItemIsTyped DEF SourceFits
  <2> QED
    BY <1>1, <1>2, <2>1, Appends, AppendGrows
<1>3. CASE r.op = "plan" /\ items' = B!Synced(r, "plan")
  <2>1. r.of = "plan"
    BY <1>1, <1>3 DEF SourceFits
  <2> QED
    BY <1>1, <1>3, <2>1, SyncedGrows
<1>4. CASE /\ r.op = "edit"
           /\ items' = [items EXCEPT ![r.number] = [r.items[r.number] EXCEPT !.edited = TRUE]]
  BY <1>4, EditGrows
<1>5. CASE /\ r.op = "drop"
           /\ items' = B!Written(items, r.items, B!WithStatus(r.items, {r.number}, "CANCELLED"))
  <2>1. {r.number} \subseteq Of(r.items, r.of)
    BY <1>1, <1>5 DEF SourceFits
  <2> QED
    BY <1>5, <2>1, CancelGrows
<1> QED
  BY <1>2, <1>3, <1>4, <1>5 DEF B!CommitItem

LEMMA ItemEffect ==
  ASSUME BookingsInv, NEW r, Commits(r), B!CommitItem(r),
         UNCHANGED <<booking, challenge, records>>
  PROVE  CommitEffect(r)
<1>1. /\ B!BookingsTypeOK /\ RowsFit
      /\ items \in Seq(B!ItemRow) /\ records \in Seq(B!Record)
  BY DEF BookingsInv, B!BookingsTypeOK
<1>2. Grows(records, records', r.of)
  BY <1>1, NothingGrows
<1>3. /\ items' \in Seq(B!ItemRow) /\ Grows(items, items', r.of)
      /\ r.of = "booking" =>
           /\ Len(items') = Len(items)
           /\ \A i \in DOMAIN items :
                (i # r.number \/ items[i] = r.items[i]) /\ items[i].status = "CANCELLED"
                => items'[i].status = "CANCELLED"
  BY ItemsGrow
<1>4. Unique(items, "booking")' /\ (booking = None <=> Of(items, "booking") = {})'
  BY <1>1, <1>3, SameEntries
<1>5. RowsFit'
  BY <1>1, <1>4 DEF RowsFit, Of, B!Is
<1>6. ASSUME r.of = "booking", Fresh(r), BookingFits PROVE BookingFits'
  <2>1. Of(items', "booking") = Of(items, "booking")
    BY <1>1, <1>3, <1>6, GrowsOf
  <2>2. \A i \in Of(items, "booking") : i \in DOMAIN items /\ items[i] = r.items[i]
    BY <1>6 DEF Fresh, Unchanged, Of, B!Of
  <2>3. B!Is(booking, "CANCELLED") => \A i \in Of(items', "booking") : items'[i].status = "CANCELLED"
    BY <1>3, <1>6, <2>1, <2>2 DEF BookingFits
  <2> QED
    BY <1>6, <2>3 DEF BookingFits, Unique, Of, B!Is
<1>7. ChallengeFits => ChallengeFits'
  BY DEF ChallengeFits, Unique, Of, B!Is
<1> QED
  BY <1>1, <1>2, <1>3, <1>5, <1>6, <1>7 DEF CommitEffect, B!BookingsTypeOK

LEMMA ReflectEffect ==
  ASSUME BookingsInv, NEW r, Commits(r), r.op = "reflect",
         records' = [records EXCEPT ![r.number].note = r.note],
         UNCHANGED <<booking, challenge, items>>
  PROVE  CommitEffect(r)
<1>1. /\ B!BookingsTypeOK /\ RowsFit
      /\ items \in Seq(B!ItemRow) /\ records \in Seq(B!Record)
      /\ r.note \in Notes \cup {None}
  BY DEF BookingsInv, B!BookingsTypeOK, Commits, B!Request
<1>2. r.number \in DOMAIN records /\ records[r.number].of = r.of
  BY DEF Commits, B!Request, RequestIsSound, SourceFits, Stays, Of, B!Of
<1>3. Grows(items, items', r.of)
  BY <1>1, NothingGrows
<1> DEFINE row == records[r.number]
           new == [row EXCEPT !.note = r.note]
<1>4. new \in B!Record /\ new.of = r.of
  <2>1. row \in B!Record
    BY <1>1, <1>2
  <2>2. row.of = r.of
    BY <1>2
  <2> HIDE DEF row
  <2> QED
    BY <1>1, <2>1, <2>2 DEF B!Record
<1> HIDE DEF new
<1>5. records' = [records EXCEPT ![r.number] = new]
  BY DEF new
<1>6. /\ records' \in Seq(B!Record) /\ Len(records') = Len(records)
      /\ DOMAIN records' = DOMAIN records
      /\ \A i \in DOMAIN records : records'[i] = IF i = r.number THEN new ELSE records[i]
  BY ONLY <1>1, <1>2, <1>4, <1>5, Replaces
<1>7. Grows(records, records', r.of)
  BY <1>1, <1>2, <1>4, <1>6 DEF Grows
<1>8. \A t : Of(records', t) = Of(records, t)
  BY ONLY <1>1, <1>6, <1>7, GrowsOf
<1>9. RowsFit' /\ (BookingFits => BookingFits') /\ (ChallengeFits => ChallengeFits')
  BY <1>1, <1>8 DEF RowsFit, BookingFits, ChallengeFits, Unique, Of, B!Of, B!Is
<1> QED
  BY <1>1, <1>3, <1>6, <1>7, <1>9 DEF CommitEffect, B!BookingsTypeOK

LEMMA StaysOn ==
  ASSUME NEW S, NEW read \in Seq(S), NEW old \in Seq(S), NEW new \in Seq(S), NEW source,
         Stays(read, old), Grows(old, new, source)
  PROVE  Stays(read, new)
<1>1. DOMAIN read = 1..Len(read) /\ DOMAIN old = 1..Len(old) /\ DOMAIN read \subseteq DOMAIN old
  BY DEF Stays
<1> QED
  BY <1>1 DEF Stays, Grows

LEMMA OthersAreKept ==
  ASSUME NEW S, NEW old \in Seq(S), NEW new \in Seq(S), NEW source, Grows(old, new, source),
         NEW t, t # source
  PROVE  Of(new, t) = Of(old, t) /\ \A i \in Of(old, t) : new[i] = old[i]
<1>1. DOMAIN old = 1..Len(old) /\ DOMAIN new = 1..Len(new) /\ DOMAIN old \subseteq DOMAIN new
  BY DEF Grows
<1> QED
  BY <1>1 DEF Grows, Of, B!Of

LEMMA EveryCommit ==
  ASSUME BookingsInv, NEW c \in Callers, B!Commit(c) PROVE CommitEffect(requests[c])
<1> DEFINE r == requests[c]
<1>1. r # None /\ r.cached
  BY DEF B!Commit
<1>2. Commits(r)
  BY <1>1 DEF BookingsInv, B!BookingsTypeOK, Commits
<1>3. CASE r.op = "reserve" /\ B!CommitReserve(r)
  <2>1. r.booking = None => booking = None
    BY <1>1, <1>3 DEF BookingsInv, InsertsAlone, Inserts
  <2> QED
    BY <1>2, <1>3, <2>1, ReserveEffect
<1>4. CASE r.op = "cancel" /\ B!CommitCancel(r)
  BY <1>2, <1>4, CancelEffect
<1>5. CASE r.op = "scan" /\ B!ScanComplete(r)
  BY <1>2, <1>5, ScanEffect
<1>6. CASE B!CommitChallenge(r) /\ UNCHANGED booking
  BY <1>2, <1>6, ChallengeEffect
<1>7. CASE B!CommitItem(r) /\ UNCHANGED <<booking, challenge, records>>
  BY <1>2, <1>7, ItemEffect
<1>8. CASE /\ r.op = "reflect"
           /\ records' = [records EXCEPT ![r.number].note = r.note]
           /\ UNCHANGED <<booking, challenge, items>>
  BY <1>2, <1>8, ReflectEffect
<1> QED
  BY <1>3, <1>4, <1>5, <1>6, <1>7, <1>8 DEF B!Commit

\* What a commit does to the booking.
LEMMA BookingAfter ==
  ASSUME BookingsInv, NEW c \in Callers, B!Commit(c), requests[c].of = "booking", Fresh(requests[c])
  PROVE  /\ requests[c].op = "reserve" => B!Is(booking, "RESERVED")' /\ booking'.content = requests[c].number
         /\ requests[c].op \in {"cancel", "scan"} => ~B!Is(booking, "RESERVED")'
         /\ requests[c].op \notin {"reserve", "cancel", "scan"} => booking' = booking
<1> DEFINE r == requests[c]
<1>1. /\ r # None /\ r.cached /\ r \in B!Request /\ SourceFits(r) /\ FoundFits(r)
      /\ r.booking = booking
  BY DEF B!Commit, BookingsInv, B!BookingsTypeOK, RequestIsSound, Fresh
<1>2. /\ lastCode \in Nat /\ lastCode <= MaxTickets
      /\ booking # None => booking.content \in 1..MaxTickets
  BY Limits DEF BookingsInv, B!BookingsTypeOK, B!BookingRow
<1>3. ASSUME r.op = "reserve"
      PROVE  B!Is(booking, "RESERVED")' /\ booking'.content = r.number
  <2>1. booking' = IF booking # None /\ booking.status = "RESERVED" THEN booking
                   ELSE B!Row("RESERVED", r.number)
    BY <1>1, <1>3 DEF B!Commit, B!CommitReserve, B!CommitChallenge, B!CommitItem
  <2>2. r.number \in 1..MaxTickets
    BY <1>1, <1>2, <1>3, Limits DEF FoundFits
  <2> QED
    BY <1>1, <1>3, <2>1, <2>2, BookingRowIsTyped DEF FoundFits, B!Is
<1>4. ASSUME r.op \in {"cancel", "scan"} PROVE ~B!Is(booking, "RESERVED")'
  <2>1. booking # None
    BY <1>1, <1>4 DEF FoundFits
  <2>2. \/ booking' = B!Row("CANCELLED", booking.content)
        \/ booking' = B!Row("COMPLETED", booking.content)
    BY <1>1, <1>4 DEF B!Commit, B!CommitCancel, B!ScanComplete, B!CommitChallenge, B!CommitItem
  <2> QED
    BY <1>2, <2>1, <2>2, BookingRowIsTyped DEF B!Is
<1>5. ASSUME r.op \notin {"reserve", "cancel", "scan"} PROVE booking' = booking
  BY <1>5 DEF B!Commit
<1> QED
  BY <1>3, <1>4, <1>5

LEMMA CommitKeeps == ASSUME BookingsInv, NEW c \in Callers, B!Commit(c) PROVE BookingsInv'
<1> DEFINE r == requests[c]
<1>1. /\ r # None /\ r.cached /\ requests' = [requests EXCEPT ![c] = None]
      /\ UNCHANGED <<codes, lastCode, begun, disturbed>>
  BY DEF B!Commit
<1>2. /\ r \in B!Request /\ RequestIsSound(r)
      /\ \A d \in Callers : requests'[d] # None => d # c /\ requests'[d] = requests[d]
      /\ \A d \in Callers : d # c => requests'[d] = requests[d]
  BY <1>1 DEF BookingsInv, B!BookingsTypeOK
<1>3. CommitEffect(r)
  BY EveryCommit
<1>4. /\ items \in Seq(B!ItemRow) /\ items' \in Seq(B!ItemRow)
      /\ records \in Seq(B!Record) /\ records' \in Seq(B!Record)
      /\ Grows(items, items', r.of) /\ Grows(records, records', r.of)
  BY <1>3 DEF CommitEffect, BookingsInv, B!BookingsTypeOK
<1>5. B!BookingsTypeOK'
  BY <1>1, <1>3 DEF CommitEffect, BookingsInv, B!BookingsTypeOK
<1>6. ASSUME NEW d \in Callers, requests'[d] # None PROVE RequestIsSound(requests[d])'
  <2>1. /\ requests'[d] = requests[d] /\ RequestIsSound(requests[d])
        /\ requests[d].items \in Seq(B!ItemRow) /\ requests[d].records \in Seq(B!Record)
    BY <1>2, <1>6 DEF BookingsInv, B!BookingsTypeOK, B!Request
  <2>2. Stays(requests[d].items, items') /\ Stays(requests[d].records, records')
    <3>1. Stays(requests[d].items, items) /\ Stays(requests[d].records, records)
      BY <2>1 DEF RequestIsSound
    <3> QED
      BY ONLY <1>4, <2>1, <3>1, StaysOn
  <2>3. booking # None => booking' # None
    BY <1>3 DEF CommitEffect
  <2> QED
    BY <1>1, <2>1, <2>2, <2>3 DEF RequestIsSound, SourceFits, FoundFits, Stays, Of, B!Of
<1>7. InsertsAlone'
  <2>1. ASSUME NEW d \in Callers, requests'[d] # None, Inserts(requests[d])'
        PROVE  booking' = None
    <3>1. /\ d # c /\ requests[d] # None /\ Inserts(requests[d]) /\ booking = None
          /\ ~Inserts(r)
      BY <1>1, <1>2, <2>1 DEF BookingsInv, InsertsAlone, Inserts
    <3>2. CASE r.of = "booking"
      <4>1. r.booking = None /\ r.op \notin {"reserve", "cancel", "scan"}
        BY <1>1, <1>2, <3>1 DEF Inserts, RequestIsSound, FoundFits
      <4> QED
        BY <3>1, <4>1 DEF B!Commit
    <3>3. CASE r.of # "booking"
      BY <1>3, <3>1, <3>3 DEF CommitEffect
    <3> QED
      BY <3>2, <3>3
  <2>2. ASSUME NEW d \in Callers, requests'[d] # None, Inserts(requests[d])',
               NEW e \in Callers, requests'[e] # None, Inserts(requests[e])'
        PROVE  d = e
    BY <1>2, <2>2 DEF BookingsInv, InsertsAlone, Inserts
  <2> QED
    BY <2>1, <2>2 DEF InsertsAlone
<1>8. ASSUME NEW d \in Callers, requests'[d] # None, requests'[d].of \notin disturbed'
      PROVE  /\ Fresh(requests[d])'
             /\ \A e \in Callers : requests'[e] # None /\ requests'[e].of = requests'[d].of => d = e
  <2>1. /\ requests'[d] = requests[d] /\ Fresh(requests[d]) /\ d # c
        /\ \A e \in Callers : requests[e] # None /\ requests[e].of = requests[d].of => d = e
    BY <1>1, <1>2, <1>8 DEF BookingsInv, HasForItself
  <2>2. r.of # requests[d].of
    BY <1>1, <2>1
  <2>3. /\ requests[d].of = "booking" => booking' = booking
        /\ requests[d].of = "challenge" => challenge' = challenge
    BY <1>3, <2>2 DEF CommitEffect
  <2>4. /\ Unchanged(requests[d].items, items', requests[d].of)
        /\ Unchanged(requests[d].records, records', requests[d].of)
    <3>1. /\ Of(items', requests[d].of) = Of(items, requests[d].of)
          /\ \A i \in Of(items, requests[d].of) : items'[i] = items[i]
      <4>1. items \in Seq(B!ItemRow) /\ items' \in Seq(B!ItemRow) /\ Grows(items, items', r.of)
        BY <1>4
      <4>2. ASSUME NEW t, t # r.of
            PROVE  Of(items', t) = Of(items, t) /\ \A i \in Of(items, t) : items'[i] = items[i]
        BY ONLY <4>1, <4>2, OthersAreKept
      <4> QED
        BY <2>2, <4>2
    <3>2. /\ Of(records', requests[d].of) = Of(records, requests[d].of)
          /\ \A i \in Of(records, requests[d].of) : records'[i] = records[i]
      <4>1. records \in Seq(B!Record) /\ records' \in Seq(B!Record) /\ Grows(records, records', r.of)
        BY <1>4
      <4>2. ASSUME NEW t, t # r.of
            PROVE  Of(records', t) = Of(records, t) /\ \A i \in Of(records, t) : records'[i] = records[i]
        BY ONLY <4>1, <4>2, OthersAreKept
      <4> QED
        BY <2>2, <4>2
    <3> QED
      BY <2>1, <3>1, <3>2 DEF Fresh, Unchanged
  <2>5. Fresh(requests[d])'
    BY <2>1, <2>3, <2>4 DEF Fresh, Unchanged, Of
  <2> QED
    BY <1>2, <2>1, <2>5
<1>9. HasForItself'
  BY <1>8 DEF HasForItself
<1>10. RowsFit'
  BY <1>3 DEF CommitEffect
<1>11. ASSUME r.of \notin disturbed
       PROVE  Fresh(r) /\ \A d \in Callers : requests[d] # None /\ requests[d].of = r.of => d = c
  BY <1>1, <1>11 DEF BookingsInv, HasForItself
<1>12. ASSUME "booking" \notin disturbed', r.of = "booking" PROVE BookingFits' /\ CodesFit'
  <2>1. /\ BookingFits /\ CodesFit /\ Fresh(r) /\ r.booking = booking
        /\ \A d \in Callers : requests[d] # None /\ requests[d].of = "booking" => d = c
    BY <1>1, <1>11, <1>12 DEF BookingsInv, Fresh
  <2>2. \A d \in Callers : requests'[d] # None => requests'[d].op \notin {"reserve", "cancel", "scan"}
    BY <1>2, <2>1 DEF BookingsInv, RequestIsSound, SourceFits
  <2>3. \A d \in Callers : requests[d] # None /\ requests[d].op = "reserve" => d = c
    BY <2>1 DEF BookingsInv, RequestIsSound, SourceFits
  <2>4. ASSUME NEW code \in codes PROVE B!Is(booking, "RESERVED")' /\ code = booking'.content
    <3>1. code \in Own \/ (r.op = "reserve" /\ code = r.number)
      BY <2>1, <2>3 DEF CodesFit
    <3>2. r.op \notin {"cancel", "scan"}
      BY <1>1, <2>1, <2>4 DEF CodesFit
    <3>3. CASE r.op = "reserve"
      <4>1. B!Is(booking, "RESERVED")' /\ booking'.content = r.number
        BY <1>12, <2>1, <3>3, BookingAfter
      <4>2. code \in Own => code = r.number
        BY <1>2, <2>1, <3>3 DEF Own, B!Is, RequestIsSound, FoundFits
      <4> QED
        BY <3>1, <4>1, <4>2
    <3>4. CASE r.op # "reserve"
      <4>1. booking' = booking
        BY <1>12, <2>1, <3>2, <3>4, BookingAfter
      <4> QED
        BY <3>1, <3>4, <4>1 DEF Own, B!Is
    <3> QED
      BY <3>3, <3>4
  <2>5. CodesFit'
    BY <1>1, <2>2, <2>4 DEF CodesFit, Own
  <2>6. BookingFits'
    BY <1>3, <1>12, <2>1 DEF CommitEffect
  <2> QED
    BY <2>5, <2>6
<1>13. ASSUME "booking" \notin disturbed', r.of # "booking" PROVE BookingFits' /\ CodesFit'
  <2>1. BookingFits /\ CodesFit /\ r.op # "reserve" /\ booking' = booking
    BY <1>1, <1>2, <1>3, <1>13 DEF BookingsInv, RequestIsSound, SourceFits, CommitEffect
  <2>2. /\ Of(items', "booking") = Of(items, "booking")
        /\ \A i \in Of(items, "booking") : items'[i] = items[i]
    <3>1. items \in Seq(B!ItemRow) /\ items' \in Seq(B!ItemRow) /\ Grows(items, items', r.of)
      BY <1>4
    <3> QED
      BY ONLY <1>13, <3>1, OthersAreKept
  <2>3. Of(records', "booking") = Of(records, "booking")
    BY <1>4, <1>13, GrowsOf
  <2>4. BookingFits'
    BY <2>1, <2>2, <2>3 DEF BookingFits, Unique, B!Is
  <2>5. ASSUME NEW code \in codes, code \notin Own
        PROVE  \E d \in Callers : /\ requests'[d] # None /\ requests'[d].op = "reserve"
                                  /\ requests'[d].cached /\ requests'[d].number = code
    <3>1. PICK d \in Callers : /\ requests[d] # None /\ requests[d].op = "reserve"
                               /\ requests[d].cached /\ requests[d].number = code
      BY <2>1, <2>5 DEF CodesFit
    <3>2. requests'[d] = requests[d]
      BY <1>2, <2>1, <3>1
    <3> QED
      BY <3>1, <3>2
  <2>6. \A d \in Callers :
          requests'[d] # None /\ requests'[d].op \in {"cancel", "scan"} /\ requests'[d].cached => codes = {}
    BY <1>2, <2>1 DEF CodesFit
  <2>7. CodesFit'
    BY <1>1, <2>1, <2>5, <2>6 DEF CodesFit, Own, B!Is
  <2> QED
    BY <2>4, <2>7
<1>14. ASSUME "challenge" \notin disturbed' PROVE ChallengeFits'
  <2>1. ChallengeFits
    BY <1>1, <1>14 DEF BookingsInv
  <2>2. CASE r.of = "challenge"
    BY <1>1, <1>3, <1>11, <1>14, <2>1, <2>2 DEF CommitEffect
  <2>3. CASE r.of # "challenge"
    <3>1. Of(records', "challenge") = Of(records, "challenge") /\ challenge' = challenge
      BY <1>3, <1>4, <2>3, GrowsOf DEF CommitEffect
    <3> QED
      BY <2>1, <3>1 DEF ChallengeFits, Unique, B!Is
  <2> QED
    BY <2>2, <2>3
<1> QED
  BY <1>5, <1>6, <1>7, <1>9, <1>10, <1>12, <1>13, <1>14 DEF BookingsInv

\* The requests that begin, each with what it looked at.
LEMMA BookingsBeginnings ==
  ASSUME BookingsInv, NEW c \in Callers
  PROVE  /\ B!BeginReserve(c) => BookingsInv'
         /\ B!BeginCancel(c) => BookingsInv'
         /\ \A code \in 1..MaxTickets : B!BeginScan(c, code) => BookingsInv'
         /\ B!BeginCreateChallenge(c) => BookingsInv'
         /\ B!BeginGiveUp(c) => BookingsInv'
         /\ \A note \in Notes : B!BeginComplete(c, note) => BookingsInv'
         /\ \A source \in {"challenge", "plan"} : B!BeginCreateItem(c, source) => BookingsInv'
         /\ B!BeginImportPlan(c) => BookingsInv'
         /\ \A i \in DOMAIN items : B!BeginEditItem(c, i) => BookingsInv'
         /\ \A i \in DOMAIN items : B!BeginCancelItem(c, i) => BookingsInv'
         /\ \A i \in DOMAIN records, note \in Notes : B!BeginReflection(c, i, note) => BookingsInv'
<1>1. /\ lastCode \in Nat /\ lastCode \in 0..MaxTickets /\ lastCode <= lastCode
      /\ booking # None => booking.content \in 1..lastCode /\ booking.content \in Nat
      /\ items \in Seq(B!ItemRow) /\ records \in Seq(B!Record)
      /\ \A i \in DOMAIN items : i \in Nat /\ items[i].of \in B!Source
      /\ \A i \in DOMAIN records : i \in Nat /\ records[i].of \in B!Source
  <2>1. /\ lastCode \in 0..MaxTickets /\ booking \in B!BookingRow \cup {None}
        /\ booking # None => booking.content <= lastCode
        /\ items \in Seq(B!ItemRow) /\ records \in Seq(B!Record)
    BY DEF BookingsInv, B!BookingsTypeOK
  <2>2. booking # None => booking.content \in 1..lastCode /\ booking.content \in Nat
    BY <2>1, Limits DEF B!BookingRow
  <2>3. \A i \in DOMAIN items : i \in Nat /\ items[i].of \in B!Source
    <3>1. \A i \in DOMAIN items : i \in Nat /\ items[i] \in B!ItemRow
      BY <2>1
    <3> QED
      BY <3>1 DEF B!ItemRow
  <2>4. \A i \in DOMAIN records : i \in Nat /\ records[i].of \in B!Source
    <3>1. \A i \in DOMAIN records : i \in Nat /\ records[i] \in B!Record
      BY <2>1
    <3> QED
      BY <3>1 DEF B!Record, B!Source
  <2> QED
    BY <2>1, <2>2, <2>3, <2>4, Limits
<1>2. /\ {"booking", "challenge", "plan"} \subseteq B!Source
      /\ {"reserve", "cancel", "scan", "challenge", "complete", "giveUp", "item", "plan", "edit",
          "drop", "reflect"} \subseteq B!Operation
      /\ 0 \in Nat
  BY DEF B!Source, B!Operation
<1>3. ASSUME B!BeginReserve(c) PROVE BookingsInv'
  <2>1. CASE booking # None /\ booking.status = "RESERVED"
    <3>1. B!Begin(c, "booking", "reserve", booking.content, None) /\ lastCode' = lastCode
      BY <1>3, <2>1 DEF B!BeginReserve
    <3>2. MayBegin("reserve", "booking", booking.content, lastCode)
      BY <1>1, <2>1 DEF MayBegin
    <3> QED
      BY <1>1, <1>2, <2>1, <3>1, <3>2, BookingsBegin
  <2>2. CASE ~(booking # None /\ booking.status = "RESERVED")
    <3>1. /\ B!Begin(c, "booking", "reserve", lastCode', None) /\ lastCode' = lastCode + 1
          /\ lastCode < MaxTickets
          /\ booking # None => booking.status # "COMPLETED"
      BY <1>3, <2>2 DEF B!BeginReserve
    <3>2. lastCode' \in 0..MaxTickets /\ lastCode' \in Nat /\ lastCode' \in 1..lastCode'
      BY <1>1, <3>1, Limits
    <3>3. MayBegin("reserve", "booking", lastCode + 1, lastCode + 1)
      BY <1>1, <2>2, <3>1 DEF MayBegin
    <3> QED
      BY <1>1, <1>2, <3>1, <3>2, <3>3, BookingsBegin
  <2> QED
    BY <2>1, <2>2
<1>4. ASSUME B!BeginCancel(c) PROVE BookingsInv'
  <2>1. /\ B!Begin(c, "booking", "cancel", 0, None) /\ lastCode' = lastCode
        /\ booking # None /\ booking.status = "RESERVED"
    BY <1>4 DEF B!BeginCancel
  <2>2. MayBegin("cancel", "booking", 0, lastCode)
    BY <2>1 DEF MayBegin
  <2> QED
    BY <1>1, <1>2, <2>1, <2>2, BookingsBegin
<1>5. ASSUME NEW code \in 1..MaxTickets, B!BeginScan(c, code) PROVE BookingsInv'
  <2>1. /\ B!Begin(c, "booking", "scan", 0, None) /\ lastCode' = lastCode
        /\ booking # None /\ booking.status = "RESERVED"
    BY <1>5 DEF B!BeginScan
  <2>2. MayBegin("scan", "booking", 0, lastCode)
    BY <2>1 DEF MayBegin
  <2> QED
    BY <1>1, <1>2, <2>1, <2>2, BookingsBegin
<1>6. ASSUME B!BeginCreateChallenge(c) PROVE BookingsInv'
  <2>1. /\ B!Begin(c, "challenge", "challenge", 0, None) /\ lastCode' = lastCode
        /\ challenge = None
    BY <1>6 DEF B!BeginCreateChallenge
  <2>2. MayBegin("challenge", "challenge", 0, lastCode)
    BY <2>1 DEF MayBegin
  <2> QED
    BY <1>1, <1>2, <2>1, <2>2, BookingsBegin
<1>7. ASSUME B!BeginGiveUp(c) PROVE BookingsInv'
  <2>1. /\ B!Begin(c, "challenge", "giveUp", 0, None) /\ lastCode' = lastCode
        /\ challenge # None /\ challenge.status # "COMPLETED"
    BY <1>7 DEF B!BeginGiveUp
  <2>2. MayBegin("giveUp", "challenge", 0, lastCode)
    BY <2>1 DEF MayBegin
  <2> QED
    BY <1>1, <1>2, <2>1, <2>2, BookingsBegin
<1>8. ASSUME NEW note \in Notes, B!BeginComplete(c, note) PROVE BookingsInv'
  <2>1. /\ B!Begin(c, "challenge", "complete", 0, note) /\ lastCode' = lastCode
        /\ challenge # None /\ challenge.status # "CANCELLED"
    BY <1>8 DEF B!BeginComplete
  <2>2. MayBegin("complete", "challenge", 0, lastCode)
    BY <2>1 DEF MayBegin
  <2> QED
    BY <1>1, <1>2, <2>1, <2>2, BookingsBegin
<1>9. ASSUME NEW source \in {"challenge", "plan"}, B!BeginCreateItem(c, source) PROVE BookingsInv'
  <2>1. B!Begin(c, source, "item", 0, None) /\ lastCode' = lastCode /\ source \in B!Source
    BY <1>2, <1>9 DEF B!BeginCreateItem
  <2>2. MayBegin("item", source, 0, lastCode)
    BY <1>9, <2>1 DEF MayBegin
  <2> QED
    BY <1>1, <1>2, <2>1, <2>2, BookingsBegin
<1>10. ASSUME B!BeginImportPlan(c) PROVE BookingsInv'
  <2>1. B!Begin(c, "plan", "plan", 0, None) /\ lastCode' = lastCode
    BY <1>10 DEF B!BeginImportPlan
  <2>2. MayBegin("plan", "plan", 0, lastCode)
    BY <2>1 DEF MayBegin
  <2> QED
    BY <1>1, <1>2, <2>1, <2>2, BookingsBegin
<1>11. ASSUME NEW i \in DOMAIN items, B!BeginEditItem(c, i) PROVE BookingsInv'
  <2>1. /\ B!Begin(c, items[i].of, "edit", i, None) /\ lastCode' = lastCode
        /\ items[i].status = "ACTIVE" /\ i \in Of(items, items[i].of)
    BY <1>11 DEF B!BeginEditItem, Of, B!Of
  <2>2. MayBegin("edit", items[i].of, i, lastCode)
    BY <2>1 DEF MayBegin
  <2> QED
    BY <1>1, <1>2, <2>1, <2>2, BookingsBegin
<1>12. ASSUME NEW i \in DOMAIN items, B!BeginCancelItem(c, i) PROVE BookingsInv'
  <2>1. /\ B!Begin(c, items[i].of, "drop", i, None) /\ lastCode' = lastCode
        /\ i \in Of(items, items[i].of)
    BY <1>12 DEF B!BeginCancelItem, Of, B!Of
  <2>2. MayBegin("drop", items[i].of, i, lastCode)
    BY <2>1 DEF MayBegin
  <2> QED
    BY <1>1, <1>2, <2>1, <2>2, BookingsBegin
<1>13. ASSUME NEW i \in DOMAIN records, NEW note \in Notes, B!BeginReflection(c, i, note)
       PROVE  BookingsInv'
  <2>1. /\ B!Begin(c, records[i].of, "reflect", i, note) /\ lastCode' = lastCode
        /\ i \in Of(records, records[i].of)
    BY <1>13 DEF B!BeginReflection, Of, B!Of
  <2>2. MayBegin("reflect", records[i].of, i, lastCode)
    BY <2>1 DEF MayBegin
  <2> QED
    BY <1>1, <1>2, <2>1, <2>2, BookingsBegin
<1> QED
  BY <1>3, <1>4, <1>5, <1>6, <1>7, <1>8, <1>9, <1>10, <1>11, <1>12, <1>13

LEMMA BookingsNext == BookingsInv /\ [B!BookingsNext]_bookingVars => BookingsInv'
<1> SUFFICES ASSUME BookingsInv, [B!BookingsNext]_bookingVars PROVE BookingsInv'
  OBVIOUS
<1>1. CASE UNCHANGED bookingVars
  <2>1. UNCHANGED <<booking, challenge, items, records, codes, lastCode, requests, begun, disturbed>>
    BY <1>1 DEF bookingVars
  <2>2. B!BookingsTypeOK'
    BY <2>1 DEF BookingsInv, B!BookingsTypeOK
  <2>3. \A c \in Callers : requests'[c] # None => RequestIsSound(requests[c])'
    BY <2>1 DEF BookingsInv, RequestIsSound, SourceFits, FoundFits, Stays, Of, B!Of
  <2>4. HasForItself' /\ InsertsAlone'
    BY <2>1 DEF BookingsInv, HasForItself, Fresh, Unchanged, Of, B!Of, InsertsAlone, Inserts
  <2>5. CodesFit => CodesFit'
    BY <2>1 DEF CodesFit, Own, B!Is
  <2>6. RowsFit' /\ (BookingFits => BookingFits') /\ (ChallengeFits => ChallengeFits')
    BY <2>1, RowsStayFit DEF BookingsInv, BookingFits, ChallengeFits, Unique, Of, B!Of, B!Is
  <2> QED
    BY <2>1, <2>2, <2>3, <2>4, <2>5, <2>6 DEF BookingsInv
<1>2. ASSUME NEW c \in Callers, B!Cache(c) \/ B!Commit(c) \/ B!Fail(c) PROVE BookingsInv'
  BY <1>2, CacheKeeps, CommitKeeps, FailKeeps
<1>3. ASSUME NEW code \in 1..MaxTickets, B!Forget(code) PROVE BookingsInv'
  BY <1>3, ForgetKeeps
<1> QED
  BY <1>1, <1>2, <1>3, BookingsBeginnings DEF B!BookingsNext

LEMMA CardinalityIsTheSame == \A set : B!Cardinality(set) = Cardinality(set)
BY Zenon DEF B!Cardinality, Cardinality

LEMMA UniqueIsAtMostOne ==
  ASSUME NEW list, NEW source, Unique(list, source) PROVE B!AtMostOne(list, source)
<1>1. CASE Of(list, source) = {}
  BY <1>1, FS_EmptySet, CardinalityIsTheSame DEF B!AtMostOne, Of
<1>2. ASSUME NEW i \in Of(list, source) PROVE B!AtMostOne(list, source)
  <2>1. Of(list, source) = {i}
    BY <1>2 DEF Unique
  <2>2. Cardinality({i}) = 1
    BY FS_Singleton
  <2>3. B!Cardinality(B!Of(list, source)) = 1
    BY <2>1, <2>2, CardinalityIsTheSame DEF Of
  <2> QED
    BY <2>3 DEF B!AtMostOne
<1> QED
  BY <1>1, <1>2

LEMMA BookingsAreTrue == BookingsInv => B!BookingsFit
<1> SUFFICES ASSUME BookingsInv PROVE B!BookingsFit
  OBVIOUS
<1>1. /\ B!AtMostOne(items, "booking")
      /\ "booking" \notin disturbed => B!AtMostOne(records, "booking")
      /\ "challenge" \notin disturbed => B!AtMostOne(records, "challenge")
  BY UniqueIsAtMostOne DEF BookingsInv, RowsFit, BookingFits, ChallengeFits
<1>2. ASSUME "booking" \notin disturbed,
             \A c \in Callers : requests[c] # None => requests[c].of # "booking"
      PROVE  codes \subseteq (IF booking = None THEN {} ELSE {booking.content})
  <2>1. \A c \in Callers : requests[c] # None => requests[c].op # "reserve"
    BY <1>2 DEF BookingsInv, RequestIsSound, SourceFits
  <2> QED
    BY <1>2, <2>1 DEF BookingsInv, CodesFit, Own, B!Is
<1> QED
  BY <1>1, <1>2 DEF BookingsInv, RowsFit, BookingFits, ChallengeFits, B!BookingsFit, Of, B!Is

(***************************************************************************)
(* All of them.                                                            *)
(***************************************************************************)

LEMMA MapInit == M!ClustersInit => M!ClustersTypeOK
<1>1. MaxAbilities \in Nat
  BY BackendBounds
<1> QED
  BY <1>1 DEF M!ClustersInit, M!ClustersTypeOK

LEMMA MapNext == M!ClustersTypeOK /\ [M!Rescored]_abilities => M!ClustersTypeOK'
<1> SUFFICES ASSUME M!ClustersTypeOK, [M!Rescored]_abilities PROVE M!ClustersTypeOK'
  OBVIOUS
<1>1. abilities \in Seq(AbilityLabels) /\ Len(abilities) <= MaxAbilities /\ MaxAbilities \in Nat
  BY BackendBounds DEF M!ClustersTypeOK
<1>2. ASSUME NEW label \in AbilityLabels, Len(abilities) < MaxAbilities,
             abilities' = Append(abilities, label)
      PROVE  M!ClustersTypeOK'
  BY <1>1, <1>2 DEF M!ClustersTypeOK
<1>3. ASSUME NEW i \in 1..Len(abilities) - 1, abilities' = M!Exchanged(abilities, i)
      PROVE  M!ClustersTypeOK'
  <2>1. /\ i \in DOMAIN abilities /\ i + 1 \in DOMAIN abilities
        /\ abilities[i] \in AbilityLabels /\ abilities[i + 1] \in AbilityLabels
    BY <1>1, <1>3
  <2>2. abilities' = [[abilities EXCEPT ![i] = abilities[i + 1]] EXCEPT ![i + 1] = abilities[i]]
    BY <1>3 DEF M!Exchanged
  <2>3. /\ [abilities EXCEPT ![i] = abilities[i + 1]] \in Seq(AbilityLabels)
        /\ Len([abilities EXCEPT ![i] = abilities[i + 1]]) = Len(abilities)
        /\ DOMAIN [abilities EXCEPT ![i] = abilities[i + 1]] = DOMAIN abilities
    BY ONLY <1>1, <2>1, Replaces
  <2>4. abilities' \in Seq(AbilityLabels) /\ Len(abilities') = Len(abilities)
    BY ONLY <2>1, <2>2, <2>3, Replaces
  <2> QED
    BY <1>1, <2>4 DEF M!ClustersTypeOK
<1>4. CASE UNCHANGED abilities
  BY <1>4 DEF M!ClustersTypeOK
<1> QED
  BY <1>2, <1>3, <1>4 DEF M!Rescored

\* A step of the whole is a step of each service, or leaves it as it is.
LEMMA BackendStep ==
  [MCNext]_<<scene, vars, eventVars, profileVars, bookingVars, tagVars, restVars>> =>
    /\ [Next]_vars /\ [E!Next]_eventVars /\ [P!Next]_profileVars
    /\ [B!BookingsNext]_bookingVars /\ [T!TagsNext]_tagVars
    /\ [C!CoachNext]_coachVars /\ [M!Rescored]_abilities
BY DEF MCNext, restVars

\* The inductive invariant of every service but the devices, for which
\* BindingInv is that of their own.
ServicesInv ==
  EventsInv /\ ProfilesInv /\ BookingsInv /\ TagsInv /\ CoachInv /\ M!ClustersTypeOK

LEMMA ServicesBegin == MCInit => ServicesInv
<1> SUFFICES ASSUME MCInit PROVE ServicesInv
  OBVIOUS
<1>1. /\ E!Init /\ P!Init /\ B!BookingsInit /\ T!TagsInit /\ C!CoachInit /\ M!ClustersInit
  BY DEF MCInit
<1> QED
  BY <1>1, EventsInit, HiddenIsCuredAtFirst, ProfilesInit, BookingsInit, TagsInit, CoachInit, MapInit
     DEF ServicesInv, EventsInv

LEMMA ServicesGoOn ==
  ServicesInv /\ [MCNext]_<<scene, vars, eventVars, profileVars, bookingVars, tagVars, restVars>>
    => ServicesInv'
BY BackendStep, EventsNext, ProfilesNext, BookingsNext, TagsNext, CoachNext, MapNext DEF ServicesInv

\* The inductive invariant of the services holds, whatever service is played: each
\* step of the whole is a step of one service or leaves its rows alone.
THEOREM ServicesInvariance == MCSpec => []ServicesInv
BY ServicesBegin, ServicesGoOn, PTL DEF MCSpec

\* What the whole does to the rows of the devices is what device binding does: its
\* theorems hold here.
THEOREM BackendBindsDevices == MCSpec => Spec
<1>1. MCInit => Init
  BY DEF MCInit
<1> QED
  BY <1>1, BackendStep, PTL DEF MCSpec, Spec

\* The rows, messages and open transactions of all services keep their types.
THEOREM BackendTypeCorrect == MCSpec => []BackendTypeOK
<1>1. ServicesInv /\ TypeOK => BackendTypeOK
  BY DEF ServicesInv, EventsInv, ProfilesInv, BookingsInv, TagsInv, CoachInv, BackendTypeOK
<1> QED
  BY <1>1, ServicesInvariance, BackendBindsDevices, DevicesTypeCorrect, PTL

\* Server and clients tell of the same devices, for any number of them, and schedule,
\* records and codes fit the booking and the challenge they come from, for any number
\* of requests; also where these overlap, are rolled back after they wrote to Redis or
\* write over each other, a booking has one entry and what is completed its record.
THEOREM TablesStayInAgreement == MCSpec => []TablesAgree
<1>1. ServicesInv /\ BindingsMatchDevices => TablesAgree
  BY BookingsAreTrue DEF ServicesInv, TablesAgree
<1> QED
  BY <1>1, ServicesInvariance, BackendBindsDevices, BindingsMatch, PTL

\* What is derived from rows is that of the rows, for any number of events, users,
\* threads, workers and requests: no event is found that may not be seen unless its
\* removal is on the way or was dropped, a profile that is called clean is that of its
\* sources, a tag shows what its evidences add up to and a memory is of its log,
\* except for the rows that overlapping transactions wrote over.
THEOREM DerivedStaysCurrent == MCSpec => []DerivedIsCurrent
<1>1. ServicesInv => DerivedIsCurrent
  BY EventsAreTrue, TagsAreTrue, MemoriesAreTrue DEF ServicesInv, ProfilesInv, DerivedIsCurrent
<1> QED
  BY <1>1, ServicesInvariance, PTL
=============================================================================
