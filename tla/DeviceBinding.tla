---------------------------- MODULE DeviceBinding ----------------------------
(***************************************************************************)
(* Local workbenches (clients) bound to the account of one student: the    *)
(* rows of workbench_devices, the transactions of WorkbenchDeviceService   *)
(* on them, and the commands connect and disconnect of the clients, which  *)
(* call the server and keep two files.                                     *)
(*                                                                         *)
(* A transaction reads, and later writes the whole rows it changed; bind   *)
(* locks the row of its code from the start.  Row d is the one of code d,  *)
(* and its token, made when it is bound, is called d as well.  A page has  *)
(* one request open at a time: its buttons are disabled until then.  The   *)
(* account can be open in several pages, and the server puts nothing in    *)
(* order.                                                                  *)
(***************************************************************************)
EXTENDS Naturals, FiniteSets

CONSTANTS
  Clients,
  Pages,      \* browser tabs of the account
  MaxOpened,  \* bound: page requests and status calls
  MaxCodes,   \* bound: codes created
  MaxActive,  \* MAX_ACTIVE_DEVICES
  MaxLost,    \* bound: replies that do not arrive, and commands that stop
  None

ASSUME BoundsAssumption == {MaxCodes, MaxActive, MaxLost, MaxOpened} \subseteq Nat

Codes == 1..MaxCodes

VARIABLES
  rows,    \* workbench_devices
  late,    \* pending codes older than their time to live
  web,     \* the open request of each page and the rows it is about to write
  server,  \* the open bind transaction of each client and what it has read
  check,   \* the open status call with each client's token and the row it has read
  client,  \* the command each client is in
  files,   \* device-installation.json and device-binding.json of each client
  lost,
  opened,  \* page requests and status calls so far
  races    \* history: binds that were open together, devices a status call brought back

vars == <<rows, late, web, server, check, client, files, lost, opened, races>>

-----------------------------------------------------------------------------

\* An installation id is random: one a client makes for a code is like no other.
Installs == Clients \X Codes

Row == [status : {"pending", "active", "revoked", "expired"},
        install : Installs \cup {None}]

Command == [at : {"idle", "replace", "bind", "installed", "bound", "leave", "left"},
            code : Codes \cup {None}, install : Installs \cup {None}]

Files == [install : Installs \cup {None}, binding : Codes \cup {None}]

Request == [op : {"code", "revoke"}, rows : UNION {[ds -> Row] : ds \in SUBSET Codes},
            full : BOOLEAN]

Transaction == [previous : Codes \cup {None}, full : BOOLEAN]

Check == [device : Codes, row : Row]

ASSUME NoneAssumption ==
  /\ None \notin Row /\ None \notin Request /\ None \notin Transaction /\ None \notin Check
  /\ None \notin Codes /\ None \notin Installs

Idle == [at |-> "idle", code |-> None, install |-> None]

Created == {d \in Codes : rows[d] # None}
With(status) == {d \in Created : rows[d].status = status}
Full == Cardinality(With("active")) >= MaxActive

Init ==
  /\ rows = [d \in Codes |-> None]
  /\ late = {}
  /\ web = [p \in Pages |-> None]
  /\ server = [c \in Clients |-> None]
  /\ check = [c \in Clients |-> None]
  /\ client = [c \in Clients |-> Idle]
  /\ files = [c \in Clients |-> [install |-> None, binding |-> None]]
  /\ lost = 0
  /\ opened = 0
  /\ races = {}

Locked(d) == \E c \in Clients : server[c] # None /\ client[c].code = d

\* Plausible bug: a status the column does not have.
Inactive(row) == [row EXCEPT !.status = "inactive"]

Revoked(row) == [row EXCEPT !.status = "revoked"]

\* Ten minutes go by.
Expire(d) ==
  /\ d \in With("pending") \ late
  /\ late' = late \cup {d}
  /\ UNCHANGED <<rows, web, server, check, client, files, lost, opened, races>>

Open == opened < MaxOpened /\ opened' = opened + 1

Ending(d) == [status |-> IF d \in late THEN "expired" ELSE "revoked", install |-> None]

\* createCode counts the active rows and reads the pending ones, to end them ...
BeginCode(p) ==
  /\ web[p] = None /\ Open
  /\ web' = [web EXCEPT ![p] =
       [op |-> "code", rows |-> [d \in With("pending") |-> Ending(d)], full |-> Full]]
  /\ UNCHANGED <<rows, late, server, check, client, files, lost, races>>

\* A request writes the rows it has read, whatever they have become, once none of
\* them is locked.
WriteBack(p) ==
  /\ \A d \in DOMAIN web[p].rows : ~Locked(d)
  /\ web' = [web EXCEPT ![p] = None]
  /\ UNCHANGED <<server, check, client, files, lost, opened, races>>

\* ... and inserts a row with a new code.
CommitCode(p) ==
  /\ web[p] # None /\ web[p].op = "code" /\ Created # Codes
  /\ WriteBack(p)
  /\ IF web[p].full THEN UNCHANGED <<rows, late>>
     ELSE /\ rows' = [d \in Codes |->
               CASE d \in DOMAIN web[p].rows -> web[p].rows[d]
                 [] d = Cardinality(Created) + 1 -> [status |-> "pending", install |-> None]
                 [] OTHER -> rows[d]]
          /\ late' = late \ DOMAIN web[p].rows

\* revoke, for a device of the list the page shows.
BeginRevoke(p, d) ==
  /\ web[p] = None /\ d \in With("pending") \cup With("active") /\ Open
  /\ web' = [web EXCEPT ![p] =
       [op |-> "revoke", rows |-> [e \in {d} |-> Revoked(rows[e])], full |-> FALSE]]
  /\ UNCHANGED <<rows, late, server, check, client, files, lost, races>>

CommitRevoke(p) ==
  /\ web[p] # None /\ web[p].op = "revoke"
  /\ WriteBack(p)
  /\ rows' = [d \in Codes |-> IF d \in DOMAIN web[p].rows THEN web[p].rows[d] ELSE rows[d]]
  /\ late' = late \ DOMAIN web[p].rows

\* status with the token of a client's file: the row has to be active when it is
\* read, and is written as it was, with the time of the call.
BeginCheck(c) ==
  /\ check[c] = None /\ files[c].binding \in With("active") /\ Open
  /\ check' = [check EXCEPT ![c] = [device |-> files[c].binding, row |-> rows[files[c].binding]]]
  /\ UNCHANGED <<rows, late, web, server, client, files, lost, races>>

CommitCheck(c) ==
  /\ check[c] # None
  /\ rows' = [rows EXCEPT ![check[c].device] = check[c].row]
  /\ races' = IF check[c].device \in With("active") THEN races ELSE races \cup {"status"}
  /\ check' = [check EXCEPT ![c] = None]
  /\ UNCHANGED <<late, web, server, client, files, lost, opened>>

\* connectDevice with a code; --replace when there is a credential.
Connect(c, d) ==
  /\ client[c] = Idle
  /\ client' = [client EXCEPT ![c] =
       [at |-> IF files[c].binding = None THEN "bind" ELSE "replace",
        code |-> d,
        install |-> IF files[c].install = None THEN <<c, d>> ELSE files[c].install]]
  /\ UNCHANGED <<rows, late, web, server, check, files, lost, opened, races>>

Goto(c, at) == client' = [client EXCEPT ![c].at = at]
Stop(c) == client' = [client EXCEPT ![c] = Idle]

\* The network fails before the call or after it, or the command is stopped.
Lose == lost < MaxLost /\ lost' = lost + 1

\* Plausible bug: the row of the token is found but not saved.
AnsweredOnly(c) == rows' = rows

\* disconnect by token: refused if its row is not active.
RevokeOwn(c) ==
  LET d == files[c].binding
  IN  rows' = IF d \in With("active") THEN [rows EXCEPT ![d] = Revoked(@)] ELSE rows

\* connect --replace goes on when the old credential is gone or was invalid.
Replace(c) ==
  /\ client[c].at = "replace"
  /\ RevokeOwn(c)
  /\ \/ Goto(c, "bind") /\ UNCHANGED lost
     \/ Stop(c) /\ Lose
  /\ UNCHANGED <<late, web, server, check, files, opened, races>>

\* Plausible bug: the row is found by its code whatever its status is.
AnyStatus(d) == TRUE

Bindable(d) == rows[d].status = "pending"

SameInstall(c) == {d \in With("active") : rows[d].install = client[c].install}

\* bind locks the row of the code, which has to be pending and in time, and finds an
\* earlier device of the installation, the first one if there are more.
BeginBind(c) ==
  LET d == client[c].code
  IN  /\ client[c].at = "bind" /\ server[c] = None /\ ~Locked(d)
      /\ IF Bindable(d) /\ d \notin late
         THEN /\ \E previous \in IF SameInstall(c) = {} THEN {None} ELSE SameInstall(c) :
                   server' = [server EXCEPT ![c] = [previous |-> previous, full |-> Full]]
              /\ races' = IF \E b \in Clients : server[b] # None THEN races \cup {"binds"}
                          ELSE races
              /\ UNCHANGED client
         ELSE Stop(c) /\ UNCHANGED <<server, races>>
      /\ UNCHANGED <<rows, late, web, check, files, lost, opened>>

\* Plausible bug: the earlier device of the installation stays active.
OnlyThis(c) == {}

Superseded(c) == {server[c].previous} \ {None}

Refused(c) == server[c].previous = None /\ server[c].full

\* The device is active, an earlier one of the installation is not, and the
\* reply with the token arrives or not.
CommitBind(c) ==
  /\ server[c] # None
  /\ server' = [server EXCEPT ![c] = None]
  /\ IF Refused(c) THEN Stop(c) /\ UNCHANGED <<rows, late, lost>>
     ELSE /\ rows' = [d \in Codes |->
               CASE d = client[c].code -> [status |-> "active", install |-> client[c].install]
                 [] d \in Superseded(c) ->
                      Revoked([status |-> "active", install |-> client[c].install])
                 [] OTHER -> rows[d]]
          /\ late' = late \ {client[c].code}
          /\ \/ Goto(c, "installed") /\ UNCHANGED lost
             \/ Stop(c) /\ Lose
  /\ UNCHANGED <<web, check, files, opened, races>>

\* Plausible bug: the installation file is written by the first connect only,
\* with an id of its own.
OtherInstall(c) == <<c, 1>>

InstallWritten(c) == client[c].install

\* writeJsonAtomically of the installation, then of the credential.
WriteInstallation(c) ==
  /\ client[c].at = "installed"
  /\ files' = [files EXCEPT ![c].install = InstallWritten(c)]
  /\ \/ Goto(c, "bound") /\ UNCHANGED lost
     \/ Stop(c) /\ Lose
  /\ UNCHANGED <<rows, late, web, server, check, opened, races>>

WriteBinding(c) ==
  /\ client[c].at = "bound"
  /\ files' = [files EXCEPT ![c].binding = client[c].code]
  /\ Stop(c)
  /\ UNCHANGED <<rows, late, web, server, check, lost, opened, races>>

\* disconnectDevice.
Leave(c) ==
  /\ client[c] = Idle /\ files[c].binding # None
  /\ Goto(c, "leave")
  /\ UNCHANGED <<rows, late, web, server, check, files, lost, opened, races>>

\* An error of the server, or no answer, leaves the credential in place.
Disconnect(c) ==
  /\ client[c].at = "leave"
  /\ \/ /\ RevokeOwn(c)
        /\ \/ files[c].binding \in With("active") /\ Goto(c, "left") /\ UNCHANGED lost
           \/ files[c].binding \notin With("active") /\ Stop(c) /\ UNCHANGED lost
           \/ Stop(c) /\ Lose
     \/ Stop(c) /\ Lose /\ UNCHANGED rows
  /\ UNCHANGED <<late, web, server, check, files, opened, races>>

RemoveBinding(c) ==
  /\ client[c].at = "left"
  /\ files' = [files EXCEPT ![c].binding = None]
  /\ Stop(c)
  /\ UNCHANGED <<rows, late, web, server, check, lost, opened, races>>

Next ==
  \/ \E d \in Codes : Expire(d)
  \/ \E p \in Pages :
       \/ BeginCode(p) \/ CommitCode(p) \/ CommitRevoke(p)
       \/ \E d \in Codes : BeginRevoke(p, d)
  \/ \E c \in Clients :
       \/ \E d \in Created : Connect(c, d)
       \/ Replace(c) \/ BeginBind(c) \/ CommitBind(c)
       \/ WriteInstallation(c) \/ WriteBinding(c)
       \/ Leave(c) \/ Disconnect(c) \/ RemoveBinding(c)
       \/ BeginCheck(c) \/ CommitCheck(c)

Spec == Init /\ [][Next]_vars

-----------------------------------------------------------------------------

\* Every variable has its type.
TypeOK ==
  /\ rows \in [Codes -> Row \cup {None}]
  /\ late \subseteq Codes
  /\ web \in [Pages -> Request \cup {None}]
  /\ server \in [Clients -> Transaction \cup {None}]
  /\ check \in [Clients -> Check \cup {None}]
  /\ client \in [Clients -> Command]
  /\ files \in [Clients -> Files]
  /\ lost \in 0..MaxLost
  /\ opened \in 0..MaxOpened
  /\ races \subseteq {"binds", "status"}

\* A credential a client keeps is of a device of its own, bound by it, and in
\* no other client's file; the file of the installation has the id it was
\* bound with, unless a code generated meanwhile has overwritten the row.
BindingIsOwn ==
  \A c \in Clients : files[c].binding # None =>
    LET d == files[c].binding
    IN  /\ rows[d].status \in {"active", "revoked", "expired"}
        /\ rows[d].install \in {files[c].install, None}
        /\ rows[d].install = None => rows[d].status # "active"
        /\ \A b \in Clients \ {c} : files[b].binding # d

\* The status call that read device d ends.
StatusSaves(d) == \E c \in Clients :
  check[c] # None /\ check[c].device = d /\ check'[c] = None

\* A code binds one device once: what was revoked or expired stays so, unless a status
\* call that read the device before writes it back.
RevokedIsFinal ==
  [][\A d \in Created : rows[d].status \in {"revoked", "expired"} =>
       rows'[d].status \in {"revoked", "expired"} \/ StatusSaves(d)]_vars

\* An account has one active device per installation, if no status call brought one
\* back, and at most MaxActive, if besides no binds were open together.
ActiveDevices ==
  /\ races = {} => Cardinality(With("active")) <= MaxActive
  /\ "status" \notin races =>
       \A d, e \in With("active") : rows[d].install = rows[e].install => d = e

\* An active device is in the file of a client, or on its way there, unless a
\* reply was lost, a command stopped, or a status call brought a device back.
ActiveIsHeld ==
  lost = 0 /\ "status" \notin races => \A d \in With("active") :
    \E c \in Clients :
      \/ files[c].binding = d
      \/ client[c].at \in {"installed", "bound"} /\ client[c].code = d

\* The three together: what the server calls an active device and what the
\* files of the clients hold are the same thing, whatever was interrupted.
BindingsMatchDevices == BindingIsOwn /\ ActiveDevices /\ ActiveIsHeld
=============================================================================
