----------------------------- MODULE DevicePanel -----------------------------
(***************************************************************************)
(* The device panel of the student's workbench page (studentWorkbench.ts,  *)
(* StudentAgentConsoleView.vue): it asks the backend for a code or for a   *)
(* device to be unbound, and polls the list of devices while it shows one. *)
(* A call is answered by the backend at once and its answer reaches the    *)
(* page later, so an answer can be older than what the page shows.         *)
(*                                                                         *)
(* The devices at the backend are the rows of DeviceBinding in short: the  *)
(* n-th code is device n, and creating it ends the one that was pending.   *)
(***************************************************************************)
EXTENDS Naturals, FiniteSets

CONSTANTS
  NoDevice,
  MaxDevices, MaxLists, MaxVisits  \* bounds

VARIABLES
  device,    \* of each device its status at the backend
  listed,    \* times the backend's devices have changed
  shown,     \* devices the page shows
  code,      \* the code it shows
  polling,
  busy,      \* the button that waits for its answer
  initialized,
  lists,     \* answers with a list that are on their way
  newest,    \* history: age of the newest answer applied
  overtaken, \* history: an older answer was applied after it
  announced, \* history: times the page said that a device has connected
  visits, visiting

panelVars == <<device, listed, shown, code, polling, busy, initialized, lists,
               newest, overtaken, announced, visits, visiting>>

Devices == 1 .. MaxDevices

Nothing == [active |-> {}, pending |-> {}]

PanelInit ==
  /\ device = [d \in Devices |-> "none"]
  /\ listed = 0
  /\ shown = Nothing /\ code = NoDevice
  /\ polling = FALSE /\ busy = NoDevice /\ initialized = FALSE
  /\ lists = {}
  /\ newest = 0 /\ overtaken = FALSE
  /\ announced = [d \in Devices |-> 0]
  /\ visits = 0 /\ visiting = FALSE

Having(status) == {d \in Devices : device[d] = status}

\* What the backend answers now; forced is the list an unbinding waits for.
List(forced) ==
  [age |-> listed, active |-> Having("active"), pending |-> Having("pending"),
   forced |-> forced]

Asked(forced) == Cardinality(lists) < MaxLists /\ lists' = lists \cup {List(forced)}
-----------------------------------------------------------------------------
\* The backend.

Change(status) ==
  /\ device' = status
  /\ listed' = listed + 1

\* Another machine uses the code, the code expires, or the machine disconnects.
DeviceMoves(d) ==
  /\ \E move \in {<<"pending", "active">>, <<"pending", "gone">>, <<"active", "gone">>} :
       device[d] = move[1] /\ Change([device EXCEPT ![d] = move[2]])
  /\ UNCHANGED <<shown, code, polling, busy, initialized, lists, newest, overtaken,
                 announced, visits, visiting>>
-----------------------------------------------------------------------------
\* The page.

\* Only the first visit asks for the list.
Visit ==
  /\ ~visiting /\ visits < MaxVisits
  /\ visiting' = TRUE /\ visits' = visits + 1
  /\ IF initialized \/ busy # NoDevice THEN UNCHANGED lists ELSE Asked(FALSE)
  /\ UNCHANGED <<device, listed, shown, code, polling, busy, initialized, newest,
                 overtaken, announced>>

Leave ==
  /\ visiting /\ visiting' = FALSE
  /\ polling' = FALSE
  /\ UNCHANGED <<device, listed, shown, code, busy, initialized, lists, newest,
                 overtaken, announced, visits>>

\* refreshDevices, by the timer.
Poll ==
  /\ polling /\ busy = NoDevice
  /\ Asked(FALSE)
  /\ UNCHANGED <<device, listed, shown, code, polling, busy, initialized, newest,
                 overtaken, announced, visits, visiting>>

\* Plausible bug: every device that is active is taken for a new one.
AnyActive(answer) == answer.active

NewlyBound(answer) == answer.active \cap shown.pending

\* applyDevices: an answer is applied whatever was asked since.
Apply(answer) ==
  /\ shown' = [active |-> answer.active, pending |-> answer.pending]
  /\ polling' = (answer.active \cup answer.pending # {})
  /\ code' = IF polling' THEN code ELSE NoDevice
  /\ IF NewlyBound(answer) = {} THEN UNCHANGED announced
     ELSE \E d \in NewlyBound(answer) : announced' = [announced EXCEPT ![d] = @ + 1]
  /\ overtaken' = (overtaken \/ answer.age < newest)
  /\ newest' = IF answer.age < newest THEN newest ELSE answer.age

ReceiveList(answer) ==
  /\ Apply(answer)
  /\ initialized' = TRUE
  /\ lists' = lists \ {answer}
  /\ busy' = IF answer.forced THEN NoDevice ELSE busy
  /\ UNCHANGED <<device, listed, visits, visiting>>

\* The call fails: the page keeps what it shows.
LoseList(answer) ==
  /\ lists' = lists \ {answer}
  /\ busy' = IF answer.forced THEN NoDevice ELSE busy
  /\ UNCHANGED <<device, listed, shown, code, polling, initialized, newest, overtaken,
                 announced, visits, visiting>>

GenerateDeviceCode(d) ==
  /\ visiting /\ busy = NoDevice
  /\ device[d] = "none" /\ \A e \in 1 .. d - 1 : device[e] # "none"
  /\ Change([e \in Devices |-> IF e = d THEN "pending"
                               ELSE IF device[e] = "pending" THEN "gone" ELSE device[e]])
  /\ busy' = [call |-> "code", device |-> d, age |-> listed']
  /\ UNCHANGED <<shown, code, polling, initialized, lists, newest, overtaken,
                 announced, visits, visiting>>

\* The code is shown with its device, whatever the list said meanwhile.
ReceiveCode ==
  /\ busy # NoDevice /\ busy.call = "code"
  /\ code' = busy.device
  /\ shown' = [shown EXCEPT !.pending = {busy.device}]
  /\ polling' = TRUE
  /\ overtaken' = (overtaken \/ busy.age < newest)
  /\ newest' = IF busy.age < newest THEN newest ELSE busy.age
  /\ busy' = NoDevice
  /\ UNCHANGED <<device, listed, initialized, lists, announced, visits, visiting>>

Unbind(d) ==
  /\ visiting /\ busy = NoDevice
  /\ d \in shown.active
  /\ busy' = [call |-> "unbind", device |-> d, age |-> listed]
  /\ IF device[d] = "active" THEN Change([device EXCEPT ![d] = "gone"])
     ELSE UNCHANGED <<device, listed>>
  /\ UNCHANGED <<shown, code, polling, initialized, lists, newest, overtaken,
                 announced, visits, visiting>>

\* The list is asked for again, and the button waits for it.
ReceiveUnbind ==
  /\ busy # NoDevice /\ busy.call = "unbind"
  /\ Asked(TRUE)
  /\ busy' = [busy EXCEPT !.call = "refresh"]
  /\ UNCHANGED <<device, listed, shown, code, polling, initialized, newest, overtaken,
                 announced, visits, visiting>>

CallFails ==
  /\ busy # NoDevice /\ busy.call \in {"code", "unbind"}
  /\ busy' = NoDevice
  /\ UNCHANGED <<device, listed, shown, code, polling, initialized, lists, newest,
                 overtaken, announced, visits, visiting>>

PanelNext ==
  \/ \E d \in Devices : DeviceMoves(d) \/ GenerateDeviceCode(d) \/ Unbind(d)
  \/ \E answer \in lists : ReceiveList(answer) \/ LoseList(answer)
  \/ Visit \/ Leave \/ Poll
  \/ ReceiveCode \/ ReceiveUnbind \/ CallFails
-----------------------------------------------------------------------------
\* Every variable has its type.
PanelTypeOK ==
  /\ device \in [Devices -> {"none", "pending", "active", "gone"}]
  /\ shown.active \subseteq Devices /\ shown.pending \subseteq Devices
  /\ code \in Devices \cup {NoDevice}
  /\ {polling, initialized, visiting, overtaken} \subseteq BOOLEAN
  /\ newest <= listed

\* The page says once that a device has connected, and only of one that did,
\* unless an answer came later than a newer one; and it has no code on show
\* that it does not poll for, as long as the console is not left.
AnnouncedOnce ==
  /\ ~overtaken => \A d \in Devices : announced[d] <= 1
  /\ \A d \in Devices : announced[d] > 0 => device[d] \in {"active", "gone"}
  /\ code # NoDevice /\ visits = 1 /\ visiting => polling
=============================================================================
