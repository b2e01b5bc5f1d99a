------------------------------ MODULE EventHub ------------------------------
(***************************************************************************)
(* The event hub of EventHubZizhan.cpp: the device nodes of /dev/input,    *)
(* opened, watched with epoll and inotify, and read by getEvents, which    *)
(* one thread calls again and again.                                       *)
(*                                                                         *)
(* getEvents holds mLock but for its epoll_wait, and every other change of *)
(* the hub is made by the same thread between two calls, so what it meets  *)
(* is the kernel: nodes that come and go, events that arrive, descriptors  *)
(* that are numbered again.  Each round of its loop is cut where the       *)
(* kernel can be observed: the report of devices, each pending item, the   *)
(* inotify read, the poll.                                                 *)
(*                                                                         *)
(* The hub is one record, so that opening and closing are operators that   *)
(* a scan or an inotify read applies to one node after the other.          *)
(***************************************************************************)
EXTENDS Integers, Sequences, FiniteSets, SequencesExt

CONSTANTS
  Nodes,        \* the names a device node of /dev/input can have
  Capabilities, \* what the device of each node reports, a set of names
  Excluded,     \* nodes whose device has an excluded name
  BufferSize,   \* the events one getEvents call can return
  MaxWatches,   \* descriptors the epoll instance accepts
  Box,          \* ro.target.product is "box"
  MaxPlugs,     \* bound: nodes that appear
  MaxBursts,    \* bound: bursts of input events
  BurstSizes,   \* bound: events of a burst
  MaxRequests   \* bound: wakes, reopenings, enablings and disablings

ASSUME HubAssumption ==
  /\ IsFiniteSet(Nodes) /\ "none" \notin Nodes
  /\ Capabilities \in [Nodes -> SUBSET STRING]
  /\ BufferSize \in Nat \ {0} /\ MaxWatches \in Nat /\ Box \in BOOLEAN
  /\ MaxPlugs \in Nat /\ MaxBursts \in Nat /\ MaxRequests \in Nat /\ BurstSizes \subseteq Nat \ {0}

VARIABLES
  dir,       \* the nodes that are in /dev/input
  inotify,   \* <<what, node>> the inotify descriptor holds
  wakePipe,  \* the wake pipe holds a byte
  file,      \* open descriptor -> what the kernel keeps for it
  hub,       \* the members of the hub, the open descriptors apart
  pc,        \* where the thread of getEvents is
  call,      \* the locals of the call
  known,     \* history: the ids the client has been told of
  strays,    \* history: <<what, id>> told that did not fit what was told before
  wasBuiltIn,\* history: ids that have been the built-in keyboard's
  spent      \* counters behind the bounds

vars == <<dir, inotify, wakePipe, file, hub, pc, call, known, strays, wasBuiltIn, spent>>

NONE    == "none"
VIRTUAL == -1    \* VIRTUAL_KEYBOARD_ID
BUILTIN == 0     \* BUILT_IN_KEYBOARD_ID
NOBODY  == -2    \* NO_BUILT_IN_KEYBOARD
INotify == -10   \* mINotifyFd
WakeFd  == -11   \* mWakeReadPipeFd

-----------------------------------------------------------------------------
(* What kind of device it is *)

HasButtons(caps) == "buttons" \in caps

KeyClasses(caps) ==
  IF "keys" \in caps \/ HasButtons(caps)
  THEN {"KEYBOARD"} \cup (IF Box THEN {"KEYMOUSE"} ELSE {}) ELSE {}

PlainClasses(caps) ==
  {c \in {"CURSOR", "ROTARY_ENCODER", "SWITCH", "VIBRATOR"} :
     \/ c = "CURSOR" /\ {"mouse", "relXY"} \subseteq caps
     \/ c = "ROTARY_ENCODER" /\ "rotary" \in caps
     \/ c = "SWITCH" /\ "switch" \in caps
     \/ c = "VIBRATOR" /\ "rumble" \in caps}

(* An external stylus gives up its keys: the touch screen it is fused with
   wants its buttons. *)
TouchClasses(caps) ==
  IF "mtXY" \in caps
  THEN IF "touch" \in caps \/ ~HasButtons(caps) THEN {"TOUCH", "TOUCH_MT"} ELSE {}
  ELSE IF {"touch", "absXY"} \subseteq caps THEN {"TOUCH"}
  ELSE IF caps \cap {"pressure", "touch"} # {} /\ "absXY" \notin caps THEN {"EXTERNAL_STYLUS"}
  ELSE {}

(* getAbsAxisUsage: touch devices have the touch axes, a stylus the pressure,
   joysticks what is left. *)
JoystickAxes(caps, classes) ==
  {a \in caps \cap {"absXY", "mtXY", "pressure", "axis"} :
     /\ ~("TOUCH" \in classes /\ a # "axis")
     /\ ~("EXTERNAL_STYLUS" \in classes /\ a = "pressure")}

KeymapClasses(caps) ==
  {c \in {"ALPHAKEY", "DPAD", "GAMEPAD"} :
     /\ "keymap" \in caps
     /\ \/ c = "ALPHAKEY" /\ "Q" \in caps
        \/ c = "DPAD" /\ "dpad" \in caps
        \/ c = "GAMEPAD" /\ "padKeys" \in caps}

Classes(caps) ==
  LET touch == TouchClasses(caps)
      keys  == IF "EXTERNAL_STYLUS" \in touch THEN KeyClasses(caps) \ {"KEYBOARD"} ELSE KeyClasses(caps)
      basic == keys \cup touch \cup PlainClasses(caps)
      stick == IF HasButtons(caps) /\ JoystickAxes(caps, basic) # {} THEN {"JOYSTICK"} ELSE {}
      vkeys == IF "TOUCH" \in touch /\ "virtualKeys" \in caps THEN {"KEYBOARD"} ELSE {}
      all   == basic \cup stick \cup vkeys
  IN  all \cup (IF "KEYBOARD" \in all THEN KeymapClasses(caps) ELSE {})

(* A keyboard becomes the built-in one if its key map loads and there is none. *)
BecomesBuiltIn(h, caps) ==
  "KEYBOARD" \in Classes(caps) /\ {"keymap", "eligible"} \subseteq caps /\ h.builtIn = NOBODY

IsController(classes) == classes \cap {"JOYSTICK", "DPAD"} # {} /\ "GAMEPAD" \in classes

-----------------------------------------------------------------------------
(* Opening and closing.  h is the hub, h.file the kernel's table of open
   descriptors, which the actions keep in a variable of its own. *)

Smallest(S) == CHOOSE x \in S : \A y \in S : x <= y
Largest(S) == CHOOSE x \in S : \A y \in S : x >= y
FreeFd(h) == Smallest((1 .. Cardinality(DOMAIN h.file) + 1) \ DOMAIN h.file)

Opened(h, fd, node) ==
  [h EXCEPT !.file = [f \in DOMAIN h.file \cup {fd} |->
                        IF f = fd THEN [node |-> node, ready |-> 0, gone |-> FALSE] ELSE h.file[f]]]
Closed(h, fd) ==
  [h EXCEPT !.file = [f \in DOMAIN h.file \ {fd} |-> h.file[f]], !.epoll = @ \ {fd}]

Without(f, x) == [y \in DOMAIN f \ {x} |-> f[y]]

AddDeviceLocked(h, id, device) ==
  [h EXCEPT !.device = [d \in DOMAIN h.device \cup {id} |-> IF d = id THEN device ELSE h.device[d]],
            !.opening = <<id>> \o @]

NextControllerNumber(h) ==
  LET free == (1 .. 32) \ h.controllers IN IF free = {} THEN 0 ELSE Smallest(free)

RegistrationFails(h) == Cardinality(h.epoll) >= MaxWatches

(* A device whose descriptor cannot be watched is deleted; the controller
   number and the title of built-in keyboard it has been given stay, which
   the history lost remembers. *)
OpenDeviceLocked(h, node) ==
  LET caps    == Capabilities[node]
      classes == Classes(caps)
      id      == h.nextId
      named   == [h EXCEPT !.nextId = @ + 1,
                           !.builtIn = IF BecomesBuiltIn(h, caps) THEN id ELSE @]
      number  == IF IsController(classes) THEN NextControllerNumber(h) ELSE 0
      counted == [named EXCEPT !.controllers = @ \cup ({number} \ {0})]
      fd      == FreeFd(h)
  IN  CASE node \notin dir \/ node \in Excluded -> h
        [] node \in dir \ Excluded /\ classes = {} -> named
        [] node \in dir \ Excluded /\ classes # {} /\ RegistrationFails(h) ->
             [counted EXCEPT !.lost = TRUE]
        [] OTHER ->
             AddDeviceLocked([Opened(counted, fd, node) EXCEPT !.epoll = @ \cup {fd}], id,
                             [node |-> node, fd |-> fd, enabled |-> TRUE, number |-> number])

CreateVirtualKeyboardLocked(h) ==
  IF VIRTUAL \in DOMAIN h.device THEN h
  ELSE AddDeviceLocked(h, VIRTUAL, [node |-> NONE, fd |-> -1, enabled |-> TRUE, number |-> 0])

HasValidFd(device) == device.node # NONE /\ device.enabled

(* Mutant: the client is not told of closed devices. *)
CloseSilently(h, id) ==
  LET device == h.device[id]
      released == [h EXCEPT !.builtIn = IF id = @ THEN NOBODY ELSE @, !.controllers = @ \ {device.number},
                            !.device = Without(@, id), !.opening = SelectSeq(@, LAMBDA d : d # id)]
  IN  IF device.fd >= 0 THEN Closed(released, device.fd) ELSE released

(* The entry of a device leaves the list of opened ones. *)
Unlinked(opening, id) == RemoveAt(opening, CHOOSE i \in DOMAIN opening : opening[i] = id)

(* A device the client has not been told of vanishes, another waits in
   mClosingDevices until it has been reported. *)
CloseDeviceLocked(h, id) ==
  LET device == h.device[id]
      released == [h EXCEPT !.builtIn = IF id = @ THEN NOBODY ELSE @,
                            !.controllers = @ \ {device.number},
                            !.device = Without(@, id)]
      closed == IF device.fd >= 0 THEN Closed(released, device.fd) ELSE released
  IN  IF id \in Range(h.opening)
      THEN [closed EXCEPT !.opening = Unlinked(@, id)]
      ELSE [closed EXCEPT !.closing = <<id>> \o @]

(* The last device is closed for as long as there is one. *)
CloseAllDevicesLocked(h) ==
  LET n == Cardinality(DOMAIN h.device)
      after[i \in 0 .. n] ==
        IF i = 0 THEN h ELSE CloseDeviceLocked(after[i - 1], Largest(DOMAIN after[i - 1].device))
  IN  after[n]

DevicesAt(h, node) == {id \in DOMAIN h.device : h.device[id].node = node}
CloseDeviceByPathLocked(h, node) ==
  IF DevicesAt(h, node) = {} THEN h ELSE CloseDeviceLocked(h, Smallest(DevicesAt(h, node)))

(* The hub after nodes have come and gone, one <<what, node>> after the other. *)
Noticed(h, events) ==
  LET Notice(g, e) == IF e[1] = "create" THEN OpenDeviceLocked(g, e[2]) ELSE CloseDeviceByPathLocked(g, e[2])
      after[i \in 0 .. Len(events)] == IF i = 0 THEN h ELSE Notice(after[i - 1], events[i])
  IN  after[Len(events)]

ScanDevicesLocked(h, order) ==
  CreateVirtualKeyboardLocked(Noticed(h, [i \in 1 .. Len(order) |-> <<"create", order[i]>>]))

(* Mutant: nodes that were created are left to the next scan. *)
ReadRemovalsOnly(h) == Noticed(h, SelectSeq(inotify, LAMBDA e : e[1] # "create"))

ReadNotifyLocked(h) == Noticed(h, inotify)

DevicesByFd(h, fd) == {id \in DOMAIN h.device : h.device[id].fd = fd}
DeviceById(h, id) == IF id = BUILTIN THEN h.builtIn ELSE id
ReportedId(h, id) == IF id = h.builtIn THEN BUILTIN ELSE id

-----------------------------------------------------------------------------
(* The kernel *)

Hub == [hub EXCEPT !.file = file]       \* the hub with the descriptors as they are
HubBecomes(h) ==
  /\ hub' = [h EXCEPT !.file = <<>>] /\ file' = h.file
  /\ wasBuiltIn' = wasBuiltIn \cup ({h.builtIn} \ {NOBODY})

Spend(what, max) == spent[what] < max /\ spent' = [spent EXCEPT ![what] = @ + 1]

Plug(node) ==
  /\ node \notin dir /\ Spend("plugs", MaxPlugs)
  /\ dir' = dir \cup {node} /\ inotify' = Append(inotify, <<"create", node>>)
  /\ UNCHANGED <<wakePipe, file, hub, pc, call, known, strays, wasBuiltIn>>

Unplug(node) ==
  /\ node \in dir
  /\ dir' = dir \ {node} /\ inotify' = Append(inotify, <<"delete", node>>)
  /\ file' = [f \in DOMAIN file |-> IF file[f].node = node THEN [file[f] EXCEPT !.gone = TRUE] ELSE file[f]]
  /\ UNCHANGED <<wakePipe, hub, pc, call, known, strays, wasBuiltIn, spent>>

Burst(node, n) ==
  /\ node \in dir /\ Spend("bursts", MaxBursts)
  /\ \E f \in DOMAIN file : file[f].node = node /\ ~file[f].gone
  /\ file' = [f \in DOMAIN file |->
                IF file[f].node = node /\ ~file[f].gone THEN [file[f] EXCEPT !.ready = @ + n] ELSE file[f]]
  /\ UNCHANGED <<dir, inotify, wakePipe, hub, pc, call, known, strays, wasBuiltIn>>

(* What epoll_wait can report of descriptor f: readable, hung up. *)
IsReady(f) == \/ f = INotify /\ inotify # <<>>
              \/ f = WakeFd /\ wakePipe
              \/ f \in DOMAIN file /\ (file[f].ready > 0 \/ file[f].gone)
Item(f) == [fd |-> f, in |-> IF f > 0 THEN file[f].ready > 0 ELSE TRUE,
            of |-> IF f > 0 THEN DevicesByFd(Hub, f) ELSE {}]

-----------------------------------------------------------------------------
(* getEvents.  call.room is capacity, call.written the events put into the
   buffer; below zero the capacity, a size_t, has wrapped around. *)

(* The client hears that the devices of gone are removed and then that those
   of come are added; it wonders at a removal of what it does not know and at
   an addition of what it knows. *)
Repeated(ids, i) == \E j \in 1 .. i - 1 : ids[j] = ids[i]
Tell(gone, come) ==
  LET left == known \ Range(gone)
  IN  /\ known' = left \cup Range(come)
      /\ strays' = strays
            \cup {<<"removed", gone[i]>> : i \in {i \in DOMAIN gone : gone[i] \notin known \/ Repeated(gone, i)}}
            \cup {<<"added", come[i]>> : i \in {i \in DOMAIN come : come[i] \in left \/ Repeated(come, i)}}

GetEvents ==
  /\ pc = "client"
  /\ pc' = "top"
  /\ call' = [room |-> BufferSize, written |-> 0, awoken |-> FALSE, changed |-> FALSE]
  /\ UNCHANGED <<dir, inotify, wakePipe, file, hub, known, strays, wasBuiltIn, spent>>

Return == pc' = "client"

ReopenDevices ==
  /\ pc = "top" /\ hub.needReopen
  /\ HubBecomes([CloseAllDevicesLocked(Hub) EXCEPT !.needReopen = FALSE, !.needScan = TRUE])
  /\ Return
  /\ UNCHANGED <<dir, inotify, wakePipe, call, known, strays, spent>>

(* How many of n devices a reporting loop takes before the capacity is zero. *)
Taken(room, n) == IF room > 0 /\ n > room THEN room ELSE n

(* One round's report: closed devices, the scan if one is due, opened devices,
   the end of the scan.  A loop that stops with no capacity left only leaves
   itself; the next one goes on writing. *)
ReportDevices ==
  /\ pc = "top" /\ ~hub.needReopen
  /\ \E order \in SetToSeqs(dir) :
       LET closed  == Taken(call.room, Len(hub.closing))
           scanned == IF hub.needScan THEN ScanDevicesLocked(Hub, order) ELSE Hub
           room1   == call.room - closed
           opened  == Taken(room1, Len(scanned.opening))
           finish  == hub.needScan \/ closed > 0 \/ opened > 0
           room2   == room1 - opened - (IF finish THEN 1 ELSE 0)
       IN  /\ HubBecomes([scanned EXCEPT !.closing = SubSeq(@, closed + 1, Len(@)),
                                         !.opening = SubSeq(@, opened + 1, Len(@)),
                                         !.needScan = FALSE])
           /\ Tell([i \in 1 .. closed |-> ReportedId(hub, hub.closing[i])],
                   [i \in 1 .. opened |-> ReportedId(scanned, scanned.opening[i])])
           /\ call' = [call EXCEPT !.room = room2, !.written = @ + (call.room - room2), !.changed = FALSE]
           /\ IF finish /\ room2 = 0 THEN Return ELSE pc' = "items"
  /\ UNCHANGED <<dir, inotify, wakePipe, spent>>

Pending == hub.pending # <<>> /\ pc = "items"

TakeSpecialItem ==
  /\ Pending /\ Head(hub.pending).fd \in {INotify, WakeFd}
  /\ LET wake == Head(hub.pending).fd = WakeFd
     IN  /\ hub' = [hub EXCEPT !.pending = Tail(@), !.pendingINotify = @ \/ ~wake]
         /\ call' = [call EXCEPT !.awoken = @ \/ wake]
         /\ wakePipe' = (wakePipe /\ ~wake)
  /\ UNCHANGED <<dir, inotify, file, pc, known, strays, wasBuiltIn, spent>>

(* Read as many events as fit; with the buffer full the item stays to be
   tried again, and the rest of the round follows. *)
ReadDevice(id) ==
  LET fd == hub.device[id].fd
      n  == IF call.room > 0 /\ file[fd].ready > call.room THEN call.room ELSE file[fd].ready
      full == n > 0 /\ call.room = n
  IN  /\ ~file[fd].gone /\ call.room # 0
      /\ file' = [file EXCEPT ![fd].ready = @ - n]
      /\ call' = [call EXCEPT !.room = @ - n, !.written = @ + n]
      /\ hub' = IF full THEN hub ELSE [hub EXCEPT !.pending = Tail(@)]
      /\ strays' = IF n > 0 /\ ReportedId(hub, id) \notin known
                   THEN strays \cup {<<"input", ReportedId(hub, id)>>} ELSE strays
      /\ pc' = IF full THEN "notify" ELSE pc
      /\ UNCHANGED wasBuiltIn

(* A read that fails with ENODEV or has no room to read into, or a hang-up
   with nothing to read. *)
LoseDevice(id) ==
  /\ ~Head(hub.pending).in \/ file[hub.device[id].fd].gone \/ call.room = 0
  /\ HubBecomes(CloseDeviceLocked([Hub EXCEPT !.pending = Tail(@)], id))
  /\ call' = [call EXCEPT !.changed = TRUE]
  /\ UNCHANGED <<strays, pc>>

TakeDeviceItem ==
  /\ Pending /\ Head(hub.pending).fd \notin {INotify, WakeFd}
  /\ LET item == Head(hub.pending)
     IN  \/ /\ DevicesByFd(hub, item.fd) = {}
            /\ hub' = [hub EXCEPT !.pending = Tail(@)]
            /\ UNCHANGED <<file, call, strays, wasBuiltIn, pc>>
         \/ \E id \in DevicesByFd(hub, item.fd) : (item.in /\ ReadDevice(id)) \/ LoseDevice(id)
  /\ UNCHANGED <<dir, inotify, wakePipe, known, spent>>

ReadNotify ==
  /\ pc \in {"items", "notify"} /\ hub.pending = <<>> /\ hub.pendingINotify
  /\ HubBecomes([ReadNotifyLocked(Hub) EXCEPT !.pendingINotify = FALSE])
  /\ inotify' = <<>>
  /\ call' = [call EXCEPT !.changed = TRUE]
  /\ pc' = "notify"
  /\ UNCHANGED <<dir, wakePipe, known, strays, spent>>

EndRound ==
  /\ \/ pc = "items" /\ hub.pending = <<>> /\ ~hub.pendingINotify
     \/ pc = "notify" /\ ~(hub.pending = <<>> /\ hub.pendingINotify)
  /\ pc' = IF call.changed THEN "top"
           ELSE IF call.written > 0 \/ call.awoken THEN "client" ELSE "poll"
  /\ UNCHANGED <<dir, inotify, wakePipe, file, hub, call, known, strays, wasBuiltIn, spent>>

Poll ==
  /\ pc = "poll"
  /\ LET ready == {f \in hub.epoll \cup {INotify, WakeFd} : IsReady(f)}
     IN  /\ ready # {}
         /\ \E order \in SetToSeqs(ready) :
              hub' = [hub EXCEPT !.pending = [i \in DOMAIN order |-> Item(order[i])]]
  /\ pc' = "top"
  /\ UNCHANGED <<dir, inotify, wakePipe, file, call, known, strays, wasBuiltIn, spent>>

(* The timeout ends the call, an interrupted wait only the round; neither
   happens while a descriptor is ready. *)
PollTimeout ==
  /\ pc = "poll" /\ \A f \in hub.epoll \cup {INotify, WakeFd} : ~IsReady(f)
  /\ hub' = [hub EXCEPT !.pending = <<>>]
  /\ pc' \in {"client", "top"}
  /\ UNCHANGED <<dir, inotify, wakePipe, file, call, known, strays, wasBuiltIn, spent>>

-----------------------------------------------------------------------------
(* The other calls: wake from any thread, the rest from the reader's own
   thread between two getEvents calls. *)

Wake ==
  /\ Spend("requests", MaxRequests) /\ wakePipe' = TRUE
  /\ UNCHANGED <<dir, inotify, file, hub, pc, call, known, strays, wasBuiltIn>>

RequestReopenDevices ==
  /\ pc = "client" /\ Spend("requests", MaxRequests)
  /\ hub' = [hub EXCEPT !.needReopen = TRUE]
  /\ UNCHANGED <<dir, inotify, wakePipe, file, pc, call, known, strays, wasBuiltIn>>

EnableDevice(id) ==
  /\ pc = "client" /\ DeviceById(hub, id) \in DOMAIN hub.device /\ Spend("requests", MaxRequests)
  /\ LET d == DeviceById(hub, id)
         node == hub.device[d].node
         fd == FreeFd(Hub)
         open == [Opened(Hub, fd, node) EXCEPT !.device[d].fd = fd, !.device[d].enabled = TRUE]
     IN  HubBecomes(IF hub.device[d].enabled \/ node \notin dir THEN Hub
                    ELSE IF RegistrationFails(Hub) THEN [open EXCEPT !.lost = TRUE] ELSE [open EXCEPT !.epoll = @ \cup {fd}])
  /\ UNCHANGED <<dir, inotify, wakePipe, pc, call, known, strays>>

DisableDevice(id) ==
  /\ pc = "client" /\ DeviceById(hub, id) \in DOMAIN hub.device /\ Spend("requests", MaxRequests)
  /\ LET d == DeviceById(hub, id)
         off == [Hub EXCEPT !.device[d].enabled = FALSE, !.device[d].fd = -1]
     IN  HubBecomes(IF hub.device[d].fd >= 0 THEN Closed(off, hub.device[d].fd) ELSE off)
  /\ UNCHANGED <<dir, inotify, wakePipe, pc, call, known, strays>>

-----------------------------------------------------------------------------
Init ==
  /\ dir \in SUBSET Nodes /\ inotify = <<>> /\ wakePipe = FALSE /\ file = <<>>
  /\ hub = [device |-> <<>>, opening |-> <<>>, closing |-> <<>>, builtIn |-> NOBODY, controllers |-> {},
            nextId |-> 1, epoll |-> {}, pending |-> <<>>, pendingINotify |-> FALSE,
            needReopen |-> FALSE, needScan |-> TRUE,
            lost |-> FALSE, file |-> <<>>]
  /\ pc = "client" /\ call = [room |-> BufferSize, written |-> 0, awoken |-> FALSE, changed |-> FALSE]
  /\ known = {} /\ strays = {} /\ wasBuiltIn = {}
  /\ spent = [plugs |-> 0, bursts |-> 0, requests |-> 0]

ReaderStep == \/ GetEvents \/ ReopenDevices \/ ReportDevices \/ TakeSpecialItem \/ TakeDeviceItem
              \/ ReadNotify \/ EndRound

Next ==
  \/ ReaderStep \/ Poll \/ PollTimeout \/ Wake \/ RequestReopenDevices
  \/ \E node \in Nodes : Plug(node) \/ Unplug(node) \/ \E n \in BurstSizes : Burst(node, n)
  \/ \E id \in known : EnableDevice(id) \/ DisableDevice(id)

(* The reader's thread calls getEvents for ever and epoll_wait returns when
   something is ready: the weak fairness of ReaderStep, which is enabled
   unless the thread polls, and of Poll, written out. *)
SomethingReady == \E f \in hub.epoll \cup {INotify, WakeFd} : IsReady(f)
Fairness ==
  /\ <>[](pc # "poll") => []<><<ReaderStep>>_vars
  /\ <>[](pc = "poll" /\ SomethingReady) => []<><<Poll>>_vars
Spec == Init /\ [][Next]_vars /\ Fairness
-----------------------------------------------------------------------------
(* Properties *)

(* The client's view of the devices makes sense: no device is added twice or
   removed without having been added, input comes only from added devices, and
   when the hub waits in epoll the client knows the devices there are.  The
   built-in keyboard is apart: it is added as id 0 and, since closing it takes
   its title first, removed under its own id (closeDeviceLocked, and the
   reports of getEvents). *)
DeviceStory ==
  /\ \A s \in strays : s[1] # "input" /\ (s[2] = BUILTIN \/ s[2] \in wasBuiltIn)
  /\ pc = "poll" => known \ ({BUILTIN} \cup wasBuiltIn) = DOMAIN hub.device \ wasBuiltIn

(* epoll watches exactly the descriptors of the enabled devices, so that no
   device falls silent and no closed descriptor is reported
   (registerDeviceForEpollLocked against enableDevice, disableDevice and
   closeDeviceLocked). *)
WatchedAreOpen ==
  /\ hub.epoll \subseteq DOMAIN file
  /\ \A f \in DOMAIN file : Cardinality(DevicesByFd(hub, f)) = 1
  /\ RegistrationFails(hub) \/ hub.lost \/ \A id \in DOMAIN hub.device :
       HasValidFd(hub.device[id]) => hub.device[id].fd \in hub.epoll

(* Controller numbers are the devices' own: no two devices share one and none
   is lost to a device that is gone (getNextControllerNumberLocked against
   every way a device is closed), save by a device that epoll refused. *)
ControllersCounted ==
  /\ hub.lost \/ hub.controllers = {hub.device[id].number : id \in DOMAIN hub.device} \ {0}
  /\ \A d, e \in DOMAIN hub.device :
       hub.device[d].number = hub.device[e].number /\ hub.device[d].number # 0 => d = e

(* What the hub keeps of its devices, what epoll watches and what the client
   has been told never part (EventHubZizhan.cpp 830-1110, 1480-1850). *)
HubStory == DeviceStory /\ WatchedAreOpen /\ ControllersCounted

(* getEvents returns no more events than its buffer holds. *)
ResultFits == call.written <= BufferSize

(* A node that stays in /dev/input is opened and the client told of it, also
   when it came during a scan, a reopening or after a quick removal
   (scanDirLocked, readNotifyLocked), unless
   epoll has refused a descriptor. *)
PluggedIsAdded ==
  \A node \in Nodes \ Excluded : node \in dir ~>
     (hub.lost \/ node \notin dir \/ \E id \in DevicesAt(hub, node) : ReportedId(hub, id) \in known)

(* A wake makes a getEvents call that is waiting, or the next one, return. *)
WakeReturns == wakePipe ~> pc = "client" /\ ~wakePipe

(* The hub serves what is plugged in and whoever wakes it (getEvents). *)
HubServes == PluggedIsAdded /\ WakeReturns
=============================================================================
