---- MODULE DrmDevices ----
(***************************************************************************)
(* The life of DRM devices: their minors in the shared table, registration *)
(* and unplugging by their drivers, and the threads that look a minor up,  *)
(* open it, search a device by its name or enter a critical section of it. *)
(* One action is what happens under drm_minor_lock, or between two points  *)
(* where another thread can look.                                          *)
(***************************************************************************)
EXTENDS Naturals, FiniteSets

CONSTANTS Devices,   \* device structures, each used once
          HasRender, \* those whose driver has DRIVER_RENDER
          Threads,   \* threads of user space and of other drivers
          Range64,   \* how many minors a type has: 64 in the code
          MaxCalls   \* bound: calls of the threads in all

VARIABLES minors,  \* drm_minors_idr: allocated numbers, each with the device or NULL
          dev,     \* the devices
          drv,     \* where each one's driver is
          mutex,   \* the drivers and threads that hold drm_global_mutex
          thread,  \* the threads
          leaked,  \* history: references drm_device_get_by_name kept, by device
          calls    \* the bound's count

vars == <<minors, dev, drv, mutex, thread, leaked, calls>>

Types == {"primary", "render"}
Numbers(type) == {<<type, i>> : i \in 0 .. Range64 - 1}
NULL == "null"
None == <<>>
Unborn == [life |-> "unborn", refs |-> 0, slot |-> [type \in Types |-> None],
           added |-> {}, unplugged |-> FALSE]
Idle == [pc |-> "idle", d |-> NULL, at |-> 0, name |-> NULL]

Init ==
    /\ minors = <<>>
    /\ dev = [d \in Devices |-> Unborn]
    /\ drv = [d \in Devices |-> [pc |-> "new", waits |-> {}]]
    /\ mutex = {}
    /\ thread = [t \in Threads |-> Idle]
    /\ leaked = [d \in Devices |-> 0] /\ calls = 0

----
(* Minors *)

Put(f, k, v) == [x \in DOMAIN f \cup {k} |-> IF x = k THEN v ELSE f[x]]
Drop(f, ks) == [x \in DOMAIN f \ ks |-> f[x]]

\* idr_alloc takes the lowest number of the type's range, with NULL for now
FreeNumbers(table, type) == Numbers(type) \ DOMAIN table
LowestFree(table, type) == CHOOSE n \in FreeNumbers(table, type) : \A m \in FreeNumbers(table, type) : n[2] <= m[2]

\* drm_minor_free of both types: the numbers are given back
FreeMinors(table, slot) == Drop(table, {slot[type] : type \in Types})

\* drm_minor_register: a lookup succeeds from now on
MinorRegister(d, type) ==
    /\ minors' = [minors EXCEPT ![dev[d].slot[type]] = d]
    /\ dev' = [dev EXCEPT ![d].added = @ \cup {type}]
\* drm_minor_unregister of both: a lookup fails from now on
MinorsUnregister(d) ==
    /\ minors' = [n \in DOMAIN minors |->
                     IF \E type \in dev[d].added : n = dev[d].slot[type] THEN NULL ELSE minors[n]]
    /\ dev' = [dev EXCEPT ![d].added = {}]

\* the last drm_dev_put finalizes the device
PutDevice(d) ==
    IF dev[d].refs = 1
    THEN /\ dev' = [dev EXCEPT ![d].refs = 0, ![d].life = "freed"]
         /\ minors' = FreeMinors(minors, dev[d].slot)
    ELSE dev' = [dev EXCEPT ![d].refs = @ - 1] /\ UNCHANGED minors

----
(* The drivers *)

Step(d, pc) == drv' = [drv EXCEPT ![d].pc = pc]

\* drm_dev_init allocates the minors; a step of it may fail, or no number be
\* left, and then everything is given back
DevInit(d) ==
    LET types == IF d \in HasRender THEN Types ELSE {"primary"}
        room == \A type \in types : FreeNumbers(minors, type) # {}
        slot == [type \in Types |-> IF type \in types THEN LowestFree(minors, type) ELSE None]
    IN  /\ drv[d].pc = "new"
        /\ \/ /\ room
              /\ minors' = [n \in DOMAIN minors \cup {slot[type] : type \in types} |->
                               IF n \in DOMAIN minors THEN minors[n] ELSE NULL]
              /\ dev' = [dev EXCEPT ![d] = [Unborn EXCEPT !.life = "alive", !.refs = 1, !.slot = slot]]
              /\ Step(d, "init")
           \/ /\ dev' = [dev EXCEPT ![d].life = "freed"]
              /\ Step(d, "gone") /\ UNCHANGED minors
        /\ UNCHANGED <<mutex, thread, leaked, calls>>

\* drm_dev_register, under drm_global_mutex: render first, then primary, then
\* the driver's load
RegisterFirst(d) ==
    /\ drv[d].pc = "init" /\ mutex = {} /\ mutex' = {d}
    /\ IF d \in HasRender THEN MinorRegister(d, "render") ELSE UNCHANGED <<minors, dev>>
    /\ Step(d, "render")
    /\ UNCHANGED <<thread, leaked, calls>>
RegisterPrimary(d) ==
    /\ drv[d].pc = "render"
    /\ MinorRegister(d, "primary")
    /\ Step(d, "load")
    /\ UNCHANGED <<mutex, thread, leaked, calls>>
Registered(d) ==
    /\ drv[d].pc = "load" /\ Step(d, "registered")
    /\ mutex' = {}
    /\ UNCHANGED <<minors, dev, thread, leaked, calls>>
\* any of them fails: both are unregistered, the driver will drop the device
RegisterFails(d) ==
    /\ drv[d].pc \in {"render", "load"} \/ (drv[d].pc = "init" /\ mutex = {})
    /\ MinorsUnregister(d)
    /\ mutex' = {} /\ Step(d, "put")
    /\ UNCHANGED <<thread, leaked, calls>>

Inside(d) == {t \in Threads : thread[t].pc = "inside" /\ thread[t].d = d}
\* the readers of drm_unplug_srcu, which all devices share
Readers == {t \in Threads : thread[t].pc \in {"lock", "inside"}}

\* drm_dev_unplug marks the device, waits for every critical section that had
\* begun, unregisters and drops its reference
Unplug(d) ==
    /\ drv[d].pc = "registered"
    /\ dev' = [dev EXCEPT ![d].unplugged = TRUE]
    /\ drv' = [drv EXCEPT ![d] = [pc |-> "sync", waits |-> Readers]]
    /\ UNCHANGED <<minors, mutex, thread, leaked, calls>>
Synchronize(d) ==
    /\ drv[d].pc = "sync" /\ drv[d].waits = {}
    /\ Step(d, "unregister")
    /\ UNCHANGED <<minors, dev, mutex, thread, leaked, calls>>
\* drm_dev_unregister, here or by drm_put_dev at module unload, where nothing
\* is waited for
Unregister(d) ==
    /\ drv[d].pc \in {"unregister", "registered"}
    /\ MinorsUnregister(d)
    /\ Step(d, "put")
    /\ UNCHANGED <<mutex, thread, leaked, calls>>
DriverPuts(d) ==
    /\ drv[d].pc = "put" /\ Step(d, "gone")
    /\ PutDevice(d)
    /\ UNCHANGED <<mutex, thread, leaked, calls>>

----
(* The threads *)

Go(t, pc) == thread' = [thread EXCEPT ![t].pc = pc]
Return(t) == thread' = [thread EXCEPT ![t] = Idle]
Find(n) == IF n \in DOMAIN minors THEN minors[n] ELSE NULL

\* Mutant: an unplugged device is found without a reference to it.
AcquireUnlessUnplugged(t, n, state) ==
    LET d == Find(n)
    IN  IF d = NULL THEN FALSE
        ELSE /\ dev' = [dev EXCEPT ![d].refs = IF dev[d].unplugged THEN @ ELSE @ + 1]
             /\ thread' = [thread EXCEPT ![t] = [state EXCEPT !.d = d]]

\* drm_minor_acquire looks and takes a reference under the lock
Acquire(t, n, state) ==
    LET d == Find(n)
    IN  IF d = NULL THEN FALSE
        ELSE /\ dev' = [dev EXCEPT ![d].refs = @ + 1]
             /\ thread' = [thread EXCEPT ![t] = [state EXCEPT !.d = d]]

\* drm_stub_open, under drm_global_mutex
StubOpen(t) ==
    /\ thread[t].pc = "idle" /\ mutex = {} /\ calls < MaxCalls /\ calls' = calls + 1
    /\ \E n \in Numbers("primary") \cup Numbers("render") : Acquire(t, n, [Idle EXCEPT !.pc = "check"])
    /\ mutex' = {t}
    /\ UNCHANGED <<minors, drv, leaked>>
\* the rest of drm_minor_acquire: an unplugged device is let go again
CheckUnplugged(t) ==
    /\ thread[t].pc = "check"
    /\ Go(t, IF dev[thread[t].d].unplugged THEN "release" ELSE "open")
    /\ UNCHANGED <<minors, dev, drv, mutex, leaked, calls>>
\* the driver's open, then drm_minor_release
Opened(t) ==
    /\ thread[t].pc = "open" /\ Go(t, "release")
    /\ UNCHANGED <<minors, dev, drv, mutex, leaked, calls>>
Release(t) ==
    /\ thread[t].pc = "release"
    /\ PutDevice(thread[t].d) /\ Return(t)
    /\ mutex' = mutex \ {t}
    /\ UNCHANGED <<drv, leaked, calls>>

\* drm_device_get_by_name acquires one primary minor after another, and keeps
\* the reference of each device that is not the one
GetByName(t, name) ==
    /\ thread[t].pc = "idle" /\ calls < MaxCalls /\ calls' = calls + 1
    /\ thread' = [thread EXCEPT ![t] = [Idle EXCEPT !.pc = "scan", !.name = name]]
    /\ UNCHANGED <<minors, dev, drv, mutex, leaked>>
Scan(t) ==
    LET th == thread[t]
        next == [th EXCEPT !.at = @ + 1]
    IN  /\ th.pc = "scan"
        /\ IF th.at = Range64 THEN Return(t) /\ UNCHANGED dev
           ELSE \/ Acquire(t, <<"primary", th.at>>, [th EXCEPT !.pc = "scanned"])
                \/ /\ Find(<<"primary", th.at>>) = NULL
                   /\ thread' = [thread EXCEPT ![t] = next] /\ UNCHANGED dev
        /\ UNCHANGED <<minors, drv, mutex, leaked, calls>>
PassesOver(t) ==
    LET th == thread[t]
        next == [th EXCEPT !.at = @ + 1, !.pc = "scan", !.d = NULL]
    IN  /\ th.pc = "scanned"
        /\ IF dev[th.d].unplugged
           THEN PutDevice(th.d) /\ thread' = [thread EXCEPT ![t] = next] /\ UNCHANGED leaked
           ELSE /\ IF th.d = th.name THEN Go(t, "found") /\ UNCHANGED leaked
                   ELSE /\ thread' = [thread EXCEPT ![t] = next]
                        /\ leaked' = [leaked EXCEPT ![th.d] = @ + 1]
                /\ UNCHANGED <<dev, minors>>
        /\ UNCHANGED <<drv, mutex, calls>>

\* the caller drops what it found, or enters a critical section with it:
\* drm_dev_enter takes the srcu lock and then looks at the mark
DropFound(t) ==
    /\ thread[t].pc = "found"
    /\ PutDevice(thread[t].d) /\ Return(t)
    /\ UNCHANGED <<drv, mutex, leaked, calls>>
DevEnter(t) ==
    /\ thread[t].pc = "found" /\ Go(t, "lock")
    /\ UNCHANGED <<minors, dev, drv, mutex, leaked, calls>>
Entered(t) ==
    /\ thread[t].pc = "lock" /\ ~dev[thread[t].d].unplugged
    /\ Go(t, "inside")
    /\ UNCHANGED <<minors, dev, drv, mutex, leaked, calls>>
\* drm_dev_exit, or an entry refused
DevExit(t) ==
    /\ \/ thread[t].pc = "inside"
       \/ thread[t].pc = "lock" /\ dev[thread[t].d].unplugged
    /\ Go(t, "release")
    /\ drv' = [d \in Devices |-> [drv[d] EXCEPT !.waits = @ \ {t}]]
    /\ UNCHANGED <<minors, dev, mutex, leaked, calls>>

Next ==
    \/ \E d \in Devices : DevInit(d) \/ RegisterFirst(d) \/ RegisterPrimary(d) \/ Registered(d)
                          \/ RegisterFails(d) \/ Unplug(d) \/ Synchronize(d) \/ Unregister(d) \/ DriverPuts(d)
    \/ \E t \in Threads : StubOpen(t) \/ CheckUnplugged(t) \/ Opened(t) \/ Release(t) \/ Scan(t)
                          \/ PassesOver(t) \/ DropFound(t) \/ DevEnter(t) \/ Entered(t) \/ DevExit(t)
    \/ \E t \in Threads, name \in Devices : GetByName(t, name)

Spec == Init /\ [][Next]_vars

----
(* Properties *)

Holders(d) == {t \in Threads : thread[t].d = d}
DriverHolds(d) == IF drv[d].pc \in {"new", "gone"} THEN 0 ELSE 1

\* A device lives as long as somebody holds it, and every reference has its
\* holder or is one that a search by name kept.
HeldAreAlive ==
    \A d \in Devices :
        /\ dev[d].refs = DriverHolds(d) + Cardinality(Holders(d)) + leaked[d]
        /\ Holders(d) # {} => dev[d].life = "alive"

\* The table holds exactly the minors of living devices, each number one
\* device's, and shows only devices that are registered.
TableIsCurrent ==
    /\ DOMAIN minors = UNION {{dev[d].slot[type] : type \in Types} \ {None} :
                                d \in {x \in Devices : dev[x].life = "alive"}}
    /\ \A n \in DOMAIN minors : \A d \in Devices :
        minors[n] = d <=> \E type \in dev[d].added : dev[d].slot[type] = n
    /\ \A d, e \in Devices : dev[d].life = "alive" /\ dev[e].life = "alive" /\ d # e =>
        \A type \in Types : dev[d].slot[type] # None => dev[d].slot[type] # dev[e].slot[type]

\* Once an unplugged device is being unregistered nobody is in a critical
\* section of it.
NobodyInside == \A d \in Devices : dev[d].unplugged /\ drv[d].pc # "sync" => Inside(d) = {}

\* A minor that is looked up belongs to a device that lives, is shown when it is registered,
\* and is not entered once the unplugging is over (drm_drv.c 105-262, 354-420).
DevicesSafe == HeldAreAlive /\ TableIsCurrent /\ NobodyInside

\* drm_drv.c:229 "so you must release this object with drm_minor_release()"
AllReleased == \A d \in Devices : leaked[d] = 0
====
