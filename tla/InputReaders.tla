---------------------------- MODULE InputReaders ----------------------------
(***************************************************************************)
(* The input reader thread (InputReader.cpp 273-980) and the second reader *)
(* nested in it (InputReaderZizhan.cpp 270-948).  One thread runs          *)
(* InputReader::loopOnce, which in its middle calls                        *)
(* InputReaderZizhan::loopOnce.  Each reader has its own event hub, lock,  *)
(* device list, timeout and queue of events for the common listener, and   *)
(* both hubs open every device, so that each reads every event.            *)
(*                                                                         *)
(* Other threads ask for a new configuration, start a vibration or check   *)
(* that the reader is alive.  A section of a reader's mLock is one action; *)
(* only requestRefreshConfiguration keeps a lock over two actions, because *)
(* it takes the second reader's lock inside the first's.                   *)
(*                                                                         *)
(* Durations count down: Never is longer than any delay, 0 is over.        *)
(***************************************************************************)
EXTENDS Integers, Sequences, SequencesExt

CONSTANTS Requesters,     \* threads that change the configuration
          TapDelay,       \* pointerGestureTapDragInterval
          StepDelay,      \* the duration of a step of a vibration
          Steps,          \* the length of a vibration's pattern, which is not repeated
          MaxEvents,      \* bound: input events
          MaxChanges,     \* bound: changes of the configuration
          MaxVibrations,  \* bound: calls of vibrate
          MaxMonitors,    \* bound: calls of monitor
          MaxPlugs,       \* bound: devices plugged in
          Changes         \* the kinds of change: subset of {"configure", "reopen"}

ASSUME InputAssumption ==
    /\ \A n \in {TapDelay, StepDelay, Steps, MaxEvents, MaxChanges, MaxVibrations,
                 MaxMonitors, MaxPlugs} : n \in Nat
    /\ TapDelay > 0 /\ StepDelay > 0 /\ Steps > 0
    /\ Changes \subseteq {"configure", "reopen"}

ReaderNames == {"reader", "zizhan"}
Keyboard == 0      \* always there; what is plugged in gets the next number
Nobody   == "nobody"
Never    == IF TapDelay > StepDelay THEN TapDelay + 1 ELSE StepDelay + 1
Delays   == 0 .. Never
Minimum(a, b) == IF a < b THEN a ELSE b
Sooner(d) == IF d \in {0, Never} THEN d ELSE d - 1

VARIABLES
  pc,            \* <<reader, step>>: where the thread is in the two loopOnce calls
  log,           \* the input events so far: whether each is a tap, and its age
  plugged,       \* the devices present
  plugs,         \* how many devices were plugged in so far
  hub,           \* per reader: its event hub
  rd,            \* per reader: what its mLock protects
  local,         \* per reader: the local variables of loopOnce
  delivered,     \* per reader: the events its QueuedInputListener has flushed
  lost,          \* per reader: the events that came while its hub had no device open
  policyConfig,  \* the version of the policy's configuration
  policyDevices, \* the devices the policy was told of last
  asking,        \* per requester: the step and the change it asks for
  holder,        \* who holds the first reader's mLock from one action to the next
  vibrations,    \* calls of vibrate so far
  monitor,       \* the step of InputReader::monitor
  monitors       \* calls of monitor so far

vars == <<pc, log, plugged, plugs, hub, rd, local, delivered, lost, policyConfig,
          policyDevices, asking, holder, vibrations, monitor, monitors>>
outside == <<log, plugged, plugs, policyConfig, asking, holder, vibrations, monitors>>

Init ==
    /\ pc = <<"reader", "configure">>
    /\ log = <<>> /\ plugged = {} /\ plugs = 0
    /\ hub = [r \in ReaderNames |-> [read |-> 0, devices |-> {}, reopen |-> "closed", wake |-> FALSE]]
    /\ rd = [r \in ReaderNames |-> [changes |-> {}, devices |-> {}, config |-> 0, applied |-> 0,
                                next |-> Never, tap |-> Never, vibrating |-> 0, step |-> Never,
                                queued |-> <<>>]]
    /\ local = [r \in ReaderNames |-> [wait |-> Never, batch |-> <<>>, rescanned |-> FALSE,
                                   bumped |-> FALSE, devices |-> {}]]
    /\ delivered = [r \in ReaderNames |-> <<>>]
    /\ lost = [r \in ReaderNames |-> {}]
    /\ policyConfig = 0 /\ policyDevices = {}
    /\ asking = [q \in Requesters |-> [step |-> "idle", change |-> "none"]]
    /\ holder = Nobody
    /\ vibrations = 0 /\ monitor = "idle" /\ monitors = 0

----------------------------------------------------------------------------
\* The world: the user, the hardware and the clock.

InputEvent(tap) ==
    /\ Len(log) < MaxEvents
    /\ log' = Append(log, [tap |-> tap, age |-> 0])
    /\ UNCHANGED <<pc, plugged, plugs, hub, rd, local, delivered, lost, policyConfig,
                   policyDevices, asking, holder, vibrations, monitor, monitors>>

PlugIn ==
    /\ plugs < MaxPlugs
    /\ plugs' = plugs + 1 /\ plugged' = plugged \cup {plugs + 1}
    /\ UNCHANGED <<pc, log, hub, rd, local, delivered, lost, policyConfig, policyDevices,
                   asking, holder, vibrations, monitor, monitors>>

PlugOut(d) ==
    /\ d \in plugged
    /\ plugged' = plugged \ {d}
    /\ UNCHANGED <<pc, log, plugs, hub, rd, local, delivered, lost, policyConfig, policyDevices,
                   asking, holder, vibrations, monitor, monitors>>

\* Time passes: what is due comes nearer and what has happened ages.
Tick ==
    /\ log' = [i \in DOMAIN log |-> [log[i] EXCEPT !.age = Minimum(@ + 1, TapDelay)]]
    /\ rd' = [r \in ReaderNames |-> [rd[r] EXCEPT !.next = Sooner(@), !.tap = Sooner(@), !.step = Sooner(@)]]
    /\ local' = [r \in ReaderNames |-> [local[r] EXCEPT !.wait = Sooner(@)]]
    /\ <<log, rd, local>>' # <<log, rd, local>>
    /\ UNCHANGED <<pc, plugged, plugs, hub, delivered, lost, policyConfig, policyDevices,
                   asking, holder, vibrations, monitor, monitors>>

----------------------------------------------------------------------------
\* The loop: loopOnce of reader r, step by step.

\* The order of the steps of the two nested calls.
After == [reader |-> [configure |-> <<"reader", "poll">>,
                      poll      |-> <<"reader", "process">>,
                      process   |-> <<"zizhan", "configure">>,
                      notify    |-> <<"reader", "flush">>,
                      flush     |-> <<"reader", "configure">>],
          zizhan |-> [configure |-> <<"zizhan", "poll">>,
                      poll      |-> <<"zizhan", "process">>,
                      process   |-> <<"zizhan", "notify">>,
                      notify    |-> <<"zizhan", "flush">>,
                      flush     |-> <<"reader", "notify">>]]

At(r, step) ==
    /\ pc = <<r, step>>
    /\ pc' = After[r][step]

Lockable(r) == r = "reader" => holder = Nobody

\* requestTimeoutAtTimeLocked: the state of a reader that asks for a timeout in d.
WithTimeout(s, d) == [s EXCEPT !.next = Minimum(@, d)]

\* Mutant: the devices are configured before the configuration is read.
ConfigureEarly(r) ==
    LET changes == rd[r].changes
        reopen  == "reopen" \in changes
    IN  /\ At(r, "configure") /\ Lockable(r)
        /\ IF changes # {}
             THEN /\ rd' = [rd EXCEPT ![r].changes = {}, ![r].config = policyConfig,
                                      ![r].applied = IF reopen THEN @ ELSE rd[r].config]
                  /\ hub' = [hub EXCEPT ![r].reopen = IF reopen THEN "asked" ELSE @]
                  /\ \E b \in BOOLEAN :
                       local' = [local EXCEPT ![r].wait = 0, ![r].bumped = b /\ ~reopen]
             ELSE /\ local' = [local EXCEPT ![r].wait = rd[r].next, ![r].bumped = FALSE]
                  /\ UNCHANGED <<hub, rd>>
        /\ UNCHANGED <<delivered, lost, policyDevices, monitor, outside>>

\* refreshConfigurationLocked: reopen the devices or configure them in place.
Configure(r) ==
    LET changes == rd[r].changes
        reopen  == "reopen" \in changes
    IN  /\ At(r, "configure") /\ Lockable(r)
        /\ IF changes # {}
             THEN /\ rd' = [rd EXCEPT ![r].changes = {}, ![r].config = policyConfig,
                                      ![r].applied = IF reopen THEN @ ELSE policyConfig]
                  /\ hub' = [hub EXCEPT ![r].reopen = IF reopen THEN "asked" ELSE @]
                  /\ \E b \in BOOLEAN :
                       local' = [local EXCEPT ![r].wait = 0, ![r].bumped = b /\ ~reopen]
             ELSE /\ local' = [local EXCEPT ![r].wait = rd[r].next, ![r].bumped = FALSE]
                  /\ UNCHANGED <<hub, rd>>
        /\ UNCHANGED <<delivered, lost, policyDevices, monitor, outside>>

Present   == {Keyboard} \cup plugged
Unread(r) == [i \in 1 .. Len(log) - hub[r].read |-> hub[r].read + i]

\* getEvents when the devices are to be reopened: close them all and return at once.
GetEventsReopen(r) ==
    /\ At(r, "poll") /\ hub[r].reopen = "asked"
    /\ hub' = [hub EXCEPT ![r].reopen = "closed"]
    /\ local' = [local EXCEPT ![r].batch = <<>>, ![r].rescanned = FALSE]
    /\ UNCHANGED <<rd, delivered, lost, policyDevices, monitor, outside>>

\* getEvents after that: report the devices closed and those the scan opens.
GetEventsScan(r) ==
    /\ At(r, "poll") /\ hub[r].reopen = "closed"
    /\ hub' = [hub EXCEPT ![r].reopen = "no", ![r].devices = Present,
                          ![r].read = Len(log)]
    /\ lost' = [lost EXCEPT ![r] = @ \cup ToSet(Unread(r))]
    /\ local' = [local EXCEPT ![r].batch = <<>>, ![r].rescanned = TRUE]
    /\ UNCHANGED <<rd, delivered, policyDevices, monitor, outside>>

\* getEvents waits in epoll_wait until it has something to report, was woken, or timed out.
GetEvents(r) ==
    /\ At(r, "poll") /\ hub[r].reopen = "no"
    /\ \/ Unread(r) # <<>>
       \/ hub[r].devices # Present
       \/ hub[r].wake
       \/ local[r].wait = 0
    /\ hub' = [hub EXCEPT ![r].read = Len(log), ![r].devices = Present,
                          ![r].wake = FALSE]
    /\ local' = [local EXCEPT ![r].batch = Unread(r), ![r].rescanned = FALSE]
    /\ UNCHANGED <<rd, delivered, lost, policyDevices, monitor, outside>>

\* When the last, the youngest, tap in a batch becomes a finished tap.
TapDue(batch) ==
    LET ages == { log[n].age : n \in { m \in 1 .. Len(log) : m \in ToSet(batch) /\ log[m].tap } }
    IN  IF ages = {} THEN Never ELSE TapDelay - Min(ages)

\* processEventsLocked: a removed device takes its mappers and their timers with it.
Processed(r) ==
    LET l     == local[r]
        fresh == IF l.rescanned THEN [rd[r] EXCEPT !.tap = Never, !.vibrating = 0, !.step = Never,
                                                   !.applied = rd[r].config]
                                ELSE rd[r]
        due   == TapDue(l.batch)
        done  == [fresh EXCEPT !.devices = hub[r].devices, !.queued = @ \o l.batch,
                               !.tap = IF due = Never THEN @ ELSE due]
    IN  IF due = Never THEN done ELSE WithTimeout(done, due)

\* Gesture timeouts: queue the end of the tap (item 0) or ask for the timeout again.
TapExpired(s) ==
    IF s.tap = 0 THEN [s EXCEPT !.tap = Never, !.queued = Append(@, 0)]
                 ELSE WithTimeout(s, s.tap)

\* VibratorInputMapper::nextStep.
NextStep(s) ==
    IF s.vibrating = 1
      THEN [s EXCEPT !.vibrating = 0, !.step = Never]
      ELSE WithTimeout([s EXCEPT !.vibrating = @ - 1, !.step = StepDelay], StepDelay)

\* VibratorInputMapper::timeoutExpired.
StepExpired(s) ==
    IF s.vibrating = 0 THEN s
    ELSE IF s.step = 0 THEN NextStep(s) ELSE WithTimeout(s, s.step)

\* timeoutExpiredLocked: mNextTimeout is the only timer of all mappers, who ask again.
TimeoutExpired(s) ==
    IF s.next = 0 THEN StepExpired(TapExpired([s EXCEPT !.next = Never])) ELSE s

\* The requestTimeoutAtTimeLocked calls above wake the hub of their own reader.
Rearmed(s, t) == s.next # t.next /\ t.next # Never

Process(r) ==
    LET done == Processed(r)
        s    == TimeoutExpired(done)
    IN  /\ At(r, "process") /\ Lockable(r)
        /\ rd' = [rd EXCEPT ![r] = s]
        /\ hub' = [hub EXCEPT ![r].wake = @ \/ Rearmed(rd[r], done) \/ Rearmed(done, s)]
        /\ local' = [local EXCEPT
             ![r].devices = s.devices,
             ![r].bumped = \/ @ \/ r = "zizhan"
                           \/ local[r].rescanned \/ s.devices # rd[r].devices,
             ![r].batch = <<>>, ![r].rescanned = FALSE]
        /\ monitor' = IF r = "reader" /\ monitor = "waiting" THEN "woken" ELSE monitor
        /\ UNCHANGED <<delivered, lost, policyDevices, outside>>

NotifyInputDevicesChanged(r) ==
    /\ At(r, "notify")
    /\ policyDevices' = IF local[r].bumped THEN local[r].devices ELSE policyDevices
    /\ UNCHANGED <<hub, rd, local, delivered, lost, monitor, outside>>

\* Mutant: what was flushed stays queued.
FlushKeeps(r) ==
    /\ At(r, "flush")
    /\ delivered' = [delivered EXCEPT ![r] = @ \o rd[r].queued]
    /\ UNCHANGED <<hub, rd, local, lost, policyDevices, monitor, outside>>

\* Mutant: the queue is flushed only when the devices have changed.
FlushOnChange(r) ==
    /\ At(r, "flush")
    /\ delivered' = [delivered EXCEPT ![r] = IF local[r].bumped THEN @ \o rd[r].queued ELSE @]
    /\ rd' = [rd EXCEPT ![r].queued = IF local[r].bumped THEN <<>> ELSE @]
    /\ UNCHANGED <<hub, local, lost, policyDevices, monitor, outside>>

Flush(r) ==
    /\ At(r, "flush")
    /\ delivered' = [delivered EXCEPT ![r] = @ \o rd[r].queued]
    /\ rd' = [rd EXCEPT ![r].queued = <<>>]
    /\ UNCHANGED <<hub, local, lost, policyDevices, monitor, outside>>

LoopStep(r) ==
    \/ Configure(r) \/ GetEventsReopen(r) \/ GetEventsScan(r) \/ GetEvents(r)
    \/ Process(r) \/ NotifyInputDevicesChanged(r) \/ Flush(r)

----------------------------------------------------------------------------
\* The other threads.

\* A setter of NativeInputManager: it changes the policy and releases its lock ...
ChangePolicy(q, c) ==
    /\ asking[q].step = "idle" /\ policyConfig < MaxChanges
    /\ policyConfig' = policyConfig + 1
    /\ asking' = [asking EXCEPT ![q] = [step |-> "request", change |-> c]]
    /\ UNCHANGED <<pc, log, plugged, plugs, hub, rd, local, delivered, lost, policyDevices,
                   holder, vibrations, monitor, monitors>>

\* Mutant: whether to wake is decided after the flag is set.
RequestedLate(q, r) ==
    /\ rd' = [rd EXCEPT ![r].changes = @ \cup {asking[q].change}]
    /\ hub' = [hub EXCEPT ![r].wake = @ \/ rd'[r].changes = {}]

\* ... and then calls requestRefreshConfiguration, which wakes the hub for the first change.
Requested(q, r) ==
    /\ rd' = [rd EXCEPT ![r].changes = @ \cup {asking[q].change}]
    /\ hub' = [hub EXCEPT ![r].wake = @ \/ rd[r].changes = {}]

RequestRefreshConfiguration(q) ==
    /\ asking[q].step = "request" /\ holder = Nobody
    /\ holder' = q
    /\ asking' = [asking EXCEPT ![q].step = "forward"]
    /\ Requested(q, "reader")
    /\ UNCHANGED <<pc, log, plugged, plugs, local, delivered, lost, policyConfig,
                   policyDevices, vibrations, monitor, monitors>>

ForwardRefreshConfiguration(q) ==
    /\ asking[q].step = "forward"
    /\ holder' = Nobody
    /\ asking' = [asking EXCEPT ![q] = [step |-> "idle", change |-> "none"]]
    /\ Requested(q, "zizhan")
    /\ UNCHANGED <<pc, log, plugged, plugs, local, delivered, lost, policyConfig,
                   policyDevices, vibrations, monitor, monitors>>

\* InputReader::vibrate: the keyboard's vibrator, in the first reader only.
Vibrate ==
    /\ holder = Nobody /\ vibrations < MaxVibrations
    /\ Keyboard \in rd["reader"].devices
    /\ vibrations' = vibrations + 1
    /\ LET s == WithTimeout([rd["reader"] EXCEPT !.vibrating = Steps, !.step = StepDelay],
                            StepDelay)
       IN  /\ rd' = [rd EXCEPT !["reader"] = s]
           /\ hub' = [hub EXCEPT !["reader"].wake = @ \/ Rearmed(rd["reader"], s)]
    /\ UNCHANGED <<pc, log, plugged, plugs, local, delivered, lost, policyConfig,
                   policyDevices, asking, holder, monitor, monitors>>

CancelVibrate ==
    /\ holder = Nobody /\ rd["reader"].vibrating > 0
    /\ rd' = [rd EXCEPT !["reader"].vibrating = 0, !["reader"].step = Never]
    /\ UNCHANGED <<pc, log, plugged, plugs, hub, local, delivered, lost, policyConfig,
                   policyDevices, asking, holder, vibrations, monitor, monitors>>

\* InputReader::monitor: wake the hub and wait until the loop has broadcast.
Monitor ==
    /\ monitor = "idle" /\ holder = Nobody /\ monitors < MaxMonitors
    /\ monitor' = "waiting" /\ monitors' = monitors + 1
    /\ hub' = [hub EXCEPT !["reader"].wake = TRUE]
    /\ UNCHANGED <<pc, log, plugged, plugs, rd, local, delivered, lost, policyConfig,
                   policyDevices, asking, holder, vibrations>>

MonitorReturn ==
    /\ monitor = "woken" /\ holder = Nobody
    /\ monitor' = "idle"
    /\ UNCHANGED <<pc, log, plugged, plugs, hub, rd, local, delivered, lost, policyConfig,
                   policyDevices, asking, holder, vibrations, monitors>>

----------------------------------------------------------------------------
Loop == \E r \in ReaderNames : LoopStep(r)
World ==
    \/ \E tap \in BOOLEAN : InputEvent(tap)
    \/ PlugIn \/ \E d \in plugged : PlugOut(d)
Request(q) == RequestRefreshConfiguration(q) \/ ForwardRefreshConfiguration(q)

Next ==
    \/ Loop \/ World \/ Tick
    \/ \E q \in Requesters : Request(q) \/ \E c \in Changes : ChangePolicy(q, c)
    \/ Vibrate \/ CancelVibrate \/ Monitor \/ MonitorReturn

Spec == Init /\ [][Next]_vars

\* The reader thread runs whenever it can, a thread that has called a reader goes on, and
\* time passes; nothing need ever happen in the world.
Fairness ==
    /\ WF_vars(Loop) /\ WF_vars(Tick) /\ WF_vars(MonitorReturn)
    /\ \A q \in Requesters : WF_vars(Request(q))
FairSpec == Spec /\ Fairness
----------------------------------------------------------------------------
\* Properties.

Step(r, s) == pc = <<r, s>>
\* what has passed through the hub of r: events, and 0 for the end of a tap
Passed(r)  == delivered[r] \o rd[r].queued \o local[r].batch

TypeOK ==
    /\ pc \in {<<"reader", s>> : s \in {"configure", "poll", "process", "notify", "flush"}}
          \cup {<<"zizhan", s>> : s \in {"configure", "poll", "process", "notify", "flush"}}
    /\ \A i \in 1 .. Len(log) : log[i].tap \in BOOLEAN /\ log[i].age \in 0 .. TapDelay
    /\ plugged \subseteq 1 .. plugs
    /\ \A r \in ReaderNames :
         /\ hub[r].read \in 0 .. Len(log) /\ hub[r].devices \subseteq 0 .. plugs
         /\ hub[r].reopen \in {"no", "asked", "closed"} /\ hub[r].wake \in BOOLEAN
         /\ rd[r].changes \subseteq Changes /\ rd[r].applied \in 0 .. policyConfig
         /\ {rd[r].next, rd[r].tap, rd[r].step, local[r].wait} \subseteq Delays
         /\ rd[r].vibrating \in 0 .. Steps
    /\ holder \in Requesters \cup {Nobody}

\* No event is lost, doubled or overtaken between a hub and the listener
\* (InputReader.cpp 343-407): what a reader has flushed, queued and not yet processed is
\* what its hub has read, in the order of the world.
EventsInOrder ==
    \A r \in ReaderNames :
      LET all == Passed(r)
      IN  /\ \A i, j \in 1 .. Len(all) : i < j /\ 0 \notin {all[i], all[j]} => all[i] < all[j]
          /\ (ToSet(all) \ {0}) \cup lost[r] = 1 .. hub[r].read
          /\ ToSet(all) \cap lost[r] = {}

\* The nested call catches up (InputReader.cpp 393): when the thread is back in the first
\* reader, the second has read whatever the first has, so that sleeping in the first
\* hub withholds nothing from it.
SecondCatchesUp ==
    (\E s \in {"configure", "poll", "notify", "flush"} : Step("reader", s))
      => hub["zizhan"].reopen # "no" \/ hub["reader"].read <= hub["zizhan"].read

\* All mappers of a reader share mNextTimeout, which expires as a whole (InputReader.cpp
\* 376-384, 701-706): no timer of a mapper is left without a timeout that serves it.
TimersCovered ==
    \A r \in ReaderNames :
      /\ rd[r].tap # Never => rd[r].next <= rd[r].tap
      /\ rd[r].vibrating > 0 => rd[r].next <= rd[r].step

\* No event is lost on its way through the two loops.
EventsSafe == TypeOK /\ EventsInOrder /\ SecondCatchesUp

\* A reader never sleeps in its own hub over something it was asked for in the meantime
\* (InputReader.cpp 701-706, 829-839): a change of the configuration or an earlier timeout.
NoSleepOnRequest ==
    \A r \in ReaderNames :
      Step(r, "poll") /\ (rd[r].changes # {} \/ rd[r].next < local[r].wait)
        => hub[r].wake \/ hub[r].reopen # "no" \/ local[r].wait = 0

\* No reader sleeps past what it has to do.
WakesInTime == TimersCovered /\ NoSleepOnRequest

\* A change of the configuration is never forgotten (InputReader.cpp 332-336, 829-844): as
\* long as the devices of a reader are configured with an old version, there is a flag, a
\* reopening or a thread on its way that will bring the new one.
ChangeCarried ==
    \A r \in ReaderNames :
      rd[r].applied # policyConfig
        => \/ rd[r].changes # {} \/ hub[r].reopen # "no" \/ local[r].rescanned
           \/ \E q \in Requesters : asking[q].step # "idle"

\* The policy's list (InputReader.cpp 387-398, InputReaderZizhan.cpp 358-366) is written by
\* both readers from snapshots of different age: when the thread is back in the first hub and
\* both hubs have reported all there is, the list is current.
ListCurrentAtRest ==
    /\ Step("reader", "poll")
    /\ \A r \in ReaderNames : hub[r].reopen = "no" /\ hub[r].devices = Present
    => policyDevices = Present

\* No change of the configuration or of the devices is forgotten.
ChangesSafe == ChangeCarried /\ ListCurrentAtRest

\* The second reader delivers every event (InputReaderZizhan.cpp 333-375).
SecondDelivers ==
    \A n \in 1 .. MaxEvents :
      Len(log) >= n ~> n \in ToSet(delivered["zizhan"]) \cup lost["zizhan"]

\* The first reader delivers what it has queued at the latest when the second has the next
\* event to read (InputReader.cpp 393, 407).
FirstDeliversWithNext ==
    \A n \in 1 .. MaxEvents :
      n \in ToSet(rd["reader"].queued) /\ Unread("zizhan") # <<>> ~> n \in ToSet(delivered["reader"])

\* Every change of the configuration reaches the devices of both readers.
ConfigurationSettles == <>[](\A r \in ReaderNames : rd[r].applied = policyConfig)

\* A tap is finished when its time has come, although its timeout is armed by both readers
\* and waited for in one hub at a time.  (A tap that only the first reader has seen, because
\* the second hub was still closed, ends with the next event.)
TapsEnd ==
    /\ rd["zizhan"].tap # Never ~> rd["zizhan"].tap = Never
    /\ rd["reader"].tap # Never /\ lost["zizhan"] = {} ~> rd["reader"].tap = Never

\* Events and timers reach the listener.
EventsDelivered == SecondDelivers /\ FirstDeliversWithNext /\ TapsEnd

\* "Called by the heatbeat to ensures that the reader has not deadlocked."
\* (InputReaderBaseZizhan.h:61): a reader that has not answers.
MonitorReturns == monitor = "waiting" ~> monitor = "idle"

----------------------------------------------------------------------------
\* Three more promises the code does not keep (see the README); no run checks these.

\* "Flush queued events out to the listener." (InputReader.cpp:400)
FirstDelivers ==
    \A n \in 1 .. MaxEvents :
      Len(log) >= n ~> n \in ToSet(delivered["reader"]) \cup lost["reader"]

\* A vibration ends without further input (VibratorInputMapper, InputReader.cpp 2222-2262).
VibrationEnds == rd["reader"].vibrating > 0 ~> rd["reader"].vibrating = 0

\* "information about all current input devices" (InputReaderBaseZizhan.h:336-337): when
\* nothing is plugged any more, the policy's list becomes current.
DeviceListSettles == <>[](policyDevices = Present)
=============================================================================
