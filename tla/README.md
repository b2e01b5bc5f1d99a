# Verification of the zizhan input and display stack

The repository (`src/osdi-artifact/source-code`) holds the files of an AOSP 10 /
Linux 4.x tree for an RK3399 board that were changed to give a native process its
own window, input and display path beside Android's: a kernel driver that
dispatches input events to *zizhan windows*, a second input reader that runs inside
the first, a canvas lock that shows its buffer on a plane of its own, and the
surrounding files (BufferQueue, SurfaceFlinger, HWC2, DRM, mmap) those changes touch.
There are no tests. This project models the code in TLA+, checks small instances with
TLC and proves the central invariants with TLAPS for all instances.

File names below are relative to `src/osdi-artifact/source-code/`.

## 1. Inventory

| Part | Files | State | Operations | Hard behaviour | Modules |
|---|---|---|---|---|---|
| zizhan window driver | `window.c` `dispatcher.c` `zizhan.c` `input-compat.c` `window.h` `screen_zizhan.h` | the window list, its spinlock, the shared event queue, one event slot per window | `add/set/get/del_window`, `zizhan_write`, `dispatch_once` | the dispatcher walks the list without the lock; every reader of a device dispatches whichever event is at the head; weakly ordered stores | `WindowDispatch` |
| buffer queue producer | `BufferQueueProducer.cpp` | slot lists and states, mode flags, the item queue, callback tickets | dequeue, request, queue, cancel, attach, detach, connect, disconnect, the mode setters, `allocateBuffers` | the mutex is dropped to sleep, to allocate and to call back; death notifications; consumer abandonment | `BufferQueueCore` `BufferQueue` |
| input reader thread | `InputReader.cpp` `InputReaderZizhan.cpp` `EventHubZizhan.cpp` | two readers with a hub, a device list, one timeout and a queue each | `loopOnce` (twice, nested), `requestRefreshConfiguration`, `vibrate`, `monitor` | one thread sleeps in two hubs in turn; wake-ups go to one of them | `InputReaders` |
| event hub | `EventHubZizhan.cpp/.h` | devices, opening and closing lists, pending epoll items | `getEvents`, open, close, enable, disable, wake | lock dropped in `epoll_wait`; the capacity of the caller's buffer; nodes that come and go | `EventHub` |
| devices and mappers | `InputReader*.cpp/.h` | key downs, modifiers, slots and contacts, raw states that wait, gestures, the fitting to a display | `process`, `configure`, `reset`, `timeoutExpired` | buffer overruns, frames that wait, state kept across `reset`, displays that turn | `InputDevices` `TouchMapper` `PointerGestures` `TouchSurface` |
| input policy, JNI | `com_android_server_input_InputManagerService.cpp` (`LibInputManager.cpp` is the same file but for its licence) | settings, viewports, pointer controller, channels | setters, callbacks from the reader, registration | stored under a lock, passed on outside it | `InputPolicy` `InputChannels` |
| DRM device registration | `drm_drv.c` | minors, reference counts, the unplugged flag | alloc, register, acquire, release, unplug, get by name | lookup races removal; a reference leak | `DrmDevices` |
| virtual memory areas | `mmap.c` `mm_types.h` `sched.h` | the sorted list of areas, counters and limits | `brk`, `mmap`, `munmap`, `remap_file_pages`, the loader's mappings, exit, merge, split, stack growth, `mm_take_all_locks` | boundaries, partial failure, locking of shared maps | `VirtualAreas` `AddressSpace` `AllLocks` `WholeSpaceLock` |
| SurfaceFlinger | `SurfaceFlinger.cpp` | transaction flags and queues, layers, displays, power modes, configurations | transactions, message handlers, hotplug, screenshots, power and configuration changes | synchronous calls wait for the main thread; flags are set and taken apart from the data | `Transactions` `FrameLoop` `Displays` `PowerModes` `ActiveConfig` |
| composer wrapper and client | `HWC2Zizhan.*` `HWC2.h` `ComposerHalZizhan.*` | remembered layer values, the command writer, answers with fences | validate, present, accept, take fences | a failed batch drops commands of other displays | `ComposerCommands` |
| GLES render engine | `GLESRenderEngine.cpp` | image caches, framebuffers, GL state, textures | `drawLayers`, cache, bind, unbind | images are made by another thread; state left by one layer for the next | `RenderEngine` |
| canvas lock, direct display | `android_view_Surface.cpp` `zizhan_buffer.*` `kms.*` `Surface.h` | references of Java surfaces, the DRM file, the plane | `nativeLockCanvas`, `drm_display_zizhan`, `nativeUnlockCanvasAndPost` | resources on the failure exits | `CanvasDisplay` |
| test patterns, pixel formats | `pattern.*` `format.*` | none | fill a buffer | strides, subsampling, odd sizes | `TestPatterns` |
| vertical blank | `vsync.*` `drm_vblank.h` | one device pointer | `dispatch_vsync` | probing code whose callers are not in the tree | not modelled |
| build and configuration | `Android.bp` `Makefile` `syscall.tbl` ... | none | none | none | not modelled |

How they interact. The kernel hook in `input_event_to_user` runs the driver for every
event that *any* process reads from an evdev node; both event hubs open the same nodes,
so each event passes through the driver twice. `InputReader::loopOnce`
calls `InputReaderZizhan::loopOnce` between processing its own events and flushing them.
The policy's setters call `requestRefreshConfiguration` of the first reader, which
forwards to the second with its own lock held. A BufferQueue connects the renderer's
threads (`nativeLockCanvas` dequeues and locks a buffer) to SurfaceFlinger, whose
listener is called back without the queue's mutex. SurfaceFlinger's main thread draws through
the render engine and presents through the composer's command queue.

What makes each part correct, in one line each: the driver delivers every event to every
window on top, once, without a lock in the read path; the buffer queue gives a slot to one owner at a
time, tells the consumer of the frames in order and lets nobody sleep beside a buffer; the readers lose,
double and withhold no event, timer or request; what the listener is told of keys and fingers can be told back;
SurfaceFlinger forgets no change and leaves no caller waiting; an address space stays what the calls asked for.
The list `hazards` in `PROJECT.json` gives the lines at which each of these could go wrong and the property
that watches it.

## 2. Modules

### WindowDispatch

One action per step that another thread can observe. A reader goes
`idle` → `ZizhanWrite` (enqueue, `input-compat.c:99`) → `Dequeue` (the head of the queue,
whoever enqueued it) → a walk of `PolicyRejects` / `PolicyAccepts`, `Deliver`, `MemcpyDone`
per window → `WalkEnd` → `CopyToUser`. A caller takes `window_list_lock` and runs
`AddWindow`, `SetWindow`, `GetWindow` or `DelWindow`. These do not write the list: they issue
a *set of stores*, `Commit` lets any of them reach memory, and `UnlockShare` needs all of
them there. This is what a lock-free walker can see on ARMv8, where `list_add` has no
barrier that would order a node's members before the pointer to it.
`DelWindow` of a registered pid never returns: `list_for_each_entry` advances through the
pointer `list_del` has poisoned, and the thread dies holding the spinlock. `mem` keeps for each
event buffer which events its bytes belong to, so a torn buffer is one with two.
The queue of `zizhan_data` and the bodies of the system calls are not in the tree; the
queue is taken from its two uses as a FIFO. The list has no definition by recursion: what a walk from
a pointer can still meet is `Ahead`, the least set closed under `next`, and the linked windows are what is ahead of
the head.

### BufferQueueCore, BufferQueue

Everything under `mCore->mMutex` is one record `core`; `BufferQueueCore` has the operators on
it (from files that are not in the tree, marked external and modelled from their use). Each lock scope of
`BufferQueueProducer.cpp` is an action, and `pc[p]` says where a thread is when the mutex is free in the middle of a call:
waiting for an allocation, for a slot (with and without timeout), allocating, on
its way to the callback, in the loop of `allocateBuffers`. `ConsumerNotify`,
`AcquireBuffer`, `ReleaseBuffer`, `Abandon` and `SetDefaultBufferSize` are the consumer.
`claims` records assertions of the code that have failed: `VALIDATE_CONSISTENCY`,
the buffer of a slot being there, the death notification belonging to the connection.
Fences, frame timestamps, the generation number, auto refresh and the sideband stream are
left out: nothing the properties speak of depends on them.

### InputReaders

`pc` is the place of the one reader thread in the two nested calls: `configure`, `poll`,
`process` of the first, all five steps of the second, then `notify` and `flush` of the first. A section
under a reader's `mLock` is one action; `requestRefreshConfiguration` keeps the first lock
over two (`holder`), because it takes the second reader's lock inside. Time is
counted down: `Tick` moves every delay one unit towards 0, and `Never` is an unset timeout.
Mappers are reduced to what the loop depends on: the tap timer of a touchpad, the steps of a
vibration, and the number of the events they have queued. `lost` holds the events that come
while a hub has its devices closed for reopening: those are dropped by design.

### The other modules

| Module | One action is | Left out |
|---|---|---|
| `EventHub` | a piece of a round of `getEvents` between two points where the kernel can be observed: reports, one pending item, the inotify read, the poll; opening and closing are operators that a scan folds over the nodes | key maps, LEDs, the vibrator, video devices |
| `InputDevices` | a raw event, a reset, a configuration of one device with keyboard, cursor, switch or joystick mappers, overruns and disablings at any moment, and on a box the remote's mouse mode; histories say which keys an overrun nobody noticed left behind (`missed`) and which were held while the mouse mode changed (`torn`) | key codes beyond the ones that differ in treatment |
| `TouchMapper` | an evdev frame, a sync, a timeout, a cancellation; raw states, cooked states, virtual keys, ids | pressure, size, orientation; places lie on a line |
| `PointerGestures` | a cooked frame of a touch pad or a timeout; the mode of the gesture and what is told | speeds and distances: whether a threshold is passed is a choice |
| `TouchSurface` | a configuration of a touch device, or a touch; exact coordinates | the affine matrix's numbers |
| `InputPolicy`, `InputChannels` | a stretch of a call under the policy's lock, a message of the reader or the looper | Java callbacks' verdicts |
| `Transactions` | a stretch under `mStateLock` of a binder or the main thread | which fields a layer has |
| `FrameLoop` | a message of the main thread; regions are sets of cells | colour, layer trees |
| `Displays` `PowerModes` `ActiveConfig` | a call or message that touches those tables; histories say which displays were made again with a surface (`remade`), whose vsync flag another one cleared (`misled`) and which wish was erased (`unseen`) | virtual displays' sizes, boot |
| `ComposerCommands` | a call of the wrapper, with the whole of `Composer::execute` and its ways to fail | commands that only pass a value |
| `RenderEngine` | a cache call, a step of the image thread, the clearing of a frame, the binding and the drawing of one layer with the state it leaves; which conversions of colour a layer gets | the numbers in shaders and matrices; the Rockchip conversion of NV12_10 buffers, protected contexts, `FlushTracer` |
| `CanvasDisplay` | a native call, or a step of `drm_display_zizhan` | connector and plane properties |
| `TestPatterns` | a line of a pattern, with the bytes it writes in every format from the plane pointers `bo_create` computes; the call itself is commented out (`zizhan_buffer.cpp:319`) | the values of the colours |
| `DrmDevices` | a stretch under `drm_minor_lock`, or between two looks of another thread | pseudo file system |
| `VirtualAreas` | a system call under `mmap_sem` as an operator on the set of areas; `AddressSpace` is its page-wise abstract specification; a fault, `mprotect` and the end of the process too | page tables, `copy_vma` and `mremap` |
| `AllLocks` | the taking or release of one lock of `mm_take_all_locks`; `WholeSpaceLock` is its abstract specification | lockdep |

Compositions. Modules whose code shares no state are run side by side: `MCPlatform`, `MCGraphics`, `MCDevices`,
`MCReadPath` and `MCInputReaders` have a variable `part`, chosen in the first state, that says which of
their instances a behaviour belongs to; a property then speaks of its own part. This loses nothing, because
the parts do not share a variable, and keeps one run per group of components.

`Mutant:` comments mark faulty variants of the definition below them; no specification uses them. They show
that each property notices the mistake it is meant for.

## 3. Runs

| Run | Instance | Properties | Shows |
|---|---|---|---|
| `window_two_readers` | 2 readers, 2 callers, 2 nodes, 2 events, symmetry; a history (`alone`) of the walks that met no other | `EventsInHand` (`QueueBalance`, `EventsAccounted`), `RegistrationsKept`, `AloneShown`, `WindowSafe` (`TypeOK`, `WalkComplete`, `ListConsistent`) | readers dispatch each other's events without losing one; no registration undoes another; a walk that no other one overlaps shows what it dispatched and nothing else; the unlocked walk misses no window that stays on top; after any locked section the list is whole |
| `read_path` | 1 reader and 2 callers of the driver, or the reader thread with both hubs, 1 requester, 1 change and 2 events; fairness | `DeadHolderFreezesList`, `ReadReturns`, `EventsDelivered` (`SecondDelivers`, `FirstDeliversWithNext`, `TapsEnd`), `ConfigurationSettles` | a caller that dies in `del_window` freezes the list and yet no read hangs; what the nested loop delivers, and that it is all it promises for the first reader |
| `bq_two_dequeuers` | 2 threads, 2 frames, all frame and attach calls, count, async and timeout changes, symmetry | `SlotsSafe` (`ValidatedConsistency`, `OneHolder`, `SlotAccounting`), `CallbacksInTurn` (`CallbackOrder`, `TurnHasOwner`), `NoSleepBesideSlot` | the slot lists stay a partition whose size follows the modes, nobody holds another's slot, callbacks come in frame order, nobody sleeps beside a slot |
| `bq_disconnect` | the application owns both ends; one thread makes frames, another disconnects, reconnects, detaches; producer death, abandonment | `QueueSafe` (`TypeOK`, `QueuedItemsValid`, `QueueInOrder`), `HandsSafe` (`HeldSlotsDequeued`, `AllocatingFlag`) | stale items, replaced items and freed slots stay apart at every moment of a frame |
| `bq_shared` | the application owns both ends; shared mode on and off, two sizes | `SharedSafe` (`OneOwner`, `QueuedItemsValid`) | only the shared slot has several owners, and what is queued is valid while a slot is dequeued, queued and acquired at once |
| `bq_advance` | one thread makes frames, another allocates in advance or forbids it; two sizes, a changing default size, allocations that fail | `HeldSlotsDequeued` | preallocation never hits a slot, or the buffer of one, that was taken meanwhile |
| `input_safety` | part `events`: 2 events, timers of both kinds, one thread that asks for a change; part `changes`: 2 requesters, 2 changes, 2 plugs, a monitor | `EventsSafe` (`TypeOK`, `EventsInOrder`, `SecondCatchesUp`), `WakesInTime` (`TimersCovered`, `NoSleepOnRequest`), `ChangesSafe` (`ChangeCarried`, `ListCurrentAtRest`) | exactly-once and ordered through both pipelines; one timeout serves all mappers; no request is slept over; no change is forgotten |
| `hub_calls` | 2 nodes, one plug, one burst, refusals by epoll, 1 request; fairness; deadlock checked | `HubStory` (`DeviceStory`, `WatchedAreOpen`, `ControllersCounted`), `HubServes` (`PluggedIsAdded`, `WakeReturns`) | the client's view of devices makes sense, the watched are the open ones, every node and wake is served |
| `devices` | one of six parts: `touch`, `keys`, `pad`, `fit`, `policy`, `channel` | `KeysSafe`, `ScreenSafe`, `GesturesSafe`, `SurfaceSafe`, `PolicyKept`, `ContactsKept` | what was told down is told up with the code it went down with; contacts keep their ids, tracked or matched by place; a touch lands where the display shows it; the reader's configuration follows the service's calls; each but for what section 4 lists |
| `sf_transactions` | 2 clients, 4 kinds of transaction, 3 transactions, 1 time-out; fairness | `TransactionsSafe` (`TypeOK`, `NothingForgotten`, `ClientOrder`, `InputAnswered`), `SyncSeen`, `ClientReturns` | no flag, queue or change waits without a wake-up; a synchronous transaction is drawn when it returns; every call returns |
| `graphics` | one of four parts: `frames`, `config`, `canvas` (2 surfaces), `buffers` (2 threads of a queue that also allocate in advance); fairness | `PicturesSafe`, `CallsReturn`, `ChangesShown`, `WaitersServed` (`CallbackReturns`, `WaiterServed`, `AllocationWaitEnds`) | screenshots and displays show whole frames; every capture and lock ends, and every wish for a refresh rate that is not erased unseen takes effect; no lost ticket, lost wake-up or mutual wait in the queue |
| `platform` | one of nine parts: `areas` (8 pages, 3 calls), `devices` (2 DRM devices, 2 threads), `locks` (3 tasks, 2 walkers, 2 files, 2 roots), `displays`, `power` (2 displays), `canvas` (3 surfaces, 2 files), `commands` (2 displays with 2 layers), `render`, `pattern` | `KernelSafe` (`AreasSafe`, `DevicesSafe`, `SomebodyMoves`), `LocksSafe`, `DisplayStateSafe`, `CanvasSafe`, `DrawingSafe` (`CommandsSafe`, `RenderSafe`, `ColoursArrive`, `PatternsSafe`), `AreasKept` (`MapsAsAsked`, `GapKept`), `TakenAsOne` | the areas refine the page-wise address space; a released device has no user; locking a whole space is safe, is one lock, and never blocks everybody; display objects are used while they live; what is locked stays with who locked it; fences are closed once; each layer is drawn with its own image and leaves no state behind; a display that is off gives no vsyncs; a pattern paints every pixel, and its luma and packed lines stay in the buffer, but for what section 4 lists |

Bounds. The window runs need two windows (one linked before, one after) and two events (one in
the queue for each reader); one pid and one buffer make windows collide, which is the
interesting case; two callers can only race for the lock, so that a third would add nothing. The dying holder and the liveness of a read need one reader
only, so `read_path` has one; what two readers do to each other is `window_two_readers`'. In the buffer queue three slots allow one acquired
buffer beside two dequeued ones, or beside one and the extra buffer of the asynchronous modes, two frames let one overtake or replace the other, two connections
let items go stale, and `MaxDequeues` caps only the otherwise unbounded dequeues
of the shared slot. Two buffer sizes are used where reallocation matters (`bq_shared`, `bq_advance`), one where only ownership does. In the
reader, delays of one tick distinguish expired, armed and unset; two events distinguish the
last from the next; `Steps = 2` gives a step in the middle and a last one. Eight pages hold a stack with its guard, a break, and two areas that
may merge with a third between them; three calls build, split and remove, and the loader's special mapping comes before them. Three tasks are the fewest among which
two wait for a lock in different orders while a third holds it. The parts of the composed runs name their instances
in the head comments of `MCDevices`, `MCGraphics` and `MCPlatform`. History counters (`connections`, `plugs`, `vibrations`,
`monitors`, `calls`, `count`) are bounded in the guards of the actions that increase them.

Deadlock checking is on in `hub_calls` only: elsewhere the threads may stop calling, and the bounds end every behaviour.

Fairness. Kernel code, binder threads and loop threads run whenever they are able to, so they have
weak fairness, `WF` of a whole thread's step and not of each action. A call that has begun goes on;
nobody is obliged to begin one, to press a key, or to let a wait time out. The consumer
acquires and releases, because SurfaceFlinger does so at each vertical blank, and the vertical blank comes. The part `buffers` of
`graphics` has no allocation failures: with them, weak fairness
does not give the dequeuer its turn (hazard at line 1443). In `EventHub`, `epoll_wait` returns when something stays ready. Time passes
(`Tick`, `TimeComes`, `TimePasses`).

## 4. What does not hold

No run is expected to fail. These were met while modelling; each can be reproduced by checking the named
definition in the named module, with the constants of its run changed as said.

Buffer queue (`BufferQueueProducer.cpp`):

* `NoParallelAllocation`, with two dequeuers: `dequeueBuffer` checks for an allocation once per call and may then sleep for a
  slot; two threads then allocate at once, and the first to finish clears `mIsAllocating` for both.
  `HandsSafe` fails from the same cause when `allocateBuffers`, `disconnect` and a dequeue run together.
* `ValidatedConsistency` with `MayFail` (545): a failed allocation puts its slot into `mFreeSlots` and leaves it in
  `mActiveBuffers`. `OneHolder` fails from it when somebody also disconnects and sets the dequeue count or the mode.
* `StillConnected` in `bq_disconnect` (1638): a late death notification disconnects the next connection.
* `ReturnedSlotHasBuffer` with three threads in shared mode, two that dequeue and one that calls `allowAllocation`
  (446): a slot is returned whose buffer is still being allocated.
* `NoSleepBesideSlot` when two dequeuers may also call `allowAllocation`: the call frees a choice for the sleeper and wakes nobody.
* `QueuedItemsValid` when a slot dequeued in shared mode is detached after the mode has ended: the item it was queued
  with stays in the queue.
* `SlotAccounting` with `ControlledByApp`, where the count reaches the number of slots: `setMaxDequeuedBufferCount`
  (171) adds the difference of the counts asked for, while the number in use is capped.

Input:

* `MonitorReturns`: `monitor` wakes the first hub while the thread may be asleep in the second.
* `FirstDelivers` (`InputReader.cpp:393`): the last event waits in the first reader's queue for the next one.
* `VibrationEnds` (`InputReader.cpp:2258`): the timeout of a vibration is not waited for in the second hub.
* `DeviceListSettles` (`InputReader.cpp:397`): an older device list overwrites a newer one.
  (These four under `FairSpec` of `InputReaders`, each with the one bound it needs above zero.)
* `ResultFits` of `EventHub` with a small `BufferSize`: the capacity passes zero in the report of devices and wraps.
* `HubStory` with `BufferSize = 3`, `MaxBursts = 2` and `BurstSizes = {3}` (`EventHubZizhan.cpp:911`): a full buffer ends a call with an item of
  the last poll left over. The hub is reopened and scanned, and the report of what was opened stops for want of room. The old item is then
  matched, by a descriptor's number that is used again, to a device the client has not been told of, and its input is reported.
* Order in a window's slot (`dispatcher.c:50`): both hubs read each node, each of the two threads dispatches whichever event is at the head and copies it
  without a lock, so that an older event can replace a newer one and two copies can mix. `AloneShown` claims only what is left, for a walk that no other one
  overlaps.
* A second overrun, or a disabling, while the rest of a packet is still being dropped is swallowed (`InputReader.cpp:1213-1224`): keys that changed with it stay as
  they were. `KeysSafe` fails without its exemption of `missed` devices.
* A key held while the remote's mouse mode changes (`InputReader.cpp:2473-2483`, `2555-2565`) goes down as one code and up as another, or not at all; `torn` in `KeysSafe`.
* `PendingWaited` without `missed` (`InputReaderZizhan.cpp:4953`): states that wait for a stylus are forgotten when it leaves, or when the device is disabled as the
  timeout passes, until the next touch.
* `StillIdsKept` while states wait (`InputReaderZizhan.cpp:4655-4679`): `sync` grows the vector and goes on with a pointer to its old last element, so
  that contacts without tracking ids are matched with freed memory and can swap ids.
* `FingerWhereShown` with black bars of different widths on the two sides of an axis: the surface is placed as if they were even; the property is stated for even bars.

Graphics and kernel:

* `TraversalFollows` (`Transactions`, `SurfaceFlinger.cpp:3907`): a transaction flushed on the main thread leaves the traversal to "this frame", but the
  frame it is kept for need not be followed by one.
* `WishKept` and `WishTakesEffect` (`ActiveConfig`) without `unseen`: "Worst case we set the desired config twice" (`SurfaceFlinger.cpp:929`) is not the worst: a
  wish written down between the copy (997) and `desiredActiveConfigChangeDone` (1029) is marked as done and never tried.
* `OffMeansNoVsync`, `VsyncWanted` and `FlagIsTrue` (`PowerModes`) without `misled`: `mHWCVsyncState` is one flag for all displays (4547). Another display that is turned
  off clears it (4606); turning the internal one off then calls nothing, and its vsyncs go on.
* `ObjectsUsed` (`Displays`) without `remade`: nothing stops a client from giving a physical display a surface (3962-3967). It is then disconnected and added
  again (2768-2780, 2846), and the composer's object that went with the first is gone. What `HWComposer` does with the id then is not in the tree; the model keeps it.
* `EachIsCurrent` (`FrameLoop`): of several displays that the composer does not drive, only the one looked at first is brought up to date by a frame
  whose dirty region the others need as well.
* `EntireBufferCleared` (`RenderEngine`, `GLESRenderEngine.cpp:1128` "clear the entire buffer"): a rounded layer lower than its two
  radii leaves its scissor on, and the next frame is cleared inside it only.
* `RegionFilledSharply` (`RenderEngine`): the region under the device's layers is filled with the corner radius of the last layer
  of the frame before.
* `LumaInside` (`TestPatterns`) for chroma: the chroma planes are `(struct bo *)virtual_bo + offsets[i]` (`zizhan_buffer.cpp:255`, `271`, `272`), so that their offsets count in
  `sizeof(struct bo)` and the chroma lies outside the buffer. The test cards in RGB formats overrun it (`pattern.cpp:318`, `380`, `442`), and a packed YUV line of odd width ends half a
  pair behind its width. Nobody calls the patterns (`zizhan_buffer.cpp:319` is a comment).
* `SentIsHeld` (`ComposerCommands`, `ComposerHalZizhan.cpp:841`) without `lost`: a batch that fails is dropped with what it was to set, and the layers remember it as sent.
* `AllReleased` (`DrmDevices`, `drm_drv.c:229` "so you must release this object with drm_minor_release()"): `drm_device_get_by_name`
  keeps the references of the devices it passes over.
* `CommittedIsMapped` (`VirtualAreas`) with `DriverFails`: a driver's failing `mmap` leaves its charge.

## 5. Theorems

For every value of the constants, from the assumptions the modules name and, where a hypothesis is given, under it.
`PROJECT.json` lists them with what each says; here is why each holds.

**`WindowDispatchProofs`** (`WindowDispatch`).
* `DeadHolderFreezes`: with the types of `pc`, `lock` and `stores`, that only the holder of the lock has stores under way (`StoresUnderLock`) is inductive
  (`LockInv`). Frame lemmas show that readers touch neither and that a caller touches no other thread; then any step of another caller
  needs the lock or is idle, and a dead holder only commits its own stores.
* `EventsStayInHand`: each enqueue adds one reader to those in `dispatch` and each dequeue removes one, so `QueueInv`
  compares cardinalities, since who dequeues is not who enqueued. `EventInv` adds that the queue together with what was dispatched
  is what was read, counted per event.
* `WindowsAlwaysSafe`: `WindowInv` adds `ListInv` and `WalkInv`. While a caller's stores reach memory one by one, memory holds no
  list. `ListInv` is therefore about `SettledOf`, the pointers that memory will hold when all are there: that is one circular list, and the stores
  that are left are those of one `list_add` or one `list_del`. `WalkInv` is about memory as it is: from where a walk stands it still meets every
  window it owes a delivery, or it stands before a poisoned pointer and faults. That each commit keeps both is a matter of the least sets
  `Ahead` (`ExtendedAhead`, `CutAhead`, `CutUnseenAhead`, `SkipAhead`, for the four ways one store changes a pointer).
* `RegistrationsAlwaysKept`: `KeptInv` says of the same settled list that it has every allocated window, unless somebody died with the lock. A section begins with the list
  settled, since it has the lock; `LinkSettles` gives what the two stores of `list_add` come to, and a commit changes memory but not what it settles to.

**`BufferQueueProofs`** (`BufferQueue`).
* `CallbacksAlwaysInTurn`: `TicketInv` says that tickets and frame numbers are drawn together and that two pending threads hold
  different tickets; every other action leaves both alone (`Elsewhere`).
* `NobodySleepsBesideASlot`, under `Waking` (the consumer is not the application, no allocation fails, nobody calls `allowAllocation` or
  `setSharedBufferMode`): `WaitInv` is that with a sleeper both free lists are empty or the queue holds too many buffers, that every list, item and
  hand holds slots, and the modes that `Waking` fixes. Each hypothesis excludes a call that changes what a sleeper could have and wakes nobody (section 4).

**`SlotsProofs`** (`BufferQueue`). One invariant, `SlotsInv`: the types (`VarsInv`); `CoreInv`, which places each slot in one list and one state, makes the queue agree with the
slots, and keeps a slot in one thread's hands; `FlagInv` for `mIsAllocating`; `ClaimsInv` for `VALIDATE_CONSISTENCY`; `CountInv` for the number in use. Every operator on `core` has a lemma, every action one that
applies them. `HandedOutSlotsStay` and `QueueAlwaysSafe` need `Separate`; `HandsAlwaysSafe` also needs one allocating thread and no failing allocation, `SlotsAlwaysSafe` no failing
allocation, a consumer other than the application and one that stays. `Separate` is: no `setSharedBufferMode`, since a shared slot is in several states at once; and either nobody disconnects, or one thread
allocates and allocations succeed, since a disconnect waits on `mIsAllocating`, which one of two allocating threads clears for both.

**`InputReadersProofs`** (`InputReaders`).
* `AlwaysWakesInTime`: `TimeoutInv`, every running timer is served by its reader's timeout (and a vibrating device *has* a timer), a reader in
  its poll is attentive. Lemmas on `Sooner` and `Minimum` show that the clock keeps the order of delays.
* `EventsAlwaysSafe`: `EventsInv` says of each reader where each event it has read is (`Stories`), in the order it came, and in which steps of the thread the second is ahead
  (`CaughtUp`).
* `ChangesAlwaysSafe`: `ChangesInv` follows each change from `requestRefreshConfiguration` through both readers (`Carried`), and the list of devices that both report
  (`Reported`).

**`EventHubProofs`** (`EventHub`). `HubStoryKept`, under `ScanFits`: whatever a scan has to report (what was closed, one device for each node, the end of
the scan) fits into the buffer. Without it the property is false (section 4); the code's callers pass 256 events, and every state of `hub_calls`
satisfies it. `HubInv` speaks of the hub as a record, so that each part is shown once for each operator that opens or closes a device, and then, by
induction over the naturals, for a scan, an inotify read or a reopening that applies it to one node after the other:
`Descriptors` (an open descriptor is one device's, and watched while in use), `Numbers`, `Lists` (a device waits once to be reported) and `Told`. `Told` rests
on a set that opening and closing leave as it is, `ShouldKnow`: the devices that do not wait in `mOpeningDevices`, and those that wait in
`mClosingDevices`. Only a report changes it, in step with what the client hears. `CallOK` says at each place in `getEvents` what may still wait, so that no item
of a poll is left while a device waits to be reported opened.

**`TransactionsProofs`** (`Transactions`). `AlwaysTransactionsSafe` and `SyncIsSeen`, from `TransactionsInv`: the queues are in order and each transaction is in one place
(`QueuesInOrder`, `Placed`), a client that waits has something that will wake it (`Waiting`, `Noted`), whoever sleeps leaves no flag (`Awake`), what one token brought is
applied in order (`ClientOrder`), and the same for the input windows and for synchronous calls (`InputInv`, `SyncInv`).

**`AllLocksProofs`** (`AllLocks`). `AllLocksSafe`, from `LocksInv`: what the walk that takes the locks has behind it is locked with its bit set and by it, what the walk that releases has
behind it is free, whatever areas share. `LocksTakenAsOne`: with the owner read off the walks, each step is a step of `WholeSpaceLock` or a stutter.

`NaturalLemmas` has induction over the naturals for sets (`LeastNatural`, `SetInduction`), the form in which the others use it for recursive functions.

Left to TLC:
* liveness (fairness), `SomebodyMoves` (it says what is `ENABLED`);
* `SharedSafe`: a shared slot is in several states and may be queued many times, so the counting that `CoreInv` does by places does not carry over;
* the devices, `FrameLoop` and the other parts of `graphics` and `platform`: their behaviour is mostly in pure functions that TLC compares with a reference definition over all small inputs.

## 6. Not modelled, and why

Fences, timestamps and other values no property tells apart; what `drm_display_zizhan` does after a NULL plane (`android_view_Surface.cpp:367-374`) or in its `memcpy` (458) once it has crashed;
`cancelBuffer` and `detachBuffer` of a shared slot; logging; the numbers in shaders, matrices and colours; `zizhan_dump` and
`input_event_from_user`; the vertical blank probes, whose callers are not in the tree; in the render engine the Rockchip conversion of NV12_10 buffers,
protected contexts and `FlushTracer`; in the memory code `copy_vma` and `mremap`, which move areas with their page tables; build
files. `toggleCapsLockState`, which touches the devices without the reader's lock (a data race
on a vector), is listed as a hazard and not modelled. `LibInputManager.cpp` is the text of the JNI file, modelled there once.

## 7. What comes next

The rotary encoder, the vibrator's patterns and the velocity control of the mappers; the mount of `SurfaceFlinger`'s colour modes; a proof of `SharedSafe` from an invariant that counts
the shared slot's states; proofs of the canvas and of the DRM devices' references from the two properties TLC checks.
