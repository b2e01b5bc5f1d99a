----------------------------- MODULE MCPlatform -----------------------------
(* What the services stand on: the kernel, the tables of displays, the        *)
(* composer's command queue, the drawing and the direct display of a window.  *)
(* The parts share no variable: a behaviour picks one, the others stand still.*)
(*   areas:    the virtual memory of one process of eight pages               *)
(*   devices:  two DRM devices and two threads that look their minors up      *)
(*   locks:    three tasks lock their areas whole, which share two files and  *)
(*             two anonymous roots, met in other orders and more than once    *)
(*   displays: an external and a virtual display come and go                  *)
(*   power:    the modes of two displays and the vsyncs of the internal one   *)
(*   canvas:   two Java surfaces that share one DRM device                    *)
(*   commands: two displays with a layer each, through the command queue      *)
(*   render:   two frames, each of up to two of four kinds of layer           *)
(*   pattern:  every format and pattern, a few sizes                          *)
EXTENDS AllLocks

VARIABLES
    part,
    mm, topdown, call, calls,
    minors, dev, drv, registration, thread, leaked, lookups,
    events, needed, current, drawing, devices, objects, remade, told, plugged, alive, count,
    power, vsyncState, vsyncPending, hardware, misled, scheduler, control, posts,
    refs, feeds, native, locked, shows, buffer, show, fds, master,
    commands, hwc, data, open, caller, lost, composerCalls,
    state, imageQueue, worker, images, textures, framebuffers, targets, draw, gl, painted, clipped,
    frames,
    picture, phase, line, at, written, bars

Memory == INSTANCE VirtualAreas WITH
    Top <- 8, MinAddr <- 1, Base <- 6, Guard <- 1, MaxMapCount <- 4, AsLimit <- 7, DataLimit <- 6,
    LockLimit <- 2, StackLimit <- 2, CommitLimit <- 6, Files <- {"f"}, Places <- {4},
    Lengths <- {1, 2}, MayFail <- TRUE, DriverFails <- FALSE, MaxCalls <- 3

Drm == INSTANCE DrmDevices WITH
    mutex <- registration, calls <- lookups, Devices <- {"card", "gpu"}, HasRender <- {"gpu"},
    Threads <- {"a", "b"}, Range64 <- 2, MaxCalls <- 2

Extent(file, huge, roots) == [file |-> file, huge |-> huge, roots |-> roots]
TaskAreas ==
    [t1 |-> <<Extent("f1", FALSE, {"r1", "r2"}), Extent("f2", TRUE, {}), Extent("f1", FALSE, {"r1"})>>,
     t2 |-> <<Extent("none", FALSE, {"r2"}), Extent("f1", FALSE, {}), Extent("f2", TRUE, {"r1"})>>,
     t3 |-> <<Extent("none", FALSE, {"r1"}), Extent("none", FALSE, {"r1", "r2"})>>]

Hotplug == INSTANCE Displays WITH
    Physical <- {"internal", "hdmi"}, Internal <- "internal", Virtual <- {"cast"},
    Surfaces <- {"s1", "s2"}, HwcVirtual <- TRUE, MaxEvents <- 3, MaxChanges <- 3
Power == INSTANCE PowerModes WITH
    PoweredDisplays <- {"internal", "hdmi"}, Internal <- "internal", MaxPosts <- 3

Canvas == INSTANCE CanvasDisplay WITH
    control <- shows, Objects <- {"o1", "o2"}, Surfaces <- {"s1", "s2", "s3"},
    Producers <- {"p1"}, MaxFds <- 2, Frames <- 1

Commands == INSTANCE ComposerCommands WITH
    client <- commands, calls <- composerCalls, Displays <- {"d1", "d2"},
    Layers <- {"l1", "l2"}, Values <- {"a"}, Slots <- {"s0", "s1"}, MaxFds <- 3, MaxCalls <- 5

\* layers of the render engine: with two buffers of one texture, one of them with alpha, round ones
\* that have a middle (and a crop that leaves a row out) and that have none, and a plain colour
RenderLayer(b, opaque, alpha, radius, from, to, space) ==
    [name |-> IF b = "none" THEN "none" ELSE "t", buffer |-> b, opaque |-> opaque, alpha |-> alpha,
     radius |-> radius, plain |-> FALSE, coloured |-> ~alpha, space |-> space,
     top |-> from, bottom |-> to, crop |-> <<1, 4>>]
DisplayP3 == [standard |-> "p3", transfer |-> "srgb"]
Bt709 == [standard |-> "bt709", transfer |-> "srgb"]
RenderLayers ==
    {RenderLayer("b1", TRUE, TRUE, 1, 0, 4, Bt709), RenderLayer("b2", TRUE, FALSE, 1, 1, 4, DisplayP3),
     RenderLayer("b1", TRUE, TRUE, 2, 1, 4, Bt709),
     [RenderLayer("none", FALSE, TRUE, 0, 2, 5, DisplayP3) EXCEPT !.plain = TRUE]}
Render == INSTANCE RenderEngine WITH
    queue <- imageQueue, Buffers <- {"b1", "b2"}, Outputs <- {"x1", "x2"}, NoBuffer <- "none",
    Layers <- RenderLayers, Spaces <- {Bt709}, Height <- 5, MaxLayers <- 2, CacheSize <- 1,
    MaxFrames <- 2
Patterns == INSTANCE TestPatterns WITH
    Widths <- {8, 13}, Heights <- {9, 10}, Pads <- {0, 3}, BoSize <- 48

memoryVars == <<mm, topdown, call, calls>>
deviceVars == <<minors, dev, drv, registration, thread, leaked, lookups>>
kernelVars == <<lockVars, memoryVars, deviceVars>>
displayVars == <<events, needed, current, drawing, devices, objects, remade, told, plugged,
                 alive, count>>
powerVars == <<power, vsyncState, vsyncPending, hardware, misled, scheduler, control, posts>>
canvasVars == <<refs, feeds, native, locked, shows, buffer, show, fds, master>>
commandVars == <<commands, hwc, data, open, caller, lost, composerCalls>>
renderVars == <<state, imageQueue, worker, images, textures, framebuffers, targets, draw, gl,
                painted, clipped, frames>>
patternVars == <<picture, phase, line, at, written, bars>>
graphicsVars == <<displayVars, powerVars, canvasVars, commandVars, renderVars, patternVars>>
platformVars == <<part, kernelVars, graphicsVars>>

\* the process of the areas has none yet
NoMemory == mm = [areas |-> {}] /\ topdown = TRUE /\ call = Memory!NoCall /\ calls = 0

PlatformInit ==
    /\ part \in {"areas", "devices", "locks", "displays", "power", "canvas", "commands",
                "render", "pattern"}
    /\ IF part = "areas" THEN Memory!Init ELSE NoMemory
    /\ Init /\ Drm!Init
    /\ Hotplug!Init /\ Power!Init /\ Canvas!Init /\ Commands!Init /\ Render!Init /\ Patterns!Init
    /\ part # "pattern" =>
           picture = [format |-> "UYVY", pattern |-> "tiles", width |-> 8, height |-> 9, pitch |-> 16]

KernelNext ==
    \/ part = "locks" /\ Next /\ UNCHANGED <<memoryVars, deviceVars>>
    \/ part = "areas" /\ Memory!Next /\ UNCHANGED <<lockVars, deviceVars>>
    \/ part = "devices" /\ Drm!Next /\ UNCHANGED <<lockVars, memoryVars>>
GraphicsNext ==
    \/ part = "displays" /\ Hotplug!Next
       /\ UNCHANGED <<powerVars, canvasVars, commandVars, renderVars, patternVars>>
    \/ part = "power" /\ Power!Next
       /\ UNCHANGED <<displayVars, canvasVars, commandVars, renderVars, patternVars>>
    \/ part = "canvas" /\ Canvas!Next
       /\ UNCHANGED <<displayVars, powerVars, commandVars, renderVars, patternVars>>
    \/ part = "commands" /\ Commands!Next
       /\ UNCHANGED <<displayVars, powerVars, canvasVars, renderVars, patternVars>>
    \/ part = "render" /\ Render!Next
       /\ UNCHANGED <<displayVars, powerVars, canvasVars, commandVars, patternVars>>
    \/ part = "pattern" /\ Patterns!Next
       /\ UNCHANGED <<displayVars, powerVars, canvasVars, commandVars, renderVars>>
PlatformNext ==
    /\ part' = part
    /\ \/ KernelNext /\ UNCHANGED graphicsVars
       \/ GraphicsNext /\ UNCHANGED kernelVars

PlatformSpec == PlatformInit /\ [][PlatformNext]_platformVars

\* The areas are what the counters say, and the search finds the room between them
\* (mmap.c 675-985, 1973-2146); a minor that is looked up belongs to a device that lives, is
\* shown when it is registered, and is not entered once the unplugging is over
\* (drm_drv.c 105-262, 354-420); of the tasks and walkers that lock areas one can always go on
\* (mmap.c 3495-3505).
KernelSafe ==
    /\ part = "areas" => Memory!AreasSafe
    /\ part = "devices" => Drm!DevicesSafe
    /\ part = "locks" => SomebodyMoves

\* Merging and splitting never show (mmap.c 675-985).
AreasKept == Memory!AreasKept

\* The tables of displays agree, and vsyncs come when they are wanted
\* (SurfaceFlinger.cpp 2640-2990, 4560-4680).
DisplayStateSafe ==
    /\ part = "displays" => Hotplug!DisplaysSafe
    /\ part = "power" => Power!VsyncsSafe

\* What is locked or shown stays with the one who locks or shows it
\* (android_view_Surface.cpp 270-600).
CanvasSafe == part = "canvas" => Canvas!CanvasSafe

\* The two ends of the composer's command queue agree, and each fence has one owner; the
\* render engine draws each layer with its own image and leaves none behind, its conversions
\* of colours, which no state changes, being looked at before the first frame; a test pattern
\* writes the pixels of its planes and nothing else, the RGB test cards excepted (ComposerHalZizhan.cpp 560-1471, HWC2Zizhan.cpp 553-930,
\* GLESRenderEngine.cpp 646-1345, pattern.cpp 77-749).
DrawingSafe ==
    /\ part = "commands" => Commands!CommandsSafe
    /\ part = "render" => Render!RenderSafe /\ (frames = 0 => Render!ColoursArrive)
    /\ part = "pattern" => Patterns!PatternsSafe
=============================================================================
