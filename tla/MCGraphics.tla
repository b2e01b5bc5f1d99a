----------------------------- MODULE MCGraphics -----------------------------
(* Who waits for a frame, for safety and liveness.  The parts share no        *)
(* variable: a behaviour picks one and the others stand still.                *)
(*   frames:  a bottom layer, a smaller one over it, a screenshot and a       *)
(*            display that the composer does not drive                        *)
(*   config:  three refresh rates                                             *)
(*   canvas:  two Java surfaces that share one DRM device                     *)
(*   buffers: SurfaceFlinger's buffer queue and two threads that make frames  *)
(*            and allocate in advance                                         *)
(* The two surfaces, and the two threads, are alike: what holds of one in      *)
(* every behaviour holds of the other.                                        *)
EXTENDS FrameLoop, TLC

VARIABLES
    part,
    allowed, desired, upcoming, active, composer, checking, taken, mainWakes, requests, unseen,
    refs, feeds, native, locked, shows, buffer, show, fds, master,
    core, pc, arg, want, found, held, frameCounter, nextTicket, currentTicket, ticket, frame,
    notified, acquired, connections, obituaries, claims

MCArea == 1 :> {1, 2} @@ 2 :> {2}
MCOpaque == 1 :> TRUE @@ 2 :> FALSE

Config == INSTANCE ActiveConfig WITH
    wake <- mainWakes, Configs <- {60, 90, 120}, Preferred <- 90, First <- 60,
    MaxRequests <- 3

Canvas == INSTANCE CanvasDisplay WITH
    control <- shows, Objects <- {"o1", "o2"}, Surfaces <- {"s1", "s2"},
    Producers <- {"p1"}, MaxFds <- 2, Frames <- 1

Dequeuers == {"p1", "p2"}
FrameCalls ==
    {"connect", "dequeueBuffer", "requestBuffer", "queueBuffer", "cancelBuffer", "allocateBuffers"}
Buffers == INSTANCE BufferQueue WITH
    Producers <- Dequeuers, Calls <- [p \in Dequeuers |-> FrameCalls],
    NumSlots <- 3, MaxAcquired <- 1, Sizes <- {1}, ConsumerCalls <- {"acquireBuffer"},
    MaxFrames <- 2, MaxConnections <- 1, MaxDequeues <- 2, MayFail <- FALSE,
    ControlledByApp <- FALSE, ConsumerIsSurfaceFlinger <- FALSE

configVars == <<allowed, desired, upcoming, active, composer, checking, taken, mainWakes,
                requests, unseen>>
canvasVars == <<refs, feeds, native, locked, shows, buffer, show, fds, master>>
bufferVars == <<core, pc, arg, want, found, held, frameCounter, nextTicket, currentTicket,
                ticket, frame, notified, acquired, connections, obituaries, claims>>
graphicsVars == <<part, vars, configVars, canvasVars, bufferVars>>

GraphicsInit ==
    /\ part \in {"frames", "config", "canvas", "buffers"}
    /\ Init /\ Config!Init /\ Canvas!Init /\ Buffers!Init
    /\ part # "frames" => order = <<"internal", "cast">>

GraphicsNext ==
    /\ part' = part
    /\ \/ part = "frames" /\ Next /\ UNCHANGED <<configVars, canvasVars, bufferVars>>
       \/ part = "config" /\ Config!Next /\ UNCHANGED <<vars, canvasVars, bufferVars>>
       \/ part = "canvas" /\ Canvas!Next /\ UNCHANGED <<vars, configVars, bufferVars>>
       \/ part = "buffers" /\ Buffers!Next /\ UNCHANGED <<vars, configVars, canvasVars>>

\* The fairness of each module, for the behaviours of its part.
FrameFairness ==
    /\ WF_vars(part = "frames" /\ Vsync) /\ WF_vars(part = "frames" /\ FenceSignals)
    /\ <>[](part = "frames" /\ queue # <<>>) => []<><<part = "frames" /\ HandlesMessage>>_vars
    /\ \A l \in Layers : WF_vars(part = "frames" /\ TimeComes(l))
    /\ \A c \in Shots : WF_vars(part = "frames" /\ shot.at[c] = "again" /\ PostCapture(c))
CanvasFairness == \A o \in {"o1", "o2"} : WF_canvasVars(part = "canvas" /\ Canvas!DisplayStep(o))
ConfigFairness == WF_configVars(part = "config" /\ Config!Main)
BufferFairness ==
    /\ \A p \in Dequeuers : WF_bufferVars(part = "buffers" /\ Buffers!Continue(p))
    /\ WF_bufferVars(part = "buffers" /\ Buffers!AcquireBuffer)
    /\ WF_bufferVars(part = "buffers" /\ Buffers!ReleaseBuffer)
GraphicsSpec ==
    /\ GraphicsInit /\ [][GraphicsNext]_graphicsVars
    /\ FrameFairness /\ CanvasFairness /\ ConfigFairness /\ BufferFairness

\* A frame shows the layers as they are, and the configuration shown is an allowed one
\* and the last that was wished, unless that wish was ended unseen
\* (SurfaceFlinger.cpp 920-1059, 1640-2561).
PicturesSafe ==
    /\ part = "frames" => FramesSafe
    /\ part = "config" => Config!AllowedAtRest /\ Config!WishKept
\* Every call that waits returns: a screenshot, a lock of a canvas
\* (SurfaceFlinger.cpp 3935-3955, 6040-6120, android_view_Surface.cpp 550-600).
CallsReturn == CaptureReturns /\ Canvas!LockReturns("o1")
\* Every frame and change is shown in the end, and a wish for a configuration takes
\* effect unless it is replaced, disallowed or ended unseen
\* (SurfaceFlinger.cpp 920-1059, 1640-1775).
ChangesShown == ShownInTheEnd /\ Config!WishTakesEffect
\* Whoever waits in the buffer queue for its turn at the listener, for a slot or
\* for an allocation is served (BufferQueueProducer.cpp 361, 408, 1049, 1496).
WaitersServed == Buffers!Served("p1")
=============================================================================
