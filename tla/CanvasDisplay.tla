---- MODULE CanvasDisplay ----
(***************************************************************************)
(* android.view.Surface's native side: the references its Java objects     *)
(* hold on native surfaces, the lock of a canvas, and drm_display_zizhan,  *)
(* which shows the locked buffer on the display before nativeLockCanvas    *)
(* returns.  The Java class is modelled from how it has to use the native  *)
(* functions: it holds its monitor over each call, puts the result of      *)
(* nativeLockCanvas beside mNativeObject and gives both references back.   *)
(***************************************************************************)
EXTENDS Naturals, FiniteSets

CONSTANTS Objects,    \* Java Surface objects
          Surfaces,   \* native Surfaces, used again after their end
          Producers,  \* the queues they feed
          MaxFds,     \* bound of the process: DRM files open at a time
          Frames      \* how often the buffer is shown: 30 in the code

VARIABLES refs,     \* strong references on each native surface
          feeds,    \* the producer of each
          native,   \* mNativeObject
          locked,   \* mLockedObject
          control,  \* the surface each SurfaceControl keeps
          buffer,   \* the surfaces whose buffer is locked
          show,     \* drm_display_zizhan of an object being locked
          fds,      \* open DRM files
          master    \* the one that may set modes, or 0

vars == <<refs, feeds, native, locked, control, buffer, show, fds, master>>

NULL == "null"
NotShowing == [stage |-> "none", fd |-> 0, frames |-> 0]

Init ==
    /\ refs = [s \in Surfaces |-> 0] /\ feeds = [s \in Surfaces |-> NULL]
    /\ native = [o \in Objects |-> NULL] /\ locked = [o \in Objects |-> NULL]
    /\ control = [p \in Producers |-> NULL] /\ buffer = {}
    /\ show = [o \in Objects |-> NotShowing]
    /\ fds = {} /\ master = 0

----
(* References.  o is free when no native call holds its monitor. *)

Free(o) == show[o].stage = "none"

\* the counts after one reference more on s and one less on t
Moved(s, t) == [u \in Surfaces |-> (refs[u] + (IF u = s THEN 1 ELSE 0)) - (IF u = t THEN 1 ELSE 0)]
\* a surface without references ends, and what it has locked with it
Becomes(counts) ==
    /\ refs' = counts
    /\ buffer' = {s \in buffer : counts[s] > 0}
Queue(o) == IF native[o] = NULL THEN NULL ELSE feeds[native[o]]
Point(o, s) == native' = [native EXCEPT ![o] = s]
NewSurface(s, p) == refs[s] = 0 /\ feeds' = [feeds EXCEPT ![s] = p]

\* nativeCreateFromSurfaceTexture, nativeCreateFromSurfaceControl and
\* android_view_Surface_createFromSurface: a new object on a new surface
Create(o, s, p) ==
    /\ Free(o) /\ native[o] = NULL
    /\ NewSurface(s, p) /\ Point(o, s) /\ Becomes(Moved(s, NULL))
    /\ UNCHANGED <<locked, control, show, fds, master>>

Release(o) ==
    /\ Free(o) /\ native[o] # NULL
    /\ Point(o, NULL) /\ Becomes(Moved(NULL, native[o]))
    /\ UNCHANGED <<feeds, locked, control, show, fds, master>>

\* nativeGetFromSurfaceControl: the surface the control keeps, unless the
\* object's own feeds the same queue; Java then releases the old one
GetFromSurfaceControl(o, p) ==
    /\ Free(o) /\ control[p] # NULL
    /\ Queue(o) # p
    /\ Point(o, control[p]) /\ Becomes(Moved(control[p], native[o]))
    /\ UNCHANGED <<feeds, locked, control, show, fds, master>>

\* nativeReadFromParcel: the same when the queue is the same, else a new
\* surface or, from an empty parcel, none
ReadFromParcel(o, s, p) ==
    /\ Free(o)
    /\ Queue(o) # p
    /\ NewSurface(s, p) /\ Point(o, s) /\ Becomes(Moved(s, native[o]))
    /\ UNCHANGED <<locked, control, show, fds, master>>

\* a control makes its surface with the first use, and drops it with its end
ControlTakes(p, s) ==
    /\ control[p] = NULL /\ NewSurface(s, p)
    /\ control' = [control EXCEPT ![p] = s] /\ Becomes(Moved(s, NULL))
    /\ UNCHANGED <<native, locked, show, fds, master>>
ControlDrops(p) ==
    /\ control[p] # NULL
    /\ control' = [control EXCEPT ![p] = NULL] /\ Becomes(Moved(NULL, control[p]))
    /\ UNCHANGED <<feeds, native, locked, show, fds, master>>

----
(* The lock of a canvas and the display *)

Stage(o, stage) == show' = [show EXCEPT ![o].stage = stage]

\* nativeLockCanvas up to the display: a surface whose buffer is locked refuses
LockCanvas(o) ==
    /\ Free(o) /\ native[o] # NULL /\ locked[o] = NULL
    /\ native[o] \notin buffer
    /\ buffer' = buffer \cup {native[o]}
    /\ Stage(o, "open")
    /\ UNCHANGED <<refs, feeds, native, locked, control, fds, master>>

\* Mutant: the returned surface is not referenced.
ReturnUnreferenced(o) ==
    /\ locked' = [locked EXCEPT ![o] = native[o]]
    /\ show' = [show EXCEPT ![o] = NotShowing]
    /\ UNCHANGED refs

\* the rest of nativeLockCanvas, whatever the display came to
ReturnLocked(o) ==
    /\ locked' = [locked EXCEPT ![o] = native[o]]
    /\ show' = [show EXCEPT ![o] = NotShowing]
    /\ refs' = Moved(native[o], NULL)

\* the file is opened; the first one open is the master
UtilOpen(o) ==
    /\ show[o].stage = "open" /\ Cardinality(fds) < MaxFds
    /\ \E fd \in 1 .. MaxFds \ fds :
        /\ fds' = fds \cup {fd}
        /\ master' = IF master = 0 THEN fd ELSE master
        /\ show' = [show EXCEPT ![o] = [stage |-> "ask", fd |-> fd, frames |-> Frames]]
    /\ UNCHANGED <<refs, feeds, native, locked, control, buffer>>

\* the client capability; the resources; the connector, the planes, the dumb
\* buffer capability, the dumb buffer and its mapping, the framebuffer
Asked(o) ==
    /\ show[o].stage \in {"ask", "resources", "buffer"}
    /\ Stage(o, CASE show[o].stage = "ask" -> "resources" [] show[o].stage = "resources" -> "buffer"
                  [] OTHER -> "crtc")
    /\ UNCHANGED <<refs, feeds, native, locked, control, buffer, fds, master>>

\* only the master sets the mode and the plane
SetCrtc(o) ==
    /\ show[o].stage = "crtc" /\ master = show[o].fd
    /\ Stage(o, "frame")
    /\ UNCHANGED <<refs, feeds, native, locked, control, buffer, fds, master>>
ShowFrame(o) ==
    /\ show[o].stage = "frame" /\ show[o].frames > 0 /\ master = show[o].fd
    /\ show' = [show EXCEPT ![o].frames = @ - 1]
    /\ UNCHANGED <<refs, feeds, native, locked, control, buffer, fds, master>>

CloseFile(fd) ==
    /\ fds' = fds \ {fd}
    /\ master' = IF master = fd THEN 0 ELSE master

\* after the last frame the file is closed and everything made on it is gone
Shown(o) ==
    /\ show[o].stage = "frame" /\ show[o].frames = 0
    /\ CloseFile(show[o].fd)
    /\ ReturnLocked(o)
    /\ UNCHANGED <<feeds, native, control, buffer>>

\* a step fails: only a failure to get the resources closes the file, and
\* nativeLockCanvas goes on as if the buffer had been shown
Fails(o) ==
    /\ show[o].stage \in {"open", "ask", "resources", "buffer", "crtc", "frame"}
    /\ show[o].stage = "frame" => show[o].frames > 0
    /\ IF show[o].stage = "resources" THEN CloseFile(show[o].fd) ELSE UNCHANGED <<fds, master>>
    /\ ReturnLocked(o)
    /\ UNCHANGED <<feeds, native, control, buffer>>

\* nativeUnlockCanvasAndPost and the release of the reference the lock gave
UnlockCanvasAndPost(o) ==
    LET counts == Moved(NULL, locked[o])
    IN  /\ Free(o) /\ locked[o] # NULL
        /\ locked' = [locked EXCEPT ![o] = NULL]
        /\ refs' = counts /\ buffer' = buffer \ {locked[o]}
        /\ UNCHANGED <<feeds, native, control, show, fds, master>>

DisplayStep(o) == UtilOpen(o) \/ Asked(o) \/ SetCrtc(o) \/ ShowFrame(o) \/ Shown(o) \/ Fails(o)

Next ==
    \/ \E o \in Objects : DisplayStep(o) \/ LockCanvas(o) \/ UnlockCanvasAndPost(o) \/ Release(o)
    \/ \E o \in Objects, p \in Producers : GetFromSurfaceControl(o, p)
    \/ \E o \in Objects, s \in Surfaces, p \in Producers : Create(o, s, p) \/ ReadFromParcel(o, s, p)
    \/ \E p \in Producers, s \in Surfaces : ControlTakes(p, s)
    \/ \E p \in Producers : ControlDrops(p)

\* The thread in nativeLockCanvas keeps running and the driver answers.
Fairness == \A o \in Objects : WF_vars(DisplayStep(o))
Spec == Init /\ [][Next]_vars /\ Fairness

----
(* Properties *)

Pointers(s) ==
    Cardinality({o \in Objects : native[o] = s}) + Cardinality({o \in Objects : locked[o] = s})
    + Cardinality({p \in Producers : control[p] = s})

\* android_view_Surface.cpp:543-545: the surface a lock returned outlives the
\* replacement of the object's own; every reference is some pointer's, and a
\* locked buffer is one object's to unlock.
LockedStaysAlive ==
    /\ \A s \in Surfaces : refs[s] = Pointers(s)
    /\ \A o \in Objects : locked[o] # NULL => locked[o] \in buffer
    /\ \A s \in buffer : Cardinality({o \in Objects : locked[o] = s}
                          \cup {o \in Objects : ~Free(o) /\ native[o] = s}) = 1

\* What is shown is shown by one display at a time, on a file of its own that
\* is open until it is done; while a file left behind is the master nothing is.
OneDisplay ==
    /\ \A o \in Objects : show[o].stage \notin {"none", "open"} => show[o].fd \in fds
    /\ \A o \in Objects : show[o].stage = "frame" => master = show[o].fd
    /\ \A o, q \in Objects : o # q /\ show[o].fd # 0 => show[o].fd # show[q].fd

\* A lock returns, though the display may be somebody else's for ever.
LockReturns(o) == ~Free(o) ~> Free(o)

\* What is locked or shown stays with the one who locked or shows it
\* (android_view_Surface.cpp 270-600).
CanvasSafe == LockedStaysAlive /\ OneDisplay
====
