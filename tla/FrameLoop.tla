---- MODULE FrameLoop ----
(***************************************************************************)
(* The main thread of SurfaceFlinger from a message to a picture: an       *)
(* INVALIDATE commits the clients' changes and latches their frames, a     *)
(* REFRESH composes the displays that are dirty, and a screenshot waits    *)
(* its turn between them.  Regions are sets of cells.  The layers and the  *)
(* message queue are not in the tree; what a transaction may change is in  *)
(* Transactions, and the change of configuration in ActiveConfig.          *)
(***************************************************************************)
EXTENDS Integers, Sequences, FiniteSets

CONSTANTS Layers,      \* numbered from the bottom up
          Area, Opaque,  \* the cells of each layer, and whether it hides those below
          Displays, HasId,  \* the displays, and those the composer drives
          MayHide,     \* whether clients hide layers, besides removing them
          Shots,       \* threads that take a screenshot
          MaxFrames, MaxChanges  \* bounds: frames queued, changes by clients

VARIABLES queue,     \* the messages of the main thread
          wanted,    \* an INVALIDATE is asked for at the next vertical blank
          sf,        \* the flags and lists of the main thread
          layer, display,
          order,     \* the order of mDisplays
          missed,    \* the fence of the last frame has not signalled
          shot,      \* screenshots, and whether one saw a frame that is not composed
          bound      \* the bounds' counts

vars == <<queue, wanted, sf, layer, display, order, missed, shot, bound>>

Cells == UNION {Area[l] : l \in Layers}

\* signalTransaction, signalLayerUpdate and invalidate
Signal == wanted' = TRUE
Message(m) == queue' = Append(Tail(queue), m)

----
(* What a display should show: at each cell the layers down to an opaque one *)

Drawn(ls) == {l \in Layers : ls[l].draw = "shown"}
Above(l) == {u \in Layers : u > l}
Picture(ls) ==
    [c \in Cells |-> {<<l, ls[l].look, ls[l].latched>> : l \in {l \in Drawn(ls) :
        c \in Area[l] /\ ~\E u \in Above(l) \cap Drawn(ls) : Opaque[u] /\ c \in Area[u]}}]

----
(* Clients and the vertical blank *)

Change(l) == bound.changes < MaxChanges /\ bound' = [bound EXCEPT !.changes = @ + 1] /\ layer[l].cur # "gone"

\* a transaction shows, hides or alters a layer
SetLayer(l, to) ==
    /\ Change(l) /\ Signal
    /\ layer' = [layer EXCEPT ![l].cur = to, ![l].newLook = @ + 1]
    /\ sf' = [sf EXCEPT !.transaction = TRUE]
    /\ UNCHANGED <<queue, display, order, missed, shot>>

\* onHandleDestroyed
RemoveLayer(l) ==
    /\ Change(l) /\ Signal
    /\ layer' = [layer EXCEPT ![l].cur = "gone"]
    /\ sf' = [sf EXCEPT !.transaction = TRUE, !.pendingRemoval = @ \cup {l}]
    /\ UNCHANGED <<queue, display, order, missed, shot>>

\* a frame arrives, perhaps before its time
QueueFrame(l, early) ==
    /\ bound.frames < MaxFrames /\ bound' = [bound EXCEPT !.frames = @ + 1]
    /\ layer[l].cur # "gone" /\ Signal
    /\ layer' = [layer EXCEPT ![l].ready = @ + 1, ![l].early = early]
    /\ UNCHANGED <<queue, sf, display, order, missed, shot>>
TimeComes(l) ==
    /\ layer[l].early /\ layer' = [layer EXCEPT ![l].early = FALSE]
    /\ UNCHANGED <<queue, wanted, sf, display, order, missed, shot, bound>>

Vsync ==
    /\ wanted /\ wanted' = FALSE
    /\ queue' = IF \E i \in DOMAIN queue : queue[i] = "INVALIDATE" THEN queue ELSE Append(queue, "INVALIDATE")
    /\ UNCHANGED <<sf, layer, display, order, missed, shot, bound>>

FenceSignals ==
    /\ missed /\ missed' = FALSE
    /\ UNCHANGED <<queue, wanted, sf, layer, display, order, shot, bound>>

----
(* INVALIDATE *)

InvalidateLayerStack(ds, cells) == [d \in Displays |-> [ds[d] EXCEPT !.dirty = @ \cup cells]]

\* handleTransaction: what each layer is to be becomes what is drawn; the area
\* of removed layers is dirty
CommitLayer(s) ==
    [s EXCEPT !.draw = s.cur, !.look = s.newLook, !.contentDirty = @ \/ s.look # s.newLook]
HandleTransaction ==
    LET gone == {l \in sf.pendingRemoval : layer[l].draw # "gone"}
    IN  IF ~sf.transaction THEN [layer |-> layer, sf |-> sf, display |-> display]
        ELSE [layer |-> [l \in Layers |-> CommitLayer(layer[l])],
              sf |-> [sf EXCEPT !.transaction = FALSE, !.pendingRemoval = {}, !.visibleDirty = TRUE],
              display |-> InvalidateLayerStack(display, UNION {Area[l] : l \in gone})]

\* latchBuffer, in the layer: not before the last one was composed
CanLatch(s) == s.ready > 0 /\ ~s.uncomposed
Latch(s) == [s EXCEPT !.ready = @ - 1, !.latched = @ + 1, !.uncomposed = TRUE]

\* handlePageFlip asks for another INVALIDATE when a frame stays queued
AgainNeeded(queued, now, latched) == queued # {} /\ (now = {} \/ latched = {})

\* handlePageFlip after a transaction left t: the frames whose time has come
\* are latched, some of which may not be ready to be
PageFlips(t) ==
    LET queued == {l \in Layers : t.layer[l].draw # "gone" /\ t.layer[l].ready > 0}
        now == sf.withQueued \cup {l \in queued : ~t.layer[l].early}
        Flip(latched) ==
            [layer |-> [l \in Layers |-> IF l \in latched THEN Latch(t.layer[l]) ELSE t.layer[l]],
             sf |-> [t.sf EXCEPT !.withQueued = now],
             display |-> InvalidateLayerStack(t.display, UNION {Area[l] : l \in latched}),
             latched |-> latched # {}, again |-> AgainNeeded(queued, now, latched)]
    IN  {Flip({l \in now : CanLatch(t.layer[l])})}
        \cup (IF queued # {} /\ bound.late THEN {Flip({})} ELSE {})

\* back pressure: the last frame is not shown yet, so this one is put off
PutOff == Signal

Invalidate ==
    /\ queue # <<>> /\ Head(queue) = "INVALIDATE"
    /\ \/ /\ missed /\ PutOff /\ queue' = Tail(queue)
          /\ UNCHANGED <<sf, layer, display, bound>>
       \/ /\ ~missed
          /\ \E f \in PageFlips(HandleTransaction) :
                LET refresh == sf.transaction \/ f.latched \/ sf.repaint
                IN  /\ layer' = f.layer /\ display' = f.display
                    /\ sf' = [f.sf EXCEPT !.refreshPending = @ \/ refresh]
                    /\ queue' = IF refresh THEN Append(Tail(queue), "REFRESH") ELSE Tail(queue)
                    /\ wanted' = (wanted \/ f.again)
          /\ bound' = [bound EXCEPT !.late = FALSE]
    /\ UNCHANGED <<order, missed, shot>>

----
(* REFRESH *)

\* what hides, and what covers, the layers below l
Covers(ls, l) == UNION {Area[u] : u \in Above(l) \cap Drawn(ls)}
Hides(ls, l) == UNION {Area[u] : u \in {u \in Above(l) \cap Drawn(ls) : Opaque[u]}}

\* the part of the screen that a visible layer makes dirty
DirtyOf(s, visible, covered) ==
    IF s.contentDirty THEN visible \cup s.visible
    ELSE (visible \cap s.covered) \cup ((visible \ covered) \ (s.visible \ s.covered))

\* computeVisibleRegions for one display: its layers after it, and its dirty
\* cells.  A layer that is not visible makes nothing dirty.
ComputeVisibleRegions(ls) ==
    LET visible(l) == Area[l] \ Hides(ls, l)
        covered(l) == Area[l] \cap Covers(ls, l)
    IN  [layer |-> [l \in Layers |->
            IF l \in Drawn(ls)
            THEN [ls[l] EXCEPT !.visible = visible(l), !.covered = covered(l), !.contentDirty = FALSE]
            ELSE [ls[l] EXCEPT !.visible = {}, !.covered = {}]],
         dirty |-> UNION {DirtyOf(ls[l], visible(l), covered(l)) \ Hides(ls, l) : l \in Drawn(ls)}]

\* rebuildLayerStacks: the displays one after another, with the same layers
Rebuilt ==
    LET first == ComputeVisibleRegions(layer)
        after == [i \in DOMAIN order |-> IF i = 1 THEN first ELSE ComputeVisibleRegions(first.layer)]
        DirtyAt(d) == after[CHOOSE i \in DOMAIN order : order[i] = d].dirty
    IN  IF ~sf.visibleDirty THEN [layer |-> layer, display |-> display]
        ELSE [layer |-> after[Len(order)].layer,
              display |-> [d \in Displays |-> [display[d] EXCEPT !.dirty = @ \cup DirtyAt(d)]]]

\* beginFrame: whether the display must be composed, and what it remembers
BeginFrame(s, dirty, empty) ==
    LET must == dirty /\ ~(empty /\ ~s.had)
    IN  [had |-> IF must THEN ~empty ELSE s.had, must |-> must]

\* prepareFrame, doComposition and postFramebuffer: a display of the composer's
\* is composed in any case, another one when it must be; repaintEverything makes
\* all of it dirty for doComposition, but not for beginFrame
Composed(d, s, ls) ==
    LET empty == \A l \in Drawn(ls) : ls[l].visible = {}
        begin == BeginFrame(s, s.dirty # {}, empty)
    IN  [s EXCEPT !.had = begin.had, !.dirty = {},
                  !.picture = IF d \in HasId \/ begin.must THEN Picture(ls) ELSE @]

\* Mutant: the refresh stays pending.
StillPending(f) == [f EXCEPT !.repaint = FALSE, !.visibleDirty = FALSE, !.withQueued = {}]

Refreshed(f) == [f EXCEPT !.refreshPending = FALSE, !.repaint = FALSE, !.visibleDirty = FALSE, !.withQueued = {}]

Refresh ==
    /\ queue # <<>> /\ Head(queue) = "REFRESH" /\ queue' = Tail(queue)
    /\ LET built == Rebuilt
           ls == [l \in Layers |-> [built.layer[l] EXCEPT !.uncomposed = FALSE]]
       IN  /\ layer' = ls
           /\ display' = [d \in Displays |-> Composed(d, built.display[d], ls)]
           /\ wanted' = (wanted \/ \E l \in Layers : ls[l].draw # "gone" /\ ls[l].ready > 0)
    /\ sf' = Refreshed(sf)
    /\ missed' \in BOOLEAN
    /\ UNCHANGED <<order, shot, bound>>

RepaintEverything ==
    /\ bound.changes < MaxChanges /\ bound' = [bound EXCEPT !.changes = @ + 1]
    /\ sf' = [sf EXCEPT !.repaint = TRUE] /\ Signal
    /\ UNCHANGED <<queue, layer, display, order, missed, shot>>

----
(* captureScreen: the caller waits for its message, and posts it again while a
   refresh is pending *)

PostCapture(c) ==
    /\ shot.at[c] \in {"none", "again"}
    /\ queue' = Append(queue, c)
    /\ shot' = [shot EXCEPT !.at[c] = "waits"]
    /\ UNCHANGED <<wanted, sf, layer, display, order, missed, bound>>

\* Mutant: the screenshot is taken although a refresh is pending.
NeverBusy == FALSE

Busy == sf.refreshPending
Capture(c) ==
    /\ queue # <<>> /\ Head(queue) = c /\ queue' = Tail(queue)
    /\ shot' = IF Busy THEN [shot EXCEPT !.at[c] = "again"]
               ELSE [at |-> [shot.at EXCEPT ![c] = "done"],
                     torn |-> shot.torn \/ \E l \in Drawn(layer) : layer[l].uncomposed]
    /\ UNCHANGED <<wanted, sf, layer, display, order, missed, bound>>

Init ==
    /\ queue = <<>> /\ wanted = FALSE /\ missed = FALSE
    /\ sf = [refreshPending |-> FALSE, repaint |-> FALSE, visibleDirty |-> FALSE, withQueued |-> {},
             transaction |-> FALSE, pendingRemoval |-> {}]
    /\ layer = [l \in Layers |-> [ready |-> 0, early |-> FALSE, latched |-> 0, uncomposed |-> FALSE, look |-> 0,
                                  newLook |-> 0, cur |-> "hidden", draw |-> "hidden", contentDirty |-> TRUE,
                                  visible |-> {}, covered |-> {}]]
    /\ display = [d \in Displays |-> [dirty |-> {}, had |-> FALSE, picture |-> [c \in Cells |-> {}]]]
    /\ order \in {o \in [1 .. Cardinality(Displays) -> Displays] : {o[i] : i \in DOMAIN o} = Displays}
    /\ shot = [at |-> [c \in Shots |-> "none"], torn |-> FALSE]
    /\ bound = [frames |-> 0, changes |-> 0, late |-> TRUE]

Next ==
    \/ \E l \in Layers :
        \/ \E to \in {"shown"} \cup (IF MayHide THEN {"hidden"} ELSE {}) : SetLayer(l, to)
        \/ RemoveLayer(l) \/ TimeComes(l)
        \/ \E early \in BOOLEAN : QueueFrame(l, early)
    \/ Vsync \/ FenceSignals \/ RepaintEverything \/ Invalidate \/ Refresh
    \/ \E c \in Shots : PostCapture(c) \/ Capture(c)

Spec == Init /\ [][Next]_vars

\* the vertical blank comes, the composer's fence signals, the looper handles
\* its messages, time passes, and a caller that is told to tries again
HandlesMessage == Invalidate \/ Refresh \/ \E c \in Shots : Capture(c)
Fairness ==
    /\ WF_vars(Vsync) /\ WF_vars(FenceSignals)
    /\ <>[](queue # <<>>) => []<><<HandlesMessage>>_vars
    /\ \A l \in Layers : WF_vars(TimeComes(l))
    /\ \A c \in Shots : WF_vars(shot.at[c] = "again" /\ PostCapture(c))
FairSpec == Spec /\ Fairness

----
(* Properties *)

\* A screenshot never shows a frame that is latched and that no display has
\* been given.
ShotsWhole == ~shot.torn

\* Between a frame of the main thread and the next, what a display shows is
\* what is drawn, although a display that is not the composer's is composed
\* only when something on it is dirty: for the display that is looked at first.
Settled(d) == sf.refreshPending \/ display[d].picture = Picture(layer)
FirstIsCurrent == \A d \in Displays : d \in HasId \/ order[1] = d => Settled(d)
\* Neither a screenshot nor a display shows half a frame.
FramesSafe == ShotsWhole /\ FirstIsCurrent
\* The same for every display.
EachIsCurrent == \A d \in Displays : Settled(d)

\* Every frame that is queued, and every change, is shown in the end, though
\* frames come early, are not ready, or are put off: nothing is forgotten.
ShownInTheEnd ==
    <>[](/\ \A l \in Layers : layer[l].cur # "gone" => layer[l].ready = 0 /\ ~layer[l].uncomposed
         /\ \A l \in Layers : layer[l].draw = layer[l].cur)

\* A screenshot is taken once the frames stop.
CaptureReturns == \A c \in Shots : shot.at[c] # "none" ~> shot.at[c] = "done"
====
