---- MODULE ComposerCommands ----
(***************************************************************************)
(* The client of the hardware composer: the layers of each display with    *)
(* the values they remember having sent, the writer that gathers commands, *)
(* the transaction that has the composer run them, and the reader that     *)
(* keeps its answers, whose fences are file descriptors someone must close.*)
(* The command queues and the composer service are not in the tree, and    *)
(* HWComposer, which calls for one display at a time, is not either.       *)
(***************************************************************************)
EXTENDS Integers, FiniteSets, SequencesExt

CONSTANTS Displays, Layers,
          Values,      \* what a layer's remembered property may be set to
          Slots,       \* buffer slots
          MaxFds,      \* bound: descriptors the process may have open
          MaxCalls     \* bound: calls

VARIABLES client,   \* layers, their remembered values and the writer's commands
          hwc,      \* the composer's layers and what it was told of them
          data,     \* mReturnData: the answers to the last batch
          open,     \* descriptors that are open
          caller,   \* where the caller is in a display's frame, with its fences
          lost,     \* history: what dropped batches were to set
          calls     \* the bound's count

vars == <<client, hwc, data, open, caller, lost, calls>>

Fds == 1 .. MaxFds
Unset == "unset"
NoDisplay == "none"
NoData == [changed |-> {}, release |-> <<>>, present |-> 0, state |-> -1, fresh |-> FALSE, there |-> FALSE]

Command(k, x) == [k |-> k, x |-> x, fd |-> 0]
FdsOf(d) == Range(d.release) \cup ({d.present} \ {0})
\* dup, which fails when no descriptor is left
Dup == IF Fds \ open = {} THEN 0 ELSE CHOOSE f \in Fds \ open : \A g \in Fds \ open : f <= g

----
(* The writer: each command names its display and its layer first *)

WriteDisplay(w, d, commands) == w \o <<Command("display", d)>> \o commands

\* Mutant: the layer that was selected last is taken for granted.
WriteUnselected(w, d, l, commands) == WriteDisplay(w, d, commands)

WriteLayer(w, d, l, commands) == WriteDisplay(w, d, <<Command("layer", l)>> \o commands)

\* the layers the commands of a writer are about
LayersIn(w) == {w[i].x : i \in {i \in DOMAIN w : w[i].k = "layer"}}

\* what the commands of a writer set
SetIn(w) == {<<w[i - 1].x, w[i].k>> : i \in {i \in DOMAIN w : w[i].k \in {"value", "buffer"}}}

\* CommandWriterBase::reset closes the descriptors of what it wrote
WriterFds == {client.writer[i].fd : i \in DOMAIN client.writer} \ {0}

----
(* The composer runs a batch.  A command for a layer it does not have is an *)
(* error of that command.                                                   *)

RunCommand(s, c) ==
    CASE c.k = "display" -> [s EXCEPT !.d = c.x, !.l = Unset]
      [] c.k = "layer" -> [s EXCEPT !.l = c.x]
      [] c.k = "value" /\ s.l # Unset /\ s.hwc.live[s.l] = s.d -> [s EXCEPT !.hwc.value[s.l] = c.x]
      [] c.k = "buffer" /\ s.l # Unset /\ s.hwc.live[s.l] = s.d -> [s EXCEPT !.hwc.slot[s.l] = c.x]
      [] OTHER -> s
Run(h, w) == FoldLeft(RunCommand, [d |-> NoDisplay, l |-> Unset, hwc |-> h], w).hwc

LayersOf(h, d) == {l \in Layers : h.live[l] = d}

\* CommandReader::parse: what was kept goes, its descriptors closed; the answer
\* for display d is a set of layers to compose otherwise, or the fences.
Parsed(d, changed, fences, present, state) ==
    [e \in Displays |-> IF e = d THEN [changed |-> changed, release |-> fences, present |-> present,
                                       state |-> state, fresh |-> TRUE, there |-> TRUE]
                        ELSE NoData]
ResetData(o) == o \ UNION {FdsOf(data[e]) : e \in Displays}

\* the answers to a batch that ends with command k for display d
Answers(d, k, o) ==
    LET presents(state) ==
            {[data |-> Parsed(d, {}, fences, present, state), open |-> o \cup Range(fences) \cup {present}] :
                <<fences, present>> \in {<<f, p>> \in [LayersOf(hwc, d) -> Fds \ o] \X (Fds \ o) :
                                            IsInjective(f) /\ p \notin Range(f)}}
        validates(state) ==
            {[data |-> Parsed(d, changed, <<>>, 0, state), open |-> o] : changed \in SUBSET LayersOf(hwc, d)}
    IN  CASE k = "validate" -> validates(-1)
          [] k = "present" -> presents(-1)
          [] k = "presentOrValidate" -> presents(1) \cup validates(0)

\* Composer::execute: the batch may be dropped before the composer reads it, or
\* its answer be lost, or a validate or present be refused.  The writer is
\* reset in any case.
Executions(d, k) ==
    LET sent == WriteDisplay(client.writer, d, <<Command(k, d)>>)
        after == Run(hwc, sent)
        o == open \ WriterFds
        stale == [e \in Displays |-> [data[e] EXCEPT !.fresh = FALSE]]
        Failed(h, dt, op, lo) == [done |-> FALSE, hwc |-> h, data |-> dt, open |-> op, lost |-> lo]
    IN  {[done |-> TRUE, hwc |-> after, data |-> a.data, open |-> a.open, lost |-> lost] :
            a \in Answers(d, k, ResetData(o))}
        \cup {Failed(after, stale, o, lost),
              Failed(after, [e \in Displays |-> NoData], ResetData(o), lost)}
        \cup (IF hwc = after THEN {} ELSE {Failed(hwc, stale, o, lost \cup SetIn(sent))})

Execute(x) ==
    /\ client' = [client EXCEPT !.writer = <<>>]
    /\ hwc' = x.hwc /\ data' = x.data /\ open' = x.open /\ lost' = x.lost

----
(* Layers *)

Call == calls < MaxCalls /\ calls' = calls + 1
Idle == caller.turn = NoDisplay

\* Display::createLayer; the composer uses no id again that commands still name
CreateLayer(d, l) ==
    /\ Call /\ Idle /\ hwc.live[l] = NoDisplay /\ l \notin LayersIn(client.writer)
    /\ hwc' = [hwc EXCEPT !.live[l] = d, !.value[l] = Unset, !.slot[l] = Unset]
    /\ \E garbage \in Slots :  \* mBufferSlot is not initialised
        client' = [client EXCEPT !.layers[d] = @ \cup {l}, !.cached[l] = Unset, !.slot[l] = garbage]
    /\ lost' = lost \ ({l} \X {"value", "buffer"})
    /\ UNCHANGED <<data, open, caller>>

\* Display::destroyLayer: the composer is told at once, before the commands
\* that were written for the layer
DestroyLayer(d, l) ==
    /\ Call /\ Idle /\ l \in client.layers[d]
    /\ client' = [client EXCEPT !.layers[d] = @ \ {l}]
    /\ hwc' = [hwc EXCEPT !.live[l] = NoDisplay]
    /\ caller' = [caller EXCEPT !.sent[l] = {}]
    /\ UNCHANGED <<data, open, lost>>

\* setDataspace, and with it the other properties a layer remembers
SetValue(d, l, v) ==
    /\ Call /\ Idle /\ l \in client.layers[d] /\ client.cached[l] # v
    /\ client' = [client EXCEPT !.cached[l] = v, !.writer = WriteLayer(@, d, l, <<Command("value", v)>>)]
    /\ lost' = lost \ {<<l, "value">>}
    /\ UNCHANGED <<hwc, data, open, caller>>

\* setBuffer; the caller sends no buffer for a slot it has sent one for
SetBuffer(d, l, slot) ==
    LET null == slot \in caller.sent[l]
        fd == Dup
    IN  /\ Call /\ Idle /\ l \in client.layers[d]
        /\ ~(null /\ client.slot[l] = slot)
        /\ client' = [client EXCEPT !.slot[l] = slot,
                                    !.writer = WriteLayer(@, d, l, <<[k |-> "buffer", x |-> slot, fd |-> fd]>>)]
        /\ open' = open \cup ({fd} \ {0})
        /\ caller' = [caller EXCEPT !.sent[l] = @ \cup {slot}]
        /\ lost' = lost \ {<<l, "buffer">>}
        /\ UNCHANGED <<hwc, data>>

\* setClientTarget or setOutputBuffer: the writer gets a duplicate of its own
SetTarget(d) ==
    LET fd == Dup
    IN  /\ Call /\ Idle
        /\ client' = [client EXCEPT !.writer = WriteDisplay(@, d, <<[k |-> "target", x |-> d, fd |-> fd]>>)]
        /\ open' = open \cup ({fd} \ {0})
        /\ UNCHANGED <<hwc, data, caller, lost>>

----
(* A display's frame *)

At(d, stage) == caller' = [caller EXCEPT !.turn = d, !.stage[d] = stage]
Over(d) == caller' = [caller EXCEPT !.turn = NoDisplay, !.stage[d] = "idle"]

ValidateDisplay(d) ==
    /\ Call /\ Idle /\ caller.stage[d] = "idle"
    /\ \E x \in Executions(d, "validate") :
          Execute(x) /\ IF x.done THEN At(d, "validated") ELSE Over(d)

PresentOrValidateDisplay(d) ==
    /\ Call /\ Idle /\ caller.stage[d] = "idle"
    /\ \E x \in Executions(d, "presentOrValidate") :
          /\ Execute(x)
          /\ CASE ~x.done              -> Over(d)
               [] x.data[d].state = 1  -> At(d, "presented")
               [] OTHER                -> At(d, "validated")

\* getChangedCompositionTypes, getRequests and acceptChanges
AcceptChanges(d) ==
    /\ Call /\ caller.turn = d /\ caller.stage[d] = "validated"
    /\ caller' = [caller EXCEPT !.turn = NoDisplay, !.stage[d] = "accepted",
                                !.took = [fresh |-> data[d].fresh, layers |-> data[d].changed \cap client.layers[d]]]
    /\ data' = [data EXCEPT ![d].changed = {}]
    /\ client' = [client EXCEPT !.writer = WriteDisplay(@, d, <<Command("accept", d)>>)]
    /\ UNCHANGED <<hwc, open, lost>>

PresentDisplay(d) ==
    /\ Call /\ Idle /\ caller.stage[d] = "accepted"
    /\ \E x \in Executions(d, "present") :
          Execute(x) /\ IF x.done THEN At(d, "presented") ELSE Over(d)

\* what is left of an answer once its fences were taken
Taken(a) == [a EXCEPT !.release = <<>>, !.present = 0]

\* takePresentFence and getReleaseFences; the fences of a layer that is not
\* known, and those after it, are closed, and those before it are dropped
TakeFences(d) ==
    LET a == data[d]
        known == DOMAIN a.release \subseteq client.layers[d]
        kept == ({a.present} \ {0}) \cup (IF known THEN Range(a.release) ELSE {})
    IN  /\ Call /\ caller.turn = d /\ caller.stage[d] = "presented"
        /\ caller' = [caller EXCEPT !.turn = NoDisplay, !.stage[d] = "idle", !.held = @ \cup kept,
                                    !.took = [fresh |-> a.fresh, layers |-> DOMAIN a.release]]
        /\ data' = [data EXCEPT ![d] = Taken(a)]
        /\ open' = open \ (FdsOf(a) \ kept)
        /\ UNCHANGED <<client, hwc, lost>>

\* the caller's Fence objects go
DropFences ==
    /\ caller.held # {}
    /\ open' = open \ caller.held
    /\ caller' = [caller EXCEPT !.held = {}]
    /\ UNCHANGED <<client, hwc, data, lost, calls>>

Init ==
    /\ client = [layers |-> [d \in Displays |-> {}], cached |-> [l \in Layers |-> Unset],
                 slot |-> [l \in Layers |-> Unset], writer |-> <<>>]
    /\ hwc = [live |-> [l \in Layers |-> NoDisplay], value |-> [l \in Layers |-> Unset],
              slot |-> [l \in Layers |-> Unset]]
    /\ data = [d \in Displays |-> NoData]
    /\ open = {} /\ lost = {} /\ calls = 0
    /\ caller = [turn |-> NoDisplay, stage |-> [d \in Displays |-> "idle"], held |-> {},
                 sent |-> [l \in Layers |-> {}], took |-> [fresh |-> TRUE, layers |-> {}]]

Next ==
    \/ \E d \in Displays :
        \/ \E l \in Layers :
            \/ CreateLayer(d, l) \/ DestroyLayer(d, l)
            \/ \E v \in Values : SetValue(d, l, v)
            \/ \E s \in Slots : SetBuffer(d, l, s)
        \/ SetTarget(d) \/ ValidateDisplay(d) \/ PresentOrValidateDisplay(d)
        \/ AcceptChanges(d) \/ PresentDisplay(d) \/ TakeFences(d)
    \/ DropFences

Spec == Init /\ [][Next]_vars

----
(* Properties *)

\* Every open descriptor has exactly one owner that will close it: the writer,
\* an answer of one display, or a Fence of the caller; and no owner has one
\* that is closed.
FencesOnce ==
    /\ open = WriterFds \cup caller.held \cup UNION {FdsOf(data[d]) : d \in Displays}
    /\ WriterFds \cap caller.held = {}
    /\ \A d \in Displays :
        /\ FdsOf(data[d]) \cap (WriterFds \cup caller.held) = {} /\ data[d].present \notin Range(data[d].release)
        /\ \A e \in Displays \ {d} : FdsOf(data[d]) \cap FdsOf(data[e]) = {}

\* What a layer remembers having sent, and so does not send again, is what the
\* composer has once it has run the commands that are written: unless a batch
\* that was to set it was dropped.
SentIsHeld ==
    LET later == Run(hwc, client.writer)
    IN  \A d \in Displays : \A l \in client.layers[d] :
            /\ later.live[l] = d
            /\ <<l, "value">> \notin lost => later.value[l] = client.cached[l]
            /\ caller.sent[l] # {} /\ <<l, "buffer">> \notin lost => later.slot[l] = client.slot[l]

\* Changes and fences that a display takes are answers to its own last call,
\* never to one before a call that failed or to another display's.
NothingStale == caller.took.fresh

\* The two ends of the command queue agree, and each fence has one owner
\* (ComposerHalZizhan.cpp 560-1471).
CommandsSafe == FencesOnce /\ SentIsHeld /\ NothingStale
====
