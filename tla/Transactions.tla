---- MODULE Transactions ----
(***************************************************************************)
(* How SurfaceFlinger takes transactions: binder threads bring them under  *)
(* mStateLock and may wait on mTransactionCV, the main thread flushes the  *)
(* queues, commits the current state and answers the clients that wait for *)
(* the input windows.  Everything done in one stretch under mStateLock is  *)
(* one action; the flags are atomic and are read and set without it.       *)
(*                                                                         *)
(* A transaction is what its changes ask for, the two flags of its caller, *)
(* whether it synchronises the input windows, its apply token, and when it *)
(* may be presented: "now", "later" (its time or an acquire fence is still *)
(* to come) or "far" (more than a second ahead, which counts as now).      *)
(***************************************************************************)
EXTENDS Naturals, FiniteSets, SequencesExt

CONSTANTS Clients,          \* binder threads
          Tokens,           \* apply tokens
          Kinds,            \* the transactions a client may bring
          MaxTransactions,  \* bound: transactions brought in all
          MaxTimeouts       \* bound: waits that last five seconds

ASSUME BoundsAssumption == MaxTransactions \in Nat /\ MaxTimeouts \in Nat

Times == {"now", "later", "far"}
ASSUME KindsAssumption ==
    \A k \in Kinds :
        /\ k.changes \subseteq {"content", "order", "stack", "display"} /\ k.token \in Tokens
        /\ {k.synchronous, k.animation, k.inputSync} \subseteq BOOLEAN /\ k.when \subseteq Times

VARIABLES transactionFlags,    \* mTransactionFlags
          wake,                \* an invalidate is asked for and not handled
          brought,             \* the transactions brought so far
          when,                \* when each of them may be presented
          queues,              \* mTransactionQueues
          applied, drawn,      \* those in mCurrentState, in mDrawingState
          pending,             \* mTransactionPending
          animPending,         \* mAnimTransactionPending
          traversalMain,       \* mTraversalNeededMainThread
          input,               \* the input window commands and who waits
          main,                \* the main thread
          client,              \* the binder threads
          timeouts,            \* the bound's count
          excused              \* history: waits that a time-out cut short

vars == <<transactionFlags, wake, brought, when, queues, applied, drawn, pending,
          animPending, traversalMain, input, main, client, timeouts, excused>>

Flags == {"transaction", "traversal", "display", "stack", "flush"}
Ids == 1 .. Len(brought)

\* The flags one kind of change asks for: a display's state, a layer's
\* geometry or content, its place in the list, its layer stack; a change that
\* leaves the value as it was asks for nothing.
SetDisplayStateLocked(changes) == IF "display" \in changes THEN {"display"} ELSE {}
SetClientStateLocked(changes) ==
    (IF changes \cap {"content", "order", "stack"} # {} THEN {"traversal"} ELSE {})
    \cup (IF changes \cap {"order", "stack"} # {} THEN {"transaction"} ELSE {})
    \cup (IF "stack" \in changes THEN {"stack"} ELSE {})
AddInputWindowCommands(sync) == IF sync THEN {"traversal"} ELSE {}

\* transactionIsReadyToBeApplied
Ready(t) == when[t] # "later"

\* fetch_or, and the wake-up when none of the flags was set
Sets(calls) ==
    /\ transactionFlags' = transactionFlags \cup UNION calls
    /\ wake' = (wake \/ \E c \in calls : c \cap transactionFlags = {})

\* the flags transaction k asks for, with the input commands that come with it
Needs(k, sync) ==
    LET asked == SetDisplayStateLocked(k.changes) \cup SetClientStateLocked(k.changes)
                 \cup AddInputWindowCommands(sync)
    IN  IF asked = {} /\ (k.synchronous \/ k.animation) THEN {"transaction"} ELSE asked

NoInput == [pending |-> FALSE, commands |-> FALSE, waits |-> FALSE, answers |-> 0]
Idle == [pc |-> "idle", t |-> 0, notified |-> FALSE]

Init ==
    /\ transactionFlags = {} /\ wake = FALSE
    /\ brought = <<>> /\ when = <<>>
    /\ queues = [k \in Tokens |-> <<>>]
    /\ applied = {} /\ drawn = {}
    /\ pending = FALSE /\ animPending = FALSE /\ traversalMain = FALSE
    /\ input = NoInput
    /\ main = [pc |-> "idle", peeked |-> {}, flushed |-> FALSE]
    /\ client = [c \in Clients |-> Idle]
    /\ timeouts = 0 /\ excused = {}

\* mTransactionCV.broadcast
Broadcast == client' = [c \in Clients |-> [client[c] EXCEPT !.notified = client[c].pc # "idle"]]

----
(* The binder threads *)

\* applyTransactionState on a binder thread from where the animation frame
\* before it is done with: cs is what the clients become, flag what is left of
\* mAnimTransactionPending.
ApplyNow(c, t, anim) ==
    LET k == brought'[t]
        needs == Needs(k, k.inputSync)
        inputPending == input.pending \/ k.inputSync
        sync == pending \/ k.synchronous
        inputWaits == input.waits \/ inputPending
    IN  /\ applied' = applied \cup {t}
        /\ IF needs = {}
           THEN /\ input' = [input EXCEPT !.pending = inputPending]
                /\ client' = [client EXCEPT ![c] = Idle]
                /\ animPending' = anim
                /\ UNCHANGED <<transactionFlags, wake, pending>>
           ELSE /\ Sets({needs})
                /\ pending' = sync
                /\ animPending' = (anim \/ k.animation)
                /\ input' = [input EXCEPT !.pending = inputPending, !.waits = inputWaits]
                /\ client' = [client EXCEPT ![c] =
                       IF sync \/ inputWaits
                       THEN [pc |-> "commit", t |-> t, notified |-> FALSE] ELSE Idle]
        /\ UNCHANGED queues

\* the beginning of applyTransactionState: an animation frame waits for the
\* one before
Apply(c, t) ==
    IF brought'[t].animation /\ animPending
    THEN /\ client' = [client EXCEPT ![c] = [pc |-> "anim", t |-> t, notified |-> FALSE]]
         /\ UNCHANGED <<transactionFlags, wake, queues, applied, pending, animPending, input>>
    ELSE ApplyNow(c, t, animPending)

Queue(c, t) ==
    /\ queues' = [queues EXCEPT ![brought'[t].token] = Append(@, t)]
    /\ Sets({{"flush"}})
    /\ client' = [client EXCEPT ![c] = Idle]

\* a transaction goes to the queue behind others of its token or when its time
\* has not come
MustQueue(t) == queues[brought'[t].token] # <<>> \/ when'[t] = "later"

\* setTransactionState from the choice between the queue and applying
QueueOrApply(c, t) ==
    IF MustQueue(t)
    THEN Queue(c, t) /\ UNCHANGED <<applied, pending, animPending, input>>
    ELSE Apply(c, t)

\* a client brings a transaction
SetTransactionState(c) ==
    /\ client[c].pc = "idle" /\ Len(brought) < MaxTransactions
    /\ \E k \in Kinds, w \in {"now", "later", "far"} :
        LET t == Len(brought) + 1
        IN  /\ w \in k.when
            /\ brought' = Append(brought, [changes |-> k.changes, synchronous |-> k.synchronous,
                   animation |-> k.animation, inputSync |-> k.inputSync, token |-> k.token, by |-> c])
            /\ when' = Append(when, w)
            /\ IF k.animation /\ queues[k.token] # <<>>
               THEN /\ client' = [client EXCEPT ![c] = [pc |-> "queue", t |-> t, notified |-> FALSE]]
                    /\ UNCHANGED <<transactionFlags, wake, queues, applied, pending, animPending, input>>
               ELSE QueueOrApply(c, t)
    /\ UNCHANGED <<drawn, traversalMain, main, timeouts, excused>>

\* a client that was told of a change has the lock again and looks whether it
\* may go on
GoOn(c) ==
    LET t == client[c].t
        again == /\ client' = [client EXCEPT ![c].notified = FALSE]
                 /\ UNCHANGED <<transactionFlags, wake, queues, applied, pending, animPending, input>>
    IN  /\ client[c].notified
        /\ UNCHANGED <<brought, when>>
        /\ CASE client[c].pc = "queue" ->
                  IF queues[brought[t].token] # <<>> THEN again ELSE QueueOrApply(c, t)
             [] client[c].pc = "anim" -> IF animPending THEN again ELSE ApplyNow(c, t, FALSE)
             [] OTHER ->
                  IF pending \/ input.waits THEN again
                  ELSE /\ client' = [client EXCEPT ![c] = Idle]
                       /\ UNCHANGED <<transactionFlags, wake, queues, applied, pending, animPending, input>>
        /\ UNCHANGED <<drawn, traversalMain, main, timeouts, excused>>

\* five seconds have passed: the client takes the flag it waited for down, for
\* everyone, and goes on; one that waited for the queue does not look at it again
TimesOut(c) ==
    LET t == client[c].t
    IN  /\ client[c].pc # "idle" /\ timeouts < MaxTimeouts
        /\ timeouts' = timeouts + 1
        /\ UNCHANGED <<brought, when>>
        /\ CASE client[c].pc = "queue" -> Queue(c, t) /\ UNCHANGED <<applied, pending, animPending, input, excused>>
             [] client[c].pc = "anim" -> ApplyNow(c, t, FALSE) /\ UNCHANGED excused
             [] OTHER ->
                  /\ pending' = FALSE
                  /\ input' = [input EXCEPT !.waits = FALSE]
                  /\ client' = [client EXCEPT ![c] = Idle]
                  /\ excused' = excused \cup {client[d].t : d \in {d \in Clients : client[d].pc = "commit"}}
                  /\ UNCHANGED <<transactionFlags, wake, queues, applied, animPending>>
        /\ UNCHANGED <<drawn, traversalMain, main>>

----
(* The main thread *)

\* A frame that is given up (the one before was missed, the configuration
\* waits for its fence) asks for another wake-up and changes nothing here.

\* handleMessageTransaction reads the flags before it takes the lock
Peek ==
    /\ main.pc = "idle" /\ wake
    /\ wake' = FALSE
    /\ main' = [main EXCEPT !.pc = "flush", !.peeked = transactionFlags]
    /\ UNCHANGED <<transactionFlags, brought, when, queues, applied, drawn, pending, animPending,
                   traversalMain, input, client, timeouts, excused>>

\* the front of a queue that is ready
FirstUnready(q) == SelectInSeq(q, LAMBDA t : ~Ready(t))
ReadyPart(q) == IF FirstUnready(q) = 0 THEN q ELSE SubSeq(q, 1, FirstUnready(q) - 1)
Left(q) == SubSeq(q, Len(ReadyPart(q)) + 1, Len(q))

\* flushTransactionQueues: the ready front of every queue is applied with the
\* input commands that happen to be pending; what is left asks for another
\* flush; the traversal is kept for this frame.
FlushTransactionQueues ==
    LET front == UNION {Range(ReadyPart(queues[k])) : k \in Tokens}
        left == {k \in Tokens : Left(queues[k]) # <<>>}
        emptied == {k \in Tokens : queues[k] # <<>> /\ Left(queues[k]) = <<>>}
        needs(t) == Needs(brought[t], input.pending)
        told == {t \in front : needs(t) \ {"traversal"} # {}}
    IN  /\ main.pc = "flush"
        /\ queues' = [k \in Tokens |-> Left(queues[k])]
        /\ applied' = applied \cup front
        /\ traversalMain' = (traversalMain \/ \E t \in front : "traversal" \in needs(t))
        /\ Sets({needs(t) \ {"traversal"} : t \in told} \cup {{"flush"} : k \in left})
        /\ pending' = (pending \/ \E t \in told : brought[t].synchronous)
        /\ animPending' = (animPending \/ \E t \in told : brought[t].animation)
        /\ input' = [input EXCEPT !.waits = @ \/ (told # {} /\ input.pending)]
        /\ IF emptied = {} THEN UNCHANGED client ELSE Broadcast
        /\ main' = [main EXCEPT !.pc = "handle", !.flushed = front # {}]
        /\ UNCHANGED <<brought, when, drawn, timeouts, excused>>

RunHandleTransaction == main.peeked # {} /\ (main.peeked # {"flush"} \/ main.flushed)

\* what a commit draws of transaction t when the flags taken are got
Covered(t, got) ==
    LET asked == SetDisplayStateLocked(brought[t].changes) \cup SetClientStateLocked(brought[t].changes)
    IN  /\ "traversal" \in asked => "traversal" \in got \/ traversalMain
        /\ "display" \in asked => "display" \in got

\* Mutant: the commit tells nobody.
CommitQuietly == pending' = FALSE /\ animPending' = FALSE /\ UNCHANGED client

\* commitTransaction: what waited for it is done with
CommitTransaction ==
    /\ pending' = FALSE /\ animPending' = FALSE
    /\ Broadcast

\* Mutant: the flags read before the lock was taken.
PeekedFlags == main.peeked

\* the flags are taken again under the lock
GetTransactionFlags == transactionFlags

\* handleTransaction: takes the flags under the lock, traverses the layers and
\* the displays they ask for, commits and tells the waiting clients
HandleTransaction ==
    /\ main.pc = "handle" /\ RunHandleTransaction
    /\ drawn' = drawn \cup {t \in applied : Covered(t, GetTransactionFlags)}
    /\ traversalMain' = FALSE
    /\ transactionFlags' = {}
    /\ input' = [input EXCEPT !.commands = input.pending, !.pending = FALSE]
    /\ CommitTransaction
    /\ main' = [pc |-> "recheck", peeked |-> {}, flushed |-> FALSE]
    /\ UNCHANGED <<wake, brought, when, queues, applied, timeouts, excused>>

NoTransaction ==
    /\ main.pc = "handle" /\ ~RunHandleTransaction
    /\ transactionFlags' = transactionFlags \ {"flush"}
    /\ main' = [pc |-> "recheck", peeked |-> {}, flushed |-> FALSE]
    /\ UNCHANGED <<wake, brought, when, queues, applied, drawn, pending, animPending, traversalMain,
                   input, client, timeouts, excused>>

\* Mutant: the queues are not looked at again.
NeverFlush == FALSE

TransactionFlushNeeded == \E k \in Tokens : queues[k] # <<>>

\* the queues are looked at once more, without the lock
Recheck ==
    /\ main.pc = "recheck"
    /\ IF TransactionFlushNeeded THEN Sets({{"flush"}}) ELSE UNCHANGED <<transactionFlags, wake>>
    /\ main' = [main EXCEPT !.pc = "input"]
    /\ UNCHANGED <<brought, when, queues, applied, drawn, pending, animPending, traversalMain, input,
                   client, timeouts, excused>>

\* updateInputFlinger with no window changed
AnswerAtOnce ==
    /\ input' = [input EXCEPT !.commands = FALSE, !.waits = FALSE]
    /\ Broadcast

\* updateInputFlinger: changed windows go to the dispatcher, whose answer comes
\* later; otherwise the clients are told at once
UpdateInputFlinger ==
    /\ main.pc = "input"
    /\ \/ /\ input.commands
          /\ input' = [input EXCEPT !.commands = FALSE, !.answers = @ + 1]
          /\ UNCHANGED client
       \/ /\ input.commands
          /\ AnswerAtOnce
       \/ ~input.commands /\ UNCHANGED <<input, client>>
    /\ main' = [main EXCEPT !.pc = "idle"]
    /\ UNCHANGED <<transactionFlags, wake, brought, when, queues, applied, drawn, pending, animPending,
                   traversalMain, timeouts, excused>>

----
(* Their surroundings *)

\* the dispatcher's answer
SetInputWindowsFinished ==
    /\ input.answers > 0
    /\ input' = [input EXCEPT !.answers = @ - 1, !.waits = FALSE]
    /\ Broadcast
    /\ UNCHANGED <<transactionFlags, wake, brought, when, queues, applied, drawn, pending, animPending,
                   traversalMain, main, timeouts, excused>>

\* a layer has a new buffer
SignalLayerUpdate ==
    /\ ~wake /\ wake' = TRUE
    /\ UNCHANGED <<transactionFlags, brought, when, queues, applied, drawn, pending, animPending,
                   traversalMain, input, main, client, timeouts, excused>>

\* a fence signals or a presentation time comes (or comes within a second), of
\* a transaction for which it still matters
TimePasses(t) ==
    /\ t \notin applied
    /\ \/ when[t] = "later" /\ when' = [when EXCEPT ![t] = "now"]
       \/ when[t] = "far" /\ when' = [when EXCEPT ![t] = "later"]
    /\ UNCHANGED <<transactionFlags, wake, brought, queues, applied, drawn, pending, animPending,
                   traversalMain, input, main, client, timeouts, excused>>

Main == Peek \/ FlushTransactionQueues \/ HandleTransaction \/ NoTransaction
        \/ Recheck \/ UpdateInputFlinger
Next ==
    \/ \E c \in Clients : SetTransactionState(c) \/ GoOn(c) \/ TimesOut(c)
    \/ Main \/ SetInputWindowsFinished \/ SignalLayerUpdate
    \/ \E t \in Ids : TimePasses(t)

\* The main thread gets its vsync and is never kept, a told client gets the
\* lock, the dispatcher answers and time passes; no wait needs its time-out.
Fairness ==
    /\ WF_vars(Main) /\ WF_vars(SetInputWindowsFinished)
    /\ \A c \in Clients : WF_vars(GoOn(c))
    /\ WF_vars(\E t \in Ids : TimePasses(t))

Spec == Init /\ [][Next]_vars /\ Fairness

----
(* Properties *)

TypeOK ==
    /\ transactionFlags \subseteq Flags /\ wake \in BOOLEAN
    /\ Len(brought) <= MaxTransactions /\ DOMAIN when = DOMAIN brought
    /\ \A k \in Tokens : Range(queues[k]) \subseteq Ids
    /\ applied \subseteq Ids /\ drawn \subseteq applied /\ excused \subseteq Ids

\* When the main thread sleeps and nothing will wake it, no flag is left, no
\* transaction is queued and every change applied has been drawn, but for what a
\* flush kept for a traversal that did not follow.
NothingForgotten ==
    main.pc = "idle" /\ ~wake =>
        /\ transactionFlags = {} /\ \A k \in Tokens : queues[k] = <<>>
        /\ (\E t \in applied \ drawn : brought[t].changes # {}) => traversalMain

\* What one thread brings with one token takes effect in the order it was
\* brought, whether it was queued, applied at once or waited for an animation.
ClientOrder ==
    \A t \in applied : \A u \in 1 .. t - 1 :
        brought[u].by = brought[t].by /\ brought[u].token = brought[t].token => u \in applied

\* A synchronous transaction that its own thread applied is drawn when the call
\* returns, unless somebody's wait timed out meanwhile.
SyncSeen ==
    [][\A c \in Clients :
        client[c].pc = "commit" /\ client'[c].pc = "idle" =>
            LET t == client[c].t
            IN  brought[t].synchronous => t \in drawn \/ t \in excused']_vars

\* While a call waits for the input windows, the commands are pending, on
\* their way or with the dispatcher: somebody will answer.
InputAnswered == input.waits => input.pending \/ input.commands \/ input.answers > 0

\* No flag, queue, change or answer is lost between the threads (SurfaceFlinger.cpp
\* 1750-1775, 3690-3960).
TransactionsSafe == TypeOK /\ NothingForgotten /\ ClientOrder /\ InputAnswered

\* Every call returns, with no time-out needed.
ClientReturns == \A c \in Clients : client[c].pc # "idle" ~> client[c].pc = "idle"

\* SurfaceFlinger.cpp:3907: on the main thread "we are about to preform a
\* traversal", so the traversal kept for this frame is followed by one.
TraversalFollows == traversalMain => main.pc = "handle" /\ RunHandleTransaction
====
