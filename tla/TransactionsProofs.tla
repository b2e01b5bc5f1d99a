------------------------- MODULE TransactionsProofs -------------------------
(***************************************************************************)
(* No flag, queue, change or answer is lost between the threads, and a     *)
(* synchronous transaction is drawn when its call returns; for any number  *)
(* of clients, apply tokens and transactions.                              *)
(*                                                                         *)
(* None of the parts of TransactionsSafe is inductive.  What is missing:   *)
(*   - every transaction is applied, queued or with its waiting client,    *)
(*     and what a client brought before is applied or ahead in the queue;  *)
(*   - where the main thread is says which flags may stand without a       *)
(*     wake-up: after the commit none, before it those it has seen;        *)
(*   - a change that is applied and not drawn has its flags set;           *)
(*   - commands in hand are only between the commit and the dispatcher;    *)
(*   - a thread that waits for the commit of a synchronous transaction has *)
(*     mTransactionPending set until it is drawn.                          *)
(***************************************************************************)
EXTENDS Transactions, NaturalLemmas

Brought == [changes : SUBSET {"content", "order", "stack", "display"}, synchronous : BOOLEAN,
            animation : BOOLEAN, inputSync : BOOLEAN, token : Tokens, by : Clients]
MainPCs == {"idle", "flush", "handle", "recheck", "input"}
ClientPCs == {"idle", "queue", "anim", "commit"}

Typed ==
    /\ transactionFlags \subseteq Flags /\ wake \in BOOLEAN
    /\ brought \in Seq(Brought) /\ Len(brought) <= MaxTransactions
    /\ when \in Seq(Times) /\ Len(when) = Len(brought)
    /\ queues \in [Tokens -> Seq(Nat)]
    /\ applied \subseteq Ids /\ drawn \subseteq applied /\ excused \subseteq Ids
    /\ input \in [pending : BOOLEAN, commands : BOOLEAN, waits : BOOLEAN, answers : Nat]
    /\ main \in [pc : MainPCs, peeked : SUBSET Flags, flushed : BOOLEAN]
    /\ client \in [Clients -> [pc : ClientPCs, t : Nat, notified : BOOLEAN]]

Queued(k, t) == \E i \in DOMAIN queues[k] : queues[k][i] = t

\* t and u are of one client and one token
Same(t, u) == brought[u].by = brought[t].by /\ brought[u].token = brought[t].token

\* What a client of this token brought before t is applied.
Settled(t) == \A u \in 1 .. t - 1 : Same(t, u) => u \in applied

\* Each queue holds transactions of its token, behind what the same client brought before.
QueuesInOrder ==
    \A k \in Tokens : \A i \in DOMAIN queues[k] :
        /\ queues[k][i] \in Ids /\ brought[queues[k][i]].token = k
        /\ \A u \in 1 .. queues[k][i] - 1 : Same(queues[k][i], u) =>
               u \in applied \/ \E j \in 1 .. i - 1 : queues[k][j] = u

\* Every transaction is applied, queued, or with its client.
Placed ==
    \A t \in Ids :
        \/ t \in applied \/ Queued(brought[t].token, t)
        \/ client[brought[t].by].pc \in {"queue", "anim"} /\ client[brought[t].by].t = t

\* A client waits for a transaction of its own; nothing of it is queued before an animation
\* frame, and the commit it waits for is of an applied one.
Waiting ==
    \A c \in Clients : client[c].pc # "idle" =>
        LET t == client[c].t
        IN  /\ t \in Ids /\ brought[t].by = c
            /\ client[c].pc = "anim" => Settled(t)
            /\ client[c].pc = "commit" => t \in applied

\* Without a wake-up, nothing is set that the main thread will not come to by itself.
Awake ==
    ~wake =>
        /\ main.pc \in {"recheck", "input", "idle"} => transactionFlags = {}
        /\ main.pc \in {"input", "idle"} => \A k \in Tokens : queues[k] = <<>>
        /\ main.pc \in {"flush", "handle"} /\ main.peeked \subseteq {"flush"} =>
               transactionFlags \subseteq {"flush"}

\* What is applied and not drawn has its flags set.
Noted == \A t \in applied \ drawn : Covered(t, transactionFlags)

InputInv == InputAnswered /\ (input.commands => main.pc \in {"recheck", "input"})

SyncInv ==
    \A c \in Clients :
        client[c].pc = "commit" /\ brought[client[c].t].synchronous =>
            pending \/ client[c].t \in drawn \/ client[c].t \in excused

\* The inductive invariant.
TransactionsInv ==
    /\ Typed /\ QueuesInOrder /\ Placed /\ Waiting /\ ClientOrder
    /\ Awake /\ Noted /\ InputInv /\ SyncInv

\* What was brought has its client and its token.
LEMMA BroughtTyped ==
    ASSUME Typed, NEW t \in Ids
    PROVE  /\ brought[t] \in Brought
           /\ brought[t].by \in Clients /\ brought[t].token \in Tokens
<1>1. brought[t] \in Brought
    BY DEF Typed, Ids
<1> QED
    BY <1>1 DEF Brought

----------------------------------------------------------------------------
(* What a transaction asks for.                                            *)

Asked(b) == SetDisplayStateLocked(b.changes) \cup SetClientStateLocked(b.changes)

\* A transaction asks for its changes, a synchronous one for a commit at least, and none for
\* another look at the queues.
LEMMA NeedsFacts ==
    ASSUME NEW b \in Brought, NEW sync \in BOOLEAN
    PROVE  /\ Needs(b, sync) \subseteq Flags \ {"flush"}
           /\ Asked(b) \subseteq Needs(b, sync)
           /\ b.synchronous => Needs(b, sync) # {}
           /\ b.changes # {} => "traversal" \in Asked(b) \/ "display" \in Asked(b)
<1>1. Asked(b) \subseteq Flags \ {"flush"}
    BY DEF Asked, SetDisplayStateLocked, SetClientStateLocked, Flags
<1>2. b.changes # {} => "traversal" \in Asked(b) \/ "display" \in Asked(b)
    BY DEF Asked, SetDisplayStateLocked, SetClientStateLocked, Brought
<1>3. AddInputWindowCommands(sync) \subseteq {"traversal"}
    BY DEF AddInputWindowCommands
<1>4. Needs(b, sync) = IF Asked(b) \cup AddInputWindowCommands(sync) = {} /\ (b.synchronous \/ b.animation)
                       THEN {"transaction"} ELSE Asked(b) \cup AddInputWindowCommands(sync)
    BY DEF Needs, Asked
<1> QED
    BY <1>1, <1>2, <1>3, <1>4 DEF Flags

\* A call that asks for something, or for another look at the queues, leaves nothing set without
\* a wake-up: the first flag wakes the main thread.
LEMMA CallWakes ==
    ASSUME Typed, Awake, NEW call, call \subseteq Flags, call # {},
           call = {"flush"} \/ "flush" \notin call,
           Sets({call}), main' = main, queues' = queues \/ call = {"flush"}
    PROVE  Awake' /\ transactionFlags' = transactionFlags \cup call /\ wake' \in BOOLEAN
<1>1. transactionFlags' = transactionFlags \cup call
    BY DEF Sets
<1>2. wake' <=> wake \/ call \cap transactionFlags = {}
    BY DEF Sets
<1>3. wake' \in BOOLEAN
    BY DEF Sets, Typed
<1>4. ASSUME ~wake', main.pc \in {"recheck", "input", "idle"}
      PROVE  FALSE
    BY <1>2, <1>4 DEF Awake
<1>5. ASSUME ~wake', main.pc \in {"flush", "handle"}, main.peeked \subseteq {"flush"}
      PROVE  transactionFlags' \subseteq {"flush"}
    BY <1>1, <1>2, <1>5 DEF Awake
<1>6. Awake'
    BY <1>4, <1>5 DEF Awake
<1> QED
    BY <1>1, <1>3, <1>6

----------------------------------------------------------------------------
(* The binder threads.                                                     *)

\* Thread c comes with transaction t, which it brings now or has waited with.
Comes(c, t) ==
    /\ brought' \in Seq(Brought) /\ Len(brought') <= MaxTransactions
    /\ when' \in Seq(Times) /\ Len(when') = Len(brought')
    /\ Ids' = Ids \cup {t}
    /\ \A u \in Ids : brought'[u] = brought[u]
    /\ brought'[t] \in Brought /\ brought'[t].by = c
    /\ \/ client[c].pc = "idle"
       \/ client[c].pc \in {"queue", "anim"} /\ client[c].t = t

\* What the same client brought before is applied or queued.
LEMMA EarlierPlaced ==
    ASSUME TransactionsInv, NEW c \in Clients, NEW t \in Nat, Comes(c, t),
           NEW u \in 1 .. t - 1, Same(t, u)'
    PROVE  u \in Ids /\ (u \in applied \/ Queued(brought'[t].token, u))
<1>1. t \in Ids' /\ Len(brought') \in Nat
    BY DEF Comes
<1>2. u \in Ids' /\ u # t
    BY <1>1 DEF Ids
<1>3. u \in Ids /\ brought[u].by = c /\ brought[u].token = brought'[t].token
    BY <1>2 DEF Comes, Same
<1>4. ~(client[c].pc \in {"queue", "anim"} /\ client[c].t = u)
    BY <1>2 DEF Comes
<1> QED
    BY <1>3, <1>4 DEF TransactionsInv, Placed

\* A queue that is empty holds back nothing.
LEMMA EarlierApplied ==
    ASSUME TransactionsInv, NEW c \in Clients, NEW t \in Nat, Comes(c, t),
           queues[brought'[t].token] = <<>>
    PROVE  \A u \in 1 .. t - 1 : Same(t, u)' => u \in applied
BY EarlierPlaced DEF Queued

\* What the order of transactions keeps when one more comes and is queued, applied or waits.
LEMMA OrderKept ==
    ASSUME TransactionsInv, NEW c \in Clients, NEW t \in Nat, Comes(c, t),
           \/ /\ queues' = [queues EXCEPT ![brought'[t].token] = Append(@, t)]
              /\ applied' = applied /\ client'[c].pc = "idle"
           \/ /\ queues' = queues /\ applied' = applied \cup {t}
              /\ \A u \in 1 .. t - 1 : Same(t, u)' => u \in applied
              /\ client'[c].pc = "idle" \/ (client'[c].pc = "commit" /\ client'[c].t = t)
           \/ /\ queues' = queues /\ applied' = applied
              /\ client'[c].t = t
              /\ \/ client'[c].pc = "queue"
                 \/ /\ client'[c].pc = "anim"
                    /\ \A u \in 1 .. t - 1 : Same(t, u)' => u \in applied,
           \A d \in Clients \ {c} : client'[d] = client[d]
    PROVE  QueuesInOrder' /\ Placed' /\ Waiting' /\ ClientOrder'
<1> DEFINE k == brought'[t].token
<1>1. /\ t \in Ids' /\ Ids \subseteq Ids' /\ Ids' = Ids \cup {t} /\ applied \subseteq applied'
      /\ k \in Tokens /\ brought'[t].by = c /\ Ids \subseteq Nat
    BY DEF Comes, Brought, Ids
<1>2. \A u, v \in Ids : Same(u, v)' <=> Same(u, v)
    BY DEF Comes, Same
<1>3. /\ \A u \in Ids : \A v \in 1 .. u - 1 : v \in Ids
      /\ \A u \in Ids : brought[u] \in Brought
    BY DEF Ids, TransactionsInv, Typed
<1>4. queues \in [Tokens -> Seq(Nat)] /\ applied \subseteq Ids
    BY DEF TransactionsInv, Typed
<1>5. \A j \in Tokens : \A n \in DOMAIN queues[j] : n \in DOMAIN queues'[j] /\ queues'[j][n] = queues[j][n]
    <2> SUFFICES ASSUME NEW j \in Tokens, NEW n \in DOMAIN queues[j]
                 PROVE  n \in DOMAIN queues'[j] /\ queues'[j][n] = queues[j][n]
        OBVIOUS
    <2>1. CASE queues' = [queues EXCEPT ![k] = Append(@, t)] /\ j = k
        <3>1. queues'[j] = Append(queues[j], t) /\ queues[j] \in Seq(Nat)
            BY <1>1, <1>4, <2>1
        <3> QED
            BY <3>1
    <2>2. CASE queues' = queues \/ (queues' = [queues EXCEPT ![k] = Append(@, t)] /\ j # k)
        BY <1>1, <1>4, <2>2
    <2> QED
        BY <2>1, <2>2
<1>6. ASSUME NEW j \in Tokens, NEW n \in DOMAIN queues[j]
      PROVE  /\ queues'[j][n] \in Ids' /\ brought'[queues'[j][n]].token = j
             /\ \A u \in 1 .. queues'[j][n] - 1 : Same(queues[j][n], u)' =>
                   u \in applied' \/ \E m \in 1 .. n - 1 : queues'[j][m] = u
    <2>1. /\ queues[j][n] \in Ids /\ brought[queues[j][n]].token = j
          /\ queues'[j][n] = queues[j][n]
          /\ \A u \in 1 .. queues[j][n] - 1 : Same(queues[j][n], u) =>
                   u \in applied \/ \E m \in 1 .. n - 1 : queues[j][m] = u
        BY <1>5 DEF TransactionsInv, QueuesInOrder
    <2>2. \A m \in 1 .. n - 1 : queues'[j][m] = queues[j][m]
        BY <1>4, <1>5
    <2>3. brought'[queues[j][n]] = brought[queues[j][n]]
        BY <2>1 DEF Comes
    <2> QED
        BY <1>1, <1>2, <1>3, <2>1, <2>2, <2>3
<1>7. QueuesInOrder'
    <2> SUFFICES ASSUME NEW j \in Tokens, NEW n \in DOMAIN queues'[j], n \notin DOMAIN queues[j]
                 PROVE  /\ queues'[j][n] \in Ids' /\ brought'[queues'[j][n]].token = j
                        /\ \A u \in 1 .. queues'[j][n] - 1 : Same(queues[j][n], u)' =>
                              u \in applied' \/ \E m \in 1 .. n - 1 : queues'[j][m] = u
        BY <1>6 DEF QueuesInOrder
    <2>1. /\ queues' = [queues EXCEPT ![k] = Append(@, t)] /\ j = k
          /\ n = Len(queues[k]) + 1 /\ queues'[j][n] = t
        BY <1>1, <1>4
    <2>2. ASSUME NEW u \in 1 .. t - 1, Same(t, u)'
          PROVE  u \in applied' \/ \E m \in 1 .. n - 1 : queues'[j][m] = u
        <3>1. u \in applied \/ Queued(k, u)
            BY <2>2, EarlierPlaced
        <3>2. Queued(k, u) => \E m \in 1 .. n - 1 : queues'[j][m] = u
            BY <1>1, <1>4, <1>5, <2>1 DEF Queued
        <3> QED
            BY <1>1, <3>1, <3>2
    <2> QED
        BY <1>1, <2>1, <2>2
<1>8. Placed'
    <2> SUFFICES ASSUME NEW u \in Ids'
                 PROVE  \/ u \in applied' \/ Queued(brought[u].token, u)'
                        \/ client'[brought'[u].by].pc \in {"queue", "anim"} /\ client'[brought'[u].by].t = u
        BY DEF Placed
    <2>1. CASE u = t
        <3>1. queues' = [queues EXCEPT ![k] = Append(@, t)] => Queued(brought[t].token, t)'
            <4> SUFFICES ASSUME queues' = [queues EXCEPT ![k] = Append(@, t)]
                         PROVE  Queued(brought[t].token, t)'
                OBVIOUS
            <4>1. queues'[k] = Append(queues[k], t)
                BY <1>1, <1>4
            <4>2. Len(queues[k]) + 1 \in DOMAIN queues'[k] /\ queues'[k][Len(queues[k]) + 1] = t
                BY <1>1, <1>4, <4>1
            <4> QED
                BY <4>2 DEF Queued
        <3> QED
            BY <1>1, <2>1, <3>1
    <2>2. CASE u # t
        <3>1. u \in Ids /\ brought'[u] = brought[u] /\ brought[u].token \in Tokens
            BY <1>1, <1>3, <2>2 DEF Comes, Brought
        <3>2. Queued(brought[u].token, u) => Queued(brought[u].token, u)'
            BY <1>5, <3>1 DEF Queued
        <3>3. client[brought[u].by].pc \in {"queue", "anim"} /\ client[brought[u].by].t = u
                => brought[u].by # c
            BY <2>2 DEF Comes
        <3>4. brought[u].by \in Clients
            BY <1>3, <3>1 DEF Brought
        <3> QED
            BY <1>1, <3>1, <3>2, <3>3, <3>4 DEF TransactionsInv, Placed
    <2> QED
        BY <2>1, <2>2
<1>9. Waiting'
    <2> SUFFICES ASSUME NEW d \in Clients, client'[d].pc # "idle"
                 PROVE  /\ client'[d].t \in Ids' /\ brought'[client'[d].t].by = d
                        /\ client'[d].pc = "anim" => Settled(client[d].t)'
                        /\ client'[d].pc = "commit" => client'[d].t \in applied'
        BY DEF Waiting
    <2>1. CASE d = c
        BY <1>1, <2>1 DEF Settled
    <2>2. CASE d # c
        <3>1. client'[d] = client[d]
            BY <2>2
        <3>2. /\ client[d].t \in Ids /\ brought[client[d].t].by = d
              /\ client[d].pc = "anim" => Settled(client[d].t)
              /\ client[d].pc = "commit" => client[d].t \in applied
            BY <3>1 DEF TransactionsInv, Waiting
        <3>3. Settled(client[d].t) => Settled(client[d].t)'
            BY <1>1, <1>2, <1>3, <3>1, <3>2 DEF Settled
        <3> QED
            BY <1>1, <3>1, <3>2, <3>3 DEF Comes
    <2> QED
        BY <2>1, <2>2
<1>10. ClientOrder'
    <2> SUFFICES ASSUME NEW v \in applied', NEW u \in 1 .. v - 1, Same(v, u)'
                 PROVE  u \in applied'
        BY DEF ClientOrder, Same
    <2>1. CASE v \in applied
        BY <1>1, <1>2, <1>3, <1>4, <2>1 DEF TransactionsInv, ClientOrder, Same
    <2>2. CASE v \notin applied
        BY <1>1, <2>2
    <2> QED
        BY <2>1, <2>2
<1> QED
    BY <1>7, <1>8, <1>9, <1>10

\* What is noted of the transactions that were there before.
LEMMA NotedKept ==
    ASSUME TransactionsInv, NEW c \in Clients, NEW t \in Nat, Comes(c, t),
           transactionFlags \subseteq transactionFlags', traversalMain' = traversalMain,
           NEW u \in applied \ drawn
    PROVE  Covered(u, transactionFlags)'
<1>1. brought'[u] = brought[u] /\ Covered(u, transactionFlags)
    BY DEF TransactionsInv, Typed, Comes, Noted
<1> QED
    BY <1>1 DEF Covered

\* setTransactionState queues it.
LEMMA QueueKeeps ==
    ASSUME TransactionsInv, NEW c \in Clients, NEW t \in Nat, Comes(c, t), Queue(c, t),
           UNCHANGED <<applied, drawn, pending, animPending, traversalMain, input, main, excused>>
    PROVE  TransactionsInv'
<1> DEFINE k == brought'[t].token
<1>1. /\ queues' = [queues EXCEPT ![k] = Append(@, t)] /\ Sets({{"flush"}})
      /\ client' = [client EXCEPT ![c] = Idle]
    BY DEF Queue
<1>2. Typed /\ Awake /\ Noted /\ InputInv /\ SyncInv /\ k \in Tokens
    BY DEF TransactionsInv, Comes, Brought
<1>3. client'[c].pc = "idle" /\ \A d \in Clients \ {c} : client'[d] = client[d]
    BY <1>1, <1>2 DEF Typed, Idle
<1>4. QueuesInOrder' /\ Placed' /\ Waiting' /\ ClientOrder'
    BY <1>1, <1>3, OrderKept
<1>5. /\ Awake' /\ wake' \in BOOLEAN
      /\ transactionFlags' = transactionFlags \cup {"flush"} /\ transactionFlags' \subseteq Flags
    <2> DEFINE call == {"flush"}
    <2>1. call \subseteq Flags /\ call # {} /\ call = {"flush"} /\ Sets({call})
        BY <1>1 DEF Flags
    <2> HIDE DEF call
    <2>2. Awake' /\ transactionFlags' = transactionFlags \cup call /\ wake' \in BOOLEAN
        BY <1>2, <2>1, CallWakes
    <2> QED
        BY <1>2, <2>1, <2>2 DEF Typed
<1>6. Typed'
    <2>1. queues' \in [Tokens -> Seq(Nat)]
        BY <1>1, <1>2 DEF Typed
    <2>2. client' \in [Clients -> [pc : ClientPCs, t : Nat, notified : BOOLEAN]]
        BY <1>1, <1>2 DEF Typed, Idle, ClientPCs
    <2> QED
        BY <1>2, <1>5, <2>1, <2>2 DEF Typed, Comes, Ids
<1>7. Noted'
    BY <1>5, NotedKept DEF Noted
<1>8. InputInv'
    BY <1>2 DEF InputInv, InputAnswered
<1>9. SyncInv'
    BY <1>2, <1>3 DEF SyncInv, Comes, Waiting, TransactionsInv
<1> QED
    BY <1>4, <1>5, <1>6, <1>7, <1>8, <1>9 DEF TransactionsInv

\* applyTransactionState applies it at once, with nothing of its token before it.
LEMMA ApplyNowKeeps ==
    ASSUME TransactionsInv, NEW c \in Clients, NEW t \in Nat, Comes(c, t), NEW anim,
           ApplyNow(c, t, anim),
           \A u \in 1 .. t - 1 : Same(t, u)' => u \in applied,
           UNCHANGED <<drawn, traversalMain, main, excused>>
    PROVE  TransactionsInv'
<1> DEFINE k == brought'[t]
           needs == Needs(k, k.inputSync)
           inputPending == input.pending \/ k.inputSync
           sync == pending \/ k.synchronous
           inputWaits == input.waits \/ inputPending
<1>1. applied' = applied \cup {t} /\ queues' = queues
    BY DEF ApplyNow
<1>2. Typed /\ Awake /\ Noted /\ InputInv /\ SyncInv /\ k \in Brought /\ t \in Ids'
    BY DEF TransactionsInv, Comes
<1>3. needs \subseteq Flags \ {"flush"} /\ Asked(k) \subseteq needs /\ (k.synchronous => needs # {})
    <2>1. k.inputSync \in BOOLEAN
        BY <1>2 DEF Brought
    <2> QED
        BY <1>2, <2>1, NeedsFacts
<1>4. /\ input' = [input EXCEPT !.pending = inputPending] \/
         input' = [input EXCEPT !.pending = inputPending, !.waits = inputWaits]
      /\ client' = [client EXCEPT ![c] = Idle] \/
         client' = [client EXCEPT ![c] = [pc |-> "commit", t |-> t, notified |-> FALSE]]
    BY DEF ApplyNow
<1>5. /\ client'[c].pc = "idle" \/ (client'[c].pc = "commit" /\ client'[c].t = t)
      /\ \A d \in Clients \ {c} : client'[d] = client[d]
    BY <1>2, <1>4 DEF Typed, Idle
<1>6. QueuesInOrder' /\ Placed' /\ Waiting' /\ ClientOrder'
    BY <1>1, <1>5, OrderKept
<1>7. /\ input'.pending = inputPending /\ input'.commands = input.commands
      /\ input'.waits = input.waits \/ input'.waits = inputWaits
      /\ input'.answers = input.answers
    BY <1>2, <1>4 DEF Typed
<1>8. InputInv'
    BY <1>2, <1>7 DEF InputInv, InputAnswered
<1>9. /\ Awake' /\ wake' \in BOOLEAN /\ transactionFlags' = transactionFlags \cup needs
      /\ transactionFlags' \subseteq Flags
    <2>1. CASE needs = {}
        <3>1. UNCHANGED <<transactionFlags, wake>>
            BY <2>1 DEF ApplyNow
        <3> QED
            BY <1>1, <1>2, <2>1, <3>1 DEF Awake, Typed
    <2>2. CASE needs # {}
        <3>1. Sets({needs})
            BY <2>2 DEF ApplyNow
        <3>2. needs \subseteq Flags /\ "flush" \notin needs
            BY <1>3
        <3> HIDE DEF needs
        <3>3. Awake' /\ transactionFlags' = transactionFlags \cup needs /\ wake' \in BOOLEAN
            BY <1>1, <1>2, <2>2, <3>1, <3>2, CallWakes
        <3> QED
            BY <1>2, <3>2, <3>3 DEF Typed
    <2> QED
        BY <2>1, <2>2
<1>10. Typed'
    <2>1. client' \in [Clients -> [pc : ClientPCs, t : Nat, notified : BOOLEAN]]
        <3> DEFINE wait == [pc |-> "commit", t |-> t, notified |-> FALSE]
        <3>1. {Idle, wait} \subseteq [pc : ClientPCs, t : Nat, notified : BOOLEAN]
            BY DEF Idle, ClientPCs
        <3>2. client' = [client EXCEPT ![c] = Idle] \/ client' = [client EXCEPT ![c] = wait]
            BY <1>4
        <3> HIDE DEF wait
        <3> QED
            BY <1>2, <3>1, <3>2 DEF Typed
    <2>2. inputPending \in BOOLEAN /\ inputWaits \in BOOLEAN
        BY <1>2 DEF Typed, Brought
    <2>3. input' \in [pending : BOOLEAN, commands : BOOLEAN, waits : BOOLEAN, answers : Nat]
        BY <1>2, <1>4, <2>2 DEF Typed
    <2> QED
        BY <1>1, <1>2, <1>9, <2>1, <2>3 DEF Typed, Comes
<1>11. Noted'
    <2>1. Covered(t, transactionFlags)'
        BY <1>3, <1>9 DEF Covered, Asked
    <2>2. \A u \in applied \ drawn : Covered(u, transactionFlags)'
        BY <1>9, NotedKept
    <2> QED
        BY <1>1, <2>1, <2>2 DEF Noted
<1>12. SyncInv'
    <2>1. pending => pending'
        BY DEF ApplyNow
    <2>2. client'[c].pc = "commit" /\ k.synchronous => pending'
        <3>1. client'[c].pc = "commit" => needs # {}
            BY <1>2 DEF ApplyNow, Typed, Idle
        <3>2. needs # {} => pending' = sync
            BY DEF ApplyNow
        <3> QED
            BY <3>1, <3>2
    <2>3. \A d \in Clients \ {c} : client[d].pc = "commit" =>
            brought'[client[d].t] = brought[client[d].t]
        BY DEF Comes, Waiting, TransactionsInv
    <2> SUFFICES ASSUME NEW d \in Clients, client'[d].pc = "commit", brought'[client'[d].t].synchronous
                 PROVE  pending' \/ client'[d].t \in drawn' \/ client'[d].t \in excused'
        BY DEF SyncInv
    <2>4. CASE d = c
        BY <1>5, <2>2, <2>4
    <2>5. CASE d # c
        <3>1. client'[d] = client[d]
            BY <1>5, <2>5
        <3> QED
            BY <1>2, <2>1, <2>3, <2>5, <3>1 DEF SyncInv
    <2> QED
        BY <2>4, <2>5
<1> QED
    BY <1>6, <1>8, <1>9, <1>10, <1>11, <1>12 DEF TransactionsInv

\* It waits for the queue or for the animation frame before it.
LEMMA WaitKeeps ==
    ASSUME TransactionsInv, NEW c \in Clients, NEW t \in Nat, Comes(c, t), NEW pc0 \in {"queue", "anim"},
           client' = [client EXCEPT ![c] = [pc |-> pc0, t |-> t, notified |-> FALSE]],
           pc0 = "anim" => \A u \in 1 .. t - 1 : Same(t, u)' => u \in applied,
           UNCHANGED <<transactionFlags, wake, queues, applied, drawn, pending, animPending,
                       traversalMain, input, main, excused>>
    PROVE  TransactionsInv'
<1>1. Typed /\ Awake /\ Noted /\ InputInv /\ SyncInv
    BY DEF TransactionsInv
<1>2. client'[c].pc = pc0 /\ client'[c].t = t /\ \A d \in Clients \ {c} : client'[d] = client[d]
    BY <1>1 DEF Typed
<1>3. QueuesInOrder' /\ Placed' /\ Waiting' /\ ClientOrder'
    BY <1>2, OrderKept
<1>4. Typed'
    <2>1. client' \in [Clients -> [pc : ClientPCs, t : Nat, notified : BOOLEAN]]
        BY <1>1 DEF Typed, ClientPCs
    <2> QED
        BY <1>1, <2>1 DEF Typed, Comes
<1>5. Noted'
    BY NotedKept DEF Noted
<1>6. Awake' /\ InputInv'
    BY <1>1 DEF Awake, InputInv, InputAnswered
<1>7. SyncInv'
    BY <1>1, <1>2 DEF SyncInv, Comes, Waiting, TransactionsInv
<1> QED
    BY <1>3, <1>4, <1>5, <1>6, <1>7 DEF TransactionsInv

\* A step that leaves the transactions where they are, and in every thread its place.
LEMMA PlacesKept ==
    ASSUME TransactionsInv, UNCHANGED <<brought, queues, applied>>,
           \A d \in Clients : client'[d].pc = client[d].pc /\ client'[d].t = client[d].t
    PROVE  QueuesInOrder' /\ Placed' /\ Waiting' /\ ClientOrder'
<1>1. QueuesInOrder'
    BY DEF TransactionsInv, QueuesInOrder, Ids, Same
<1>2. Placed'
    <2> SUFFICES ASSUME NEW t \in Ids
                 PROVE  \/ t \in applied \/ Queued(brought[t].token, t)'
                        \/ client'[brought[t].by].pc \in {"queue", "anim"} /\ client'[brought[t].by].t = t
        BY DEF Placed, Ids
    <2>1. brought[t].by \in Clients
        BY BroughtTyped DEF TransactionsInv
    <2> QED
        BY <2>1 DEF TransactionsInv, Placed, Queued
<1>3. Waiting'
    BY DEF TransactionsInv, Waiting, Settled, Same, Ids
<1>4. ClientOrder'
    BY DEF TransactionsInv, ClientOrder
<1> QED
    BY <1>1, <1>2, <1>3, <1>4

\* A thread that was told looks again and waits on.
LEMMA AgainKeeps ==
    ASSUME TransactionsInv, NEW c \in Clients,
           client' = [client EXCEPT ![c].notified = FALSE],
           UNCHANGED <<transactionFlags, wake, brought, when, queues, applied, drawn, pending,
                       animPending, traversalMain, input, main, excused>>
    PROVE  TransactionsInv'
<1>1. Typed /\ Awake /\ Noted /\ InputInv /\ SyncInv
    BY DEF TransactionsInv
<1>2. \A d \in Clients : client'[d].pc = client[d].pc /\ client'[d].t = client[d].t
    BY <1>1 DEF Typed
<1>3. QueuesInOrder' /\ Placed' /\ Waiting' /\ ClientOrder'
    BY <1>2, PlacesKept
<1>4. Typed' /\ Noted' /\ Awake' /\ InputInv' /\ SyncInv'
    BY <1>1, <1>2 DEF Typed, Noted, Covered, Awake, InputInv, InputAnswered, SyncInv, Ids
<1> QED
    BY <1>3, <1>4 DEF TransactionsInv

\* A thread whose commit is done, or that has waited long enough for it, goes.
LEMMA LeaveKeeps ==
    ASSUME TransactionsInv, NEW c \in Clients, client[c].pc \in {"idle", "commit"},
           client' = [client EXCEPT ![c] = Idle],
           \/ UNCHANGED <<pending, input, excused>>
           \/ /\ pending' = FALSE /\ input' = [input EXCEPT !.waits = FALSE]
              /\ excused' = excused \cup {client[d].t : d \in {d \in Clients : client[d].pc = "commit"}},
           UNCHANGED <<transactionFlags, wake, brought, when, queues, applied, drawn,
                       animPending, traversalMain, main>>
    PROVE  TransactionsInv'
<1>1. Typed /\ Awake /\ Noted /\ InputInv /\ SyncInv /\ Waiting
    BY DEF TransactionsInv
<1>2. client'[c].pc = "idle" /\ \A d \in Clients \ {c} : client'[d] = client[d]
    BY <1>1 DEF Typed, Idle
<1>3. QueuesInOrder' /\ ClientOrder'
    BY DEF TransactionsInv, QueuesInOrder, ClientOrder, Ids, Same
<1>4. Waiting'
    BY <1>1, <1>2 DEF Waiting, Settled, Same, Ids
<1>5. Placed'
    <2> SUFFICES ASSUME NEW t \in Ids
                 PROVE  \/ t \in applied \/ Queued(brought[t].token, t)'
                        \/ client'[brought[t].by].pc \in {"queue", "anim"} /\ client'[brought[t].by].t = t
        BY DEF Placed, Ids
    <2>1. brought[t].by \in Clients
        BY <1>1, BroughtTyped
    <2> QED
        BY <1>2, <2>1 DEF TransactionsInv, Placed, Queued
<1>6. excused \subseteq excused' /\ excused' \subseteq Ids
    BY <1>1 DEF Typed, Waiting
<1>7. Typed'
    <2>1. client' \in [Clients -> [pc : ClientPCs, t : Nat, notified : BOOLEAN]]
        BY <1>1 DEF Typed, Idle, ClientPCs
    <2>2. input' \in [pending : BOOLEAN, commands : BOOLEAN, waits : BOOLEAN, answers : Nat]
        BY <1>1 DEF Typed
    <2> QED
        BY <1>1, <1>6, <2>1, <2>2 DEF Typed, Ids
<1>8. Noted' /\ Awake'
    BY <1>1 DEF Noted, Covered, Awake
<1>9. InputInv'
    BY <1>1 DEF InputInv, InputAnswered, Typed
<1>10. SyncInv'
    BY <1>1, <1>2 DEF SyncInv
<1> QED
    BY <1>3, <1>4, <1>5, <1>7, <1>8, <1>9, <1>10 DEF TransactionsInv

\* Nothing of its token is queued: applyTransactionState may begin.
LEMMA ApplyKeeps ==
    ASSUME TransactionsInv, NEW c \in Clients, NEW t \in Nat, Comes(c, t), Apply(c, t),
           queues[brought'[t].token] = <<>>,
           UNCHANGED <<drawn, traversalMain, main, excused>>
    PROVE  TransactionsInv'
<1>1. \A u \in 1 .. t - 1 : Same(t, u)' => u \in applied
    BY EarlierApplied
<1>2. CASE brought'[t].animation /\ animPending
    BY <1>1, <1>2, WaitKeeps DEF Apply
<1>3. CASE ~(brought'[t].animation /\ animPending)
    BY <1>1, <1>3, ApplyNowKeeps DEF Apply
<1> QED
    BY <1>2, <1>3

LEMMA QueueOrApplyKeeps ==
    ASSUME TransactionsInv, NEW c \in Clients, NEW t \in Nat, Comes(c, t), QueueOrApply(c, t),
           UNCHANGED <<drawn, traversalMain, main, excused>>
    PROVE  TransactionsInv'
<1>1. CASE MustQueue(t)
    BY <1>1, QueueKeeps DEF QueueOrApply
<1>2. CASE ~MustQueue(t)
    BY <1>2, ApplyKeeps DEF QueueOrApply, MustQueue
<1> QED
    BY <1>1, <1>2

\* Each call of a binder thread.
LEMMA SetTransactionStateKeeps ==
    ASSUME TransactionsInv, NEW c \in Clients, SetTransactionState(c)
    PROVE  TransactionsInv'
<1> DEFINE t == Len(brought) + 1
<1>1. PICK k \in Kinds, w \in Times :
        /\ brought' = Append(brought, [changes |-> k.changes, synchronous |-> k.synchronous,
               animation |-> k.animation, inputSync |-> k.inputSync, token |-> k.token, by |-> c])
        /\ when' = Append(when, w)
        /\ IF k.animation /\ queues[k.token] # <<>>
           THEN /\ client' = [client EXCEPT ![c] = [pc |-> "queue", t |-> t, notified |-> FALSE]]
                /\ UNCHANGED <<transactionFlags, wake, queues, applied, pending, animPending, input>>
           ELSE QueueOrApply(c, t)
    BY KindsAssumption DEF SetTransactionState
<1>2. /\ client[c].pc = "idle" /\ Len(brought) < MaxTransactions
      /\ UNCHANGED <<drawn, traversalMain, main, excused>>
    BY DEF SetTransactionState
<1>3. t \in Nat /\ Typed
    BY DEF TransactionsInv, Typed
<1>4. Comes(c, t)
    <2> DEFINE b == [changes |-> k.changes, synchronous |-> k.synchronous, animation |-> k.animation,
                     inputSync |-> k.inputSync, token |-> k.token, by |-> c]
    <2>1. b \in Brought /\ b.by = c
        BY KindsAssumption DEF Brought
    <2>2. brought' = Append(brought, b)
        BY <1>1
    <2> HIDE DEF b
    <2>3. /\ brought' \in Seq(Brought) /\ Len(brought') = t /\ brought'[t] = b
          /\ \A u \in 1 .. Len(brought) : brought'[u] = brought[u]
        BY <1>3, <2>1, <2>2 DEF Typed
    <2>4. when' \in Seq(Times) /\ Len(when') = t
        BY <1>1, <1>3 DEF Typed
    <2>5. Ids' = Ids \cup {t} /\ Len(brought') <= MaxTransactions
        BY <1>2, <1>3, <2>3, BoundsAssumption DEF Ids
    <2> QED
        BY <1>2, <2>1, <2>3, <2>4, <2>5 DEF Comes, Ids
<1>5. CASE k.animation /\ queues[k.token] # <<>>
    BY <1>1, <1>2, <1>3, <1>4, <1>5, WaitKeeps
<1>6. CASE QueueOrApply(c, t)
    BY <1>2, <1>3, <1>4, <1>6, QueueOrApplyKeeps
<1> QED
    BY <1>1, <1>5, <1>6

LEMMA GoOnKeeps ==
    ASSUME TransactionsInv, NEW c \in Clients, GoOn(c)
    PROVE  TransactionsInv'
<1>0. PICK t \in Nat : t = client[c].t
    BY DEF TransactionsInv, Typed
<1> DEFINE again == /\ client' = [client EXCEPT ![c].notified = FALSE]
                    /\ UNCHANGED <<transactionFlags, wake, queues, applied, pending, animPending, input>>
<1>1. UNCHANGED <<brought, when, drawn, traversalMain, main, timeouts, excused>>
    BY DEF GoOn
<1>2. Typed /\ client[c].pc \in ClientPCs
    BY DEF TransactionsInv, Typed
<1>3. ASSUME client[c].pc \in {"queue", "anim"} PROVE Comes(c, t)
    <2>1. t \in Ids /\ brought[t].by = c
        BY <1>0, <1>3 DEF TransactionsInv, Waiting
    <2>2. brought[t] \in Brought
        BY <1>2, <2>1, BroughtTyped
    <2> QED
        BY <1>0, <1>1, <1>2, <1>3, <2>1, <2>2 DEF Comes, Typed, Ids
<1>4. CASE again
    BY <1>1, <1>4, AgainKeeps
<1>5. CASE client[c].pc = "queue"
    <2>1. again \/ QueueOrApply(c, t)
        BY <1>0, <1>5 DEF GoOn
    <2> QED
        BY <1>1, <1>2, <1>3, <1>4, <1>5, <2>1, QueueOrApplyKeeps
<1>6. CASE client[c].pc = "anim"
    <2>1. again \/ ApplyNow(c, t, FALSE)
        BY <1>0, <1>6 DEF GoOn
    <2>2. \A u \in 1 .. t - 1 : Same(t, u)' => u \in applied
        BY <1>0, <1>1, <1>6 DEF TransactionsInv, Waiting, Settled, Same
    <2> QED
        BY <1>1, <1>2, <1>3, <1>4, <1>6, <2>1, <2>2, ApplyNowKeeps
<1>7. CASE client[c].pc \notin {"queue", "anim"}
    <2>1. \/ again
          \/ /\ ~pending /\ ~input.waits /\ client' = [client EXCEPT ![c] = Idle]
             /\ UNCHANGED <<transactionFlags, wake, queues, applied, pending, animPending, input>>
        BY <1>7 DEF GoOn
    <2> QED
        BY <1>1, <1>2, <1>4, <1>7, <2>1, LeaveKeeps DEF ClientPCs
<1> QED
    BY <1>5, <1>6, <1>7

LEMMA TimesOutKeeps ==
    ASSUME TransactionsInv, NEW c \in Clients, TimesOut(c)
    PROVE  TransactionsInv'
<1>0. PICK t \in Nat : t = client[c].t
    BY DEF TransactionsInv, Typed
<1>1. UNCHANGED <<brought, when, drawn, traversalMain, main>>
    BY DEF TimesOut
<1>2. Typed /\ client[c].pc \in ClientPCs /\ client[c].pc # "idle"
    BY DEF TransactionsInv, Typed, TimesOut
<1>3. ASSUME client[c].pc \in {"queue", "anim"} PROVE Comes(c, t)
    <2>1. t \in Ids /\ brought[t].by = c
        BY <1>0, <1>3 DEF TransactionsInv, Waiting
    <2>2. brought[t] \in Brought
        BY <1>2, <2>1, BroughtTyped
    <2> QED
        BY <1>0, <1>1, <1>2, <1>3, <2>1, <2>2 DEF Comes, Typed, Ids
<1>4. CASE client[c].pc = "queue"
    <2>1. Queue(c, t) /\ UNCHANGED <<applied, pending, animPending, input, excused>>
        BY <1>0, <1>4 DEF TimesOut
    <2> QED
        BY <1>1, <1>3, <1>4, <2>1, QueueKeeps
<1>5. CASE client[c].pc = "anim"
    <2>1. ApplyNow(c, t, FALSE) /\ UNCHANGED excused
        BY <1>0, <1>5 DEF TimesOut
    <2>2. \A u \in 1 .. t - 1 : Same(t, u)' => u \in applied
        BY <1>0, <1>1, <1>5 DEF TransactionsInv, Waiting, Settled, Same
    <2> QED
        BY <1>1, <1>3, <1>5, <2>1, <2>2, ApplyNowKeeps
<1>6. CASE client[c].pc = "commit"
    <2>1. /\ pending' = FALSE /\ input' = [input EXCEPT !.waits = FALSE]
          /\ client' = [client EXCEPT ![c] = Idle]
          /\ excused' = excused \cup {client[d].t : d \in {d \in Clients : client[d].pc = "commit"}}
          /\ UNCHANGED <<transactionFlags, wake, queues, applied, animPending>>
        BY <1>6 DEF TimesOut
    <2> QED
        BY <1>1, <1>6, <2>1, LeaveKeeps
<1> QED
    BY <1>2, <1>4, <1>5, <1>6 DEF ClientPCs

----------------------------------------------------------------------------
(* The main thread.                                                        *)

\* flushTransactionQueues cuts each queue in two: a front that is taken and the rest.
LEMMA Cut ==
    ASSUME NEW q \in Seq(Nat)
    PROVE  \E n \in 0 .. Len(q) :
              /\ Left(q) \in Seq(Nat) /\ Len(Left(q)) = Len(q) - n
              /\ \A i \in 1 .. Len(q) - n : Left(q)[i] = q[n + i]
              /\ Range(ReadyPart(q)) = {q[i] : i \in 1 .. n}
<1> DEFINE T == {i \in 1 .. Len(q) : ~Ready(q[i])}
<1>1. FirstUnready(q) = IF T # {} THEN Min(T) ELSE 0
    BY DEF FirstUnready, SelectInSeq
<1>2. FirstUnready(q) \in 0 .. Len(q)
    <2>1. CASE T # {}
        <3>1. PICK m \in T : \A i \in T : m <= i
            <4>1. T \subseteq Nat
                OBVIOUS
            <4> QED
                BY <2>1, <4>1, LeastNatural
        <3>2. Min(T) \in T
            BY <3>1 DEF Min
        <3> QED
            BY <1>1, <2>1, <3>2
    <2>2. CASE T = {}
        BY <1>1, <2>2
    <2> QED
        BY <2>1, <2>2
<1> DEFINE n == IF FirstUnready(q) = 0 THEN Len(q) ELSE FirstUnready(q) - 1
<1>3. n \in 0 .. Len(q)
    BY <1>2
<1>4. /\ ReadyPart(q) \in Seq(Nat) /\ Len(ReadyPart(q)) = n
      /\ \A i \in 1 .. n : ReadyPart(q)[i] = q[i]
    <2>1. CASE FirstUnready(q) = 0
        BY <2>1 DEF ReadyPart
    <2>2. CASE FirstUnready(q) # 0
        <3>1. ReadyPart(q) = SubSeq(q, 1, n)
            BY <2>2 DEF ReadyPart
        <3> HIDE DEF n
        <3> QED
            BY <1>3, <3>1
    <2> QED
        BY <2>1, <2>2
<1>5. Left(q) = SubSeq(q, n + 1, Len(q))
    BY <1>4 DEF Left
<1> HIDE DEF n
<1>6. /\ Left(q) \in Seq(Nat) /\ Len(Left(q)) = Len(q) - n
      /\ \A i \in 1 .. Len(q) - n : Left(q)[i] = q[n + i]
    BY <1>3, <1>5
<1>7. Range(ReadyPart(q)) = {q[i] : i \in 1 .. n}
    <2>1. DOMAIN ReadyPart(q) = 1 .. n
        BY <1>3, <1>4
    <2> QED
        BY <1>4, <2>1 DEF Range
<1> QED
    BY <1>3, <1>6, <1>7

\* Told threads keep their place.
LEMMA BroadcastKeeps ==
    ASSUME Typed, Broadcast
    PROVE  /\ client' \in [Clients -> [pc : ClientPCs, t : Nat, notified : BOOLEAN]]
           /\ \A d \in Clients : client'[d].pc = client[d].pc /\ client'[d].t = client[d].t
<1>1. ASSUME NEW d \in Clients
      PROVE  /\ client'[d] \in [pc : ClientPCs, t : Nat, notified : BOOLEAN]
             /\ client'[d].pc = client[d].pc /\ client'[d].t = client[d].t
    <2>1. client'[d] = [client[d] EXCEPT !.notified = client[d].pc # "idle"]
        BY DEF Broadcast
    <2>2. client[d] \in [pc : ClientPCs, t : Nat, notified : BOOLEAN]
        BY DEF Typed
    <2>3. (client[d].pc # "idle") \in BOOLEAN
        OBVIOUS
    <2> QED
        BY <2>1, <2>2, <2>3
<1>2. client' = [d \in Clients |-> client'[d]]
    BY DEF Broadcast
<1> QED
    BY <1>1, <1>2

\* What flushTransactionQueues takes.
TakenFront == UNION {Range(ReadyPart(queues[k])) : k \in Tokens}

\* The first n of queue k are taken.
Cuts(k, n) ==
    /\ queues'[k] \in Seq(Nat) /\ Len(queues'[k]) = Len(queues[k]) - n
    /\ \A i \in 1 .. Len(queues[k]) - n : queues'[k][i] = queues[k][n + i]
    /\ \A i \in 1 .. n : queues[k][i] \in TakenFront
    /\ \A t \in Range(ReadyPart(queues[k])) : \E i \in 1 .. n : t = queues[k][i]

\* Each queue is cut in two, and what is taken is what was in front.
LEMMA Flushed ==
    ASSUME TransactionsInv, FlushTransactionQueues
    PROVE  \A k \in Tokens : \E n \in 0 .. Len(queues[k]) : Cuts(k, n)
<1> SUFFICES ASSUME NEW k \in Tokens
             PROVE  \E n \in 0 .. Len(queues[k]) : Cuts(k, n)
    OBVIOUS
<1>1. queues[k] \in Seq(Nat) /\ queues'[k] = Left(queues[k])
    BY DEF TransactionsInv, Typed, FlushTransactionQueues
<1>2. PICK q \in Seq(Nat) : q = queues[k]
    BY <1>1
<1>3. PICK n \in 0 .. Len(q) :
              /\ Left(q) \in Seq(Nat) /\ Len(Left(q)) = Len(q) - n
              /\ \A i \in 1 .. Len(q) - n : Left(q)[i] = q[n + i]
              /\ Range(ReadyPart(q)) = {q[i] : i \in 1 .. n}
    BY Cut
<1>4. Range(ReadyPart(q)) \subseteq TakenFront
    BY <1>2 DEF TakenFront
<1> QED
    BY <1>1, <1>2, <1>3, <1>4 DEF Cuts

LEMMA FlushKeepsOrder ==
    ASSUME TransactionsInv, FlushTransactionQueues,
           applied' = applied \cup TakenFront, brought' = brought,
           \A d \in Clients : client'[d].pc = client[d].pc /\ client'[d].t = client[d].t
    PROVE  /\ QueuesInOrder' /\ Placed' /\ Waiting' /\ ClientOrder'
           /\ TakenFront \subseteq Ids /\ queues' \in [Tokens -> Seq(Nat)]
<1>1. \A k \in Tokens : \E n \in 0 .. Len(queues[k]) : Cuts(k, n)
    BY Flushed
<1>2. /\ Typed /\ \A k \in Tokens : queues[k] \in Seq(Nat)
      /\ Ids' = Ids /\ Ids \subseteq Nat
    BY DEF TransactionsInv, Typed, Ids
<1>3. \A t \in TakenFront : \E k \in Tokens : \E i \in DOMAIN queues[k] :
          t = queues[k][i] /\ \A j \in 1 .. i : queues[k][j] \in TakenFront
    <2> SUFFICES ASSUME NEW k \in Tokens, NEW t \in Range(ReadyPart(queues[k]))
                 PROVE  \E i \in DOMAIN queues[k] :
                            t = queues[k][i] /\ \A j \in 1 .. i : queues[k][j] \in TakenFront
        BY DEF TakenFront
    <2>1. PICK n \in 0 .. Len(queues[k]) : Cuts(k, n)
        BY <1>1
    <2>2. PICK i \in 1 .. n : t = queues[k][i]
        BY <2>1 DEF Cuts
    <2>3. DOMAIN queues[k] = 1 .. Len(queues[k]) /\ Len(queues[k]) \in Nat
        BY <1>2
    <2>4. i \in DOMAIN queues[k] /\ 1 .. i \subseteq 1 .. n
        BY <2>3
    <2> QED
        BY <2>1, <2>2, <2>4 DEF Cuts
<1>4. TakenFront \subseteq Ids
    BY <1>3 DEF TransactionsInv, QueuesInOrder
<1>5. queues' \in [Tokens -> Seq(Nat)]
    <2>1. queues' = [k \in Tokens |-> Left(queues[k])]
        BY DEF FlushTransactionQueues
    <2>2. \A k \in Tokens : queues'[k] \in Seq(Nat)
        BY <1>1 DEF Cuts
    <2> QED
        BY <2>1, <2>2
<1>6. QueuesInOrder'
    <2> SUFFICES ASSUME NEW k \in Tokens, NEW i \in DOMAIN queues'[k]
                 PROVE  /\ queues'[k][i] \in Ids /\ brought[queues'[k][i]].token = k
                        /\ \A u \in 1 .. queues'[k][i] - 1 : Same(queues[k][i], u)' =>
                              u \in applied' \/ \E j \in 1 .. i - 1 : queues'[k][j] = u
        BY <1>2 DEF QueuesInOrder
    <2>1. PICK n \in 0 .. Len(queues[k]) : Cuts(k, n)
        BY <1>1
    <2>2. /\ n + i \in DOMAIN queues[k] /\ queues'[k][i] = queues[k][n + i]
          /\ i \in 1 .. Len(queues[k]) - n
        <3>1. DOMAIN queues[k] = 1 .. Len(queues[k]) /\ Len(queues[k]) \in Nat
            BY <1>2
        <3>2. DOMAIN queues'[k] = 1 .. Len(queues'[k]) /\ Len(queues'[k]) = Len(queues[k]) - n
            BY <2>1 DEF Cuts
        <3>3. i \in 1 .. Len(queues[k]) - n
            BY <3>2
        <3> QED
            BY <2>1, <3>1, <3>3 DEF Cuts
    <2>3. /\ queues[k][n + i] \in Ids /\ brought[queues[k][n + i]].token = k
          /\ \A u \in 1 .. queues[k][n + i] - 1 : Same(queues[k][n + i], u) =>
                u \in applied \/ \E j \in 1 .. n + i - 1 : queues[k][j] = u
        BY <2>2 DEF TransactionsInv, QueuesInOrder
    <2>4. ASSUME NEW u, NEW j \in 1 .. n + i - 1, queues[k][j] = u
          PROVE  u \in TakenFront \/ \E m \in 1 .. i - 1 : queues'[k][m] = u
        <3>1. CASE j <= n
            BY <2>1, <2>4, <3>1 DEF Cuts
        <3>2. CASE ~(j <= n)
            <4>0. Len(queues[k]) \in Nat
                BY <1>2
            <4>1. j - n \in 1 .. i - 1 /\ j - n \in 1 .. Len(queues[k]) - n /\ n + (j - n) = j
                BY <2>2, <3>2, <4>0
            <4>2. queues'[k][j - n] = queues[k][n + (j - n)]
                BY <2>1, <4>1 DEF Cuts
            <4> QED
                BY <2>4, <4>1, <4>2
        <3> QED
            BY <3>1, <3>2
    <2>5. \A u \in 1 .. queues[k][n + i] - 1 : Same(queues[k][i], u)' => Same(queues[k][n + i], u)
        BY <2>2 DEF Same
    <2> QED
        BY <2>2, <2>3, <2>4, <2>5
<1>7. Placed'
    <2> SUFFICES ASSUME NEW t \in Ids
                 PROVE  \/ t \in applied' \/ Queued(brought[t].token, t)'
                        \/ client'[brought[t].by].pc \in {"queue", "anim"} /\ client'[brought[t].by].t = t
        BY <1>2 DEF Placed
    <2>1. brought[t].by \in Clients /\ brought[t].token \in Tokens
        BY <1>2, BroughtTyped
    <2>2. PICK k \in Tokens : k = brought[t].token
        BY <2>1
    <2>3. ASSUME NEW i \in DOMAIN queues[k], queues[k][i] = t
          PROVE  t \in TakenFront \/ \E m \in DOMAIN queues'[k] : queues'[k][m] = t
        <3>1. PICK n \in 0 .. Len(queues[k]) : Cuts(k, n)
            BY <1>1
        <3>2. CASE i <= n
            BY <1>2, <2>3, <3>1, <3>2 DEF Cuts
        <3>3. CASE ~(i <= n)
            <4>1. i - n \in 1 .. Len(queues[k]) - n /\ n + (i - n) = i
                BY <1>2, <3>3
            <4>2. queues'[k][i - n] = queues[k][n + (i - n)]
                BY <3>1, <4>1 DEF Cuts
            <4>3. DOMAIN queues'[k] = 1 .. Len(queues[k]) - n
                BY <3>1 DEF Cuts
            <4> QED
                BY <2>3, <4>1, <4>2, <4>3
        <3> QED
            BY <3>2, <3>3
    <2>4. Queued(k, t) => t \in TakenFront \/ Queued(k, t)'
        BY <2>3 DEF Queued
    <2> QED
        BY <2>1, <2>2, <2>4 DEF TransactionsInv, Placed, Queued
<1>8. Waiting'
    BY <1>2 DEF TransactionsInv, Waiting, Settled, Same
<1>9. ClientOrder'
    <2> SUFFICES ASSUME NEW v \in applied', NEW u \in 1 .. v - 1, Same(v, u)
                 PROVE  u \in applied'
        BY DEF ClientOrder, Same
    <2>1. CASE v \in applied
        BY <2>1 DEF TransactionsInv, ClientOrder, Same
    <2>2. CASE v \in TakenFront
        <3>0. PICK k \in Tokens : \E i \in DOMAIN queues[k] :
                  v = queues[k][i] /\ \A j \in 1 .. i : queues[k][j] \in TakenFront
            BY <1>3, <2>2
        <3>1. PICK i \in DOMAIN queues[k] :
                  v = queues[k][i] /\ \A j \in 1 .. i : queues[k][j] \in TakenFront
            BY <3>0
        <3>2. u \in applied \/ \E j \in 1 .. i - 1 : queues[k][j] = u
            BY <3>1 DEF TransactionsInv, QueuesInOrder
        <3>3. 1 .. i - 1 \subseteq 1 .. i
            BY <1>2
        <3> QED
            BY <3>1, <3>2, <3>3
    <2> QED
        BY <2>1, <2>2
<1> QED
    BY <1>4, <1>5, <1>6, <1>7, <1>8, <1>9

\* The flags a flush sets, but for the traversal, which it keeps.
LEMMA FlushKeeps ==
    ASSUME TransactionsInv, FlushTransactionQueues
    PROVE  TransactionsInv'
<1> DEFINE needs(t) == Needs(brought[t], input.pending)
           told == {t \in TakenFront : needs(t) \ {"traversal"} # {}}
           calls == {needs(t) \ {"traversal"} : t \in told}
                    \cup {{"flush"} : k \in {k \in Tokens : Left(queues[k]) # <<>>}}
<1>1. /\ main.pc = "flush"
      /\ applied' = applied \cup TakenFront
      /\ traversalMain' = (traversalMain \/ \E t \in TakenFront : "traversal" \in needs(t))
      /\ Sets(calls)
      /\ pending' = (pending \/ \E t \in told : brought[t].synchronous)
      /\ input' = [input EXCEPT !.waits = @ \/ (told # {} /\ input.pending)]
      /\ client' = client \/ Broadcast
      /\ main' = [main EXCEPT !.pc = "handle", !.flushed = TakenFront # {}]
      /\ UNCHANGED <<brought, when, drawn, excused>>
    BY DEF FlushTransactionQueues, TakenFront
<1>2. Typed /\ Awake /\ Noted /\ InputInv /\ SyncInv
    BY DEF TransactionsInv
<1>3. /\ client' \in [Clients -> [pc : ClientPCs, t : Nat, notified : BOOLEAN]]
      /\ \A d \in Clients : client'[d].pc = client[d].pc /\ client'[d].t = client[d].t
    BY <1>1, <1>2, BroadcastKeeps DEF Typed
<1>4. /\ QueuesInOrder' /\ Placed' /\ Waiting' /\ ClientOrder'
      /\ TakenFront \subseteq Ids /\ queues' \in [Tokens -> Seq(Nat)]
    BY <1>1, <1>3, FlushKeepsOrder
<1>5. input.pending \in BOOLEAN
    BY <1>2 DEF Typed
<1>6. \A t \in TakenFront : /\ needs(t) \subseteq Flags \ {"flush"}
                            /\ Asked(brought[t]) \subseteq needs(t)
    BY <1>2, <1>4, <1>5, BroughtTyped, NeedsFacts
<1>7. \A call \in calls : call \subseteq Flags /\ (call = {"flush"} \/ "flush" \notin call)
    BY <1>6 DEF Flags
<1>8. \A t \in told : needs(t) \ {"traversal"} \in calls
    OBVIOUS
<1>9. /\ transactionFlags' = transactionFlags \cup UNION calls
      /\ wake' <=> wake \/ \E call \in calls : call \cap transactionFlags = {}
      /\ wake' \in BOOLEAN
    <2>1. Sets(calls)
        BY <1>1
    <2> HIDE DEF calls
    <2> QED
        BY <1>2, <2>1 DEF Sets, Typed
<1> HIDE DEF calls
<1>10. main' \in [pc : MainPCs, peeked : SUBSET Flags, flushed : BOOLEAN]
       /\ main'.pc = "handle" /\ main'.peeked = main.peeked
    BY <1>1, <1>2 DEF Typed, MainPCs
<1>11. /\ input' \in [pending : BOOLEAN, commands : BOOLEAN, waits : BOOLEAN, answers : Nat]
       /\ input'.pending = input.pending /\ input'.commands = input.commands
       /\ input'.answers = input.answers
       /\ input'.waits => input.waits \/ input.pending
    BY <1>1, <1>2 DEF Typed
<1>12. Typed'
    <2>1. transactionFlags' \subseteq Flags
        BY <1>2, <1>7, <1>9 DEF Typed
    <2>2. Ids' = Ids
        BY <1>1 DEF Ids
    <2>3. applied' \subseteq Ids /\ drawn' \subseteq applied' /\ excused' \subseteq Ids
        BY <1>1, <1>2, <1>4 DEF Typed
    <2>4. /\ brought' \in Seq(Brought) /\ Len(brought') <= MaxTransactions
          /\ when' \in Seq(Times) /\ Len(when') = Len(brought')
        BY <1>1, <1>2 DEF Typed
    <2> QED
        BY <1>3, <1>4, <1>9, <1>10, <1>11, <2>1, <2>2, <2>3, <2>4 DEF Typed
<1>13. Awake'
    <2> SUFFICES ASSUME ~wake', main.peeked \subseteq {"flush"}
                 PROVE  transactionFlags' \subseteq {"flush"}
        BY <1>10 DEF Awake
    <2>1. transactionFlags \subseteq {"flush"}
        BY <1>1, <1>2, <1>9 DEF Awake
    <2>2. \A call \in calls : call \cap transactionFlags # {}
        BY <1>9
    <2>3. \A call \in calls : call = {"flush"}
        BY <1>7, <2>1, <2>2
    <2> QED
        BY <1>9, <2>1, <2>3
<1>14. Noted'
    <2> SUFFICES ASSUME NEW t \in applied' \ drawn
                 PROVE  /\ "traversal" \in Asked(brought[t]) => "traversal" \in transactionFlags' \/ traversalMain'
                        /\ "display" \in Asked(brought[t]) => "display" \in transactionFlags'
        BY <1>1 DEF Noted, Covered, Asked
    <2>1. CASE t \in applied
        BY <1>1, <1>2, <1>9, <2>1 DEF Noted, Covered, Asked
    <2>2. CASE t \in TakenFront
        <3>1. Asked(brought[t]) \subseteq needs(t)
            BY <1>6, <2>2
        <3>2. ASSUME "display" \in Asked(brought[t]) PROVE "display" \in transactionFlags'
            <4>1. "display" \in needs(t) \ {"traversal"}
                BY <3>1, <3>2
            <4>2. t \in told
                BY <2>2, <4>1
            <4> QED
                BY <1>8, <1>9, <4>1, <4>2
        <3> QED
            BY <1>1, <2>2, <3>1, <3>2
    <2> QED
        BY <1>1, <2>1, <2>2
<1>15. InputInv'
    BY <1>1, <1>2, <1>10, <1>11 DEF InputInv, InputAnswered
<1>16. SyncInv'
    BY <1>1, <1>2, <1>3 DEF SyncInv
<1> QED
    BY <1>4, <1>12, <1>13, <1>14, <1>15, <1>16 DEF TransactionsInv

\* The main thread looks at the flags; those it has not seen come with a wake-up.
LEMMA PeekKeeps ==
    ASSUME TransactionsInv, Peek
    PROVE  TransactionsInv'
<1>1. Typed /\ Awake /\ Noted /\ InputInv /\ SyncInv
    BY DEF TransactionsInv
<1>2. /\ main.pc = "idle" /\ ~wake'
      /\ main' = [main EXCEPT !.pc = "flush", !.peeked = transactionFlags]
      /\ UNCHANGED <<transactionFlags, brought, when, queues, applied, drawn, pending,
                     traversalMain, input, client, excused>>
    BY DEF Peek
<1>3. QueuesInOrder' /\ Placed' /\ Waiting' /\ ClientOrder'
    BY <1>2, PlacesKept
<1>4. main' \in [pc : MainPCs, peeked : SUBSET Flags, flushed : BOOLEAN]
      /\ main'.pc = "flush" /\ main'.peeked = transactionFlags
    BY <1>1, <1>2 DEF Typed, MainPCs
<1>5. Typed'
    <2>1. wake' \in BOOLEAN
        BY DEF Peek
    <2> QED
        BY <1>1, <1>2, <1>4, <2>1 DEF Typed, Ids
<1>6. Awake'
    BY <1>2, <1>4 DEF Awake
<1>7. Noted' /\ InputInv' /\ SyncInv'
    BY <1>1, <1>2, <1>4 DEF Noted, Covered, InputInv, InputAnswered, SyncInv
<1> QED
    BY <1>3, <1>5, <1>6, <1>7 DEF TransactionsInv

\* The commit draws all that is applied, for all of it has its flags set under the lock.
LEMMA HandleKeeps ==
    ASSUME TransactionsInv, HandleTransaction
    PROVE  TransactionsInv' /\ drawn' = applied
<1>1. Typed /\ Noted /\ InputInv /\ Waiting
    BY DEF TransactionsInv
<1>2. /\ main.pc = "handle"
      /\ drawn' = drawn \cup {t \in applied : Covered(t, transactionFlags)}
      /\ transactionFlags' = {}
      /\ input' = [input EXCEPT !.commands = input.pending, !.pending = FALSE]
      /\ Broadcast
      /\ main' = [pc |-> "recheck", peeked |-> {}, flushed |-> FALSE]
      /\ UNCHANGED <<wake, brought, when, queues, applied, excused>>
    BY DEF HandleTransaction, CommitTransaction, GetTransactionFlags
<1>3. drawn' = applied
    BY <1>1, <1>2 DEF Noted, Typed
<1>4. /\ client' \in [Clients -> [pc : ClientPCs, t : Nat, notified : BOOLEAN]]
      /\ \A d \in Clients : client'[d].pc = client[d].pc /\ client'[d].t = client[d].t
    BY <1>1, <1>2, BroadcastKeeps
<1>5. QueuesInOrder' /\ Placed' /\ Waiting' /\ ClientOrder'
    BY <1>2, <1>4, PlacesKept
<1>6. /\ input' \in [pending : BOOLEAN, commands : BOOLEAN, waits : BOOLEAN, answers : Nat]
      /\ input'.commands <=> input.pending
      /\ input'.waits = input.waits /\ input'.answers = input.answers
    BY <1>1, <1>2 DEF Typed
<1>7. main' \in [pc : MainPCs, peeked : SUBSET Flags, flushed : BOOLEAN] /\ main'.pc = "recheck"
    BY <1>2 DEF MainPCs
<1>8. Typed'
    BY <1>1, <1>2, <1>3, <1>4, <1>6, <1>7 DEF Typed, Ids
<1>9. Awake' /\ Noted'
    BY <1>2, <1>3, <1>7 DEF Awake, Noted
<1>10. InputInv'
    <2>1. ~input.commands
        BY <1>1, <1>2 DEF InputInv
    <2> QED
        BY <1>1, <1>6, <1>7, <2>1 DEF InputInv, InputAnswered
<1>11. SyncInv'
    BY <1>1, <1>2, <1>3, <1>4 DEF SyncInv, Waiting
<1> QED
    BY <1>3, <1>5, <1>8, <1>9, <1>10, <1>11 DEF TransactionsInv

LEMMA NoTransactionKeeps ==
    ASSUME TransactionsInv, NoTransaction
    PROVE  TransactionsInv'
<1>1. Typed /\ Awake /\ Noted /\ InputInv /\ SyncInv
    BY DEF TransactionsInv
<1>2. /\ main.pc = "handle" /\ main.peeked \subseteq {"flush"}
      /\ transactionFlags' = transactionFlags \ {"flush"}
      /\ main' = [pc |-> "recheck", peeked |-> {}, flushed |-> FALSE]
      /\ UNCHANGED <<wake, brought, when, queues, applied, drawn, pending,
                     traversalMain, input, client, excused>>
    BY DEF NoTransaction, RunHandleTransaction
<1>3. QueuesInOrder' /\ Placed' /\ Waiting' /\ ClientOrder'
    BY <1>2, PlacesKept
<1>4. main' \in [pc : MainPCs, peeked : SUBSET Flags, flushed : BOOLEAN] /\ main'.pc = "recheck"
    BY <1>2 DEF MainPCs
<1>5. Typed'
    BY <1>1, <1>2, <1>4 DEF Typed, Ids
<1>6. Awake'
    BY <1>1, <1>2, <1>4 DEF Awake
<1>7. Noted'
    BY <1>1, <1>2 DEF Noted, Covered
<1>8. InputInv' /\ SyncInv'
    BY <1>1, <1>2, <1>4 DEF InputInv, InputAnswered, SyncInv
<1> QED
    BY <1>3, <1>5, <1>6, <1>7, <1>8 DEF TransactionsInv

\* A queue that is not empty at the end of the frame has the main thread woken.
LEMMA RecheckKeeps ==
    ASSUME TransactionsInv, Recheck
    PROVE  TransactionsInv'
<1>1. Typed /\ Awake /\ Noted /\ InputInv /\ SyncInv
    BY DEF TransactionsInv
<1>2. /\ main.pc = "recheck"
      /\ main' = [main EXCEPT !.pc = "input"]
      /\ UNCHANGED <<brought, when, queues, applied, drawn, pending, traversalMain, input,
                     client, excused>>
      /\ \/ Sets({{"flush"}})
         \/ UNCHANGED <<transactionFlags, wake>> /\ \A k \in Tokens : queues[k] = <<>>
    BY DEF Recheck, TransactionFlushNeeded
<1>3. QueuesInOrder' /\ Placed' /\ Waiting' /\ ClientOrder'
    BY <1>2, PlacesKept
<1>4. main' \in [pc : MainPCs, peeked : SUBSET Flags, flushed : BOOLEAN] /\ main'.pc = "input"
    BY <1>1, <1>2 DEF Typed, MainPCs
<1>5. /\ transactionFlags \subseteq transactionFlags' /\ transactionFlags' \subseteq Flags
      /\ wake' \in BOOLEAN
    BY <1>1, <1>2 DEF Sets, Typed, Flags
<1>6. Typed'
    BY <1>1, <1>2, <1>4, <1>5 DEF Typed, Ids
<1>7. Awake'
    <2>1. CASE Sets({{"flush"}})
        BY <1>1, <1>2, <2>1 DEF Awake, Sets
    <2>2. CASE UNCHANGED <<transactionFlags, wake>> /\ \A k \in Tokens : queues[k] = <<>>
        BY <1>1, <1>2, <1>4, <2>2 DEF Awake
    <2> QED
        BY <1>2, <2>1, <2>2
<1>8. Noted'
    BY <1>1, <1>2, <1>5 DEF Noted, Covered
<1>9. InputInv' /\ SyncInv'
    BY <1>1, <1>2, <1>4 DEF InputInv, InputAnswered, SyncInv
<1> QED
    BY <1>3, <1>6, <1>7, <1>8, <1>9 DEF TransactionsInv

LEMMA UpdateInputFlingerKeeps ==
    ASSUME TransactionsInv, UpdateInputFlinger
    PROVE  TransactionsInv'
<1>1. Typed /\ Awake /\ Noted /\ InputInv /\ SyncInv
    BY DEF TransactionsInv
<1>2. /\ main.pc = "input" /\ main' = [main EXCEPT !.pc = "idle"]
      /\ UNCHANGED <<transactionFlags, wake, brought, when, queues, applied, drawn, pending,
                     traversalMain, excused>>
      /\ \/ /\ input.commands
            /\ input' = [input EXCEPT !.commands = FALSE, !.answers = @ + 1]
            /\ UNCHANGED client
         \/ input' = [input EXCEPT !.commands = FALSE, !.waits = FALSE] /\ Broadcast
         \/ ~input.commands /\ UNCHANGED <<input, client>>
    BY DEF UpdateInputFlinger, AnswerAtOnce
<1>3. /\ client' \in [Clients -> [pc : ClientPCs, t : Nat, notified : BOOLEAN]]
      /\ \A d \in Clients : client'[d].pc = client[d].pc /\ client'[d].t = client[d].t
    BY <1>1, <1>2, BroadcastKeeps DEF Typed
<1>4. QueuesInOrder' /\ Placed' /\ Waiting' /\ ClientOrder'
    BY <1>2, <1>3, PlacesKept
<1>5. main' \in [pc : MainPCs, peeked : SUBSET Flags, flushed : BOOLEAN] /\ main'.pc = "idle"
    BY <1>1, <1>2 DEF Typed, MainPCs
<1>6. /\ input' \in [pending : BOOLEAN, commands : BOOLEAN, waits : BOOLEAN, answers : Nat]
      /\ ~input'.commands
      /\ input'.waits => input'.pending \/ input'.answers > 0
    <2>1. CASE input' = [input EXCEPT !.commands = FALSE, !.answers = @ + 1]
        <3>1. input \in [pending : BOOLEAN, commands : BOOLEAN, waits : BOOLEAN, answers : Nat]
            BY <1>1 DEF Typed
        <3>2. input.answers + 1 \in Nat /\ input.answers + 1 > 0
            BY <3>1
        <3>3. input' \in [pending : BOOLEAN, commands : BOOLEAN, waits : BOOLEAN, answers : Nat]
            BY <2>1, <3>1, <3>2
        <3>4. ~input'.commands /\ input'.answers = input.answers + 1
            BY <2>1, <3>1
        <3> QED
            BY <3>2, <3>3, <3>4
    <2>2. CASE input' = [input EXCEPT !.commands = FALSE, !.waits = FALSE]
        BY <1>1, <2>2 DEF Typed
    <2>3. CASE ~input.commands /\ input' = input
        BY <1>1, <2>3 DEF Typed, InputInv, InputAnswered
    <2> QED
        BY <1>2, <2>1, <2>2, <2>3
<1>7. Typed'
    BY <1>1, <1>2, <1>3, <1>5, <1>6 DEF Typed, Ids
<1>8. Awake' /\ Noted' /\ InputInv' /\ SyncInv'
    BY <1>1, <1>2, <1>3, <1>5, <1>6 DEF Awake, Noted, Covered, InputInv, InputAnswered, SyncInv
<1> QED
    BY <1>4, <1>7, <1>8 DEF TransactionsInv

----------------------------------------------------------------------------
(* Their surroundings, and every step.                                     *)

LEMMA SurroundingsKeep ==
    ASSUME TransactionsInv,
           \/ SetInputWindowsFinished \/ SignalLayerUpdate
           \/ \E t \in Ids : TimePasses(t)
    PROVE  TransactionsInv'
<1>1. Typed /\ Awake /\ Noted /\ InputInv /\ SyncInv
    BY DEF TransactionsInv
<1>2. UNCHANGED <<transactionFlags, brought, queues, applied, drawn, pending, traversalMain, main, excused>>
    BY DEF SetInputWindowsFinished, SignalLayerUpdate, TimePasses
<1>3. client' = client \/ Broadcast
    BY DEF SetInputWindowsFinished, SignalLayerUpdate, TimePasses
<1>4. /\ client' \in [Clients -> [pc : ClientPCs, t : Nat, notified : BOOLEAN]]
      /\ \A d \in Clients : client'[d].pc = client[d].pc /\ client'[d].t = client[d].t
    BY <1>1, <1>3, BroadcastKeeps DEF Typed
<1>5. QueuesInOrder' /\ Placed' /\ Waiting' /\ ClientOrder'
    BY <1>2, <1>4, PlacesKept
<1>6. wake' \in BOOLEAN /\ (wake => wake')
    BY <1>1 DEF SetInputWindowsFinished, SignalLayerUpdate, TimePasses, Typed
<1>7. /\ input' \in [pending : BOOLEAN, commands : BOOLEAN, waits : BOOLEAN, answers : Nat]
      /\ input'.commands => input.commands
      /\ input'.waits => input' = input
    <2>1. CASE SetInputWindowsFinished
        <3>1. input \in [pending : BOOLEAN, commands : BOOLEAN, waits : BOOLEAN, answers : Nat]
            BY <1>1 DEF Typed
        <3>2. /\ input.answers > 0
              /\ input' = [input EXCEPT !.answers = @ - 1, !.waits = FALSE]
            BY <2>1 DEF SetInputWindowsFinished
        <3>3. input.answers - 1 \in Nat
            BY <3>1, <3>2
        <3> QED
            BY <3>1, <3>2, <3>3
    <2>2. CASE ~SetInputWindowsFinished
        <3>1. input' = input
            BY <2>2 DEF SignalLayerUpdate, TimePasses
        <3> QED
            BY <1>1, <3>1 DEF Typed
    <2> QED
        BY <2>1, <2>2
<1>8. when' \in Seq(Times) /\ Len(when') = Len(when)
    <2>1. CASE \E t \in Ids : TimePasses(t)
        <3>1. PICK t \in Ids : TimePasses(t)
            BY <2>1
        <3>2. t \in DOMAIN when
            BY <1>1 DEF Typed, Ids
        <3>3. PICK w \in Times : when' = [when EXCEPT ![t] = w]
            BY <3>1 DEF TimePasses, Times
        <3> QED
            BY <1>1, <3>2, <3>3 DEF Typed
    <2>2. CASE ~(\E t \in Ids : TimePasses(t))
        BY <1>1, <2>2 DEF SetInputWindowsFinished, SignalLayerUpdate, Typed
    <2> QED
        BY <2>1, <2>2
<1>9. Typed'
    BY <1>1, <1>2, <1>4, <1>6, <1>7, <1>8 DEF Typed, Ids
<1>10. Awake' /\ Noted' /\ InputInv' /\ SyncInv'
    BY <1>1, <1>2, <1>4, <1>6, <1>7 DEF Awake, Noted, Covered, InputInv, InputAnswered, SyncInv
<1> QED
    BY <1>5, <1>9, <1>10 DEF TransactionsInv

LEMMA NextKeeps ==
    TransactionsInv /\ [Next]_vars => TransactionsInv'
<1> SUFFICES ASSUME TransactionsInv, [Next]_vars
             PROVE  TransactionsInv'
    OBVIOUS
<1>1. ASSUME NEW c \in Clients, SetTransactionState(c) \/ GoOn(c) \/ TimesOut(c)
      PROVE  TransactionsInv'
    BY <1>1, SetTransactionStateKeeps, GoOnKeeps, TimesOutKeeps
<1>2. CASE Main
    BY <1>2, PeekKeeps, FlushKeeps, HandleKeeps, NoTransactionKeeps, RecheckKeeps,
       UpdateInputFlingerKeeps DEF Main
<1>3. CASE SetInputWindowsFinished \/ SignalLayerUpdate \/ \E t \in Ids : TimePasses(t)
    BY <1>3, SurroundingsKeep
<1>4. CASE UNCHANGED vars
    <2>1. UNCHANGED <<brought, queues, applied>>
          /\ \A d \in Clients : client'[d].pc = client[d].pc /\ client'[d].t = client[d].t
        BY <1>4 DEF vars
    <2>2. QueuesInOrder' /\ Placed' /\ Waiting' /\ ClientOrder'
        BY <2>1, PlacesKept
    <2>3. Typed' /\ Awake' /\ Noted' /\ InputInv' /\ SyncInv'
        BY <1>4 DEF vars, TransactionsInv, Typed, Ids, Awake, Noted, Covered, InputInv, InputAnswered, SyncInv
    <2> QED
        BY <2>2, <2>3 DEF TransactionsInv
<1> QED
    BY <1>1, <1>2, <1>3, <1>4 DEF Next

LEMMA InitKeeps ==
    Init => TransactionsInv
<1> SUFFICES ASSUME Init
             PROVE  TransactionsInv
    OBVIOUS
<1>1. Ids = {} /\ brought = <<>> /\ Len(brought) = 0
    BY DEF Init, Ids
<1>2. /\ main = [pc |-> "idle", peeked |-> {}, flushed |-> FALSE] /\ input = NoInput
      /\ client = [c \in Clients |-> Idle]
      /\ transactionFlags = {} /\ applied = {} /\ drawn = {} /\ excused = {}
      /\ queues = [k \in Tokens |-> <<>>]
    BY DEF Init
<1>3. Typed
    <2>1. /\ main \in [pc : MainPCs, peeked : SUBSET Flags, flushed : BOOLEAN]
          /\ input \in [pending : BOOLEAN, commands : BOOLEAN, waits : BOOLEAN, answers : Nat]
        BY <1>2 DEF NoInput, MainPCs
    <2>2. client \in [Clients -> [pc : ClientPCs, t : Nat, notified : BOOLEAN]]
        BY <1>2 DEF Idle, ClientPCs
    <2>3. queues \in [Tokens -> Seq(Nat)]
        BY <1>2
    <2>4. /\ brought \in Seq(Brought) /\ Len(brought) <= MaxTransactions
          /\ when \in Seq(Times) /\ Len(when) = Len(brought)
        BY <1>1, BoundsAssumption DEF Init
    <2> QED
        BY <1>2, <2>1, <2>2, <2>3, <2>4 DEF Init, Typed
<1>4. QueuesInOrder /\ Placed /\ ClientOrder /\ Noted /\ Awake
    BY <1>1, <1>2 DEF QueuesInOrder, Placed, ClientOrder, Noted, Awake
<1>5. Waiting /\ SyncInv /\ InputInv
    BY <1>2 DEF Waiting, SyncInv, InputInv, InputAnswered, Idle, NoInput
<1> QED
    BY <1>3, <1>4, <1>5 DEF TransactionsInv

----------------------------------------------------------------------------
(* What follows.                                                           *)

\* The main thread does not sleep over a flag, a queue or a change.
LEMMA NothingIsForgotten ==
    TransactionsInv => NothingForgotten
<1> SUFFICES ASSUME TransactionsInv, main.pc = "idle", ~wake
             PROVE  /\ transactionFlags = {} /\ \A k \in Tokens : queues[k] = <<>>
                    /\ (\E t \in applied \ drawn : brought[t].changes # {}) => traversalMain
    BY DEF NothingForgotten
<1>1. transactionFlags = {} /\ \A k \in Tokens : queues[k] = <<>>
    BY DEF TransactionsInv, Awake
<1>2. ASSUME NEW t \in applied \ drawn, brought[t].changes # {}
      PROVE  traversalMain
    <2>1. t \in Ids /\ Typed
        BY DEF TransactionsInv, Typed
    <2>2. brought[t] \in Brought
        BY <2>1, BroughtTyped
    <2>3. "traversal" \in Asked(brought[t]) \/ "display" \in Asked(brought[t])
        BY <1>2, <2>2, NeedsFacts
    <2> QED
        BY <1>1, <2>3 DEF TransactionsInv, Noted, Covered, Asked
<1> QED
    BY <1>1, <1>2

LEMMA SafeFollows ==
    TransactionsInv => TransactionsSafe
<1> SUFFICES ASSUME TransactionsInv
             PROVE  TransactionsSafe
    OBVIOUS
<1>1. \A k \in Tokens : Range(queues[k]) \subseteq Ids
    BY DEF TransactionsInv, QueuesInOrder, Range
<1>2. DOMAIN when = DOMAIN brought
    <2>1. when \in Seq(Times) /\ brought \in Seq(Brought) /\ Len(when) = Len(brought)
        BY DEF TransactionsInv, Typed
    <2> QED
        BY <2>1
<1>3. TypeOK
    BY <1>1, <1>2 DEF TypeOK, TransactionsInv, Typed
<1> QED
    BY <1>3, NothingIsForgotten DEF TransactionsSafe, TransactionsInv, InputInv

\* No flag, queue, change or answer is lost between the threads, however they interleave: what
\* setTransactionFlags and the wake-up, the queues and the input commands are for.
THEOREM AlwaysTransactionsSafe == Spec => []TransactionsSafe
<1>1. Spec => []TransactionsInv
    BY InitKeeps, NextKeeps, PTL DEF Spec
<1> QED
    BY <1>1, SafeFollows, PTL

\* A thread moves no other.
LEMMA OwnPlace ==
    ASSUME TransactionsInv, NEW d \in Clients, SetTransactionState(d) \/ GoOn(d) \/ TimesOut(d)
    PROVE  \A c \in Clients \ {d} : client'[c] = client[c]
<1>1. \E x : client' = [client EXCEPT ![d] = x]
    <2>1. \E x : [client EXCEPT ![d].notified = FALSE] = [client EXCEPT ![d] = x]
        OBVIOUS
    <2>2. ASSUME NEW t, NEW anim, ApplyNow(d, t, anim)
          PROVE  \E x : client' = [client EXCEPT ![d] = x]
        BY <2>2 DEF ApplyNow
    <2>3. ASSUME NEW t, QueueOrApply(d, t) \/ Queue(d, t)
          PROVE  \E x : client' = [client EXCEPT ![d] = x]
        BY <2>2, <2>3 DEF QueueOrApply, Queue, Apply
    <2> QED
        BY <2>1, <2>2, <2>3 DEF SetTransactionState, GoOn, TimesOut
<1> QED
    BY <1>1 DEF TransactionsInv, Typed

LEMMA StepSyncSeen ==
    ASSUME TransactionsInv, Next, NEW c \in Clients, client[c].pc = "commit", client'[c].pc = "idle",
           brought[client[c].t].synchronous
    PROVE  client[c].t \in drawn \/ client[c].t \in excused'
<1>1. CASE \E d \in Clients : SetTransactionState(d) \/ GoOn(d) \/ TimesOut(d)
    <2>1. PICK d \in Clients : SetTransactionState(d) \/ GoOn(d) \/ TimesOut(d)
        BY <1>1
    <2>2. d = c
        BY <2>1, OwnPlace
    <2>3. CASE SetTransactionState(d)
        BY <2>2, <2>3 DEF SetTransactionState
    <2>4. CASE GoOn(d)
        <3>1. CASE pending \/ input.waits
            <4>1. client' = [client EXCEPT ![c].notified = FALSE]
                BY <2>2, <2>4, <3>1 DEF GoOn
            <4> QED
                BY <4>1 DEF TransactionsInv, Typed
        <3>2. CASE ~pending
            BY <2>4, <3>2 DEF GoOn, TransactionsInv, SyncInv
        <3> QED
            BY <3>1, <3>2
    <2>5. CASE TimesOut(d)
        <3>1. excused' = excused \cup {client[e].t : e \in {e \in Clients : client[e].pc = "commit"}}
            BY <2>2, <2>5 DEF TimesOut
        <3> QED
            BY <3>1
    <2> QED
        BY <2>1, <2>3, <2>4, <2>5
<1>2. CASE ~(\E d \in Clients : SetTransactionState(d) \/ GoOn(d) \/ TimesOut(d))
    <2>1. client' = client \/ Broadcast
        BY <1>2 DEF Next, Main, Peek, FlushTransactionQueues, HandleTransaction, CommitTransaction,
           NoTransaction, Recheck, UpdateInputFlinger, AnswerAtOnce, SetInputWindowsFinished,
           SignalLayerUpdate, TimePasses
    <2> QED
        BY <2>1, BroadcastKeeps DEF TransactionsInv
<1> QED
    BY <1>1, <1>2

\* A synchronous transaction that its own thread applied is drawn when the call returns, unless
\* a wait timed out meanwhile: the commit that takes mTransactionPending down draws it.
THEOREM SyncIsSeen == Spec => SyncSeen
<1>1. Spec => []TransactionsInv
    BY InitKeeps, NextKeeps, PTL DEF Spec
<1>2. TransactionsInv /\ [Next]_vars =>
        [\A c \in Clients :
            client[c].pc = "commit" /\ client'[c].pc = "idle" =>
                LET t == client[c].t
                IN  brought[t].synchronous => t \in drawn \/ t \in excused']_vars
    BY StepSyncSeen
<1> QED
    BY <1>1, <1>2, PTL DEF Spec, SyncSeen
=============================================================================
