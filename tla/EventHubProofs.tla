--------------------------- MODULE EventHubProofs ---------------------------
(***************************************************************************)
(* HubStory for any nodes, capabilities, bounds and buffer: what the hub   *)
(* keeps of its devices, what epoll watches and what the client has been   *)
(* told never part.                                                        *)
(*                                                                         *)
(* The client's part rests on one set that opening and closing leave as it *)
(* is: the devices it should know (ShouldKnow), those the hub has but for  *)
(* the ones waiting in mOpeningDevices, and those waiting in               *)
(* mClosingDevices.  Only a report changes it, in step with what is told.  *)
(*                                                                         *)
(* A report that the buffer cuts short breaks the story: an item of the    *)
(* last poll is left from a call that the buffer ended, the hub is         *)
(* reopened and scanned, the report of what was opened stops for want of   *)
(* room, and the item is matched, by a descriptor's number that is used    *)
(* again, to a device the client has not been told of; its input is        *)
(* reported.  So the theorem has the hypothesis ScanFits, that whatever a  *)
(* scan has to report fits into the buffer, of 256 events in the code.     *)
(***************************************************************************)
EXTENDS EventHub, NaturalLemmas, SequenceTheorems

\* Whatever a scan has to report fits into the buffer.
ScanFits == hub.needScan => Len(hub.closing) + Cardinality(dir) + 1 <= BufferSize

-----------------------------------------------------------------------------
(* The invariant.  h is the hub with the table of descriptors.             *)

Fields == {"device", "opening", "closing", "builtIn", "controllers", "nextId", "epoll", "pending",
           "pendingINotify", "needReopen", "needScan", "lost", "file"}
DeviceRecords == [node : Nodes \cup {NONE}, fd : Int, enabled : BOOLEAN, number : Nat]
FileRecords == [node : Nodes, ready : Nat, gone : BOOLEAN]
Once(q) == \A i, j \in DOMAIN q : q[i] = q[j] => i = j

\* the ids that have been given
Given(h) == {VIRTUAL} \cup 1 .. h.nextId - 1

HubType(h) ==
    /\ DOMAIN h = Fields
    /\ h.nextId \in Nat \ {0}
    /\ h.device \in [DOMAIN h.device -> DeviceRecords]
    /\ DOMAIN h.device \subseteq Given(h)
    /\ IsFiniteSet(DOMAIN h.device)
    /\ h.builtIn \in 1 .. h.nextId - 1 \cup {NOBODY}
    /\ h.controllers \subseteq 1 .. 32
    /\ h.lost \in BOOLEAN
    /\ h.file \in [DOMAIN h.file -> FileRecords]
    /\ DOMAIN h.file \subseteq Nat \ {0}
    /\ IsFiniteSet(DOMAIN h.file)

\* every open descriptor is one device's, and epoll watches those in use
Descriptors(h) ==
    /\ \A d \in DOMAIN h.device : h.device[d].fd # -1 => h.device[d].fd \in DOMAIN h.file
    /\ \A d, e \in DOMAIN h.device :
           h.device[d].fd = h.device[e].fd /\ h.device[d].fd # -1 => d = e
    /\ \A f \in DOMAIN h.file : \E d \in DOMAIN h.device : h.device[d].fd = f
    /\ \A d \in DOMAIN h.device : ~h.device[d].enabled => h.device[d].fd = -1
    /\ h.epoll \subseteq DOMAIN h.file
    /\ h.lost \/ \A d \in DOMAIN h.device :
           HasValidFd(h.device[d]) => h.device[d].fd \in h.epoll

\* every controller number in use is one device's
Numbers(h) ==
    /\ \A d \in DOMAIN h.device : h.device[d].number # 0 => h.device[d].number \in h.controllers
    /\ \A d, e \in DOMAIN h.device :
           h.device[d].number = h.device[e].number /\ h.device[d].number # 0 => d = e
    /\ h.lost \/ \A n \in h.controllers : \E d \in DOMAIN h.device : h.device[d].number = n

\* a device waits once to be reported
Lists(h) ==
    /\ h.opening \in Seq(Given(h)) /\ h.closing \in Seq(Given(h))
    /\ Once(h.opening) /\ Once(h.closing)
    /\ Range(h.opening) \subseteq DOMAIN h.device
    /\ Range(h.closing) \cap DOMAIN h.device \subseteq Range(h.opening)
    /\ h.builtIn \notin Range(h.closing)

\* the devices of which the client has been told, when the reports are done
ShouldKnow(h) == (DOMAIN h.device \ Range(h.opening)) \cup Range(h.closing)
Told(h) ==
    /\ known \ ({BUILTIN} \cup wasBuiltIn) = ShouldKnow(h) \ wasBuiltIn
    /\ h.builtIn \in ShouldKnow(h) => BUILTIN \in known
    /\ DOMAIN h.device \cap wasBuiltIn \subseteq {h.builtIn}
    /\ wasBuiltIn \subseteq 1 .. h.nextId - 1

HubOK(h) == HubType(h) /\ Descriptors(h) /\ Numbers(h) /\ Lists(h) /\ Told(h)

\* no device that waits to be reported closed is there again
Apart(h) == Range(h.closing) \cap DOMAIN h.device = {}

\* what the place in getEvents says of the hub
CallOK ==
    /\ pc \in {"client", "top", "items", "notify", "poll"}
    /\ DOMAIN call = {"room", "written", "awoken", "changed"}
    /\ call.room \in Int /\ call.written \in Nat /\ call.changed \in BOOLEAN
    /\ hub.needScan \in BOOLEAN
    /\ hub.needScan => pc \in {"client", "top"} /\ DOMAIN hub.device = {}
    /\ hub.needScan /\ pc = "top" => call.room = BufferSize
    /\ hub.opening # <<>> => hub.pending = <<>>
    /\ pc \in {"items", "notify"} /\ call.written = 0 /\ ~call.changed =>
           hub.opening = <<>> /\ hub.closing = <<>>
    /\ pc = "poll" => hub.opening = <<>> /\ hub.closing = <<>>

\* what the client wondered at is about the built-in keyboard
StraysOK == \A s \in strays : s[1] # "input" /\ (s[2] = BUILTIN \/ s[2] \in wasBuiltIn)

\* what epoll_wait reported: no descriptor of a device that is disabled
PendingItems == [fd : Int \ {-1}, in : BOOLEAN, of : SUBSET Int]

HubInv ==
    /\ dir \subseteq Nodes
    /\ hub.pending \in Seq(PendingItems)
    /\ inotify \in Seq({"create", "delete"} \X Nodes)
    /\ HubOK(Hub) /\ Apart(Hub) /\ CallOK /\ StraysOK

-----------------------------------------------------------------------------
(* Numbers and lists.                                                      *)

LEMMA SmallestIs ==
    ASSUME NEW S \in SUBSET Int, S # {}, \A x \in S : x >= -1
    PROVE  Smallest(S) \in S
<1> DEFINE T == {x + 1 : x \in S}
<1>1. T \subseteq Nat /\ T # {}
    <2>1. \A x \in S : x + 1 \in Nat
        OBVIOUS
    <2> QED
        BY <2>1
<1>2. PICK m \in T : \A n \in T : m <= n
    <2> HIDE DEF T
    <2> QED
        BY <1>1, LeastNatural
<1>3. PICK x \in S : m = x + 1
    OBVIOUS
<1>4. \A y \in S : x <= y
    <2> SUFFICES ASSUME NEW y \in S PROVE x <= y
        OBVIOUS
    <2>1. y + 1 \in T
        OBVIOUS
    <2>2. m <= y + 1
        BY <1>2, <2>1
    <2> QED
        BY <1>3, <2>2
<1> QED
    BY <1>4 DEF Smallest

LEMMA LargestIs ==
    ASSUME NEW S \in SUBSET Int, S # {}, NEW n \in Int, \A x \in S : x <= n
    PROVE  Largest(S) \in S
<1> DEFINE T == {n - x : x \in S}
<1>1. T \subseteq Nat /\ T # {}
    <2>1. \A x \in S : n - x \in Nat
        OBVIOUS
    <2> QED
        BY <2>1
<1>2. PICK m \in T : \A k \in T : m <= k
    <2> HIDE DEF T
    <2> QED
        BY <1>1, LeastNatural
<1>3. PICK x \in S : m = n - x
    OBVIOUS
<1>4. \A y \in S : x >= y
    <2> SUFFICES ASSUME NEW y \in S PROVE x >= y
        OBVIOUS
    <2>1. n - y \in T
        OBVIOUS
    <2>2. m <= n - y
        BY <1>2, <2>1
    <2> QED
        BY <1>3, <2>2
<1> QED
    BY <1>4 DEF Largest

\* open(2) numbers a descriptor that is not in use: there always is one.
LEMMA FreeFdIsFree ==
    ASSUME NEW h, DOMAIN h.file \subseteq Nat \ {0}, IsFiniteSet(DOMAIN h.file)
    PROVE  FreeFd(h) \in Nat \ {0} /\ FreeFd(h) \notin DOMAIN h.file
<1> DEFINE F == DOMAIN h.file
           n == Cardinality(F)
           free == (1 .. n + 1) \ F
<1>1. n \in Nat
    BY FS_CardinalityType
<1>2. IsFiniteSet(1 .. n + 1) /\ Cardinality(1 .. n + 1) = n + 1
    BY <1>1, FS_Interval
<1>3. free # {}
    <2> SUFFICES ASSUME 1 .. n + 1 \subseteq F PROVE FALSE
        OBVIOUS
    <2>1. Cardinality(1 .. n + 1) <= n
        BY FS_Subset
    <2> QED
        BY <1>1, <1>2, <2>1
<1>4. free \in SUBSET Int /\ \A x \in free : x >= -1 /\ x \in Nat \ {0} /\ x \notin F
    BY <1>1
<1>5. FreeFd(h) = Smallest(free)
    BY DEF FreeFd
<1> HIDE DEF free
<1> QED
    BY <1>3, <1>4, <1>5, SmallestIs

LEMMA Prepended ==
    ASSUME NEW S, NEW q \in Seq(S), NEW x \in S
    PROVE  /\ <<x>> \o q \in Seq(S)
           /\ Range(<<x>> \o q) = {x} \cup Range(q)
           /\ Len(<<x>> \o q) = Len(q) + 1
           /\ Once(q) /\ x \notin Range(q) => Once(<<x>> \o q)
<1> DEFINE r == <<x>> \o q
<1>1. /\ r \in Seq(S) /\ Len(r) = Len(q) + 1 /\ Len(q) \in Nat /\ r[1] = x
      /\ \A i \in 2 .. Len(q) + 1 : r[i] = q[i - 1]
      /\ DOMAIN r = 1 .. Len(q) + 1 /\ DOMAIN q = 1 .. Len(q)
    OBVIOUS
<1> HIDE DEF r
<1>2. \A i \in DOMAIN q : i + 1 \in DOMAIN r /\ r[i + 1] = q[i]
    BY <1>1
<1>3. \A i \in DOMAIN r : i = 1 \/ (i - 1 \in DOMAIN q /\ r[i] = q[i - 1])
    BY <1>1
<1>4. Range(r) = {x} \cup Range(q)
    <2>1. ASSUME NEW i \in DOMAIN r PROVE r[i] \in {x} \cup Range(q)
        BY <1>1, <1>3 DEF Range
    <2>2. x \in Range(r)
        BY <1>1 DEF Range
    <2>3. ASSUME NEW i \in DOMAIN q PROVE q[i] \in Range(r)
        BY <1>2 DEF Range
    <2> QED
        BY <2>1, <2>2, <2>3 DEF Range
<1>5. ASSUME Once(q), x \notin Range(q)
      PROVE  Once(r)
    <2> SUFFICES ASSUME NEW i \in DOMAIN r, NEW j \in DOMAIN r, r[i] = r[j]
                 PROVE  i = j
        BY DEF Once
    <2>1. \A k \in DOMAIN q : q[k] # x
        BY <1>5 DEF Range
    <2>2. CASE i = 1 \/ j = 1
        BY <1>1, <1>3, <2>1, <2>2
    <2>3. CASE i # 1 /\ j # 1
        <3>1. i - 1 = j - 1
            BY <1>3, <1>5, <2>3 DEF Once
        <3> QED
            BY <1>1, <3>1
    <2> QED
        BY <2>2, <2>3
<1> QED
    BY <1>1, <1>4, <1>5 DEF r

\* The elements of a list behind the k-th.
LEMMA Behind ==
    ASSUME NEW S, NEW n \in Nat, NEW q, \A i \in 1 .. n : q[i] \in S, NEW k \in 0 .. n
    PROVE  /\ SubSeq(q, k + 1, n) \in Seq(S)
           /\ Len(SubSeq(q, k + 1, n)) = n - k
           /\ \A i \in 1 .. n - k : SubSeq(q, k + 1, n)[i] = q[k + i]
<1> DEFINE r == SubSeq(q, k + 1, n)
<1>1. k \in Int /\ k + 1 \in Int /\ \A i \in k + 1 .. n : q[i] \in S
    OBVIOUS
<1>2. /\ r \in Seq(S)
      /\ Len(r) = IF k + 1 <= n THEN n - (k + 1) + 1 ELSE 0
      /\ \A i \in 1 .. n - (k + 1) + 1 : r[i] = q[(k + 1) + i - 1]
    BY <1>1, SubSeqProperties
<1> HIDE DEF r
<1>3. Len(r) = n - k
    BY <1>2
<1>4. n - (k + 1) + 1 = n - k
    OBVIOUS
<1>5. ASSUME NEW i \in 1 .. n - k
      PROVE  r[i] = q[k + i]
    <2>1. r[i] = q[(k + 1) + i - 1]
        BY <1>2, <1>4
    <2>2. (k + 1) + i - 1 = k + i
        BY <1>1
    <2> QED
        BY <2>1, <2>2
<1> QED
    BY <1>2, <1>3, <1>5 DEF r

LEMMA UnlinkedIs ==
    ASSUME NEW S, NEW q \in Seq(S), NEW id \in Range(q), Once(q)
    PROVE  /\ Unlinked(q, id) \in Seq(S)
           /\ Range(Unlinked(q, id)) = Range(q) \ {id}
           /\ Once(Unlinked(q, id))
<1> DEFINE i == CHOOSE k \in DOMAIN q : q[k] = id
           r == Unlinked(q, id)
<1>1. i \in DOMAIN q /\ q[i] = id
    BY DEF Range
<1> HIDE DEF i
<1>2. DOMAIN q = 1 .. Len(q) /\ Len(q) \in Nat /\ \A k \in 1 .. Len(q) : q[k] \in S
    OBVIOUS
<1>3. r = SubSeq(q, 1, i - 1) \o SubSeq(q, i + 1, Len(q))
    BY DEF Unlinked, RemoveAt, i
<1>4. /\ SubSeq(q, 1, i - 1) \in Seq(S) /\ Len(SubSeq(q, 1, i - 1)) = i - 1
      /\ \A k \in 1 .. i - 1 : SubSeq(q, 1, i - 1)[k] = q[k]
    <2>1. i \in 1 .. Len(q)
        BY <1>1, <1>2
    <2> QED
        BY <1>2, <2>1, SubSeqProperties
<1>5. /\ SubSeq(q, i + 1, Len(q)) \in Seq(S) /\ Len(SubSeq(q, i + 1, Len(q))) = Len(q) - i
      /\ \A k \in 1 .. Len(q) - i : SubSeq(q, i + 1, Len(q))[k] = q[i + k]
    <2>1. i \in 1 .. Len(q)
        BY <1>1, <1>2
    <2>2. i \in 0 .. Len(q)
        BY <1>2, <2>1
    <2> QED
        <3>1. SubSeq(q, i + 1, Len(q)) \in Seq(S)
            BY <1>2, <2>2, Behind
        <3>2. Len(SubSeq(q, i + 1, Len(q))) = Len(q) - i
            <4>1. Len(q) \in Nat /\ \A k \in 1 .. Len(q) : q[k] \in S
                OBVIOUS
            <4> QED
                BY <2>2, <4>1, Behind
        <3>3. \A k \in 1 .. Len(q) - i : SubSeq(q, i + 1, Len(q))[k] = q[i + k]
            BY <1>2, <2>2, Behind
        <3> QED
            BY <3>1, <3>2, <3>3
<1>6. /\ r \in Seq(S) /\ Len(r) = Len(q) - 1 /\ DOMAIN r = 1 .. Len(q) - 1
      /\ \A k \in 1 .. Len(q) - 1 : r[k] = IF k < i THEN q[k] ELSE q[k + 1]
    <2>0. i \in 1 .. Len(q)
        BY <1>1, <1>2
    <2> DEFINE a == SubSeq(q, 1, i - 1)
               b == SubSeq(q, i + 1, Len(q))
    <2>1. r = a \o b /\ a \in Seq(S) /\ b \in Seq(S) /\ Len(a) = i - 1 /\ Len(b) = Len(q) - i
          /\ (\A k \in 1 .. i - 1 : a[k] = q[k]) /\ (\A k \in 1 .. Len(q) - i : b[k] = q[i + k])
        BY <1>3, <1>4, <1>5
    <2> HIDE DEF a, b, r
    <2>2. r \in Seq(S) /\ Len(r) = Len(q) - 1
        <3>1. r \in Seq(S) /\ Len(r) = Len(a) + Len(b)
            BY <2>1, ConcatProperties
        <3> QED
            BY <1>2, <2>0, <2>1, <3>1
    <2>3. ASSUME NEW k \in 1 .. Len(q) - 1
          PROVE  r[k] = IF k < i THEN q[k] ELSE q[k + 1]
        <3>1. CASE k < i
            BY <1>2, <2>0, <2>1, <3>1
        <3>2. CASE ~(k < i)
            <4>1. k - (i - 1) \in 1 .. Len(q) - i /\ i + (k - (i - 1)) = k + 1
                BY <1>2, <2>0, <3>2
            <4>2. r[k] = b[k - (i - 1)]
                BY <1>2, <2>0, <2>1, <3>2
            <4> QED
                BY <2>1, <3>2, <4>1, <4>2
        <3> QED
            BY <3>1, <3>2
    <2> QED
        BY <2>2, <2>3
<1> HIDE DEF r
<1>7. \A k \in DOMAIN r : \E m \in DOMAIN q : m # i /\ r[k] = q[m] /\ m = IF k < i THEN k ELSE k + 1
    BY <1>1, <1>2, <1>6
<1>8. \A m \in DOMAIN q : m # i => \E k \in DOMAIN r : r[k] = q[m]
    <2> SUFFICES ASSUME NEW m \in DOMAIN q, m # i PROVE \E k \in DOMAIN r : r[k] = q[m]
        OBVIOUS
    <2> DEFINE k == IF m < i THEN m ELSE m - 1
    <2>1. k \in DOMAIN r /\ r[k] = q[m]
        BY <1>1, <1>2, <1>6
    <2> QED
        BY <2>1
<1>9. Range(r) = Range(q) \ {id}
    <2>1. \A m \in DOMAIN q : q[m] = id => m = i
        BY <1>1 DEF Once
    <2> QED
        BY <1>1, <1>7, <1>8, <2>1 DEF Range
<1>10. Once(r)
    <2> SUFFICES ASSUME NEW k \in DOMAIN r, NEW l \in DOMAIN r, r[k] = r[l]
                 PROVE  k = l
        BY DEF Once
    <2>1. PICK m \in DOMAIN q : m # i /\ r[k] = q[m] /\ m = IF k < i THEN k ELSE k + 1
        BY <1>7
    <2>2. PICK n \in DOMAIN q : n # i /\ r[l] = q[n] /\ n = IF l < i THEN l ELSE l + 1
        BY <1>7
    <2>3. m = n
        BY <2>1, <2>2 DEF Once
    <2>4. k \in Int /\ l \in Int /\ i \in Int
        BY <1>1, <1>2, <1>6
    <2> QED
        BY <2>1, <2>2, <2>3, <2>4
<1> QED
    BY <1>6, <1>9, <1>10 DEF r

\* A list without its first k elements.
LEMMA TailIs ==
    ASSUME NEW S, NEW q \in Seq(S), NEW k \in 0 .. Len(q)
    PROVE  LET r == SubSeq(q, k + 1, Len(q))
           IN  /\ r \in Seq(S)
               /\ Len(r) = Len(q) - k
               /\ Range(q) = Range(r) \cup {q[i] : i \in 1 .. k}
               /\ Once(q) => Once(r) /\ Range(r) \cap {q[i] : i \in 1 .. k} = {}
<1> DEFINE r == SubSeq(q, k + 1, Len(q))
<1>1. /\ r \in Seq(S) /\ Len(r) = Len(q) - k /\ DOMAIN r = 1 .. Len(q) - k
      /\ \A i \in 1 .. Len(q) - k : r[i] = q[k + i]
      /\ DOMAIN q = 1 .. Len(q) /\ Len(q) \in Nat
    <2>1. Len(q) \in Nat /\ DOMAIN q = 1 .. Len(q)
        OBVIOUS
    <2>2. \A i \in 1 .. Len(q) : q[i] \in S
        OBVIOUS
    <2>3. r \in Seq(S)
        BY <2>1, <2>2, Behind
    <2>4. Len(r) = Len(q) - k
        <3>1. Len(q) \in Nat
            OBVIOUS
        <3> QED
            BY <3>1, <2>2, Behind
    <2>5. \A i \in 1 .. Len(q) - k : r[i] = q[k + i]
        BY <2>1, <2>2, Behind
    <2> HIDE DEF r
    <2> QED
        BY <2>1, <2>3, <2>4, <2>5
<1> HIDE DEF r
<1>2. \A i \in DOMAIN q : i \in 1 .. k \/ (i - k \in DOMAIN r /\ r[i - k] = q[i])
    BY <1>1
<1>3. \A i \in DOMAIN r : k + i \in DOMAIN q /\ r[i] = q[k + i] /\ k + i \notin 1 .. k
    BY <1>1
<1>4. 1 .. k \subseteq DOMAIN q
    BY <1>1
<1>5. Range(q) = Range(r) \cup {q[i] : i \in 1 .. k}
    <2>1. ASSUME NEW i \in DOMAIN q PROVE q[i] \in Range(r) \cup {q[j] : j \in 1 .. k}
        BY <1>2 DEF Range
    <2>2. ASSUME NEW i \in DOMAIN r PROVE r[i] \in Range(q)
        BY <1>3 DEF Range
    <2>3. ASSUME NEW i \in 1 .. k PROVE q[i] \in Range(q)
        BY <1>4 DEF Range
    <2> QED
        BY <2>1, <2>2, <2>3 DEF Range
<1>6. ASSUME Once(q)
      PROVE  Once(r) /\ Range(r) \cap {q[i] : i \in 1 .. k} = {}
    <2>1. ASSUME NEW i \in DOMAIN r, NEW j \in DOMAIN r, r[i] = r[j]
          PROVE  i = j
        <3>1. k + i = k + j
            BY <1>3, <1>6, <2>1 DEF Once
        <3> QED
            BY <1>1, <3>1
    <2>2. ASSUME NEW i \in DOMAIN r, NEW j \in 1 .. k, r[i] = q[j]
          PROVE  FALSE
        BY <1>3, <1>4, <1>6, <2>2 DEF Once
    <2>3. Once(r)
        BY <2>1 DEF Once
    <2> QED
        BY <2>2, <2>3 DEF Range
<1> QED
    BY <1>1, <1>5, <1>6 DEF r

-----------------------------------------------------------------------------
(* Opening.                                                                *)

\* What is given stays given.
LEMMA GivenGrows ==
    ASSUME NEW h, NEW g, h.nextId \in Nat, g.nextId \in {h.nextId, h.nextId + 1}
    PROVE  /\ Given(h) \subseteq Given(g)
           /\ 1 .. h.nextId - 1 \subseteq 1 .. g.nextId - 1
           /\ \A q \in Seq(Given(h)) : q \in Seq(Given(g))
<1>1. Given(h) \subseteq Given(g) /\ 1 .. h.nextId - 1 \subseteq 1 .. g.nextId - 1
    BY DEF Given
<1> QED
    BY <1>1, SeqMonotonic

\* A device that is not kept costs an id, and perhaps a controller number and
\* the title of built-in keyboard.
Names(h, g) ==
    /\ DOMAIN g = Fields
    /\ g.nextId = h.nextId + 1
    /\ g.builtIn = h.builtIn \/ (g.builtIn = h.nextId /\ h.builtIn = NOBODY)
    /\ h.controllers \subseteq g.controllers /\ g.controllers \subseteq 1 .. 32
    /\ g.lost = TRUE \/ (g.lost = h.lost /\ g.controllers = h.controllers)
    /\ g.device = h.device /\ g.opening = h.opening /\ g.closing = h.closing
    /\ g.file = h.file /\ g.epoll = h.epoll

LEMMA NamedOK ==
    ASSUME NEW h, HubOK(h), NEW g, Names(h, g)
    PROVE  HubOK(g)
<1> USE DEF Names
<1>1. /\ Given(h) \subseteq Given(g)
      /\ 1 .. h.nextId - 1 \subseteq 1 .. g.nextId - 1
      /\ \A q \in Seq(Given(h)) : q \in Seq(Given(g))
    BY GivenGrows DEF HubOK, HubType
<1>2. HubType(g)
    <2>1. g.nextId \in Nat \ {0} /\ g.builtIn \in 1 .. g.nextId - 1 \cup {NOBODY}
        BY DEF HubOK, HubType
    <2>2. g.lost \in BOOLEAN
        BY DEF HubOK, HubType
    <2> QED
        BY <1>1, <2>1, <2>2 DEF HubOK, HubType
<1>3. Descriptors(g)
    BY DEF HubOK, Descriptors, HubType
<1>4. Numbers(g)
    BY DEF HubOK, Numbers, HubType
<1>5. h.nextId \notin Given(h) /\ h.nextId \in Nat
    BY DEF HubOK, HubType, Given, VIRTUAL
<1>6. Range(h.closing) \subseteq Given(h) /\ DOMAIN h.device \subseteq Given(h)
    BY DEF HubOK, HubType, Lists, Range
<1>7. Lists(g)
    <2>1. g.builtIn \notin Range(g.closing)
        BY <1>5, <1>6 DEF HubOK, Lists, NOBODY
    <2> QED
        BY <1>1, <2>1 DEF HubOK, Lists
<1>8. ShouldKnow(g) = ShouldKnow(h) /\ ShouldKnow(h) \subseteq Given(h)
    BY <1>6 DEF ShouldKnow
<1>9. NOBODY \notin DOMAIN h.device
    BY <1>6 DEF NOBODY, Given, VIRTUAL
<1>10. Told(g)
    BY <1>1, <1>5, <1>8, <1>9 DEF HubOK, Told
<1> QED
    BY <1>2, <1>3, <1>4, <1>7, <1>10 DEF HubOK

\* A device is added and waits to be reported.
AddsDevice(h, g, id, device) ==
    /\ DOMAIN g = Fields
    /\ g.nextId \in {h.nextId, h.nextId + 1}
    /\ id \in Given(g) \ DOMAIN h.device /\ id \notin wasBuiltIn /\ h.builtIn # id
    /\ device \in DeviceRecords
    /\ g.builtIn = h.builtIn \/ (g.builtIn = id /\ id \notin Given(h) /\ h.builtIn = NOBODY)
    /\ id = VIRTUAL \/ id \in 1 .. g.nextId - 1
    /\ device.number \in 0 .. 32 /\ device.number \notin h.controllers
    /\ g.controllers = h.controllers \cup ({device.number} \ {0})
    /\ g.lost = h.lost
    /\ g.device = [d \in DOMAIN h.device \cup {id} |-> IF d = id THEN device ELSE h.device[d]]
    /\ device.enabled = TRUE
AddsFile(h, g, device) ==
    \/ device.fd = -1 /\ device.node = NONE /\ g.file = h.file /\ g.epoll = h.epoll
    \/ /\ device.fd \in Nat \ {0} /\ device.fd \notin DOMAIN h.file /\ device.node \in Nodes
       /\ g.file = [f \in DOMAIN h.file \cup {device.fd} |->
                       IF f = device.fd THEN [node |-> device.node, ready |-> 0, gone |-> FALSE]
                       ELSE h.file[f]]
       /\ g.epoll = h.epoll \cup {device.fd}

LEMMA AddedOK ==
    ASSUME NEW h, HubOK(h), NEW g, NEW id, NEW device,
           AddsDevice(h, g, id, device), AddsFile(h, g, device),
           g.opening = <<id>> \o h.opening, g.closing = h.closing
    PROVE  HubOK(g)
<1>a. /\ DOMAIN g = Fields /\ g.nextId \in {h.nextId, h.nextId + 1} /\ g.lost = h.lost
      /\ id \in Given(g) /\ (id = VIRTUAL \/ id \in 1 .. g.nextId - 1)
      /\ (g.builtIn = h.builtIn \/ (g.builtIn = id /\ id \notin Given(h) /\ h.builtIn = NOBODY))
    BY DEF AddsDevice
<1>b. id \notin DOMAIN h.device /\ id \notin wasBuiltIn /\ h.builtIn # id
    BY DEF AddsDevice
<1>c. /\ device.number \in 0 .. 32 /\ device.number \notin h.controllers
      /\ g.controllers = h.controllers \cup ({device.number} \ {0})
    BY DEF AddsDevice
<1>d. device \in DeviceRecords /\ device.enabled = TRUE
      /\ g.device = [d \in DOMAIN h.device \cup {id} |-> IF d = id THEN device ELSE h.device[d]]
    BY DEF AddsDevice
<1>e. HubType(h) /\ Descriptors(h) /\ Numbers(h) /\ Lists(h) /\ Told(h)
    BY DEF HubOK
<1>1. /\ Given(h) \subseteq Given(g)
      /\ 1 .. h.nextId - 1 \subseteq 1 .. g.nextId - 1
      /\ \A q \in Seq(Given(h)) : q \in Seq(Given(g))
    BY <1>a, <1>e, GivenGrows DEF HubType
<1>2. /\ DOMAIN g.device = DOMAIN h.device \cup {id} /\ g.device[id] = device
      /\ \A d \in DOMAIN h.device : d # id /\ g.device[d] = h.device[d]
    BY <1>b, <1>d
<1>3. /\ h.opening \in Seq(Given(g)) /\ g.opening \in Seq(Given(g))
      /\ Range(g.opening) = {id} \cup Range(h.opening)
      /\ Once(h.opening) /\ id \notin Range(h.opening) => Once(g.opening)
    BY <1>1, <1>a, <1>e, Prepended DEF Lists
<1>4. HubType(g)
    <2>1. g.device \in [DOMAIN g.device -> DeviceRecords]
        BY <1>2, <1>d, <1>e DEF HubType
    <2>2. IsFiniteSet(DOMAIN g.device)
        <3>1. IsFiniteSet(DOMAIN h.device)
            BY <1>e DEF HubType
        <3> QED
            BY <1>2, <3>1, FS_AddElement
    <2>3. g.file \in [DOMAIN g.file -> FileRecords] /\ DOMAIN g.file \subseteq Nat \ {0}
          /\ IsFiniteSet(DOMAIN g.file)
        <3>1. h.file \in [DOMAIN h.file -> FileRecords] /\ DOMAIN h.file \subseteq Nat \ {0}
              /\ IsFiniteSet(DOMAIN h.file)
            BY <1>e DEF HubType
        <3>2. CASE g.file = h.file
            BY <3>1, <3>2
        <3>3. CASE /\ device.fd \in Nat \ {0} /\ device.node \in Nodes
                   /\ g.file = [f \in DOMAIN h.file \cup {device.fd} |->
                          IF f = device.fd THEN [node |-> device.node, ready |-> 0, gone |-> FALSE]
                          ELSE h.file[f]]
            <4>1. [node |-> device.node, ready |-> 0, gone |-> FALSE] \in FileRecords
                BY <3>3 DEF FileRecords
            <4>2. DOMAIN g.file = DOMAIN h.file \cup {device.fd}
                BY <3>3
            <4>3. IsFiniteSet(DOMAIN g.file)
                BY <3>1, <4>2, FS_AddElement
            <4>4. g.file \in [DOMAIN g.file -> FileRecords]
                BY <3>1, <3>3, <4>1, <4>2
            <4> QED
                BY <3>1, <3>3, <4>2, <4>3, <4>4
        <3> QED
            BY <3>2, <3>3 DEF AddsFile
    <2>5. DOMAIN g.device \subseteq Given(g)
        BY <1>1, <1>2, <1>a, <1>e DEF HubType
    <2>6. g.builtIn \in 1 .. g.nextId - 1 \cup {NOBODY}
        <3>1. h.builtIn \in 1 .. h.nextId - 1 \cup {NOBODY}
            BY <1>e DEF HubType
        <3>2. VIRTUAL \in Given(h)
            BY DEF Given
        <3> QED
            BY <1>1, <1>a, <3>1, <3>2
    <2>7. g.controllers \subseteq 1 .. 32
        <3>1. h.controllers \subseteq 1 .. 32
            BY <1>e DEF HubType
        <3>2. ASSUME NEW x \in g.controllers
              PROVE  x \in 1 .. 32
            <4>1. x \in h.controllers \/ (x = device.number /\ x # 0)
                BY <1>c
            <4>2. device.number \in 0 .. 32
                BY <1>c
            <4>3. \A n \in 0 .. 32 : n # 0 => n \in 1 .. 32
                OBVIOUS
            <4> QED
                BY <3>1, <4>1, <4>2, <4>3, Zenon
        <3> QED
            BY <3>2
    <2>8. g.nextId \in Nat \ {0} /\ g.lost \in BOOLEAN
        BY <1>a, <1>e DEF HubType
    <2> QED
        BY <1>a, <2>1, <2>2, <2>3, <2>5, <2>6, <2>7, <2>8 DEF HubType
<1>5. Descriptors(g)
    <2>2. \A d \in DOMAIN h.device : h.device[d].fd # -1 => h.device[d].fd # device.fd
        BY <1>e DEF Descriptors, AddsFile
    <2>3. CASE device.fd = -1 /\ device.node = NONE /\ g.file = h.file /\ g.epoll = h.epoll
        <3>1. \A d \in DOMAIN g.device : g.device[d].fd # -1 => g.device[d].fd \in DOMAIN g.file
            BY <1>e, <1>2, <2>3 DEF Descriptors
        <3>2. \A d, e \in DOMAIN g.device :
                  g.device[d].fd = g.device[e].fd /\ g.device[d].fd # -1 => d = e
            BY <1>e, <1>2, <2>3 DEF Descriptors
        <3>3. \A f \in DOMAIN g.file : \E d \in DOMAIN g.device : g.device[d].fd = f
            BY <1>e, <1>2, <2>3 DEF Descriptors
        <3>4. \A d \in DOMAIN g.device : ~g.device[d].enabled => g.device[d].fd = -1
            BY <1>d, <1>e, <1>2 DEF Descriptors
        <3>5. g.epoll \subseteq DOMAIN g.file
            BY <1>e, <2>3 DEF Descriptors
        <3>6. g.lost \/ \A d \in DOMAIN g.device :
                  HasValidFd(g.device[d]) => g.device[d].fd \in g.epoll
            BY <1>a, <1>e, <1>2, <2>3 DEF Descriptors, HasValidFd
        <3> QED
            BY <3>1, <3>2, <3>3, <3>4, <3>5, <3>6 DEF Descriptors
    <2>4. CASE /\ device.fd \in Nat \ {0}
               /\ DOMAIN g.file = DOMAIN h.file \cup {device.fd}
               /\ g.epoll = h.epoll \cup {device.fd}
        <3>1. \A d \in DOMAIN g.device : g.device[d].fd # -1 => g.device[d].fd \in DOMAIN g.file
            BY <1>a, <1>d, <1>e, <1>2, <2>4 DEF Descriptors
        <3>2. \A d, e \in DOMAIN g.device :
                  g.device[d].fd = g.device[e].fd /\ g.device[d].fd # -1 => d = e
            BY <1>a, <1>d, <1>e, <1>2, <2>2 DEF Descriptors
        <3>3. \A f \in DOMAIN g.file : \E d \in DOMAIN g.device : g.device[d].fd = f
            <4> SUFFICES ASSUME NEW f \in DOMAIN g.file
                         PROVE  \E d \in DOMAIN g.device : g.device[d].fd = f
                OBVIOUS
            <4>1. CASE f = device.fd
                BY <1>2, <4>1
            <4>2. CASE f \in DOMAIN h.file
                <5>1. PICK d \in DOMAIN h.device : h.device[d].fd = f
                    BY <1>e, <4>2 DEF Descriptors
                <5> QED
                    BY <1>2, <5>1
            <4> QED
                BY <2>4, <4>1, <4>2
        <3>4. \A d \in DOMAIN g.device : ~g.device[d].enabled => g.device[d].fd = -1
            BY <1>a, <1>d, <1>e, <1>2 DEF Descriptors
        <3>5. g.epoll \subseteq DOMAIN g.file
            BY <1>e, <2>4 DEF Descriptors
        <3>6. g.lost \/ \A d \in DOMAIN g.device :
                  HasValidFd(g.device[d]) => g.device[d].fd \in g.epoll
            BY <1>a, <1>d, <1>e, <1>2, <2>4 DEF Descriptors
        <3> QED
            BY <3>1, <3>2, <3>3, <3>4, <3>5, <3>6 DEF Descriptors
    <2> QED
        BY <2>3, <2>4 DEF AddsFile
<1>6. Numbers(g)
    <2>1. \A d \in DOMAIN h.device :
              h.device[d].number # 0 => h.device[d].number # device.number
        BY <1>c, <1>e DEF Numbers
    <2>2. \A d \in DOMAIN g.device :
              g.device[d].number # 0 => g.device[d].number \in g.controllers
        BY <1>a, <1>c, <1>e, <1>2 DEF Numbers
    <2>3. \A d, e \in DOMAIN g.device :
              g.device[d].number = g.device[e].number /\ g.device[d].number # 0 => d = e
        BY <1>a, <1>c, <1>e, <1>2, <2>1 DEF Numbers
    <2>4. g.lost \/ \A n \in g.controllers : \E d \in DOMAIN g.device : g.device[d].number = n
        BY <1>a, <1>c, <1>e, <1>2 DEF Numbers
    <2> QED
        BY <2>2, <2>3, <2>4 DEF Numbers
<1>7. Range(h.closing) \subseteq Given(h) /\ DOMAIN h.device \subseteq Given(h)
    BY <1>e DEF HubType, Lists, Range
<1>8. id \notin Range(h.opening)
    BY <1>b, <1>e DEF Lists
<1>9. Lists(g)
    <2>1. g.closing \in Seq(Given(g))
        BY <1>1, <1>e DEF Lists
    <2>2. g.builtIn \notin Range(g.closing)
        BY <1>7, <1>a, <1>e DEF Lists
    <2>3. /\ Range(g.opening) \subseteq DOMAIN g.device
          /\ Range(g.closing) \cap DOMAIN g.device \subseteq Range(g.opening)
        <3>1. Range(g.opening) = {id} \cup Range(h.opening)
            BY <1>3
        <3> QED
            BY <1>2, <1>e, <3>1 DEF Lists
    <2>4. Once(g.opening) /\ Once(g.closing)
        BY <1>3, <1>8, <1>e DEF Lists
    <2> QED
        BY <1>3, <2>1, <2>2, <2>3, <2>4 DEF Lists
<1>10. ShouldKnow(g) = ShouldKnow(h) /\ ShouldKnow(h) \subseteq Given(h)
    <2>1. Range(g.opening) = {id} \cup Range(h.opening)
        BY <1>3
    <2> QED
        BY <1>2, <1>7, <1>b, <2>1 DEF ShouldKnow
<1>11. NOBODY \notin DOMAIN h.device
    BY <1>7 DEF NOBODY, Given, VIRTUAL
<1>12. Told(g)
    <2>1. VIRTUAL \notin 1 .. g.nextId - 1 /\ (id \notin Given(h) => id \notin ShouldKnow(h))
        BY <1>10 DEF VIRTUAL
    <2> QED
        BY <1>1, <1>2, <1>10, <1>11, <1>a, <1>b, <1>e, <2>1 DEF Told
<1> QED
    BY <1>4, <1>5, <1>6, <1>9, <1>12 DEF HubOK

\* getNextControllerNumberLocked gives a number that is free, or none.
LEMMA NextControllerNumberIs ==
    ASSUME NEW h, h.controllers \subseteq 1 .. 32
    PROVE  /\ NextControllerNumber(h) \in 0 .. 32
           /\ NextControllerNumber(h) \notin h.controllers
<1> DEFINE free == (1 .. 32) \ h.controllers
<1>1. free \in SUBSET Int /\ \A x \in free : x >= -1 /\ x \in 0 .. 32 /\ x \notin h.controllers
    OBVIOUS
<1>2. NextControllerNumber(h) = IF free = {} THEN 0 ELSE Smallest(free)
    BY DEF NextControllerNumber
<1>3. 0 \notin h.controllers
    OBVIOUS
<1> HIDE DEF free
<1>4. CASE free = {}
    BY <1>2, <1>3, <1>4
<1>5. CASE free # {}
    <2>1. Smallest(free) \in free
        BY <1>1, <1>5, SmallestIs
    <2> QED
        BY <1>1, <1>2, <1>5, <2>1
<1> QED
    BY <1>4, <1>5

LEMMA OpenDeviceOK ==
    ASSUME NEW h, HubOK(h), dir \subseteq Nodes, NEW node
    PROVE  LET g == OpenDeviceLocked(h, node)
           IN  /\ HubOK(g)
               /\ Apart(h) => Apart(g)
               /\ g.closing = h.closing
               /\ Len(g.opening) \in {Len(h.opening), Len(h.opening) + 1}
               /\ g.pending = h.pending /\ g.needScan = h.needScan
               /\ VIRTUAL \in DOMAIN g.device => VIRTUAL \in DOMAIN h.device
<1> DEFINE caps == Capabilities[node]
           classes == Classes(caps)
           id == h.nextId
           b == IF BecomesBuiltIn(h, caps) THEN id ELSE h.builtIn
           named == [h EXCEPT !.nextId = id + 1, !.builtIn = b]
           number == IF IsController(classes) THEN NextControllerNumber(h) ELSE 0
           counted == [named EXCEPT !.controllers = h.controllers \cup ({number} \ {0})]
           fd == FreeFd(h)
           device == [node |-> node, fd |-> fd, enabled |-> TRUE, number |-> number]
           added == AddDeviceLocked([Opened(counted, fd, node) EXCEPT !.epoll = @ \cup {fd}], id, device)
           refused == [counted EXCEPT !.lost = TRUE]
           g == OpenDeviceLocked(h, node)
<1>1. DOMAIN h = Fields /\ h.controllers \subseteq 1 .. 32 /\ h.nextId \in Nat \ {0}
    BY DEF HubOK, HubType
<1>12. h.opening \in Seq(Given(h)) /\ Len(h.opening) \in Nat
    <2>1. h.opening \in Seq(Given(h))
        BY DEF HubOK, Lists
    <2> QED
        BY <2>1
<1>13. Len(h.opening) \in Nat
    BY <1>12
<1>2. \/ g = h
      \/ g = named /\ node \in dir
      \/ g = refused /\ node \in dir
      \/ g = added /\ node \in dir
    BY DEF OpenDeviceLocked
<1>3. b = h.builtIn \/ (b = id /\ h.builtIn = NOBODY)
    <2>1. BecomesBuiltIn(h, caps) \in BOOLEAN /\ (BecomesBuiltIn(h, caps) => h.builtIn = NOBODY)
        BY DEF BecomesBuiltIn
    <2> HIDE DEF caps, id
    <2>2. CASE BecomesBuiltIn(h, caps)
        BY <2>1, <2>2
    <2>3. CASE ~BecomesBuiltIn(h, caps)
        BY <2>1, <2>3
    <2> QED
        BY <2>2, <2>3
<1> HIDE DEF caps, classes
<1>4. number \in 0 .. 32 /\ number \notin h.controllers /\ h.controllers \cup ({number} \ {0}) \subseteq 1 .. 32
    <2>1. 0 \notin h.controllers
        BY <1>1
    <2>2. number = 0 \/ number = NextControllerNumber(h)
        OBVIOUS
    <2>3. number \in 0 .. 32 /\ number \notin h.controllers
        BY <1>1, <2>1, <2>2, NextControllerNumberIs
    <2> HIDE DEF number
    <2> QED
        BY <1>1, <2>3
<1>5. fd \in Nat \ {0} /\ fd \notin DOMAIN h.file
    BY FreeFdIsFree DEF HubOK, HubType
<1>6. id \notin Given(h) /\ id # VIRTUAL /\ id \notin DOMAIN h.device /\ id \notin wasBuiltIn /\ id # h.builtIn
    BY DEF HubOK, HubType, Given, VIRTUAL, NOBODY, Told
<1> HIDE DEF b, number, fd, g, id
<1>7. CASE g = h
    BY <1>13, <1>7 DEF g
<1>8. CASE g = named
    <2>1. /\ DOMAIN g = Fields /\ g.nextId = h.nextId + 1 /\ g.builtIn = b
          /\ g.controllers = h.controllers /\ g.lost = h.lost
          /\ g.device = h.device /\ g.opening = h.opening /\ g.closing = h.closing
          /\ g.file = h.file /\ g.epoll = h.epoll
          /\ g.pending = h.pending /\ g.needScan = h.needScan
        BY <1>1, <1>8 DEF Fields, id
    <2>2. Names(h, g)
        BY <1>1, <1>3, <2>1 DEF Names, id
    <2>3. HubOK(g)
        BY <2>2, NamedOK
    <2> QED
        BY <1>13, <2>1, <2>3 DEF Apart, g
<1>9. CASE g = refused
    <2>1. /\ DOMAIN g = Fields /\ g.nextId = h.nextId + 1 /\ g.builtIn = b
          /\ g.controllers = h.controllers \cup ({number} \ {0}) /\ g.lost = TRUE
          /\ g.device = h.device /\ g.opening = h.opening /\ g.closing = h.closing
          /\ g.file = h.file /\ g.epoll = h.epoll
          /\ g.pending = h.pending /\ g.needScan = h.needScan
        BY <1>1, <1>9 DEF Fields, id
    <2> HIDE DEF refused, counted, named
    <2>2. Names(h, g)
        <3>1. g.nextId = h.nextId + 1 /\ (g.builtIn = h.builtIn \/ (g.builtIn = h.nextId /\ h.builtIn = NOBODY))
            BY <1>3, <2>1 DEF id
        <3>2. h.controllers \subseteq g.controllers /\ g.controllers \subseteq 1 .. 32
            BY <1>4, <2>1
        <3>3. DOMAIN g = Fields /\ g.lost = TRUE
              /\ g.device = h.device /\ g.opening = h.opening /\ g.closing = h.closing
              /\ g.file = h.file /\ g.epoll = h.epoll
            BY <2>1
        <3> QED
            BY <3>1, <3>2, <3>3, Zenon DEF Names
    <2>3. HubOK(g)
        BY <2>2, NamedOK
    <2> QED
        BY <1>13, <2>1, <2>3 DEF Apart, g
<1>10. CASE g = added /\ node \in dir
    <2>1. /\ DOMAIN g = Fields /\ g.nextId = h.nextId + 1 /\ g.builtIn = b
          /\ g.controllers = h.controllers \cup ({number} \ {0}) /\ g.lost = h.lost
          /\ g.device = [d \in DOMAIN h.device \cup {id} |-> IF d = id THEN device ELSE h.device[d]]
          /\ g.opening = <<id>> \o h.opening /\ g.closing = h.closing
          /\ g.file = [f \in DOMAIN h.file \cup {fd} |->
                          IF f = fd THEN [node |-> node, ready |-> 0, gone |-> FALSE] ELSE h.file[f]]
          /\ g.epoll = h.epoll \cup {fd}
          /\ g.pending = h.pending /\ g.needScan = h.needScan
        BY <1>1, <1>10 DEF Fields, id, AddDeviceLocked, Opened
    <2>2. device \in DeviceRecords /\ device.number = number /\ device.fd = fd /\ device.node = node
          /\ device.enabled = TRUE /\ node \in Nodes
        BY <1>4, <1>5, <1>10 DEF DeviceRecords
    <2>3. id \in Given(g) /\ id \in 1 .. g.nextId - 1
        BY <1>1, <2>1 DEF Given, id
    <2> HIDE DEF device
    <2> HIDE DEF added, counted, named
    <2>8. AddsDevice(h, g, id, device)
        <3>1. g.builtIn = h.builtIn \/ (g.builtIn = id /\ id \notin Given(h) /\ h.builtIn = NOBODY)
            BY <1>3, <1>6, <2>1
        <3>2. g.nextId \in {h.nextId, h.nextId + 1}
            BY <2>1
        <3>3. DOMAIN g = Fields /\ g.controllers = h.controllers \cup ({number} \ {0}) /\ g.lost = h.lost
              /\ g.device = [d \in DOMAIN h.device \cup {id} |-> IF d = id THEN device ELSE h.device[d]]
            BY <2>1
        <3> QED
            BY <1>4, <1>6, <2>2, <2>3, <3>1, <3>2, <3>3 DEF AddsDevice
    <2>9. AddsFile(h, g, device)
        <3>1. g.epoll = h.epoll \cup {fd}
              /\ g.file = [f \in DOMAIN h.file \cup {fd} |->
                              IF f = fd THEN [node |-> node, ready |-> 0, gone |-> FALSE] ELSE h.file[f]]
            BY <2>1
        <3> QED
            BY <1>5, <2>2, <3>1 DEF AddsFile
    <2>10. g.opening = <<id>> \o h.opening /\ g.closing = h.closing
        BY <2>1
    <2>4. HubOK(g)
        BY <2>8, <2>9, <2>10, AddedOK
    <2>5. Len(g.opening) = Len(h.opening) + 1
        <3>1. id \in Given(g) /\ h.opening \in Seq(Given(g))
            BY <1>1, <1>12, <2>1, <2>3, GivenGrows DEF id
        <3> QED
            BY <2>1, <3>1, Prepended
    <2>6. Range(h.closing) \subseteq Given(h)
        BY DEF HubOK, Lists, Range
    <2>7. DOMAIN g.device = DOMAIN h.device \cup {id}
        BY <2>1
    <2> QED
        BY <1>13, <1>6, <2>1, <2>4, <2>5, <2>6, <2>7 DEF Apart, g
<1> QED
    BY <1>2, <1>7, <1>8, <1>9, <1>10

LEMMA CreateVirtualOK ==
    ASSUME NEW h, HubOK(h)
    PROVE  LET g == CreateVirtualKeyboardLocked(h)
           IN  /\ HubOK(g)
               /\ g.closing = h.closing
               /\ Len(g.opening) \in {Len(h.opening), Len(h.opening) + 1}
               /\ g.pending = h.pending /\ g.needScan = h.needScan
<1> DEFINE g == CreateVirtualKeyboardLocked(h)
           device == [node |-> NONE, fd |-> -1, enabled |-> TRUE, number |-> 0]
<1>1. DOMAIN h = Fields
    BY DEF HubOK, HubType
<1>4. h.opening \in Seq(Given(h)) /\ Len(h.opening) \in Nat
    <2>1. h.opening \in Seq(Given(h))
        BY DEF HubOK, Lists
    <2> QED
        BY <2>1
<1>2. CASE VIRTUAL \in DOMAIN h.device
    BY <1>4, <1>2 DEF CreateVirtualKeyboardLocked
<1>3. CASE VIRTUAL \notin DOMAIN h.device
    <2>1. /\ DOMAIN g = Fields /\ g.nextId = h.nextId /\ g.builtIn = h.builtIn
          /\ g.controllers = h.controllers /\ g.lost = h.lost
          /\ g.device = [d \in DOMAIN h.device \cup {VIRTUAL} |-> IF d = VIRTUAL THEN device ELSE h.device[d]]
          /\ g.opening = <<VIRTUAL>> \o h.opening /\ g.closing = h.closing
          /\ g.file = h.file /\ g.epoll = h.epoll
          /\ g.pending = h.pending /\ g.needScan = h.needScan
        BY <1>1, <1>3 DEF Fields, CreateVirtualKeyboardLocked, AddDeviceLocked
    <2>2. device \in DeviceRecords /\ device.number = 0 /\ device.fd = -1 /\ device.node = NONE
          /\ device.enabled = TRUE
        BY DEF DeviceRecords
    <2>3. VIRTUAL \in Given(g) /\ VIRTUAL \in Given(h) /\ h.builtIn # VIRTUAL /\ VIRTUAL \notin wasBuiltIn
        BY DEF Given, HubOK, HubType, VIRTUAL, NOBODY, Told
    <2>4. g.controllers = h.controllers \cup ({device.number} \ {0})
        BY <2>1, <2>2
    <2> HIDE DEF device, g
    <2>7. AddsDevice(h, g, VIRTUAL, device)
        <3>1. 0 \notin h.controllers
            BY DEF HubOK, HubType
        <3>2. DOMAIN g = Fields /\ g.nextId = h.nextId /\ g.builtIn = h.builtIn /\ g.lost = h.lost
              /\ g.device = [d \in DOMAIN h.device \cup {VIRTUAL} |->
                                IF d = VIRTUAL THEN device ELSE h.device[d]]
            BY <2>1
        <3>3. device.number \in 0 .. 32 /\ device.number \notin h.controllers
            BY <2>2, <3>1
        <3>4. g.nextId \in {h.nextId, h.nextId + 1}
            BY <3>2
        <3> QED
            BY <1>3, <2>2, <2>3, <2>4, <3>2, <3>3, <3>4, Zenon DEF AddsDevice
    <2>8. AddsFile(h, g, device)
        <3>1. g.file = h.file /\ g.epoll = h.epoll
            BY <2>1
        <3> QED
            BY <2>2, <3>1 DEF AddsFile
    <2>9. g.opening = <<VIRTUAL>> \o h.opening /\ g.closing = h.closing
        BY <2>1
    <2>5. HubOK(g)
        BY <2>7, <2>8, <2>9, AddedOK
    <2>6. Len(g.opening) = Len(h.opening) + 1
        BY <1>4, <2>1, <2>3, Prepended
    <2> QED
        BY <2>1, <2>5, <2>6 DEF g
<1> QED
    BY <1>2, <1>3

-----------------------------------------------------------------------------
(* Closing.                                                                *)

RemovesDevice(h, g, id) ==
    /\ DOMAIN g = Fields /\ g.nextId = h.nextId /\ g.lost = h.lost
    /\ g.builtIn = IF id = h.builtIn THEN NOBODY ELSE h.builtIn
    /\ g.controllers = h.controllers \ {h.device[id].number}
    /\ g.device = [d \in DOMAIN h.device \ {id} |-> h.device[d]]
RemovesFile(h, g, fd) ==
    \/ fd = -1 /\ g.file = h.file /\ g.epoll = h.epoll
    \/ /\ fd # -1 /\ g.epoll = h.epoll \ {fd}
       /\ g.file = [f \in DOMAIN h.file \ {fd} |-> h.file[f]]
Leaves(h, g, id) ==
    \/ /\ id \in Range(h.opening)
       /\ g.opening = Unlinked(h.opening, id) /\ g.closing = h.closing
    \/ /\ id \notin Range(h.opening)
       /\ g.opening = h.opening /\ g.closing = <<id>> \o h.closing

LEMMA LeavesLists ==
    ASSUME NEW h, NEW g, HubType(h), Lists(h), NEW id \in DOMAIN h.device, Leaves(h, g, id)
    PROVE  /\ g.opening \in Seq(Given(h)) /\ g.closing \in Seq(Given(h))
           /\ Once(g.opening) /\ Once(g.closing)
           /\ Range(g.opening) = Range(h.opening) \ {id}
           /\ Range(g.closing) = IF id \in Range(h.opening) THEN Range(h.closing)
                                 ELSE Range(h.closing) \cup {id}
           /\ h.opening = <<>> => g.opening = <<>>
<1>1. /\ h.opening \in Seq(Given(h)) /\ h.closing \in Seq(Given(h))
      /\ Once(h.opening) /\ Once(h.closing)
    BY DEF Lists
<1>2. id \in Given(h)
    BY DEF HubType
<1>3. CASE id \in Range(h.opening)
    <2>1. g.opening = Unlinked(h.opening, id) /\ g.closing = h.closing
        BY <1>3 DEF Leaves
    <2>2. /\ Unlinked(h.opening, id) \in Seq(Given(h)) /\ Once(Unlinked(h.opening, id))
          /\ Range(Unlinked(h.opening, id)) = Range(h.opening) \ {id}
        BY <1>1, <1>3, UnlinkedIs
    <2>3. h.opening # <<>>
        BY <1>3 DEF Range
    <2> QED
        BY <1>1, <1>3, <2>1, <2>2, <2>3, Zenon
<1>4. CASE id \notin Range(h.opening)
    <2>1. g.opening = h.opening /\ g.closing = <<id>> \o h.closing
        BY <1>4 DEF Leaves
    <2>2. id \notin Range(h.closing)
        BY <1>4 DEF Lists
    <2>3. /\ <<id>> \o h.closing \in Seq(Given(h)) /\ Once(<<id>> \o h.closing)
          /\ Range(<<id>> \o h.closing) = {id} \cup Range(h.closing)
        BY <1>1, <1>2, <2>2, Prepended
    <2>4. Range(h.opening) \ {id} = Range(h.opening)
        BY <1>4
    <2> QED
        BY <1>1, <1>4, <2>1, <2>3, <2>4
<1> QED
    BY <1>3, <1>4

LEMMA RemovedOK ==
    ASSUME NEW h, HubOK(h), NEW g, NEW id \in DOMAIN h.device,
           RemovesDevice(h, g, id), RemovesFile(h, g, h.device[id].fd), Leaves(h, g, id)
    PROVE  HubOK(g) /\ (Apart(h) => Apart(g))
<1>a. HubType(h) /\ Descriptors(h) /\ Numbers(h) /\ Lists(h) /\ Told(h)
    BY DEF HubOK
<1>b. DOMAIN g = Fields /\ g.nextId = h.nextId /\ g.lost = h.lost /\ Given(g) = Given(h)
    BY DEF RemovesDevice, Given
<1>c. g.builtIn = IF id = h.builtIn THEN NOBODY ELSE h.builtIn
    BY DEF RemovesDevice
<1>d. g.controllers = h.controllers \ {h.device[id].number}
    BY DEF RemovesDevice
<1>e. /\ DOMAIN g.device = DOMAIN h.device \ {id}
      /\ \A d \in DOMAIN g.device : d \in DOMAIN h.device /\ d # id /\ g.device[d] = h.device[d]
      /\ g.device = [d \in DOMAIN h.device \ {id} |-> h.device[d]]
    BY DEF RemovesDevice
<1>1. /\ g.opening \in Seq(Given(h)) /\ g.closing \in Seq(Given(h))
      /\ Once(g.opening) /\ Once(g.closing)
    BY <1>a, LeavesLists
<1>2. /\ Range(g.opening) = Range(h.opening) \ {id}
      /\ Range(g.closing) = IF id \in Range(h.opening) THEN Range(h.closing)
                            ELSE Range(h.closing) \cup {id}
    BY <1>a, LeavesLists
<1>3. /\ DOMAIN g.file \subseteq DOMAIN h.file /\ \A f \in DOMAIN g.file : g.file[f] = h.file[f]
      /\ g.file = [f \in DOMAIN g.file |-> g.file[f]]
      /\ \A f \in DOMAIN g.file : f # h.device[id].fd \/ f = -1
      /\ \A f \in DOMAIN h.file : f # h.device[id].fd => f \in DOMAIN g.file
    <2>1. CASE g.file = h.file /\ h.device[id].fd = -1
        <3>1. h.file = [f \in DOMAIN h.file |-> h.file[f]]
            BY <1>a DEF HubType
        <3> QED
            BY <2>1, <3>1
    <2>2. CASE g.file = [f \in DOMAIN h.file \ {h.device[id].fd} |-> h.file[f]]
        BY <2>2
    <2> QED
        BY <2>1, <2>2 DEF RemovesFile
<1>4. HubType(g)
    <2>1. g.device \in [DOMAIN g.device -> DeviceRecords] /\ DOMAIN g.device \subseteq Given(g)
        BY <1>a, <1>b, <1>e DEF HubType
    <2>2. IsFiniteSet(DOMAIN g.device)
        <3>1. IsFiniteSet(DOMAIN h.device) /\ DOMAIN g.device \subseteq DOMAIN h.device
            BY <1>a, <1>e DEF HubType
        <3> QED
            BY <3>1, FS_Subset
    <2>3. g.file \in [DOMAIN g.file -> FileRecords] /\ DOMAIN g.file \subseteq Nat \ {0}
        BY <1>3, <1>a DEF HubType
    <2>4. IsFiniteSet(DOMAIN g.file)
        <3>1. IsFiniteSet(DOMAIN h.file) /\ DOMAIN g.file \subseteq DOMAIN h.file
            BY <1>a, <1>3 DEF HubType
        <3> QED
            BY <3>1, FS_Subset
    <2>5. g.builtIn \in 1 .. g.nextId - 1 \cup {NOBODY} /\ g.controllers \subseteq 1 .. 32
        BY <1>a, <1>b, <1>c, <1>d DEF HubType
    <2>6. g.nextId \in Nat \ {0} /\ g.lost \in BOOLEAN
        BY <1>a, <1>b DEF HubType
    <2> QED
        BY <1>b, <2>1, <2>2, <2>3, <2>4, <2>5, <2>6 DEF HubType
<1>5. Descriptors(g)
    <2>1. \A d \in DOMAIN g.device : g.device[d].fd # -1 => g.device[d].fd \in DOMAIN g.file
        BY <1>3, <1>a, <1>e DEF Descriptors
    <2>2. \A d, e \in DOMAIN g.device :
              g.device[d].fd = g.device[e].fd /\ g.device[d].fd # -1 => d = e
        BY <1>a, <1>e DEF Descriptors
    <2>3. \A f \in DOMAIN g.file : \E d \in DOMAIN g.device : g.device[d].fd = f
        <3> SUFFICES ASSUME NEW f \in DOMAIN g.file
                     PROVE  \E d \in DOMAIN g.device : g.device[d].fd = f
            OBVIOUS
        <3>1. PICK d \in DOMAIN h.device : h.device[d].fd = f
            BY <1>3, <1>a DEF Descriptors
        <3>2. f # -1
            BY <1>3, <1>a DEF HubType
        <3>3. d # id
            BY <1>3, <3>1, <3>2
        <3> QED
            BY <1>e, <3>1, <3>3
    <2>4. \A d \in DOMAIN g.device : ~g.device[d].enabled => g.device[d].fd = -1
        BY <1>a, <1>e DEF Descriptors
    <2>5. g.epoll \subseteq DOMAIN g.file
        <3>1. h.epoll \subseteq DOMAIN h.file
            BY <1>a DEF Descriptors
        <3>2. g.epoll \subseteq h.epoll /\ (h.device[id].fd # -1 => h.device[id].fd \notin g.epoll)
            BY DEF RemovesFile
        <3>3. CASE h.device[id].fd = -1
            <4>1. g.file = h.file
                BY <3>3 DEF RemovesFile
            <4> QED
                BY <3>1, <3>2, <4>1
        <3>4. CASE h.device[id].fd # -1
            BY <1>3, <3>1, <3>2, <3>4
        <3> QED
            BY <3>3, <3>4
    <2>6. g.lost \/ \A d \in DOMAIN g.device : HasValidFd(g.device[d]) => g.device[d].fd \in g.epoll
        <3> SUFFICES ASSUME ~h.lost, NEW d \in DOMAIN g.device, HasValidFd(g.device[d])
                     PROVE  g.device[d].fd \in g.epoll
            BY <1>a, <1>b DEF HubType
        <3>1. h.device[d].fd \in h.epoll
            BY <1>a, <1>e DEF Descriptors
        <3>2. h.device[d].fd # -1
            BY <1>a, <3>1 DEF Descriptors, HubType
        <3>3. h.device[d].fd # h.device[id].fd
            BY <1>a, <1>e, <3>2 DEF Descriptors
        <3> QED
            BY <1>e, <3>1, <3>3 DEF RemovesFile
    <2> QED
        BY <2>1, <2>2, <2>3, <2>4, <2>5, <2>6 DEF Descriptors
<1>6. Numbers(g)
    <2>1. \A d \in DOMAIN g.device :
              g.device[d].number # 0 => g.device[d].number \in g.controllers
        BY <1>a, <1>d, <1>e DEF Numbers
    <2>2. \A d, e \in DOMAIN g.device :
              g.device[d].number = g.device[e].number /\ g.device[d].number # 0 => d = e
        BY <1>a, <1>e DEF Numbers
    <2>3. g.lost \/ \A n \in g.controllers : \E d \in DOMAIN g.device : g.device[d].number = n
        <3> SUFFICES ASSUME ~h.lost, NEW n \in g.controllers
                     PROVE  \E d \in DOMAIN g.device : g.device[d].number = n
            BY <1>a, <1>b DEF HubType
        <3>1. PICK d \in DOMAIN h.device : h.device[d].number = n
            BY <1>a, <1>d DEF Numbers
        <3>2. d # id
            BY <1>d, <3>1
        <3> QED
            BY <1>e, <3>1, <3>2
    <2> QED
        BY <2>1, <2>2, <2>3 DEF Numbers
<1>7. Range(h.closing) \subseteq Given(h) /\ DOMAIN h.device \subseteq Given(h) /\ NOBODY \notin Given(h)
    BY <1>a DEF HubType, Lists, Range, NOBODY, Given, VIRTUAL
<1>8. Lists(g)
    <2>1. g.builtIn \notin Range(g.closing)
        BY <1>2, <1>7, <1>a, <1>c DEF Lists
    <2>2. /\ Range(g.opening) \subseteq DOMAIN g.device
          /\ Range(g.closing) \cap DOMAIN g.device \subseteq Range(g.opening)
        BY <1>2, <1>a, <1>e DEF Lists
    <2> QED
        BY <1>1, <1>b, <2>1, <2>2 DEF Lists
<1>9. ShouldKnow(g) = ShouldKnow(h)
    <2>1. Range(h.opening) \subseteq DOMAIN h.device
        BY <1>a DEF Lists
    <2> QED
        BY <1>2, <1>e, <2>1 DEF ShouldKnow
<1>10. NOBODY \notin ShouldKnow(h)
    BY <1>7 DEF ShouldKnow
<1>11. Told(g)
    BY <1>10, <1>9, <1>a, <1>b, <1>c, <1>e DEF Told
<1>12. Apart(h) => Apart(g)
    BY <1>2, <1>e DEF Apart
<1> QED
    BY <1>4, <1>5, <1>6, <1>8, <1>11, <1>12 DEF HubOK

LEMMA CloseDeviceOK ==
    ASSUME NEW h, HubOK(h), NEW id \in DOMAIN h.device
    PROVE  LET g == CloseDeviceLocked(h, id)
           IN  /\ HubOK(g)
               /\ Apart(h) => Apart(g)
               /\ DOMAIN g.device = DOMAIN h.device \ {id}
               /\ h.opening = <<>> => g.opening = <<>>
               /\ g.pending = h.pending /\ g.needScan = h.needScan
<1> DEFINE g == CloseDeviceLocked(h, id)
           device == h.device[id]
           released == [h EXCEPT !.builtIn = IF id = @ THEN NOBODY ELSE @,
                                 !.controllers = @ \ {device.number},
                                 !.device = Without(@, id)]
           closed == IF device.fd >= 0 THEN Closed(released, device.fd) ELSE released
<1>1. DOMAIN h = Fields
    BY DEF HubOK, HubType
<1>2. device.fd = -1 \/ device.fd \in Nat \ {0}
    BY DEF HubOK, HubType, Descriptors
<1>3. /\ DOMAIN released = Fields /\ released.nextId = h.nextId /\ released.lost = h.lost
      /\ released.builtIn = IF id = h.builtIn THEN NOBODY ELSE h.builtIn
      /\ released.controllers = h.controllers \ {device.number}
      /\ released.device = [d \in DOMAIN h.device \ {id} |-> h.device[d]]
      /\ released.opening = h.opening /\ released.closing = h.closing
      /\ released.file = h.file /\ released.epoll = h.epoll
      /\ released.pending = h.pending /\ released.needScan = h.needScan
    BY <1>1 DEF Fields, Without
<1> HIDE DEF released
<1>4. /\ DOMAIN closed = Fields /\ closed.nextId = h.nextId /\ closed.lost = h.lost
      /\ closed.builtIn = released.builtIn /\ closed.controllers = released.controllers
      /\ closed.device = released.device
      /\ closed.opening = h.opening /\ closed.closing = h.closing
      /\ closed.pending = h.pending /\ closed.needScan = h.needScan
    BY <1>3 DEF Fields, Closed
<1>5. RemovesFile(h, closed, device.fd)
    <2>1. CASE device.fd = -1
        BY <1>3, <2>1 DEF RemovesFile
    <2>2. CASE device.fd \in Nat \ {0}
        <3>1. closed = Closed(released, device.fd)
            BY <2>2
        <3>2. /\ Closed(released, device.fd).epoll = released.epoll \ {device.fd}
              /\ Closed(released, device.fd).file =
                     [f \in DOMAIN released.file \ {device.fd} |-> released.file[f]]
            BY <1>3 DEF Closed, Fields
        <3>3. device.fd # -1
            BY <2>2
        <3> HIDE DEF closed, device
        <3> QED
            BY <1>3, <3>1, <3>2, <3>3 DEF RemovesFile
    <2> QED
        BY <1>2, <2>1, <2>2
<1>6. g = IF id \in Range(h.opening) THEN [closed EXCEPT !.opening = Unlinked(@, id)]
          ELSE [closed EXCEPT !.closing = <<id>> \o @]
    BY DEF CloseDeviceLocked, released
<1> HIDE DEF closed, g
<1>7. /\ DOMAIN g = Fields /\ g.nextId = closed.nextId /\ g.lost = closed.lost
      /\ g.builtIn = closed.builtIn /\ g.controllers = closed.controllers
      /\ g.device = closed.device /\ g.file = closed.file /\ g.epoll = closed.epoll
      /\ g.pending = closed.pending /\ g.needScan = closed.needScan
    BY <1>4, <1>6 DEF Fields
<1>8. Leaves(h, g, id)
    BY <1>4, <1>6 DEF Fields, Leaves
<1>9. RemovesDevice(h, g, id)
    BY <1>3, <1>4, <1>7 DEF RemovesDevice
<1>10. RemovesFile(h, g, h.device[id].fd)
    BY <1>5, <1>7 DEF RemovesFile
<1>11. HubOK(g) /\ (Apart(h) => Apart(g))
    BY <1>8, <1>9, <1>10, RemovedOK
<1>12. h.opening = <<>> => g.opening = <<>>
    BY <1>8, LeavesLists DEF HubOK
<1>13. DOMAIN g.device = DOMAIN h.device \ {id}
    BY <1>9 DEF RemovesDevice
<1> QED
    BY <1>4, <1>7, <1>11, <1>12, <1>13 DEF g

LEMMA CloseByPathOK ==
    ASSUME NEW h, HubOK(h), NEW node
    PROVE  LET g == CloseDeviceByPathLocked(h, node)
           IN  /\ HubOK(g)
               /\ Apart(h) => Apart(g)
               /\ g.pending = h.pending /\ g.needScan = h.needScan
<1> DEFINE S == DevicesAt(h, node)
<1>1. S \subseteq DOMAIN h.device /\ S \in SUBSET Int /\ \A x \in S : x >= -1
    BY DEF HubOK, HubType, DevicesAt, Given, VIRTUAL
<1>2. CASE S = {}
    BY <1>2 DEF CloseDeviceByPathLocked
<1>3. CASE S # {}
    <2>1. CloseDeviceByPathLocked(h, node) = CloseDeviceLocked(h, Smallest(S))
        BY <1>3 DEF CloseDeviceByPathLocked
    <2> HIDE DEF S
    <2>2. Smallest(S) \in DOMAIN h.device
        BY <1>1, <1>3, SmallestIs
    <2> QED
        BY <2>1, <2>2, CloseDeviceOK
<1> QED
    BY <1>2, <1>3

\* CloseAllDevicesLocked closes one device after the other.
LEMMA CloseAllSteps ==
    ASSUME NEW h, Cardinality(DOMAIN h.device) \in Nat
    PROVE  LET n == Cardinality(DOMAIN h.device)
           IN  \E f : /\ CloseAllDevicesLocked(h) = f[n]
                      /\ f[0] = h
                      /\ \A k \in 1 .. n :
                            f[k] = CloseDeviceLocked(f[k - 1], Largest(DOMAIN f[k - 1].device))
<1> DEFINE n == Cardinality(DOMAIN h.device)
           Next1(a) == CloseDeviceLocked(a, Largest(DOMAIN a.device))
           Grown(m, g) == [k \in 0 .. m |-> IF k = 0 THEN h ELSE Next1(g[k - 1])]
           Reached == {m \in Nat : \E g : g = Grown(m, g)}
           f == CHOOSE g : g = Grown(n, g)
<1>6. CloseAllDevicesLocked(h) = f[n]
    BY DEF CloseAllDevicesLocked
<1> HIDE DEF Next1
<1>2. 0 \in Reached
    <2> DEFINE g == [k \in 0 .. 0 |-> h]
    <2>1. g = Grown(0, g)
        OBVIOUS
    <2> QED
        BY <2>1
<1>3. ASSUME NEW m \in Nat, NEW g, g = Grown(m, g)
      PROVE  \E e : e = Grown(m + 1, e)
    <2> DEFINE e == [k \in 0 .. m + 1 |-> IF k = m + 1 THEN Next1(g[m]) ELSE g[k]]
    <2>1. \A k \in 0 .. m : g[k] = IF k = 0 THEN h ELSE Next1(g[k - 1])
        BY <1>3
    <2>2. \A k \in 0 .. m + 1 : e[k] = IF k = 0 THEN h ELSE Next1(e[k - 1])
        <3> SUFFICES ASSUME NEW k \in 0 .. m + 1
                     PROVE  e[k] = IF k = 0 THEN h ELSE Next1(e[k - 1])
            OBVIOUS
        <3>1. CASE k = m + 1
            <4>1. k # 0 /\ k - 1 = m /\ m \in 0 .. m + 1 /\ m # m + 1
                BY <3>1
            <4>2. e[k] = Next1(g[m]) /\ e[m] = g[m]
                BY <3>1, <4>1
            <4> HIDE DEF e
            <4> QED
                BY <3>1, <4>1, <4>2
        <3>2. CASE k # m + 1
            <4>1. k \in 0 .. m /\ (k = 0 \/ k - 1 \in 0 .. m)
                BY <3>2
            <4>2. e[k] = g[k] /\ (k = 0 \/ e[k - 1] = g[k - 1])
                BY <3>2, <4>1
            <4> HIDE DEF e
            <4> QED
                BY <2>1, <4>1, <4>2
        <3> QED
            BY <3>1, <3>2
    <2>3. e = Grown(m + 1, e)
        <3>1. e = [k \in 0 .. m + 1 |-> e[k]]
            OBVIOUS
        <3> HIDE DEF e
        <3> QED
            BY <2>2, <3>1
    <2> QED
        BY <2>3
<1>4. n \in Reached
    <2> HIDE DEF Grown
    <2>1. \A m \in Reached : m \in Nat /\ m + 1 \in Reached
        BY <1>3
    <2>2. Reached \in SUBSET Nat
        BY <2>1
    <2> HIDE DEF Reached
    <2> QED
        BY <1>2, <2>1, <2>2, SetInduction
<1>5. f = Grown(n, f)
    <2>1. \E g : g = Grown(n, g)
        BY <1>4
    <2> QED
        BY <2>1
<1> HIDE DEF f
<1>7. \A k \in 0 .. n : f[k] = IF k = 0 THEN h ELSE Next1(f[k - 1])
    BY <1>5
<1>8. f[0] = h /\ \A k \in 1 .. n : f[k] = Next1(f[k - 1])
    BY <1>7
<1> QED
    BY <1>6, <1>8 DEF Next1

LEMMA CloseAllOK ==
    ASSUME NEW h, HubOK(h), Apart(h)
    PROVE  LET g == CloseAllDevicesLocked(h)
           IN  /\ HubOK(g) /\ Apart(g) /\ DOMAIN g.device = {} /\ g.opening = <<>> 
               /\ g.pending = h.pending
<1> DEFINE n == Cardinality(DOMAIN h.device)
<1>1. n \in Nat
    BY FS_CardinalityType DEF HubOK, HubType
<1>2. PICK f : /\ CloseAllDevicesLocked(h) = f[n]
               /\ f[0] = h
               /\ \A k \in 1 .. n :
                     f[k] = CloseDeviceLocked(f[k - 1], Largest(DOMAIN f[k - 1].device))
    BY <1>1, CloseAllSteps
<1> DEFINE Good(k) == /\ HubOK(f[k]) /\ Apart(f[k]) /\ f[k].pending = h.pending
                      /\ Cardinality(DOMAIN f[k].device) = n - k
           S == {k \in Nat : k <= n => Good(k)}
<1>3. 0 \in S
    BY <1>1, <1>2
<1>4. ASSUME NEW k \in S PROVE k + 1 \in S
    <2> SUFFICES ASSUME k \in Nat, k + 1 <= n PROVE Good(k + 1)
        OBVIOUS
    <2>1. Good(k)
        BY <1>1
    <2> DEFINE D == DOMAIN f[k].device
               last == Largest(D)
    <2>2. f[k + 1] = CloseDeviceLocked(f[k], last)
        <3>1. k + 1 \in 1 .. n /\ (k + 1) - 1 = k
            BY <1>1
        <3> QED
            BY <1>2, <3>1
    <2>3. IsFiniteSet(D) /\ Cardinality(D) = n - k
        BY <2>1 DEF HubOK, HubType
    <2>4. D # {}
        <3>1. n - k # 0
            BY <1>1
        <3> QED
            BY <2>3, <3>1, FS_EmptySet
    <2>5. last \in D
        <3>1. D \in SUBSET Int /\ f[k].nextId \in Int /\ \A x \in D : x <= f[k].nextId
            BY <2>1 DEF HubOK, HubType, Given, VIRTUAL
        <3> HIDE DEF D
        <3> QED
            BY <2>4, <3>1, LargestIs
    <2>6. /\ HubOK(f[k + 1]) /\ Apart(f[k + 1]) /\ f[k + 1].pending = f[k].pending
          /\ DOMAIN f[k + 1].device = D \ {last}
        <3> HIDE DEF last
        <3> QED
            BY <2>1, <2>2, <2>5, CloseDeviceOK
    <2>7. Cardinality(D \ {last}) = n - (k + 1)
        <3> HIDE DEF D, last
        <3>1. Cardinality(D \ {last}) = Cardinality(D) - 1
            BY <2>3, <2>5, FS_RemoveElement
        <3> QED
            BY <1>1, <2>3, <3>1
    <2> QED
        BY <2>1, <2>6, <2>7
<1>5. Good(n)
    <2>1. S \in SUBSET Nat
        OBVIOUS
    <2> HIDE DEF Good
    <2>2. n \in S
        <3> HIDE DEF S
        <3> QED
            BY <1>1, <1>3, <1>4, <2>1, SetInduction
    <2> QED
        BY <1>1, <2>2
<1> DEFINE g == f[n]
<1>6. DOMAIN g.device = {}
    <2>1. IsFiniteSet(DOMAIN g.device)
        BY <1>5 DEF HubOK, HubType
    <2>2. Cardinality(DOMAIN g.device) = 0
        BY <1>1, <1>5
    <2> QED
        BY <2>1, <2>2, FS_EmptySet
<1>7. g.opening = <<>>
    <2>1. g.opening \in Seq(Given(g)) /\ Range(g.opening) \subseteq DOMAIN g.device
        BY <1>5 DEF HubOK, Lists
    <2>2. DOMAIN g.opening = {}
        BY <1>6, <2>1 DEF Range
    <2>3. Len(g.opening) \in Nat /\ DOMAIN g.opening = 1 .. Len(g.opening)
        BY <2>1
    <2>4. Len(g.opening) = 0
        <3>1. \A m \in Nat : 1 .. m = {} => m = 0
            <4> SUFFICES ASSUME NEW m \in Nat, 1 .. m = {} PROVE m = 0
                OBVIOUS
            <4>1. ~(1 \in 1 .. m)
                OBVIOUS
            <4> QED
                BY <4>1
        <3> QED
            BY <2>2, <2>3, <3>1, Zenon
    <2> QED
        BY <2>1, <2>4, EmptySeq
<1> QED
    BY <1>2, <1>5, <1>6, <1>7

\* Noticed opens or closes for one event after the other.
Noted(h, e) == IF e[1] = "create" THEN OpenDeviceLocked(h, e[2]) ELSE CloseDeviceByPathLocked(h, e[2])

LEMMA NoticedSteps ==
    ASSUME NEW h, NEW events, Len(events) \in Nat
    PROVE  \E f : /\ Noticed(h, events) = f[Len(events)]
                  /\ f[0] = h
                  /\ \A k \in 1 .. Len(events) : f[k] = Noted(f[k - 1], events[k])
<1> DEFINE n == Len(events)
           Grown(m, g) == [k \in 0 .. m |-> IF k = 0 THEN h ELSE Noted(g[k - 1], events[k])]
           Reached == {m \in Nat : \E g : g = Grown(m, g)}
           f == CHOOSE g : g = Grown(n, g)
<1>6. Noticed(h, events) = f[n]
    BY DEF Noticed, Noted
<1>2. 0 \in Reached
    <2> DEFINE g == [k \in 0 .. 0 |-> h]
    <2>1. g = Grown(0, g)
        OBVIOUS
    <2> QED
        BY <2>1
<1>3. ASSUME NEW m \in Nat, NEW g, g = Grown(m, g)
      PROVE  \E e : e = Grown(m + 1, e)
    <2> DEFINE e == [k \in 0 .. m + 1 |-> IF k = m + 1 THEN Noted(g[m], events[m + 1]) ELSE g[k]]
    <2>1. \A k \in 0 .. m : g[k] = IF k = 0 THEN h ELSE Noted(g[k - 1], events[k])
        BY <1>3
    <2>2. \A k \in 0 .. m + 1 : e[k] = IF k = 0 THEN h ELSE Noted(e[k - 1], events[k])
        <3> SUFFICES ASSUME NEW k \in 0 .. m + 1
                     PROVE  e[k] = IF k = 0 THEN h ELSE Noted(e[k - 1], events[k])
            OBVIOUS
        <3>1. CASE k = m + 1
            <4>1. k # 0 /\ k - 1 = m /\ m \in 0 .. m + 1 /\ m # m + 1
                BY <3>1
            <4>2. e[k] = Noted(g[m], events[m + 1]) /\ e[m] = g[m]
                BY <3>1, <4>1
            <4> HIDE DEF e
            <4> QED
                BY <3>1, <4>1, <4>2
        <3>2. CASE k # m + 1
            <4>1. k \in 0 .. m /\ (k = 0 \/ k - 1 \in 0 .. m)
                BY <3>2
            <4>2. e[k] = g[k] /\ (k = 0 \/ e[k - 1] = g[k - 1])
                BY <3>2, <4>1
            <4> HIDE DEF e
            <4> QED
                BY <2>1, <4>1, <4>2
        <3> QED
            BY <3>1, <3>2
    <2>3. e = Grown(m + 1, e)
        <3>1. e = [k \in 0 .. m + 1 |-> e[k]]
            OBVIOUS
        <3> HIDE DEF e
        <3> QED
            BY <2>2, <3>1
    <2> QED
        BY <2>3
<1>4. n \in Reached
    <2> HIDE DEF Grown
    <2>1. \A m \in Reached : m \in Nat /\ m + 1 \in Reached
        BY <1>3
    <2>2. Reached \in SUBSET Nat
        BY <2>1
    <2> HIDE DEF Reached
    <2> QED
        BY <1>2, <2>1, <2>2, SetInduction
<1>5. f = Grown(n, f)
    <2>1. \E g : g = Grown(n, g)
        BY <1>4
    <2> QED
        BY <2>1
<1> HIDE DEF f
<1>7. \A k \in 0 .. n : f[k] = IF k = 0 THEN h ELSE Noted(f[k - 1], events[k])
    BY <1>5
<1>8. f[0] = h /\ \A k \in 1 .. n : f[k] = Noted(f[k - 1], events[k])
    BY <1>7
<1> QED
    BY <1>6, <1>8 DEF Noted


LEMMA NotedOK ==
    ASSUME NEW h, HubOK(h), dir \subseteq Nodes, NEW e
    PROVE  LET g == Noted(h, e)
           IN  /\ HubOK(g)
               /\ Apart(h) => Apart(g)
               /\ g.pending = h.pending /\ g.needScan = h.needScan
               /\ e[1] = "create" => /\ g.closing = h.closing
                                    /\ Len(g.opening) \in {Len(h.opening), Len(h.opening) + 1}
<1>1. CASE e[1] = "create"
    <2>1. Noted(h, e) = OpenDeviceLocked(h, e[2])
        BY <1>1 DEF Noted
    <2> QED
        BY <2>1, OpenDeviceOK
<1>2. CASE e[1] # "create"
    <2>1. Noted(h, e) = CloseDeviceByPathLocked(h, e[2])
        BY <1>2 DEF Noted
    <2> QED
        BY <1>2, <2>1, CloseByPathOK
<1> QED
    BY <1>1, <1>2

LEMMA NoticedOK ==
    ASSUME NEW h, HubOK(h), Apart(h), dir \subseteq Nodes, NEW events, Len(events) \in Nat
    PROVE  LET g == Noticed(h, events)
           IN  /\ HubOK(g) /\ Apart(g)
               /\ g.pending = h.pending /\ g.needScan = h.needScan
               /\ (\A i \in 1 .. Len(events) : events[i][1] = "create") =>
                      /\ g.closing = h.closing
                      /\ Len(g.opening) \in Nat
                      /\ Len(g.opening) <= Len(h.opening) + Len(events)
<1> DEFINE n == Len(events)
           Creates == \A i \in 1 .. n : events[i][1] = "create"
<1>1. PICK f : /\ Noticed(h, events) = f[n]
               /\ f[0] = h
               /\ \A k \in 1 .. n : f[k] = Noted(f[k - 1], events[k])
    BY NoticedSteps
<1>2. Len(h.opening) \in Nat
    <2>1. h.opening \in Seq(Given(h))
        BY DEF HubOK, Lists
    <2> QED
        BY <2>1
<1> DEFINE Short(k) == /\ f[k].closing = h.closing
                       /\ Len(f[k].opening) \in Nat
                       /\ Len(f[k].opening) <= Len(h.opening) + k
           Good(k) == /\ HubOK(f[k]) /\ Apart(f[k])
                      /\ f[k].pending = h.pending /\ f[k].needScan = h.needScan
                      /\ Creates => Short(k)
           S == {k \in Nat : k <= n => Good(k)}
<1>3. 0 \in S
    <2>1. Short(0)
        BY <1>1, <1>2
    <2> QED
        BY <1>1, <2>1
<1>4. ASSUME NEW k \in S PROVE k + 1 \in S
    <2> HIDE DEF Good
    <2> SUFFICES ASSUME k \in Nat, k + 1 <= n, Good(k) PROVE Good(k + 1)
        OBVIOUS
    <2> USE DEF Good
    <2>1. Good(k)
        OBVIOUS
    <2>2. k + 1 \in 1 .. n /\ (k + 1) - 1 = k
        OBVIOUS
    <2> HIDE DEF Short, Creates, S
    <2>3. f[k + 1] = Noted(f[k], events[k + 1])
        BY <1>1, <2>2
    <2>4. /\ HubOK(f[k + 1]) /\ Apart(f[k + 1])
          /\ f[k + 1].pending = f[k].pending /\ f[k + 1].needScan = f[k].needScan
          /\ events[k + 1][1] = "create" =>
                 /\ f[k + 1].closing = f[k].closing
                 /\ Len(f[k + 1].opening) \in {Len(f[k].opening), Len(f[k].opening) + 1}
        <3> DEFINE a == f[k]
                   b == f[k + 1]
                   e == events[k + 1]
        <3>2. HubOK(a) /\ Apart(a) /\ b = Noted(a, e)
            BY <2>1, <2>3
        <3> HIDE DEF a, b, e, Good
        <3>3. /\ HubOK(b) /\ (Apart(a) => Apart(b))
              /\ b.pending = a.pending /\ b.needScan = a.needScan
              /\ e[1] = "create" => /\ b.closing = a.closing
                                   /\ Len(b.opening) \in {Len(a.opening), Len(a.opening) + 1}
            BY <3>2, NotedOK
        <3> QED
            BY <3>2, <3>3 DEF a, b, e
    <2>5. ASSUME Creates PROVE Short(k + 1)
        <3>1. events[k + 1][1] = "create"
            BY <2>2, <2>5 DEF Creates
        <3>2. Short(k)
            BY <2>1, <2>5
        <3> DEFINE a == Len(f[k].opening)
                   b == Len(f[k + 1].opening)
        <3>3. a \in Nat /\ a <= Len(h.opening) + k /\ f[k].closing = h.closing
            BY <3>2 DEF Short
        <3>4. b \in {a, a + 1} /\ f[k + 1].closing = f[k].closing
            BY <2>4, <3>1
        <3> HIDE DEF a, b
        <3>5. b \in Nat /\ b <= Len(h.opening) + (k + 1)
            <4> DEFINE c == Len(h.opening)
            <4>1. a \in Nat /\ a <= c + k /\ c \in Nat /\ k \in Nat
                BY <1>2, <3>3
            <4>2. b = a \/ b = a + 1
                BY <3>4
            <4> HIDE DEF c
            <4>3. b \in Nat /\ b <= c + (k + 1)
                BY <4>1, <4>2
            <4> QED
                BY <4>3 DEF c
        <3> QED
            BY <3>3, <3>4, <3>5 DEF Short, b
    <2> HIDE DEF Short, Creates
    <2> QED
        BY <2>1, <2>4, <2>5
<1>5. Good(n)
    <2>1. S \in SUBSET Nat
        OBVIOUS
    <2> HIDE DEF Good
    <2>2. n \in S
        <3> HIDE DEF S
        <3> QED
            BY <1>3, <1>4, <2>1, SetInduction
    <2> QED
        BY <2>2
<1> QED
    BY <1>1, <1>5

\* A scan adds at most the nodes there are and the virtual keyboard.
LEMMA ScanOK ==
    ASSUME NEW h, HubOK(h), Apart(h), dir \subseteq Nodes, IsFiniteSet(dir),
           NEW order \in SetToSeqs(dir)
    PROVE  LET g == ScanDevicesLocked(h, order)
           IN  /\ HubOK(g)
               /\ g.closing = h.closing
               /\ Len(g.opening) \in Nat
               /\ Len(g.opening) <= Len(h.opening) + Cardinality(dir) + 1
               /\ g.pending = h.pending /\ g.needScan = h.needScan
<1> DEFINE events == [i \in 1 .. Len(order) |-> <<"create", order[i]>>]
           n == Cardinality(dir)
           g == Noticed(h, events)
<1>1. n \in Nat
    BY FS_CardinalityType
<1>2. Len(order) = n
    <2>1. order \in [1 .. n -> dir]
        BY DEF SetToSeqs
    <2> QED
        BY <1>1, <2>1
<1>3. Len(events) = n /\ \A i \in 1 .. Len(events) : events[i][1] = "create"
    BY <1>1, <1>2
<1>4. Len(h.opening) \in Nat
    <2>1. h.opening \in Seq(Given(h))
        BY DEF HubOK, Lists
    <2> QED
        BY <2>1
<1>5. ScanDevicesLocked(h, order) = CreateVirtualKeyboardLocked(g)
    BY DEF ScanDevicesLocked
<1> HIDE DEF events
<1>6. /\ HubOK(g) /\ g.pending = h.pending /\ g.needScan = h.needScan
      /\ g.closing = h.closing
      /\ Len(g.opening) \in Nat /\ Len(g.opening) <= Len(h.opening) + n
    BY <1>1, <1>3, NoticedOK
<1> HIDE DEF g, n
<1> DEFINE s == CreateVirtualKeyboardLocked(g)
<1>7. /\ HubOK(s) /\ s.closing = g.closing
      /\ Len(s.opening) \in {Len(g.opening), Len(g.opening) + 1}
      /\ s.pending = g.pending /\ s.needScan = g.needScan
    BY <1>6, CreateVirtualOK
<1> HIDE DEF s
<1>8. Len(s.opening) \in Nat /\ Len(s.opening) <= Len(h.opening) + n + 1
    BY <1>1, <1>4, <1>6, <1>7
<1> QED
    BY <1>5, <1>6, <1>7, <1>8 DEF n, s

-----------------------------------------------------------------------------
(* The steps of getEvents and of the kernel.                               *)

\* What the invariant of the devices speaks about is the same; the kernel may
\* have counted events or removed nodes.
SameHub(h, g) ==
    /\ DOMAIN g = Fields
    /\ g.device = h.device /\ g.opening = h.opening /\ g.closing = h.closing
    /\ g.builtIn = h.builtIn /\ g.controllers = h.controllers /\ g.nextId = h.nextId
    /\ g.epoll = h.epoll /\ g.lost = h.lost
    /\ DOMAIN g.file = DOMAIN h.file /\ g.file \in [DOMAIN h.file -> FileRecords]

LEMMA SameOK ==
    ASSUME NEW h, NEW g, HubOK(h), SameHub(h, g)
    PROVE  HubOK(g) /\ (Apart(h) => Apart(g))
<1>1. HubType(g)
    BY DEF HubOK, HubType, SameHub, Given
<1>2. Descriptors(g)
    BY DEF HubOK, Descriptors, SameHub
<1>3. Numbers(g)
    BY DEF HubOK, Numbers, SameHub
<1>4. Given(g) = Given(h) /\ ShouldKnow(g) = ShouldKnow(h)
    BY DEF SameHub, Given, ShouldKnow
<1>5. Lists(g)
    BY <1>4 DEF HubOK, Lists, SameHub
<1>6. Told(g)
    BY <1>4 DEF HubOK, Told, SameHub
<1> QED
    BY <1>1, <1>2, <1>3, <1>5, <1>6 DEF HubOK, Apart, SameHub

LEMMA HubIs ==
    ASSUME HubType(Hub)
    PROVE  /\ DOMAIN hub = Fields
           /\ Hub.device = hub.device /\ Hub.opening = hub.opening /\ Hub.closing = hub.closing
           /\ Hub.builtIn = hub.builtIn /\ Hub.controllers = hub.controllers
           /\ Hub.nextId = hub.nextId /\ Hub.epoll = hub.epoll /\ Hub.lost = hub.lost
           /\ Hub.pending = hub.pending /\ Hub.needScan = hub.needScan
           /\ Hub.file = file
<1>1. DOMAIN hub = Fields
    BY DEF HubType, Hub
<1> QED
    BY <1>1 DEF Fields, Hub

\* The hub after a step is one for which the invariant of the devices holds.
LEMMA KeptOK ==
    ASSUME NEW g, HubOK(g), SameHub(g, Hub'), known' = known,
           wasBuiltIn' = wasBuiltIn \/ wasBuiltIn' = wasBuiltIn \cup ({g.builtIn} \ {NOBODY})
    PROVE  /\ HubOK(Hub)'
           /\ Apart(g) => Apart(Hub)'
<1> DEFINE k == Hub'
<1>1. HubOK(k) /\ (Apart(g) => Apart(k)) /\ k.builtIn = g.builtIn
    BY SameOK DEF SameHub
<1>2. HubType(k) /\ Descriptors(k) /\ Numbers(k) /\ Lists(k) /\ Told(k)
    BY <1>1 DEF HubOK
<1>3. k.builtIn \in 1 .. k.nextId - 1 \cup {NOBODY}
    BY <1>2 DEF HubType
<1>4. Told(Hub)'
    <2>1. /\ known \ ({BUILTIN} \cup wasBuiltIn) = ShouldKnow(k) \ wasBuiltIn
          /\ k.builtIn \in ShouldKnow(k) => BUILTIN \in known
          /\ DOMAIN k.device \cap wasBuiltIn \subseteq {k.builtIn}
          /\ wasBuiltIn \subseteq 1 .. k.nextId - 1
        BY <1>2 DEF Told
    <2>2. /\ known' \ ({BUILTIN} \cup wasBuiltIn') = ShouldKnow(k) \ wasBuiltIn'
          /\ k.builtIn \in ShouldKnow(k) => BUILTIN \in known'
          /\ DOMAIN k.device \cap wasBuiltIn' \subseteq {k.builtIn}
          /\ wasBuiltIn' \subseteq 1 .. k.nextId - 1
        <3> HIDE DEF k
        <3> QED
            BY <1>1, <1>3, <2>1
    <2> QED
        BY <2>2 DEF Told, BUILTIN
<1>5. HubType(Hub)' /\ Descriptors(Hub)' /\ Numbers(Hub)' /\ Lists(Hub)'
    BY <1>2
<1> QED
    BY <1>1, <1>4, <1>5 DEF HubOK, Apart

LEMMA BecomesIs ==
    ASSUME NEW g, HubType(g), HubBecomes(g)
    PROVE  /\ SameHub(g, Hub')
           /\ hub'.device = g.device /\ hub'.opening = g.opening /\ hub'.closing = g.closing
           /\ hub'.pending = g.pending /\ hub'.needScan = g.needScan
<1>1. DOMAIN g = Fields /\ g.file \in [DOMAIN g.file -> FileRecords]
    BY DEF HubType
<1>2. hub' = [g EXCEPT !.file = <<>>] /\ file' = g.file
    BY DEF HubBecomes
<1>3. Hub' = [hub' EXCEPT !.file = file']
    BY DEF Hub
<1>4. /\ DOMAIN Hub' = Fields
      /\ Hub'.device = g.device /\ Hub'.opening = g.opening /\ Hub'.closing = g.closing
      /\ Hub'.builtIn = g.builtIn /\ Hub'.controllers = g.controllers
      /\ Hub'.nextId = g.nextId /\ Hub'.epoll = g.epoll /\ Hub'.lost = g.lost
      /\ Hub'.file = g.file
      /\ hub'.device = g.device /\ hub'.opening = g.opening /\ hub'.closing = g.closing
      /\ hub'.pending = g.pending /\ hub'.needScan = g.needScan
    BY <1>1, <1>2, <1>3 DEF Fields
<1> HIDE DEF Hub
<1> QED
    BY <1>1, <1>4 DEF SameHub

LEMMA InitOK == Init => HubInv
<1> SUFFICES ASSUME Init PROVE HubInv
    OBVIOUS
<1> USE DEF Init
<1>1. /\ DOMAIN Hub = Fields /\ Hub.device = <<>> /\ Hub.opening = <<>> /\ Hub.closing = <<>>
      /\ Hub.builtIn = NOBODY /\ Hub.controllers = {} /\ Hub.nextId = 1 /\ Hub.epoll = {}
      /\ Hub.lost = FALSE /\ Hub.file = <<>> /\ hub.device = <<>>
    BY DEF Hub, Fields
<1>2. DOMAIN <<>> = {} /\ Range(<<>>) = {}
    BY DEF Range
<1>3. HubType(Hub)
    <2>1. IsFiniteSet({})
        BY FS_EmptySet
    <2>2. Hub.device \in [DOMAIN Hub.device -> DeviceRecords] /\ Hub.file \in [DOMAIN Hub.file -> FileRecords]
        BY <1>1
    <2>3. DOMAIN Hub.device = {} /\ DOMAIN Hub.file = {}
        BY <1>1, <1>2
    <2> HIDE DEF Init
    <2>4. Hub.lost \in BOOLEAN /\ Hub.nextId \in Nat \ {0} /\ Hub.builtIn \in {NOBODY}
          /\ Hub.controllers \subseteq 1 .. 32
        <3>1. Hub.lost = FALSE /\ Hub.nextId = 1 /\ Hub.builtIn = NOBODY /\ Hub.controllers = {}
            BY <1>1
        <3>2. 1 \in Nat \ {0}
            OBVIOUS
        <3> QED
            BY <3>1, <3>2, Zenon
    <2>5. DOMAIN Hub.device \subseteq Given(Hub) /\ DOMAIN Hub.file \subseteq Nat \ {0}
        BY <2>3
    <2>6. DOMAIN Hub = Fields
        BY <1>1
    <2> QED
        BY <2>1, <2>2, <2>3, <2>4, <2>5, <2>6 DEF HubType
<1>4. Descriptors(Hub) /\ Numbers(Hub)
    BY <1>1, <1>2 DEF Descriptors, Numbers
<1>5. Lists(Hub)
    BY <1>1, <1>2 DEF Lists, Once
<1>6. Told(Hub)
    BY <1>1, <1>2 DEF Told, ShouldKnow
<1>7. Apart(Hub)
    BY <1>1, <1>2 DEF Apart
<1>8. CallOK
    BY <1>1, <1>2, HubAssumption DEF CallOK
<1>9. hub.pending \in Seq(PendingItems) /\ inotify \in Seq({"create", "delete"} \X Nodes)
    OBVIOUS
<1> QED
    BY <1>3, <1>4, <1>5, <1>6, <1>7, <1>8, <1>9 DEF HubInv, HubOK, StraysOK

\* A step that leaves the devices and what is known of them as they are.
LEMMA StaysOK ==
    ASSUME HubInv, SameHub(Hub, Hub'), UNCHANGED <<known, strays, wasBuiltIn>>,
           dir' \subseteq Nodes, inotify' \in Seq({"create", "delete"} \X Nodes),
           hub'.pending \in Seq(PendingItems), CallOK'
    PROVE  HubInv'
<1>1. HubOK(Hub)' /\ Apart(Hub)'
    BY KeptOK DEF HubInv
<1>2. StraysOK'
    BY DEF HubInv, StraysOK, BUILTIN
<1> QED
    BY <1>1, <1>2 DEF HubInv

\* The same when the open descriptors, too, are the same.
LEMMA SameHubIs ==
    ASSUME HubType(Hub), file' = file, DOMAIN hub' = DOMAIN hub,
           \A x \in Fields \ {"pending", "pendingINotify", "needReopen", "needScan", "file"} :
               hub'[x] = hub[x]
    PROVE  SameHub(Hub, Hub')
<1>1. DOMAIN hub = Fields /\ Hub.file = file /\ DOMAIN Hub = Fields
    BY HubIs DEF HubType
<1>2. \A x \in Fields \ {"file"} : Hub[x] = hub[x] /\ Hub'[x] = hub'[x]
    BY <1>1 DEF Hub
<1>3. Hub'.file = file' /\ DOMAIN Hub' = Fields
    BY <1>1 DEF Hub, Fields
<1>4. file \in [DOMAIN file -> FileRecords]
    BY <1>1 DEF HubType
<1> HIDE DEF Hub
<1>5. \A x \in Fields \ {"pending", "pendingINotify", "needReopen", "needScan", "file"} : Hub'[x] = Hub[x]
    BY <1>2
<1> QED
    BY <1>1, <1>3, <1>4, <1>5 DEF SameHub, Fields

LEMMA PlugOK ==
    ASSUME HubInv, NEW node \in Nodes, Plug(node)
    PROVE  HubInv'
<1> USE DEF Plug
<1>1. SameHub(Hub, Hub')
    BY SameHubIs DEF HubInv, HubOK
<1>2. inotify' \in Seq({"create", "delete"} \X Nodes)
    BY DEF HubInv
<1>3. CallOK' /\ hub'.pending \in Seq(PendingItems) /\ dir' \subseteq Nodes
    BY DEF HubInv, CallOK
<1> QED
    BY <1>1, <1>2, <1>3, StaysOK

LEMMA FileStays ==
    ASSUME HubType(Hub), hub' = hub, DOMAIN file' = DOMAIN file,
           file' \in [DOMAIN file -> FileRecords]
    PROVE  SameHub(Hub, Hub')
<1>1. DOMAIN hub = Fields /\ Hub.file = file /\ DOMAIN Hub = Fields
    BY HubIs DEF HubType
<1>2. \A x \in Fields \ {"file"} : Hub[x] = hub[x] /\ Hub'[x] = hub'[x]
    BY <1>1 DEF Hub
<1>3. Hub'.file = file' /\ DOMAIN Hub' = Fields
    BY <1>1 DEF Hub, Fields
<1> HIDE DEF Hub
<1>5. \A x \in Fields \ {"file"} : Hub'[x] = Hub[x]
    BY <1>2
<1> QED
    BY <1>1, <1>3, <1>5 DEF SameHub, Fields

LEMMA FilesTyped ==
    ASSUME HubInv
    PROVE  HubType(Hub) /\ file \in [DOMAIN file -> FileRecords]
           /\ DOMAIN file \subseteq Nat \ {0} /\ IsFiniteSet(DOMAIN file)
<1>1. HubType(Hub)
    BY DEF HubInv, HubOK
<1>2. Hub.file = file
    BY <1>1, HubIs
<1> QED
    BY <1>1, <1>2 DEF HubType

LEMMA UnplugOK ==
    ASSUME HubInv, NEW node \in Nodes, Unplug(node)
    PROVE  HubInv'
<1> USE DEF Unplug
<1>1. file' \in [DOMAIN file -> FileRecords] /\ DOMAIN file' = DOMAIN file
    <2>1. \A r \in FileRecords : [r EXCEPT !.gone = TRUE] \in FileRecords
        BY DEF FileRecords
    <2> QED
        BY <2>1, FilesTyped
<1>2. SameHub(Hub, Hub')
    BY <1>1, FilesTyped, FileStays
<1>3. inotify' \in Seq({"create", "delete"} \X Nodes)
    BY DEF HubInv
<1>4. CallOK' /\ hub'.pending \in Seq(PendingItems) /\ dir' \subseteq Nodes
    BY DEF HubInv, CallOK
<1> QED
    BY <1>2, <1>3, <1>4, StaysOK

LEMMA BurstOK ==
    ASSUME HubInv, NEW node \in Nodes, NEW n \in BurstSizes, Burst(node, n)
    PROVE  HubInv'
<1> USE DEF Burst
<1>1. file' \in [DOMAIN file -> FileRecords] /\ DOMAIN file' = DOMAIN file
    <2>1. \A r \in FileRecords : [r EXCEPT !.ready = @ + n] \in FileRecords
        <3>1. n \in Nat
            BY HubAssumption
        <3> QED
            BY <3>1 DEF FileRecords
    <2> QED
        BY <2>1, FilesTyped
<1>2. SameHub(Hub, Hub')
    BY <1>1, FilesTyped, FileStays
<1>4. CallOK' /\ hub'.pending \in Seq(PendingItems) /\ dir' \subseteq Nodes
      /\ inotify' \in Seq({"create", "delete"} \X Nodes)
    BY DEF HubInv, CallOK
<1> QED
    BY <1>2, <1>4, StaysOK

LEMMA GetEventsOK ==
    ASSUME HubInv, GetEvents
    PROVE  HubInv'
<1> USE DEF GetEvents
<1>1. SameHub(Hub, Hub')
    BY SameHubIs DEF HubInv, HubOK
<1>2. hub'.pending \in Seq(PendingItems) /\ dir' \subseteq Nodes
      /\ inotify' \in Seq({"create", "delete"} \X Nodes)
    BY DEF HubInv
<1>3. CallOK'
    BY HubAssumption DEF HubInv, CallOK
<1> QED
    BY <1>1, <1>2, <1>3, StaysOK

LEMMA EndRoundOK ==
    ASSUME HubInv, EndRound
    PROVE  HubInv'
<1> USE DEF EndRound
<1>1. SameHub(Hub, Hub')
    BY SameHubIs DEF HubInv, HubOK
<1>2. hub'.pending \in Seq(PendingItems) /\ dir' \subseteq Nodes
      /\ inotify' \in Seq({"create", "delete"} \X Nodes)
    BY DEF HubInv
<1>3. CallOK'
    <2>1. pc \in {"items", "notify"} /\ ~hub.needScan /\ call.written \in Nat /\ call.changed \in BOOLEAN
        BY DEF HubInv, CallOK
    <2>2. pc' \in {"top", "client", "poll"} /\ (pc' = "poll" => call.written = 0 /\ ~call.changed)
        BY <2>1
    <2>3. pc' = "poll" => hub.opening = <<>> /\ hub.closing = <<>>
        BY <2>1, <2>2 DEF HubInv, CallOK
    <2> QED
        BY <2>1, <2>2, <2>3 DEF HubInv, CallOK
<1> QED
    BY <1>1, <1>2, <1>3, StaysOK

LEMMA WakeOK ==
    ASSUME HubInv, Wake
    PROVE  HubInv'
<1> USE DEF Wake
<1>1. SameHub(Hub, Hub')
    BY SameHubIs DEF HubInv, HubOK
<1>2. hub'.pending \in Seq(PendingItems) /\ dir' \subseteq Nodes
      /\ inotify' \in Seq({"create", "delete"} \X Nodes)
    BY DEF HubInv
<1>3. CallOK'
    BY DEF HubInv, CallOK
<1> QED
    BY <1>1, <1>2, <1>3, StaysOK

LEMMA RequestReopenOK ==
    ASSUME HubInv, RequestReopenDevices
    PROVE  HubInv'
<1> USE DEF RequestReopenDevices
<1>0. DOMAIN hub = Fields
    BY HubIs DEF HubInv, HubOK
<1>a. /\ file' = file /\ DOMAIN hub' = DOMAIN hub
      /\ \A x \in Fields \ {"pending", "pendingINotify", "needReopen", "needScan", "file"} :
             hub'[x] = hub[x]
    BY <1>0
<1>b. HubType(Hub)
    BY DEF HubInv, HubOK
<1>1. SameHub(Hub, Hub')
    BY <1>a, <1>b, SameHubIs
<1>2. hub'.pending \in Seq(PendingItems) /\ dir' \subseteq Nodes
      /\ inotify' \in Seq({"create", "delete"} \X Nodes)
    BY DEF HubInv
<1>3. CallOK'
    BY DEF HubInv, CallOK
<1> QED
    BY <1>1, <1>2, <1>3, StaysOK

LEMMA PollTimeoutOK ==
    ASSUME HubInv, PollTimeout
    PROVE  HubInv'
<1> USE DEF PollTimeout
<1>0. DOMAIN hub = Fields
    BY HubIs DEF HubInv, HubOK
<1>a. /\ file' = file /\ DOMAIN hub' = DOMAIN hub
      /\ \A x \in Fields \ {"pending", "pendingINotify", "needReopen", "needScan", "file"} :
             hub'[x] = hub[x]
    BY <1>0
<1>b. HubType(Hub)
    BY DEF HubInv, HubOK
<1>1. SameHub(Hub, Hub')
    BY <1>a, <1>b, SameHubIs
<1>2. hub'.pending \in Seq(PendingItems) /\ dir' \subseteq Nodes
      /\ inotify' \in Seq({"create", "delete"} \X Nodes)
    BY <1>0 DEF HubInv, Fields
<1>3. CallOK'
    BY <1>0 DEF HubInv, CallOK, Fields
<1> QED
    BY <1>1, <1>2, <1>3, StaysOK

LEMMA TakeSpecialOK ==
    ASSUME HubInv, TakeSpecialItem
    PROVE  HubInv'
<1> USE DEF TakeSpecialItem, Pending
<1>0. DOMAIN hub = Fields
    BY HubIs DEF HubInv, HubOK
<1>a. /\ file' = file /\ DOMAIN hub' = DOMAIN hub
      /\ \A x \in Fields \ {"pending", "pendingINotify", "needReopen", "needScan", "file"} :
             hub'[x] = hub[x]
    BY <1>0
<1>b. HubType(Hub)
    BY DEF HubInv, HubOK
<1>1. SameHub(Hub, Hub')
    BY <1>a, <1>b, SameHubIs
<1>2. hub'.pending = Tail(hub.pending) /\ hub.pending # <<>>
    BY <1>0 DEF Fields
<1>3. hub'.pending \in Seq(PendingItems)
    BY <1>2 DEF HubInv
<1>4. CallOK'
    BY <1>0, <1>2 DEF HubInv, CallOK, Fields
<1>5. dir' \subseteq Nodes /\ inotify' \in Seq({"create", "delete"} \X Nodes)
    BY DEF HubInv
<1> QED
    BY <1>1, <1>3, <1>4, <1>5, StaysOK

LEMMA PollOK ==
    ASSUME HubInv, Poll
    PROVE  HubInv'
<1> DEFINE ready == {f \in hub.epoll \cup {INotify, WakeFd} : IsReady(f)}
<1>1. PICK order \in SetToSeqs(ready) :
          hub' = [hub EXCEPT !.pending = [i \in DOMAIN order |-> Item(order[i])]]
    BY DEF Poll
<1> USE DEF Poll
<1>b. HubType(Hub) /\ Descriptors(Hub)
    BY DEF HubInv, HubOK
<1>0. DOMAIN hub = Fields /\ hub.epoll \subseteq DOMAIN file /\ DOMAIN file \subseteq Nat \ {0}
      /\ IsFiniteSet(DOMAIN file) /\ file \in [DOMAIN file -> FileRecords]
      /\ DOMAIN Hub.device \subseteq Int
    <2>1. DOMAIN hub = Fields /\ Hub.epoll = hub.epoll /\ Hub.file = file
        BY <1>b, HubIs
    <2>2. DOMAIN Hub.device \subseteq Int
        BY <1>b DEF HubType, Given, VIRTUAL
    <2> QED
        BY <1>b, <2>1, <2>2, FilesTyped DEF Descriptors
<1>a. /\ file' = file /\ DOMAIN hub' = DOMAIN hub
      /\ \A x \in Fields \ {"pending", "pendingINotify", "needReopen", "needScan", "file"} :
             hub'[x] = hub[x]
    BY <1>0, <1>1
<1>2. SameHub(Hub, Hub')
    BY <1>a, <1>b, SameHubIs
<1>3. \A f \in ready : Item(f) \in PendingItems
    <2> SUFFICES ASSUME NEW f \in ready PROVE Item(f) \in PendingItems
        OBVIOUS
    <2>1. f \in Int \ {-1} /\ (f > 0 => f \in DOMAIN file)
        BY <1>0 DEF INotify, WakeFd
    <2>2. DevicesByFd(Hub, f) \in SUBSET Int
        BY <1>0 DEF DevicesByFd
    <2>3. Item(f).of \in SUBSET Int /\ Item(f).fd = f
        BY <2>2 DEF Item
    <2>4. Item(f).in \in BOOLEAN
        <3>1. CASE f > 0
            <4>1. (file[f].ready > 0) \in BOOLEAN
                OBVIOUS
            <4>2. Item(f).in = (file[f].ready > 0)
                BY <3>1 DEF Item
            <4> QED
                BY <4>1, <4>2
        <3>2. CASE ~(f > 0)
            BY <3>2 DEF Item
        <3> QED
            BY <3>1, <3>2
    <2>5. Item(f) = [fd |-> Item(f).fd, in |-> Item(f).in, of |-> Item(f).of]
        BY DEF Item
    <2> QED
        BY <2>1, <2>3, <2>4, <2>5 DEF PendingItems
<1>4. hub'.pending \in Seq(PendingItems)
    <2>1. IsFiniteSet(ready)
        <3>1. IsFiniteSet(hub.epoll)
            BY <1>0, FS_Subset
        <3>2. IsFiniteSet((hub.epoll \cup {INotify}) \cup {WakeFd})
            BY <3>1, FS_AddElement
        <3>3. ready \subseteq (hub.epoll \cup {INotify}) \cup {WakeFd}
            OBVIOUS
        <3> HIDE DEF ready
        <3> QED
            BY <3>2, <3>3, FS_Subset
    <2>2. Cardinality(ready) \in Nat
        BY <2>1, FS_CardinalityType
    <2>3. order \in [1 .. Cardinality(ready) -> ready]
        BY DEF SetToSeqs
    <2>4. hub'.pending = [i \in DOMAIN order |-> Item(order[i])]
        BY <1>0, <1>1 DEF Fields
    <2> HIDE DEF ready
    <2>5. hub'.pending \in [1 .. Cardinality(ready) -> PendingItems]
        BY <1>3, <2>3, <2>4
    <2> QED
        BY <2>2, <2>5
<1>5. CallOK'
    BY <1>0, <1>1 DEF HubInv, CallOK, Fields
<1>6. dir' \subseteq Nodes /\ inotify' \in Seq({"create", "delete"} \X Nodes)
    BY DEF HubInv
<1> QED
    BY <1>2, <1>4, <1>5, <1>6, StaysOK

\* A step after which the hub is one for which the invariant of the devices
\* holds, and the client has been told nothing.
LEMMA BecomesOK ==
    ASSUME HubInv, NEW g, HubOK(g), Apart(g), HubBecomes(g), known' = known, strays' = strays,
           dir' \subseteq Nodes, inotify' \in Seq({"create", "delete"} \X Nodes),
           g.pending \in Seq(PendingItems), CallOK'
    PROVE  HubInv'
<1>1. SameHub(g, Hub') /\ hub'.pending = g.pending
    BY BecomesIs DEF HubOK
<1>2. wasBuiltIn' = wasBuiltIn \cup ({g.builtIn} \ {NOBODY})
    BY DEF HubBecomes
<1>3. HubOK(Hub)' /\ Apart(Hub)'
    BY <1>1, <1>2, KeptOK
<1>4. StraysOK'
    BY <1>2 DEF HubInv, StraysOK, BUILTIN
<1> QED
    BY <1>1, <1>3, <1>4 DEF HubInv

LEMMA ReopenOK ==
    ASSUME HubInv, ReopenDevices
    PROVE  HubInv'
<1> DEFINE a == CloseAllDevicesLocked(Hub)
           g == [a EXCEPT !.needReopen = FALSE, !.needScan = TRUE]
<1>1. HubBecomes(g) /\ pc' = "client" /\ UNCHANGED <<dir, inotify, call, known, strays>>
    BY DEF ReopenDevices, Return
<1>2. HubOK(a) /\ Apart(a) /\ DOMAIN a.device = {} /\ a.opening = <<>> /\ a.pending = Hub.pending
    BY CloseAllOK DEF HubInv
<1>3. Hub.pending = hub.pending
    BY HubIs DEF HubInv, HubOK
<1>4. DOMAIN a = Fields /\ a.file \in [DOMAIN a.file -> FileRecords]
    BY <1>2 DEF HubOK, HubType
<1> HIDE DEF a
<1>5. SameHub(a, g) /\ g.pending = a.pending /\ g.needScan = TRUE
    BY <1>4 DEF SameHub, Fields
<1> HIDE DEF g
<1>6. HubOK(g) /\ Apart(g) /\ DOMAIN g.device = {} /\ g.opening = <<>>
    BY <1>2, <1>5, SameOK DEF SameHub
<1>7. hub'.device = g.device /\ hub'.opening = g.opening /\ hub'.needScan = g.needScan
    BY <1>1, <1>6, BecomesIs DEF HubOK
<1>8. CallOK'
    BY <1>1, <1>5, <1>6, <1>7 DEF HubInv, CallOK
<1>9. g.pending \in Seq(PendingItems) /\ dir' \subseteq Nodes
      /\ inotify' \in Seq({"create", "delete"} \X Nodes)
    BY <1>1, <1>2, <1>3, <1>5 DEF HubInv
<1> QED
    BY <1>1, <1>6, <1>8, <1>9, BecomesOK

LEMMA ReadNotifyOK ==
    ASSUME HubInv, ReadNotify
    PROVE  HubInv'
<1> DEFINE a == ReadNotifyLocked(Hub)
           g == [a EXCEPT !.pendingINotify = FALSE]
<1>1. /\ HubBecomes(g) /\ pc' = "notify" /\ UNCHANGED <<dir, known, strays>> /\ inotify' = <<>>
      /\ call' = [call EXCEPT !.changed = TRUE] /\ pc \in {"items", "notify"} /\ hub.pending = <<>>
    BY DEF ReadNotify
<1>2. HubOK(a) /\ Apart(a) /\ a.pending = Hub.pending /\ a.needScan = Hub.needScan
    <2>1. Len(inotify) \in Nat
        BY DEF HubInv
    <2> QED
        BY <2>1, NoticedOK DEF HubInv, ReadNotifyLocked
<1>3. Hub.pending = hub.pending /\ Hub.needScan = hub.needScan
    BY HubIs DEF HubInv, HubOK
<1>4. DOMAIN a = Fields /\ a.file \in [DOMAIN a.file -> FileRecords]
    BY <1>2 DEF HubOK, HubType
<1> HIDE DEF a
<1>5. SameHub(a, g) /\ g.pending = a.pending /\ g.needScan = a.needScan
    BY <1>4 DEF SameHub, Fields
<1> HIDE DEF g
<1>6. HubOK(g) /\ Apart(g)
    BY <1>2, <1>5, SameOK
<1>7. hub'.pending = g.pending /\ hub'.needScan = g.needScan
    BY <1>1, <1>6, BecomesIs DEF HubOK
<1>8. CallOK'
    <2>1. hub.needScan = FALSE
        BY <1>1 DEF HubInv, CallOK
    <2>2. hub'.needScan = FALSE /\ hub'.pending = <<>>
        BY <1>1, <1>2, <1>3, <1>5, <1>7, <2>1
    <2> QED
        BY <1>1, <2>2 DEF HubInv, CallOK
<1>9. g.pending \in Seq(PendingItems) /\ dir' \subseteq Nodes
      /\ inotify' \in Seq({"create", "delete"} \X Nodes)
    <2>1. g.pending = hub.pending
        BY <1>2, <1>3, <1>5
    <2>2. <<>> \in Seq({"create", "delete"} \X Nodes)
        OBVIOUS
    <2> QED
        BY <1>1, <2>1, <2>2 DEF HubInv
<1> QED
    BY <1>1, <1>6, <1>8, <1>9, BecomesOK

\* Input is reported for a device that the client has been told of.
LEMMA KnownDevice ==
    ASSUME HubOK(Hub), hub.opening = <<>>, NEW id \in DOMAIN hub.device
    PROVE  ReportedId(hub, id) \in known
<1>1. Hub.device = hub.device /\ Hub.opening = hub.opening /\ Hub.builtIn = hub.builtIn
    BY HubIs DEF HubOK
<1>2. Range(Hub.opening) = {}
    BY <1>1 DEF Range
<1>3. id \in ShouldKnow(Hub)
    BY <1>1, <1>2 DEF ShouldKnow
<1>4. Told(Hub)
    BY DEF HubOK
<1>5. CASE id = hub.builtIn
    BY <1>1, <1>3, <1>4, <1>5 DEF Told, ReportedId
<1>6. CASE id # hub.builtIn
    <2>1. id \notin wasBuiltIn
        BY <1>1, <1>4, <1>6 DEF Told
    <2>2. id \in known
        BY <1>3, <1>4, <2>1 DEF Told
    <2> QED
        BY <1>6, <2>2 DEF ReportedId
<1> QED
    BY <1>5, <1>6

LEMMA ReadDeviceOK ==
    ASSUME HubInv, Pending, NEW id \in DevicesByFd(hub, Head(hub.pending).fd), ReadDevice(id),
           UNCHANGED <<dir, inotify, known>>
    PROVE  HubInv'
<1> DEFINE fd == hub.device[id].fd
           n == IF call.room > 0 /\ file[fd].ready > call.room THEN call.room ELSE file[fd].ready
           full == n > 0 /\ call.room = n
<1>1. /\ file' = [file EXCEPT ![fd].ready = @ - n]
      /\ call' = [call EXCEPT !.room = @ - n, !.written = @ + n]
      /\ hub' = IF full THEN hub ELSE [hub EXCEPT !.pending = Tail(@)]
      /\ strays' = IF n > 0 /\ ReportedId(hub, id) \notin known
                   THEN strays \cup {<<"input", ReportedId(hub, id)>>} ELSE strays
      /\ pc' = IF full THEN "notify" ELSE pc
      /\ wasBuiltIn' = wasBuiltIn
    BY DEF ReadDevice
<1>2. HubType(Hub) /\ HubOK(Hub) /\ Descriptors(Hub)
    BY DEF HubInv, HubOK
<1>3. DOMAIN hub = Fields /\ Hub.device = hub.device /\ Hub.file = file
    BY <1>2, HubIs
<1>4. id \in DOMAIN hub.device /\ fd = Head(hub.pending).fd
    BY DEF DevicesByFd
<1>5. fd # -1
    <2>1. Head(hub.pending) \in PendingItems
        BY DEF HubInv, Pending
    <2>2. Head(hub.pending).fd # -1
        BY <2>1 DEF PendingItems
    <2> QED
        BY <1>4, <2>2
<1>6. fd \in DOMAIN file /\ file[fd] \in FileRecords /\ file \in [DOMAIN file -> FileRecords]
    BY <1>2, <1>3, <1>4, <1>5, FilesTyped DEF Descriptors
<1> HIDE DEF fd
<1>7. n \in Nat /\ n <= file[fd].ready /\ file[fd].ready \in Nat
    <2>1. call.room \in Int /\ file[fd].ready \in Nat
        BY <1>6 DEF FileRecords, HubInv, CallOK
    <2> QED
        BY <2>1
<1> HIDE DEF n
<1>8. file' \in [DOMAIN file -> FileRecords] /\ DOMAIN file' = DOMAIN file
    <2>1. [file[fd] EXCEPT !.ready = file[fd].ready - n] \in FileRecords
        BY <1>6, <1>7 DEF FileRecords
    <2> QED
        BY <1>1, <1>6, <2>1
<1>9. full \in BOOLEAN
    OBVIOUS
<1> HIDE DEF full
<1>10. hub' = hub \/ hub' = [hub EXCEPT !.pending = Tail(hub.pending)]
    BY <1>1, <1>9
<1>11. SameHub(Hub, Hub')
    <2>1. CASE hub' = hub
        BY <1>2, <1>8, <2>1, FileStays
    <2>2. CASE hub' = [hub EXCEPT !.pending = Tail(hub.pending)]
        <3>1. /\ DOMAIN Hub' = Fields /\ Hub'.file = file'
              /\ Hub'.device = Hub.device /\ Hub'.opening = Hub.opening /\ Hub'.closing = Hub.closing
              /\ Hub'.builtIn = Hub.builtIn /\ Hub'.controllers = Hub.controllers
              /\ Hub'.nextId = Hub.nextId /\ Hub'.epoll = Hub.epoll /\ Hub'.lost = Hub.lost
            BY <1>3, <2>2 DEF Hub, Fields
        <3> QED
            BY <1>3, <1>8, <3>1 DEF SameHub
    <2> QED
        BY <1>10, <2>1, <2>2
<1>12. hub.opening = <<>> /\ pc = "items"
    BY DEF HubInv, CallOK, Pending
<1>13. strays' = strays
    BY <1>1, <1>2, <1>4, <1>12, KnownDevice
<1>14. hub'.pending \in Seq(PendingItems)
    <2>1. hub.pending \in Seq(PendingItems) /\ hub.pending # <<>>
        BY DEF HubInv, Pending
    <2>2. Tail(hub.pending) \in Seq(PendingItems)
        BY <2>1
    <2>3. hub'.pending \in {hub.pending, Tail(hub.pending)}
        BY <1>3, <1>10 DEF Fields
    <2> QED
        BY <2>1, <2>2, <2>3
<1>15. CallOK'
    <2>1. hub'.needScan = hub.needScan /\ hub'.opening = <<>> /\ hub'.closing = hub.closing
        BY <1>3, <1>10, <1>12 DEF Fields
    <2>2. pc' \in {"items", "notify"} /\ hub.needScan = FALSE
        BY <1>1, <1>9, <1>12 DEF HubInv, CallOK
    <2>3. /\ DOMAIN call' = DOMAIN call /\ call'.room = call.room - n
          /\ call'.written = call.written + n /\ call'.changed = call.changed
        BY <1>1 DEF HubInv, CallOK
    <2>4. call.room \in Int /\ call.written \in Nat /\ call.changed \in BOOLEAN
          /\ DOMAIN call = {"room", "written", "awoken", "changed"}
          /\ (call.written = 0 /\ ~call.changed => hub.closing = <<>>)
        BY <1>12 DEF HubInv, CallOK
    <2>5. call'.room \in Int /\ call'.written \in Nat /\ (call'.written = 0 => call.written = 0)
        BY <1>7, <2>3, <2>4
    <2> QED
        BY <2>1, <2>2, <2>3, <2>4, <2>5 DEF CallOK
<1> QED
    BY <1>1, <1>11, <1>13, <1>14, <1>15, StaysOK DEF HubInv

LEMMA LoseDeviceOK ==
    ASSUME HubInv, Pending, NEW id \in DevicesByFd(hub, Head(hub.pending).fd), LoseDevice(id),
           UNCHANGED <<dir, inotify, known>>
    PROVE  HubInv'
<1> DEFINE h == [Hub EXCEPT !.pending = Tail(Hub.pending)]
           g == CloseDeviceLocked(h, id)
<1>1. HubBecomes(g) /\ call' = [call EXCEPT !.changed = TRUE] /\ strays' = strays /\ pc' = pc
    BY DEF LoseDevice
<1>2. HubType(Hub) /\ HubOK(Hub) /\ Apart(Hub)
    BY DEF HubInv, HubOK
<1>3. /\ DOMAIN Hub = Fields /\ Hub.device = hub.device /\ Hub.opening = hub.opening
      /\ Hub.pending = hub.pending /\ Hub.needScan = hub.needScan
      /\ Hub.file \in [DOMAIN Hub.file -> FileRecords]
    BY <1>2, HubIs DEF HubType
<1>4. SameHub(Hub, h) /\ h.pending = Tail(hub.pending) /\ h.needScan = hub.needScan
    BY <1>3 DEF SameHub, Fields
<1>5. hub.opening = <<>> /\ pc = "items" /\ hub.needScan = FALSE
    BY DEF HubInv, CallOK, Pending
<1> HIDE DEF h
<1>6. HubOK(h) /\ Apart(h)
    BY <1>2, <1>4, SameOK
<1>7. id \in DOMAIN h.device /\ h.opening = <<>>
    BY <1>3, <1>4, <1>5 DEF DevicesByFd, SameHub
<1>8. /\ HubOK(g) /\ Apart(g) /\ g.opening = <<>>
      /\ g.pending = h.pending /\ g.needScan = h.needScan
    BY <1>6, <1>7, CloseDeviceOK
<1> HIDE DEF g
<1>9. /\ hub'.opening = g.opening /\ hub'.pending = g.pending /\ hub'.needScan = g.needScan
    BY <1>1, <1>8, BecomesIs DEF HubOK
<1>10. CallOK'
    <2>1. hub'.opening = <<>> /\ hub'.needScan = FALSE
        BY <1>4, <1>5, <1>8, <1>9
    <2> QED
        BY <1>1, <1>5, <2>1 DEF HubInv, CallOK
<1>11. g.pending \in Seq(PendingItems)
    <2>1. g.pending = Tail(hub.pending)
        BY <1>4, <1>8
    <2>2. hub.pending \in Seq(PendingItems) /\ hub.pending # <<>>
        BY DEF HubInv, Pending
    <2> QED
        BY <2>1, <2>2
<1>12. known' = known /\ dir' \subseteq Nodes /\ inotify' \in Seq({"create", "delete"} \X Nodes)
    BY DEF HubInv
<1> QED
    BY <1>1, <1>8, <1>10, <1>11, <1>12, BecomesOK

LEMMA TakeDeviceOK ==
    ASSUME HubInv, TakeDeviceItem
    PROVE  HubInv'
<1>1. Pending /\ UNCHANGED <<dir, inotify, known>>
    BY DEF TakeDeviceItem
<1>2. CASE /\ hub' = [hub EXCEPT !.pending = Tail(@)]
           /\ UNCHANGED <<file, call, strays, wasBuiltIn, pc>>
    <2>0. DOMAIN hub = Fields
        BY HubIs DEF HubInv, HubOK
    <2>a. /\ file' = file /\ DOMAIN hub' = DOMAIN hub
          /\ \A x \in Fields \ {"pending", "pendingINotify", "needReopen", "needScan", "file"} :
                 hub'[x] = hub[x]
        BY <1>2, <2>0
    <2>1. SameHub(Hub, Hub')
        BY <2>a, SameHubIs DEF HubInv, HubOK
    <2>2. hub'.pending = Tail(hub.pending) /\ hub.pending # <<>>
        BY <1>1, <1>2, <2>0 DEF Fields, Pending
    <2>3. hub'.pending \in Seq(PendingItems)
        BY <2>2 DEF HubInv
    <2>4. CallOK'
        BY <1>2, <2>0, <2>2 DEF HubInv, CallOK, Fields
    <2> QED
        BY <1>1, <1>2, <2>1, <2>3, <2>4, StaysOK DEF HubInv
<1>3. CASE \E id \in DevicesByFd(hub, Head(hub.pending).fd) : ReadDevice(id) \/ LoseDevice(id)
    BY <1>1, <1>3, ReadDeviceOK, LoseDeviceOK
<1> QED
    BY <1>2, <1>3 DEF TakeDeviceItem

-----------------------------------------------------------------------------
(* The report of devices.                                                  *)

\* The client hears of the first devices of either list and each leaves its
\* list: what it knows is again what it should know.  s is the hub after the
\* scan.
Reports(s, g, c, o) ==
    /\ c \in 0 .. Len(s.closing) /\ o \in 0 .. Len(s.opening)
    /\ DOMAIN g = Fields
    /\ g.closing = SubSeq(s.closing, c + 1, Len(s.closing))
    /\ g.opening = SubSeq(s.opening, o + 1, Len(s.opening))
    /\ g.device = s.device /\ g.builtIn = s.builtIn /\ g.controllers = s.controllers
    /\ g.nextId = s.nextId /\ g.epoll = s.epoll /\ g.lost = s.lost /\ g.file = s.file
FirstOf(q, k) == {q[i] : i \in 1 .. k}

LEMMA ReportedLists ==
    ASSUME NEW s, HubOK(s), NEW g, NEW c, NEW o, Reports(s, g, c, o)
    PROVE  /\ g.opening \in Seq(Given(s)) /\ g.closing \in Seq(Given(s))
           /\ Once(g.opening) /\ Once(g.closing)
           /\ Range(s.closing) = Range(g.closing) \cup FirstOf(s.closing, c)
           /\ Range(s.opening) = Range(g.opening) \cup FirstOf(s.opening, o)
           /\ Range(g.closing) \cap FirstOf(s.closing, c) = {}
           /\ Range(g.opening) \cap FirstOf(s.opening, o) = {}
<1>1. /\ s.opening \in Seq(Given(s)) /\ s.closing \in Seq(Given(s))
      /\ Once(s.opening) /\ Once(s.closing)
    BY DEF HubOK, Lists
<1>2. c \in 0 .. Len(s.closing) /\ g.closing = SubSeq(s.closing, c + 1, Len(s.closing))
    BY DEF Reports
<1>3. o \in 0 .. Len(s.opening) /\ g.opening = SubSeq(s.opening, o + 1, Len(s.opening))
    BY DEF Reports
<1>4. /\ g.closing \in Seq(Given(s)) /\ Once(g.closing)
      /\ Range(s.closing) = Range(g.closing) \cup {s.closing[i] : i \in 1 .. c}
      /\ Range(g.closing) \cap {s.closing[i] : i \in 1 .. c} = {}
    <2> DEFINE q == s.closing
               r == SubSeq(q, c + 1, Len(q))
    <2>1. q \in Seq(Given(s)) /\ c \in 0 .. Len(q) /\ Once(q) /\ g.closing = r
        BY <1>1, <1>2
    <2>2. /\ r \in Seq(Given(s))
          /\ Range(q) = Range(r) \cup {q[i] : i \in 1 .. c}
          /\ Once(q) => Once(r) /\ Range(r) \cap {q[i] : i \in 1 .. c} = {}
        <3> HIDE DEF q
        <3> QED
            BY <2>1, TailIs
    <2> HIDE DEF r
    <2> QED
        BY <2>1, <2>2
<1>5. /\ g.opening \in Seq(Given(s)) /\ Once(g.opening)
      /\ Range(s.opening) = Range(g.opening) \cup {s.opening[i] : i \in 1 .. o}
      /\ Range(g.opening) \cap {s.opening[i] : i \in 1 .. o} = {}
    <2> DEFINE q == s.opening
               r == SubSeq(q, o + 1, Len(q))
    <2>1. q \in Seq(Given(s)) /\ o \in 0 .. Len(q) /\ Once(q) /\ g.opening = r
        BY <1>1, <1>3
    <2>2. /\ r \in Seq(Given(s))
          /\ Range(q) = Range(r) \cup {q[i] : i \in 1 .. o}
          /\ Once(q) => Once(r) /\ Range(r) \cap {q[i] : i \in 1 .. o} = {}
        <3> HIDE DEF q
        <3> QED
            BY <2>1, TailIs
    <2> HIDE DEF r
    <2> QED
        BY <2>1, <2>2
<1> QED
    BY <1>4, <1>5, Zenon DEF FirstOf

\* What the client knows after the report.
Hears(s, c, o) ==
    known' = (known \ FirstOf(s.closing, c)) \cup {ReportedId(s, id) : id \in FirstOf(s.opening, o)}

LEMMA ReportOK ==
    ASSUME NEW s, HubOK(s), NEW g, NEW c, NEW o, Reports(s, g, c, o), Hears(s, c, o),
           Range(g.closing) \cap DOMAIN s.device = {},
           HubBecomes(g)
    PROVE  HubOK(Hub)' /\ Apart(Hub)'
<1> DEFINE k == Hub'
           R == FirstOf(s.closing, c)
           O == FirstOf(s.opening, o)
           D == DOMAIN s.device
<1>a. HubType(s) /\ Descriptors(s) /\ Numbers(s) /\ Lists(s) /\ Told(s)
    BY DEF HubOK
<1>1. /\ DOMAIN g = Fields
      /\ g.device = s.device /\ g.builtIn = s.builtIn /\ g.controllers = s.controllers
      /\ g.nextId = s.nextId /\ g.epoll = s.epoll /\ g.lost = s.lost /\ g.file = s.file
    BY DEF Reports
<1>2. HubType(g) /\ Descriptors(g) /\ Numbers(g) /\ Given(g) = Given(s)
    <2>1. Given(g) = Given(s)
        BY <1>1 DEF Given
    <2>2. HubType(g)
        BY <1>1, <1>a, <2>1 DEF HubType
    <2>3. Descriptors(g)
        BY <1>1, <1>a DEF Descriptors
    <2>4. Numbers(g)
        BY <1>1, <1>a DEF Numbers
    <2> QED
        BY <2>1, <2>2, <2>3, <2>4
<1>3. /\ g.opening \in Seq(Given(s)) /\ g.closing \in Seq(Given(s))
      /\ Once(g.opening) /\ Once(g.closing)
    BY ReportedLists
<1>4. /\ Range(s.closing) = Range(g.closing) \cup R /\ Range(s.opening) = Range(g.opening) \cup O
      /\ Range(g.closing) \cap R = {} /\ Range(g.opening) \cap O = {}
    BY ReportedLists
<1>5. Lists(g)
    BY <1>1, <1>2, <1>3, <1>4, <1>a DEF Lists
<1>6. SameHub(g, k)
    BY <1>2, BecomesIs
<1>7. HubType(k) /\ Descriptors(k) /\ Numbers(k) /\ Lists(k) /\ Given(k) = Given(g)
    <2>1. Given(k) = Given(g)
        BY <1>6 DEF Given, SameHub
    <2> HIDE DEF k
    <2>2. HubType(k)
        BY <1>2, <1>6, <2>1 DEF HubType, SameHub
    <2>3. Descriptors(k)
        BY <1>2, <1>6 DEF Descriptors, SameHub
    <2>4. Numbers(k)
        BY <1>2, <1>6 DEF Numbers, SameHub
    <2>5. Lists(k)
        BY <1>5, <1>6, <2>1 DEF Lists, SameHub
    <2> QED
        BY <2>1, <2>2, <2>3, <2>4, <2>5
<1>8. /\ known \ ({BUILTIN} \cup wasBuiltIn) = ShouldKnow(s) \ wasBuiltIn
      /\ s.builtIn \in ShouldKnow(s) => BUILTIN \in known
      /\ D \cap wasBuiltIn \subseteq {s.builtIn}
      /\ wasBuiltIn \subseteq 1 .. s.nextId - 1
    BY <1>a DEF Told
<1>9. ShouldKnow(k) = (ShouldKnow(s) \ R) \cup O
    <2>1. /\ DOMAIN k.device = D /\ Range(k.opening) = Range(g.opening)
          /\ Range(k.closing) = Range(g.closing)
        BY <1>1, <1>6 DEF SameHub
    <2>2. Range(s.opening) \subseteq D /\ Range(s.closing) \cap D \subseteq Range(s.opening)
        BY <1>a DEF Lists
    <2> HIDE DEF k, R, O, D
    <2> QED
        BY <1>4, <2>1, <2>2 DEF ShouldKnow, D
<1>10. k.builtIn = s.builtIn /\ k.nextId = s.nextId /\ DOMAIN k.device = D
    BY <1>1, <1>6 DEF SameHub
<1>11. wasBuiltIn' = wasBuiltIn \cup ({s.builtIn} \ {NOBODY})
    BY <1>1 DEF HubBecomes
<1>12. BUILTIN \notin R \cup O /\ NOBODY \notin R \cup O /\ s.builtIn \notin R
       /\ s.builtIn \in 1 .. s.nextId - 1 \cup {NOBODY}
    <2>1. Range(s.closing) \subseteq Given(s) /\ Range(s.opening) \subseteq Given(s)
        BY <1>a DEF Lists, Range
    <2>2. BUILTIN \notin Given(s) /\ NOBODY \notin Given(s)
        BY <1>a DEF HubType, Given, VIRTUAL, BUILTIN, NOBODY
    <2>3. s.builtIn \notin Range(s.closing)
        BY <1>a DEF Lists
    <2>4. R \subseteq Range(s.closing) /\ O \subseteq Range(s.opening)
        BY <1>4
    <2>5. s.builtIn \in 1 .. s.nextId - 1 \cup {NOBODY}
        BY <1>a DEF HubType
    <2> HIDE DEF R, O
    <2> QED
        BY <2>1, <2>2, <2>3, <2>4, <2>5
<1>13. known' = (known \ R) \cup (O \ {s.builtIn}) \cup (IF s.builtIn \in O THEN {BUILTIN} ELSE {})
    <2>1. known' = (known \ R) \cup {ReportedId(s, id) : id \in O}
        BY DEF Hears
    <2>2. \A id : ReportedId(s, id) = IF id = s.builtIn THEN BUILTIN ELSE id
        BY DEF ReportedId
    <2> HIDE DEF R, O
    <2>3. {ReportedId(s, id) : id \in O} = (O \ {s.builtIn}) \cup (IF s.builtIn \in O THEN {BUILTIN} ELSE {})
        BY <2>2
    <2> QED
        BY <2>1, <2>3
<1> HIDE DEF k, R, O, D
<1>14. Told(Hub)'
    <2>1. known' \ ({BUILTIN} \cup wasBuiltIn') = ShouldKnow(k) \ wasBuiltIn'
        BY <1>8, <1>9, <1>11, <1>12, <1>13
    <2>2. k.builtIn \in ShouldKnow(k) => BUILTIN \in known'
        BY <1>8, <1>9, <1>10, <1>12, <1>13
    <2>3. DOMAIN k.device \cap wasBuiltIn' \subseteq {k.builtIn}
        BY <1>8, <1>10, <1>11
    <2>4. wasBuiltIn' \subseteq 1 .. k.nextId - 1
        BY <1>8, <1>10, <1>11, <1>12
    <2> QED
        BY <2>1, <2>2, <2>3, <2>4 DEF Told, BUILTIN, k
<1>15. HubType(Hub)' /\ Descriptors(Hub)' /\ Numbers(Hub)' /\ Lists(Hub)'
    BY <1>7 DEF k
<1>16. Range(k.closing) \cap DOMAIN k.device = {}
    BY <1>6, <1>10 DEF SameHub, D
<1> QED
    BY <1>14, <1>15, <1>16 DEF HubOK, Apart, k

\* No removal or addition is told that does not fit what was told before, but
\* of the built-in keyboard.
LEMMA TellOK ==
    ASSUME HubOK(Hub), StraysOK, NEW s, HubOK(s), s.closing = hub.closing,
           NEW c \in 0 .. Len(s.closing), NEW o \in 0 .. Len(s.opening),
           (Range(s.closing) \ FirstOf(s.closing, c)) \cap DOMAIN s.device = {},
           Tell([i \in 1 .. c |-> ReportedId(hub, hub.closing[i])],
                [i \in 1 .. o |-> ReportedId(s, s.opening[i])])
    PROVE  /\ Hears(s, c, o)
           /\ \A x \in strays' : x[1] # "input" /\ (x[2] = BUILTIN \/ x[2] \in wasBuiltIn)
<1> DEFINE p == s.closing
           q == s.opening
           gone == [i \in 1 .. c |-> ReportedId(hub, hub.closing[i])]
           come == [i \in 1 .. o |-> ReportedId(s, q[i])]
           G == FirstOf(p, c)
           O == FirstOf(q, o)
           D == DOMAIN s.device
           left == known \ Range(gone)
<1>1. /\ known' = left \cup Range(come)
      /\ strays' = strays
            \cup {<<"removed", gone[i]>> : i \in {i \in DOMAIN gone : gone[i] \notin known \/ Repeated(gone, i)}}
            \cup {<<"added", come[i]>> : i \in {i \in DOMAIN come : come[i] \in left \/ Repeated(come, i)}}
    BY DEF Tell
<1>2. /\ Once(p) /\ Once(q) /\ Range(q) \subseteq D /\ Range(p) \cap D \subseteq Range(q)
    BY DEF HubOK, Lists
<1>3. 1 .. c \subseteq DOMAIN p /\ 1 .. o \subseteq DOMAIN q
    <2>1. p \in Seq(Given(s)) /\ q \in Seq(Given(s))
        BY DEF HubOK, Lists
    <2>2. DOMAIN p = 1 .. Len(p) /\ Len(p) \in Nat /\ DOMAIN q = 1 .. Len(q) /\ Len(q) \in Nat
        BY <2>1
    <2> HIDE DEF p, q
    <2>3. \A m \in Nat : \A k \in 0 .. m : 1 .. k \subseteq 1 .. m
        OBVIOUS
    <2> QED
        BY <2>2, <2>3 DEF p, q
<1>4. G \subseteq Range(p) /\ O \subseteq Range(q)
    BY <1>3 DEF FirstOf, Range
<1>5. hub.builtIn \notin Range(p)
    <2>1. Hub.builtIn \notin Range(Hub.closing)
        BY DEF HubOK, Lists
    <2> QED
        BY <2>1, HubIs DEF HubOK
<1>6. \A i \in 1 .. c : gone[i] = p[i]
    <2> SUFFICES ASSUME NEW i \in 1 .. c PROVE gone[i] = p[i]
        OBVIOUS
    <2>1. p[i] \in Range(p)
        BY <1>3 DEF Range
    <2>2. p[i] # hub.builtIn
        BY <1>5, <2>1
    <2> QED
        BY <2>2 DEF ReportedId
<1>7. \A i \in 1 .. o : come[i] = ReportedId(s, q[i])
    OBVIOUS
<1>8. DOMAIN gone = 1 .. c /\ DOMAIN come = 1 .. o
    OBVIOUS
<1> HIDE DEF gone, come
<1>9. Range(gone) = G
    BY <1>6, <1>8 DEF Range, FirstOf
<1>10. Range(come) = {ReportedId(s, id) : id \in O}
    BY <1>7, <1>8 DEF Range, FirstOf
<1>11. Hears(s, c, o)
    BY <1>1, <1>9, <1>10 DEF Hears
<1>12. BUILTIN \notin Range(q)
    <2>1. BUILTIN \notin Given(s)
        BY DEF HubOK, HubType, Given, VIRTUAL, BUILTIN
    <2> QED
        BY <2>1 DEF HubOK, Lists, Range
<1>13. ASSUME NEW i \in 1 .. c, gone[i] \notin known \/ Repeated(gone, i)
       PROVE  gone[i] \in wasBuiltIn
    <2>1. ~Repeated(gone, i)
        <3> SUFFICES ASSUME NEW j \in 1 .. i - 1, gone[j] = gone[i] PROVE FALSE
            BY DEF Repeated
        <3>1. j \in 1 .. c /\ j # i
            OBVIOUS
        <3>2. p[j] = p[i] /\ j \in DOMAIN p /\ i \in DOMAIN p
            BY <1>3, <1>6, <3>1
        <3> QED
            BY <1>2, <3>1, <3>2 DEF Once
    <2>2. p[i] \in Range(p)
        BY <1>3 DEF Range
    <2>3. p[i] \in ShouldKnow(Hub)
        <3>1. Hub.closing = p
            BY HubIs DEF HubOK
        <3> QED
            BY <2>2, <3>1 DEF ShouldKnow
    <2>4. p[i] \in wasBuiltIn \/ p[i] \in known
        BY <2>3 DEF HubOK, Told
    <2> QED
        BY <1>6, <1>13, <2>1, <2>4
<1>14. ASSUME NEW i \in 1 .. o, come[i] \in left \/ Repeated(come, i)
       PROVE  come[i] = BUILTIN \/ come[i] \in wasBuiltIn
    <2> SUFFICES ASSUME come[i] # BUILTIN PROVE come[i] \in wasBuiltIn
        OBVIOUS
    <2>1. come[i] = q[i]
        BY <1>7 DEF ReportedId
    <2>2. ~Repeated(come, i)
        <3> SUFFICES ASSUME NEW j \in 1 .. i - 1, come[j] = come[i] PROVE FALSE
            BY DEF Repeated
        <3>1. j \in 1 .. o /\ j # i
            OBVIOUS
        <3>2. come[j] = q[j]
            BY <1>7, <3>1 DEF ReportedId
        <3>3. q[j] = q[i] /\ j \in DOMAIN q /\ i \in DOMAIN q
            BY <1>3, <2>1, <3>1, <3>2
        <3> QED
            BY <1>2, <3>1, <3>3 DEF Once
    <2>3. q[i] \in known /\ q[i] \notin G
        BY <1>9, <1>14, <2>1, <2>2
    <2>4. q[i] \in Range(q) /\ q[i] \in D
        BY <1>2, <1>3 DEF Range
    <2>5. q[i] \notin ShouldKnow(s)
        <3>1. q[i] \notin Range(p)
            BY <2>3, <2>4
        <3> QED
            BY <2>4, <3>1 DEF ShouldKnow
    <2>6. known \ ({BUILTIN} \cup wasBuiltIn) = ShouldKnow(s) \ wasBuiltIn
        BY DEF HubOK, Told
    <2> HIDE DEF q
    <2> QED
        BY <2>1, <2>3, <2>5, <2>6
<1>15. ASSUME NEW x \in strays'
       PROVE  x[1] # "input" /\ (x[2] = BUILTIN \/ x[2] \in wasBuiltIn)
    <2>1. CASE x \in strays
        BY <2>1 DEF StraysOK
    <2>2. CASE \E i \in 1 .. c : x = <<"removed", gone[i]>> /\ (gone[i] \notin known \/ Repeated(gone, i))
        BY <1>13, <2>2
    <2>3. CASE \E i \in 1 .. o : x = <<"added", come[i]>> /\ (come[i] \in left \/ Repeated(come, i))
        <3>1. PICK i \in 1 .. o : x = <<"added", come[i]>> /\ (come[i] \in left \/ Repeated(come, i))
            BY <2>3
        <3>2. come[i] = BUILTIN \/ come[i] \in wasBuiltIn
            BY <1>14, <3>1
        <3> QED
            BY <3>1, <3>2
    <2> HIDE DEF left
    <2> QED
        BY <1>1, <1>8, <2>1, <2>2, <2>3
<1> QED
    BY <1>11, <1>15

LEMMA TakenIs ==
    ASSUME NEW room \in Int, NEW n \in Nat
    PROVE  /\ Taken(room, n) \in 0 .. n
           /\ Taken(room, n) = 0 => n = 0
           /\ n <= room => Taken(room, n) = n
    BY DEF Taken

\* What a report takes from either list; with a scan it takes all of both.
LEMMA ReportTakes ==
    ASSUME HubInv, ScanFits, pc = "top", NEW order \in SetToSeqs(dir), NEW s,
           s = IF hub.needScan THEN ScanDevicesLocked(Hub, order) ELSE Hub,
           NEW c, c = Taken(call.room, Len(hub.closing)),
           NEW o, o = Taken(call.room - c, Len(s.opening))
    PROVE  /\ HubOK(s) /\ s.closing = hub.closing /\ s.pending = hub.pending
           /\ c \in 0 .. Len(s.closing) /\ o \in 0 .. Len(s.opening)
           /\ c = 0 => Len(s.closing) = 0
           /\ o = 0 => Len(s.opening) = 0
           /\ hub.needScan => c = Len(s.closing) /\ o = Len(s.opening)
           /\ ~hub.needScan => Apart(s) /\ s.opening = hub.opening
<1> DEFINE m == Len(hub.closing)
           n == Len(s.opening)
           room == call.room
<1>1. /\ Hub.device = hub.device /\ Hub.opening = hub.opening /\ Hub.closing = hub.closing
      /\ Hub.pending = hub.pending /\ Hub.needScan = hub.needScan
    BY HubIs DEF HubInv, HubOK
<1>2. HubOK(Hub) /\ Apart(Hub) /\ dir \subseteq Nodes
    BY DEF HubInv
<1>3. IsFiniteSet(dir) /\ Cardinality(dir) \in Nat
    <2>1. IsFiniteSet(dir)
        BY <1>2, HubAssumption, FS_Subset
    <2> QED
        BY <2>1, FS_CardinalityType
<1>4. hub.closing \in Seq(Given(Hub)) /\ hub.opening \in Seq(Given(Hub))
    BY <1>1, <1>2 DEF HubOK, Lists
<1>5. m \in Nat /\ Len(hub.opening) \in Nat
    BY <1>4
<1>6. room \in Int /\ hub.needScan \in BOOLEAN /\ (hub.needScan => room = BufferSize /\ DOMAIN hub.device = {})
    BY DEF HubInv, CallOK
<1>7. CASE hub.needScan
    <2> DEFINE g == ScanDevicesLocked(Hub, order)
    <2>1. s = g
        BY <1>7
    <2>2. /\ HubOK(g) /\ g.closing = Hub.closing /\ Len(g.opening) \in Nat
          /\ Len(g.opening) <= Len(Hub.opening) + Cardinality(dir) + 1
          /\ g.pending = Hub.pending
        BY <1>2, <1>3, ScanOK
    <2> HIDE DEF g
    <2>3. Len(Hub.opening) = 0
        <3>1. DOMAIN hub.opening = {}
            <4>1. Range(hub.opening) \subseteq {}
                BY <1>1, <1>2, <1>6, <1>7 DEF HubOK, Lists
            <4> QED
                BY <4>1 DEF Range
        <3>2. DOMAIN hub.opening = 1 .. Len(hub.opening)
            BY <1>4
        <3>3. \A k \in Nat : 1 .. k = {} => k = 0
            <4> SUFFICES ASSUME NEW k \in Nat, 1 .. k = {} PROVE k = 0
                OBVIOUS
            <4>1. ~(1 \in 1 .. k)
                OBVIOUS
            <4> QED
                BY <4>1
        <3> QED
            BY <1>1, <1>5, <3>1, <3>2, <3>3, Zenon
    <2>4. n \in Nat /\ n <= Cardinality(dir) + 1
        <3> DEFINE e == Len(Hub.opening)
        <3>1. e = 0 /\ n \in Nat /\ n <= e + Cardinality(dir) + 1
            BY <2>1, <2>2, <2>3
        <3> HIDE DEF e, n
        <3> QED
            BY <1>3, <3>1
    <2>5. m + Cardinality(dir) + 1 <= room
        BY <1>6, <1>7 DEF ScanFits
    <2> HIDE DEF m, n, room
    <2>6. m <= room /\ n <= room - m /\ room - m \in Int
        BY <1>3, <1>5, <1>6, <2>4, <2>5
    <2>7. c = m
        BY <1>5, <1>6, <2>6, TakenIs DEF m, room
    <2>8. o = n
        <3>1. o = Taken(room - m, n)
            BY <2>7 DEF m, n, room
        <3> QED
            BY <2>4, <2>6, <3>1, TakenIs
    <2>9. m \in 0 .. m /\ n \in 0 .. n
        BY <1>5, <2>4
    <2>10. s.closing = hub.closing /\ s.pending = hub.pending /\ HubOK(s)
        BY <1>1, <2>1, <2>2
    <2> QED
        BY <1>7, <2>7, <2>8, <2>9, <2>10 DEF m, n
<1>8. CASE ~hub.needScan
    <2>1. s = Hub
        BY <1>8
    <2>2. n = Len(hub.opening) /\ n \in Nat
        BY <1>1, <1>5, <2>1
    <2> HIDE DEF m, n, room
    <2>3. c \in 0 .. m /\ (c = 0 => m = 0)
        BY <1>5, <1>6, TakenIs DEF m, room
    <2>4. room - c \in Int
        BY <1>5, <1>6, <2>3
    <2>5. o \in 0 .. n /\ (o = 0 => n = 0)
        BY <2>2, <2>4, TakenIs DEF n, room
    <2>6. s.closing = hub.closing /\ s.pending = hub.pending /\ HubOK(s) /\ Apart(s)
          /\ s.opening = hub.opening
        BY <1>1, <1>2, <2>1
    <2> QED
        BY <1>8, <2>3, <2>5, <2>6 DEF m, n
<1> QED
    BY <1>6, <1>7, <1>8

LEMMA ReportDevicesOK ==
    ASSUME HubInv, ScanFits, ReportDevices
    PROVE  HubInv'
<1>1. PICK order \in SetToSeqs(dir) :
       LET closed  == Taken(call.room, Len(hub.closing))
           scanned == IF hub.needScan THEN ScanDevicesLocked(Hub, order) ELSE Hub
           room1   == call.room - closed
           opened  == Taken(room1, Len(scanned.opening))
           finish  == hub.needScan \/ closed > 0 \/ opened > 0
           room2   == room1 - opened - (IF finish THEN 1 ELSE 0)
       IN  /\ HubBecomes([scanned EXCEPT !.closing = SubSeq(@, closed + 1, Len(@)),
                                         !.opening = SubSeq(@, opened + 1, Len(@)),
                                         !.needScan = FALSE])
           /\ Tell([i \in 1 .. closed |-> ReportedId(hub, hub.closing[i])],
                   [i \in 1 .. opened |-> ReportedId(scanned, scanned.opening[i])])
           /\ call' = [call EXCEPT !.room = room2, !.written = @ + (call.room - room2), !.changed = FALSE]
           /\ IF finish /\ room2 = 0 THEN Return ELSE pc' = "items"
    BY DEF ReportDevices
<1> DEFINE s == IF hub.needScan THEN ScanDevicesLocked(Hub, order) ELSE Hub
           c == Taken(call.room, Len(hub.closing))
           o == Taken(call.room - c, Len(s.opening))
           finish  == hub.needScan \/ c > 0 \/ o > 0
           room2   == call.room - c - o - (IF finish THEN 1 ELSE 0)
           g == [s EXCEPT !.closing = SubSeq(s.closing, c + 1, Len(s.closing)),
                          !.opening = SubSeq(s.opening, o + 1, Len(s.opening)),
                          !.needScan = FALSE]
<1>2. /\ HubBecomes(g)
      /\ Tell([i \in 1 .. c |-> ReportedId(hub, hub.closing[i])],
              [i \in 1 .. o |-> ReportedId(s, s.opening[i])])
      /\ call' = [call EXCEPT !.room = room2, !.written = @ + (call.room - room2), !.changed = FALSE]
      /\ pc' \in {"items", "client"}
      /\ UNCHANGED <<dir, inotify>> /\ pc = "top"
    <2>1. pc' = "client" \/ pc' = "items"
        BY <1>1 DEF Return
    <2> QED
        BY <1>1, <2>1 DEF ReportDevices
<1>a. s = IF hub.needScan THEN ScanDevicesLocked(Hub, order) ELSE Hub
    OBVIOUS
<1>b. c = Taken(call.room, Len(hub.closing))
    OBVIOUS
<1>c. o = Taken(call.room - c, Len(s.opening))
    OBVIOUS
<1> HIDE DEF s, c, o
<1>3. /\ HubOK(s) /\ s.closing = hub.closing /\ s.pending = hub.pending
      /\ c \in 0 .. Len(s.closing) /\ o \in 0 .. Len(s.opening)
      /\ c = 0 => Len(s.closing) = 0
      /\ o = 0 => Len(s.opening) = 0
      /\ hub.needScan => c = Len(s.closing) /\ o = Len(s.opening)
      /\ ~hub.needScan => Apart(s) /\ s.opening = hub.opening
    BY <1>2, <1>a, <1>b, <1>c, ReportTakes
<1>4. DOMAIN s = Fields
    BY <1>3 DEF HubOK, HubType
<1>5. Reports(s, g, c, o) /\ g.pending = s.pending /\ g.needScan = FALSE
    <2>1. /\ DOMAIN g = Fields
          /\ g.closing = SubSeq(s.closing, c + 1, Len(s.closing))
          /\ g.opening = SubSeq(s.opening, o + 1, Len(s.opening))
          /\ g.device = s.device /\ g.builtIn = s.builtIn /\ g.controllers = s.controllers
          /\ g.nextId = s.nextId /\ g.epoll = s.epoll /\ g.lost = s.lost /\ g.file = s.file
          /\ g.pending = s.pending /\ g.needScan = FALSE
        BY <1>4 DEF Fields
    <2> HIDE DEF g
    <2> QED
        BY <1>3, <2>1 DEF Reports
<1> HIDE DEF g
<1>6. /\ Range(s.closing) = Range(g.closing) \cup FirstOf(s.closing, c)
      /\ Range(g.closing) \cap FirstOf(s.closing, c) = {}
      /\ g.opening \in Seq(Given(s)) /\ g.closing \in Seq(Given(s))
    BY <1>3, <1>5, ReportedLists
<1>7. /\ c = Len(s.closing) => g.closing = <<>>
      /\ o = Len(s.opening) => g.opening = <<>>
    <2>1. s.closing \in Seq(Given(s)) /\ s.opening \in Seq(Given(s))
        BY <1>3 DEF HubOK, Lists
    <2>2. g.closing = SubSeq(s.closing, c + 1, Len(s.closing)) /\ g.opening = SubSeq(s.opening, o + 1, Len(s.opening))
        BY <1>5 DEF Reports
    <2>3. \A q \in Seq(Given(s)) : SubSeq(q, Len(q) + 1, Len(q)) = <<>>
        OBVIOUS
    <2> QED
        BY <2>1, <2>2, <2>3
<1>8. Range(g.closing) \cap DOMAIN s.device = {}
    <2>1. CASE hub.needScan
        <3>1. g.closing = <<>>
            BY <1>3, <1>7, <2>1
        <3> QED
            BY <3>1 DEF Range
    <2>2. CASE ~hub.needScan
        BY <1>3, <1>6, <2>2 DEF Apart
    <2> QED
        BY <2>1, <2>2
<1>9. /\ Hears(s, c, o)
      /\ \A x \in strays' : x[1] # "input" /\ (x[2] = BUILTIN \/ x[2] \in wasBuiltIn)
    <2>1. HubOK(Hub) /\ StraysOK
        BY DEF HubInv
    <2>2. (Range(s.closing) \ FirstOf(s.closing, c)) \cap DOMAIN s.device = {}
        BY <1>6, <1>8
    <2> QED
        BY <1>2, <1>3, <2>1, <2>2, TellOK
<1>10. HubOK(Hub)' /\ Apart(Hub)'
    BY <1>2, <1>3, <1>5, <1>8, <1>9, ReportOK
<1>11. StraysOK'
    <2>1. wasBuiltIn \subseteq wasBuiltIn'
        BY <1>2 DEF HubBecomes
    <2> QED
        BY <1>9, <2>1 DEF StraysOK, BUILTIN
<1>12. HubType(g)
    <2>1. HubType(s)
        BY <1>3 DEF HubOK
    <2> QED
        BY <1>5, <2>1 DEF HubType, Reports, Given
<1>13. /\ hub'.opening = g.opening /\ hub'.closing = g.closing
       /\ hub'.pending = hub.pending /\ hub'.needScan = FALSE
    BY <1>2, <1>3, <1>5, <1>12, BecomesIs
<1>14. CallOK'
    <2>1. call.room \in Int /\ call.written \in Nat /\ DOMAIN call = {"room", "written", "awoken", "changed"}
          /\ (hub.opening # <<>> => hub.pending = <<>>)
        BY DEF HubInv, CallOK
    <2>2. c \in Nat /\ o \in Nat
        <3>1. Len(s.closing) \in Nat /\ Len(s.opening) \in Nat
            <4>1. s.closing \in Seq(Given(s)) /\ s.opening \in Seq(Given(s))
                BY <1>3 DEF HubOK, Lists
            <4> QED
                BY <4>1
        <3>2. \A m \in Nat : \A k \in 0 .. m : k \in Nat
            OBVIOUS
        <3> QED
            BY <1>3, <3>1, <3>2, Zenon
    <2>3. finish \in BOOLEAN /\ (~finish => ~hub.needScan /\ c = 0 /\ o = 0)
        BY <2>2
    <2> HIDE DEF finish
    <2>4. room2 \in Int /\ call.room - room2 \in Nat /\ (call.room - room2 = 0 => ~finish)
        BY <2>1, <2>2, <2>3
    <2> HIDE DEF room2
    <2>5. /\ DOMAIN call' = {"room", "written", "awoken", "changed"}
          /\ call'.room = room2 /\ call'.written = call.written + (call.room - room2)
          /\ call'.changed = FALSE
        BY <1>2, <2>1
    <2>6. call'.room \in Int /\ call'.written \in Nat /\ (call'.written = 0 => call.room - room2 = 0)
        BY <2>1, <2>4, <2>5
    <2>7. call'.written = 0 => g.opening = <<>> /\ g.closing = <<>>
        BY <1>3, <1>7, <2>3, <2>4, <2>6
    <2>8. g.opening # <<>> => hub.pending = <<>>
        <3> SUFFICES ASSUME g.opening # <<>> PROVE hub.pending = <<>>
            OBVIOUS
        <3>1. ~hub.needScan /\ Len(s.opening) # 0
            <4>1. ~hub.needScan
                BY <1>3, <1>7
            <4>2. ASSUME Len(s.opening) = 0 PROVE FALSE
                <5>1. o = 0
                    BY <1>3, <4>2
                <5> QED
                    BY <1>7, <4>2, <5>1
            <4> QED
                BY <4>1, <4>2
        <3>2. hub.opening # <<>>
            BY <1>3, <3>1
        <3> QED
            BY <2>1, <3>2
    <2>9. pc' \in {"client", "items"}
        BY <1>2
    <2> QED
        BY <1>13, <2>5, <2>6, <2>7, <2>8, <2>9 DEF CallOK
<1>15. hub'.pending \in Seq(PendingItems) /\ dir' \subseteq Nodes /\ inotify' \in Seq({"create", "delete"} \X Nodes)
    BY <1>2, <1>13 DEF HubInv
<1> QED
    BY <1>10, <1>11, <1>14, <1>15 DEF HubInv

-----------------------------------------------------------------------------
(* Enabling and disabling.                                                 *)

\* Nothing but the descriptor of one device changes.
Switches(h, g, d) ==
    /\ DOMAIN g = Fields /\ g.nextId = h.nextId /\ g.builtIn = h.builtIn
    /\ g.controllers = h.controllers /\ g.opening = h.opening /\ g.closing = h.closing
    /\ g.lost \in {h.lost, TRUE}
    /\ DOMAIN g.device = DOMAIN h.device
    /\ \A e \in DOMAIN h.device : e # d => g.device[e] = h.device[e]
    /\ g.device[d].number = h.device[d].number /\ g.device[d] \in DeviceRecords
    /\ g.device = [e \in DOMAIN g.device |-> g.device[e]]

LEMMA SwitchedOK ==
    ASSUME NEW h, HubOK(h), NEW d \in DOMAIN h.device, NEW g, Switches(h, g, d),
           g.file \in [DOMAIN g.file -> FileRecords], DOMAIN g.file \subseteq Nat \ {0},
           IsFiniteSet(DOMAIN g.file), Descriptors(g)
    PROVE  HubOK(g) /\ (Apart(h) => Apart(g))
<1>a. HubType(h) /\ Numbers(h) /\ Lists(h) /\ Told(h)
    BY DEF HubOK
<1>b. /\ DOMAIN g = Fields /\ g.nextId = h.nextId /\ g.builtIn = h.builtIn
      /\ g.controllers = h.controllers /\ g.opening = h.opening /\ g.closing = h.closing
      /\ DOMAIN g.device = DOMAIN h.device
    BY DEF Switches
<1>1. \A e \in DOMAIN h.device : g.device[e].number = h.device[e].number
    BY DEF Switches
<1>2. Given(g) = Given(h) /\ ShouldKnow(g) = ShouldKnow(h)
    BY <1>b DEF Given, ShouldKnow
<1>3. HubType(g)
    <2>1. g.device \in [DOMAIN g.device -> DeviceRecords]
        <3>1. \A e \in DOMAIN h.device : g.device[e] \in DeviceRecords
            BY <1>a DEF Switches, HubType
        <3> QED
            BY <3>1 DEF Switches
    <2>2. g.lost \in BOOLEAN
        BY <1>a DEF Switches, HubType
    <2> QED
        BY <1>a, <1>b, <1>2, <2>1, <2>2 DEF HubType
<1>4. Numbers(g)
    <2>1. g.lost \/ \A n \in h.controllers : \E e \in DOMAIN h.device : h.device[e].number = n
        BY <1>a DEF Numbers, Switches
    <2> QED
        BY <1>a, <1>b, <1>1, <2>1 DEF Numbers
<1>5. Lists(g)
    BY <1>a, <1>b, <1>2 DEF Lists
<1>6. Told(g)
    BY <1>a, <1>b, <1>2 DEF Told
<1> QED
    BY <1>3, <1>4, <1>5, <1>6, <1>b DEF HubOK, Apart

LEMMA EnableOK ==
    ASSUME HubInv, NEW id, EnableDevice(id)
    PROVE  HubInv'
<1> DEFINE d == DeviceById(hub, id)
           node == hub.device[d].node
           fd == FreeFd(Hub)
           open == [Opened(Hub, fd, node) EXCEPT !.device[d].fd = fd, !.device[d].enabled = TRUE]
           g == IF hub.device[d].enabled \/ node \notin dir THEN Hub
                ELSE IF RegistrationFails(Hub) THEN [open EXCEPT !.lost = TRUE]
                ELSE [open EXCEPT !.epoll = @ \cup {fd}]
<1>1. /\ pc = "client" /\ d \in DOMAIN hub.device /\ HubBecomes(g)
      /\ UNCHANGED <<dir, inotify, pc, call, known, strays>>
    BY DEF EnableDevice
<1>2. HubOK(Hub) /\ Apart(Hub) /\ HubType(Hub) /\ Descriptors(Hub) /\ dir \subseteq Nodes
    BY DEF HubInv, HubOK
<1>3. /\ DOMAIN Hub = Fields /\ Hub.device = hub.device /\ Hub.opening = hub.opening
      /\ Hub.pending = hub.pending /\ Hub.needScan = hub.needScan /\ Hub.closing = hub.closing
      /\ Hub.file \in [DOMAIN Hub.file -> FileRecords] /\ DOMAIN Hub.file \subseteq Nat \ {0}
      /\ IsFiniteSet(DOMAIN Hub.file)
      /\ Hub.device \in [DOMAIN Hub.device -> DeviceRecords]
    BY <1>2, HubIs DEF HubType
<1>4. fd \in Nat \ {0} /\ fd \notin DOMAIN Hub.file
    BY <1>3, FreeFdIsFree
<1> HIDE DEF d, fd
<1>5. HubOK(g) /\ Apart(g) /\ g.pending = hub.pending /\ g.needScan = hub.needScan
      /\ g.opening = hub.opening
    <2>1. CASE g = Hub
        BY <1>2, <1>3, <2>1
    <2>2. CASE /\ ~hub.device[d].enabled /\ node \in dir
               /\ g = [open EXCEPT !.lost = TRUE] \/ g = [open EXCEPT !.epoll = @ \cup {fd}]
        <3>1. Hub.device[d].fd = -1 /\ d \in DOMAIN Hub.device
            BY <1>1, <1>2, <1>3, <2>2 DEF Descriptors
        <3> DEFINE new == [hub.device[d] EXCEPT !.fd = fd, !.enabled = TRUE]
                   opened == Opened(Hub, fd, node)
        <3>a. /\ DOMAIN opened = Fields
              /\ opened.file = [f \in DOMAIN Hub.file \cup {fd} |->
                              IF f = fd THEN [node |-> node, ready |-> 0, gone |-> FALSE] ELSE Hub.file[f]]
              /\ \A x \in Fields \ {"file"} : opened[x] = Hub[x]
            BY <1>3 DEF Opened, Fields
        <3>b. opened.device = hub.device
            BY <1>3, <3>a DEF Fields
        <3> DEFINE first == [opened EXCEPT !.device[d].fd = fd]
        <3>c. open = [first EXCEPT !.device[d].enabled = TRUE]
            OBVIOUS
        <3> HIDE DEF opened, Hub, open, node
        <3>d. /\ DOMAIN first = Fields /\ first.device = [hub.device EXCEPT ![d] = [hub.device[d] EXCEPT !.fd = fd]]
              /\ \A x \in Fields \ {"device"} : first[x] = opened[x]
            BY <3>a, <3>b DEF Fields
        <3> HIDE DEF first
        <3>e. /\ DOMAIN open = Fields
              /\ open.device = [first.device EXCEPT ![d] = [first.device[d] EXCEPT !.enabled = TRUE]]
              /\ \A x \in Fields \ {"device"} : open[x] = first[x]
            BY <3>c, <3>d DEF Fields
        <3>f. [first.device EXCEPT ![d] = [first.device[d] EXCEPT !.enabled = TRUE]]
              = [hub.device EXCEPT ![d] = new]
            BY <1>1, <3>d
        <3>2. /\ DOMAIN open = Fields /\ open.device = [hub.device EXCEPT ![d] = new]
              /\ open.file = opened.file
              /\ \A x \in Fields \ {"device", "file"} : open[x] = Hub[x]
            <4> HIDE DEF new
            <4> QED
                BY <3>a, <3>d, <3>e, <3>f DEF Fields
        <3> HIDE DEF open, g, node
        <3>3. /\ DOMAIN g = Fields /\ g.device = [hub.device EXCEPT ![d] = new]
              /\ g.file = opened.file
              /\ \A x \in Fields \ {"device", "file", "lost", "epoll"} : g[x] = Hub[x]
              /\ \/ g.lost = TRUE /\ g.epoll = Hub.epoll
                 \/ g.lost = Hub.lost /\ g.epoll = Hub.epoll \cup {fd}
            <4>1. CASE g = [open EXCEPT !.lost = TRUE]
                BY <3>2, <4>1 DEF Fields
            <4>2. CASE g = [open EXCEPT !.epoll = @ \cup {fd}]
                BY <3>2, <4>2 DEF Fields
            <4> QED
                BY <2>2, <4>1, <4>2
        <3>4. new \in DeviceRecords /\ new.fd = fd /\ new.enabled = TRUE /\ new.number = hub.device[d].number
            <4>1. hub.device[d] \in DeviceRecords
                BY <1>1, <1>3
            <4>2. \A r \in DeviceRecords : \A k \in Int : [r EXCEPT !.fd = k, !.enabled = TRUE] \in DeviceRecords
                BY DEF DeviceRecords
            <4>3. \A r \in DeviceRecords : \A k : /\ [r EXCEPT !.fd = k, !.enabled = TRUE].fd = k
                                                /\ [r EXCEPT !.fd = k, !.enabled = TRUE].enabled = TRUE
                                                /\ [r EXCEPT !.fd = k, !.enabled = TRUE].number = r.number
                BY DEF DeviceRecords
            <4>4. new \in DeviceRecords
                <5>1. fd \in Int
                    BY <1>4
                <5> DEFINE r == hub.device[d]
                <5>2. new = [r EXCEPT !.fd = fd, !.enabled = TRUE]
                    OBVIOUS
                <5>3. r \in DeviceRecords
                    BY <4>1
                <5> HIDE DEF new, r
                <5> QED
                    BY <4>2, <5>1, <5>2, <5>3
            <4> QED
                BY <4>1, <4>3, <4>4
        <3> HIDE DEF new
        <3>5. /\ DOMAIN g.device = DOMAIN Hub.device /\ g.device[d] = new
              /\ \A e \in DOMAIN Hub.device : e # d => g.device[e] = Hub.device[e]
              /\ g.device = [e \in DOMAIN g.device |-> g.device[e]]
            BY <1>1, <1>3, <3>3
        <3>6. Switches(Hub, g, d)
            <4>1. /\ g.nextId = Hub.nextId /\ g.builtIn = Hub.builtIn
                  /\ g.controllers = Hub.controllers /\ g.opening = Hub.opening
                  /\ g.closing = Hub.closing /\ g.lost \in {Hub.lost, TRUE}
                BY <3>3 DEF Fields
            <4> QED
                BY <1>3, <3>3, <3>4, <3>5, <4>1 DEF Switches
        <3>7. /\ DOMAIN g.file = DOMAIN Hub.file \cup {fd}
              /\ g.file \in [DOMAIN g.file -> FileRecords]
            <4>1. [node |-> node, ready |-> 0, gone |-> FALSE] \in FileRecords
                BY <1>2, <2>2 DEF FileRecords
            <4> QED
                BY <1>3, <3>3, <3>a, <4>1
        <3>8. IsFiniteSet(DOMAIN g.file) /\ DOMAIN g.file \subseteq Nat \ {0}
            BY <1>3, <1>4, <3>7, FS_AddElement
        <3>9. Descriptors(g)
            <4>1. \A e \in DOMAIN g.device : g.device[e].fd # -1 => g.device[e].fd \in DOMAIN g.file
                BY <1>2, <3>4, <3>5, <3>7 DEF Descriptors
            <4>2. \A e, k \in DOMAIN g.device :
                      g.device[e].fd = g.device[k].fd /\ g.device[e].fd # -1 => e = k
                <5>1. \A e \in DOMAIN Hub.device : Hub.device[e].fd # fd
                    BY <1>2, <1>4 DEF Descriptors
                <5> QED
                    BY <1>2, <3>4, <3>5, <5>1 DEF Descriptors
            <4>3. \A f \in DOMAIN g.file : \E e \in DOMAIN g.device : g.device[e].fd = f
                <5> SUFFICES ASSUME NEW f \in DOMAIN g.file
                             PROVE  \E e \in DOMAIN g.device : g.device[e].fd = f
                    OBVIOUS
                <5>1. CASE f = fd
                    BY <3>1, <3>4, <3>5, <5>1
                <5>2. CASE f \in DOMAIN Hub.file
                    <6>1. PICK e \in DOMAIN Hub.device : Hub.device[e].fd = f
                        BY <1>2, <5>2 DEF Descriptors
                    <6>2. e # d
                        BY <1>3, <3>1, <5>2, <6>1
                    <6> QED
                        BY <3>5, <6>1, <6>2
                <5> QED
                    BY <3>7, <5>1, <5>2
            <4>4. \A e \in DOMAIN g.device : ~g.device[e].enabled => g.device[e].fd = -1
                BY <1>2, <3>4, <3>5 DEF Descriptors
            <4>5. g.epoll \subseteq DOMAIN g.file
                BY <1>2, <3>3, <3>7 DEF Descriptors
            <4>6. g.lost \/ \A e \in DOMAIN g.device :
                      HasValidFd(g.device[e]) => g.device[e].fd \in g.epoll
                BY <1>2, <3>3, <3>4, <3>5 DEF Descriptors, HasValidFd
            <4> QED
                BY <4>1, <4>2, <4>3, <4>4, <4>5, <4>6 DEF Descriptors
        <3>10. HubOK(g) /\ Apart(g)
            BY <1>2, <3>1, <3>6, <3>7, <3>8, <3>9, SwitchedOK
        <3>11. g.pending = hub.pending /\ g.needScan = hub.needScan /\ g.opening = hub.opening
            BY <1>3, <3>3 DEF Fields
        <3> QED
            BY <3>10, <3>11
    <2>3. g = Hub \/ (/\ ~hub.device[d].enabled /\ node \in dir
                      /\ g = [open EXCEPT !.lost = TRUE] \/ g = [open EXCEPT !.epoll = @ \cup {fd}])
        <3> HIDE DEF Hub, open, node
        <3> QED
            OBVIOUS
    <2> QED
        BY <2>1, <2>2, <2>3
<1> HIDE DEF g
<1>6. /\ SameHub(g, Hub') /\ hub'.device = g.device /\ hub'.opening = g.opening
      /\ hub'.pending = g.pending /\ hub'.needScan = g.needScan
    BY <1>1, <1>5, BecomesIs DEF HubOK
<1>7. CallOK'
    <2>1. hub.needScan = FALSE
        BY <1>1 DEF HubInv, CallOK
    <2> QED
        BY <1>1, <1>5, <1>6, <2>1 DEF HubInv, CallOK
<1>8. g.pending \in Seq(PendingItems) /\ dir' \subseteq Nodes
      /\ inotify' \in Seq({"create", "delete"} \X Nodes)
    BY <1>1, <1>5 DEF HubInv
<1> QED
    BY <1>1, <1>5, <1>7, <1>8, BecomesOK

LEMMA DisableOK ==
    ASSUME HubInv, NEW id, DisableDevice(id)
    PROVE  HubInv'
<1> DEFINE d == DeviceById(hub, id)
           fd == hub.device[d].fd
           first == [Hub EXCEPT !.device[d].enabled = FALSE]
           off == [Hub EXCEPT !.device[d].enabled = FALSE, !.device[d].fd = -1]
           g == IF fd >= 0 THEN Closed(off, fd) ELSE off
           old == hub.device[d]
           new == [[old EXCEPT !.enabled = FALSE] EXCEPT !.fd = -1]
<1>1. /\ pc = "client" /\ d \in DOMAIN hub.device /\ HubBecomes(g)
      /\ UNCHANGED <<dir, inotify, pc, call, known, strays>>
    BY DEF DisableDevice
<1>2. HubOK(Hub) /\ Apart(Hub) /\ HubType(Hub) /\ Descriptors(Hub) /\ dir \subseteq Nodes
    BY DEF HubInv, HubOK
<1>3. /\ DOMAIN Hub = Fields /\ Hub.device = hub.device /\ Hub.opening = hub.opening
      /\ Hub.pending = hub.pending /\ Hub.needScan = hub.needScan
      /\ Hub.file \in [DOMAIN Hub.file -> FileRecords] /\ DOMAIN Hub.file \subseteq Nat \ {0}
      /\ IsFiniteSet(DOMAIN Hub.file)
      /\ Hub.device \in [DOMAIN Hub.device -> DeviceRecords]
    BY <1>2, HubIs DEF HubType
<1>4. off = [first EXCEPT !.device[d].fd = -1]
    OBVIOUS
<1>5. d \in DOMAIN Hub.device /\ old \in DeviceRecords /\ Hub.device[d] = old /\ fd = old.fd
    BY <1>1, <1>3
<1>6. fd = -1 \/ (fd \in Nat \ {0} /\ fd \in DOMAIN Hub.file)
    BY <1>2, <1>3, <1>5 DEF Descriptors
<1> HIDE DEF Hub, off, d
<1>7. /\ DOMAIN first = Fields /\ first.device = [hub.device EXCEPT ![d] = [old EXCEPT !.enabled = FALSE]]
      /\ \A x \in Fields \ {"device"} : first[x] = Hub[x]
    BY <1>3 DEF Fields
<1> HIDE DEF first, old
<1>8. /\ DOMAIN off = Fields
      /\ off.device = [first.device EXCEPT ![d] = [first.device[d] EXCEPT !.fd = -1]]
      /\ \A x \in Fields \ {"device"} : off[x] = first[x]
    BY <1>4, <1>7 DEF Fields
<1>9. [first.device EXCEPT ![d] = [first.device[d] EXCEPT !.fd = -1]] = [hub.device EXCEPT ![d] = new]
    BY <1>1, <1>7
<1>10. new \in DeviceRecords /\ new.fd = -1 /\ new.enabled = FALSE /\ new.number = old.number
    <2>1. \A r \in DeviceRecords : [[r EXCEPT !.enabled = FALSE] EXCEPT !.fd = -1] \in DeviceRecords
        <3>1. \A r \in DeviceRecords : [r EXCEPT !.enabled = FALSE] \in DeviceRecords
            BY DEF DeviceRecords
        <3>2. \A r \in DeviceRecords : \A k \in Int : [r EXCEPT !.fd = k] \in DeviceRecords
            BY DEF DeviceRecords
        <3>3. -1 \in Int
            OBVIOUS
        <3> QED
            BY <3>1, <3>2, <3>3
    <2>2. \A r \in DeviceRecords : LET n == [[r EXCEPT !.enabled = FALSE] EXCEPT !.fd = -1]
                                   IN  n.fd = -1 /\ n.enabled = FALSE /\ n.number = r.number
        BY DEF DeviceRecords
    <2> QED
        BY <1>5, <2>1, <2>2
<1> HIDE DEF new, fd
<1>11. /\ DOMAIN off = Fields /\ off.device = [hub.device EXCEPT ![d] = new]
       /\ \A x \in Fields \ {"device"} : off[x] = Hub[x]
    BY <1>7, <1>8, <1>9
<1>12. /\ DOMAIN g = Fields /\ g.device = off.device
       /\ \A x \in Fields \ {"device", "file", "epoll"} : g[x] = Hub[x]
       /\ fd = -1 => g.file = Hub.file /\ g.epoll = Hub.epoll
       /\ fd # -1 => /\ g.file = [f \in DOMAIN Hub.file \ {fd} |-> Hub.file[f]]
                     /\ g.epoll = Hub.epoll \ {fd}
    <2>1. CASE fd = -1
        <3>1. g = off
            BY <2>1
        <3> QED
            BY <1>11, <2>1, <3>1 DEF Fields
    <2>2. CASE fd # -1
        <3>1. g = Closed(off, fd)
            BY <1>6, <2>2
        <3>2. off.file = Hub.file /\ off.epoll = Hub.epoll
            BY <1>11 DEF Fields
        <3> HIDE DEF g
        <3>3. g = [off EXCEPT !.file = [f \in DOMAIN Hub.file \ {fd} |-> Hub.file[f]],
                              !.epoll = Hub.epoll \ {fd}]
            BY <3>1, <3>2 DEF Closed
        <3>4. /\ DOMAIN g = Fields /\ \A x \in Fields \ {"file", "epoll"} : g[x] = off[x]
              /\ g.file = [f \in DOMAIN Hub.file \ {fd} |-> Hub.file[f]]
              /\ g.epoll = Hub.epoll \ {fd}
            BY <1>11, <3>3 DEF Fields
        <3> QED
            BY <1>11, <2>2, <3>4 DEF Fields
    <2> QED
        BY <2>1, <2>2
<1> HIDE DEF g
<1>13. /\ DOMAIN g.device = DOMAIN Hub.device /\ g.device[d] = new
       /\ \A e \in DOMAIN Hub.device : e # d => g.device[e] = Hub.device[e]
       /\ g.device = [e \in DOMAIN g.device |-> g.device[e]]
    BY <1>3, <1>5, <1>11, <1>12
<1>14. Switches(Hub, g, d)
    <2>1. /\ g.nextId = Hub.nextId /\ g.builtIn = Hub.builtIn
          /\ g.controllers = Hub.controllers /\ g.opening = Hub.opening
          /\ g.closing = Hub.closing /\ g.lost \in {Hub.lost, TRUE}
        BY <1>12 DEF Fields
    <2> QED
        BY <1>5, <1>10, <1>12, <1>13, <2>1 DEF Switches
<1>15. /\ DOMAIN g.file \subseteq DOMAIN Hub.file
       /\ \A f \in DOMAIN g.file : f # fd
       /\ \A f \in DOMAIN Hub.file : f # fd => f \in DOMAIN g.file
       /\ g.file \in [DOMAIN g.file -> FileRecords]
    <2>1. CASE fd = -1
        BY <1>3, <1>12, <2>1
    <2>2. CASE fd # -1
        BY <1>3, <1>12, <2>2
    <2> QED
        BY <2>1, <2>2
<1>16. IsFiniteSet(DOMAIN g.file) /\ DOMAIN g.file \subseteq Nat \ {0}
    <2>1. IsFiniteSet(DOMAIN g.file)
        BY <1>3, <1>15, FS_Subset
    <2> QED
        BY <1>3, <1>15, <2>1
<1>17. Descriptors(g)
    <2>1. \A e \in DOMAIN g.device : g.device[e].fd # -1 => g.device[e].fd \in DOMAIN g.file
        <3> SUFFICES ASSUME NEW e \in DOMAIN g.device, g.device[e].fd # -1
                     PROVE  g.device[e].fd \in DOMAIN g.file
            OBVIOUS
        <3>1. e # d /\ g.device[e] = Hub.device[e] /\ e \in DOMAIN Hub.device
            BY <1>10, <1>13
        <3>2. Hub.device[e].fd # fd
            BY <1>2, <1>5, <3>1 DEF Descriptors
        <3> QED
            BY <1>2, <1>15, <3>1, <3>2 DEF Descriptors
    <2>2. \A e, k \in DOMAIN g.device :
              g.device[e].fd = g.device[k].fd /\ g.device[e].fd # -1 => e = k
        BY <1>2, <1>10, <1>13 DEF Descriptors
    <2>3. \A f \in DOMAIN g.file : \E e \in DOMAIN g.device : g.device[e].fd = f
        <3> SUFFICES ASSUME NEW f \in DOMAIN g.file
                     PROVE  \E e \in DOMAIN g.device : g.device[e].fd = f
            OBVIOUS
        <3>1. PICK e \in DOMAIN Hub.device : Hub.device[e].fd = f
            BY <1>2, <1>15 DEF Descriptors
        <3>2. e # d
            BY <1>5, <1>15, <3>1
        <3> QED
            BY <1>13, <3>1, <3>2
    <2>4. \A e \in DOMAIN g.device : ~g.device[e].enabled => g.device[e].fd = -1
        BY <1>2, <1>10, <1>13 DEF Descriptors
    <2>5. g.epoll \subseteq DOMAIN g.file
        BY <1>2, <1>12, <1>15 DEF Descriptors
    <2>6. g.lost \/ \A e \in DOMAIN g.device :
              HasValidFd(g.device[e]) => g.device[e].fd \in g.epoll
        <3> SUFFICES ASSUME ~Hub.lost, NEW e \in DOMAIN g.device, HasValidFd(g.device[e])
                     PROVE  g.device[e].fd \in g.epoll
            <4>1. g.lost = Hub.lost /\ Hub.lost \in BOOLEAN
                BY <1>2, <1>12 DEF Fields, HubType
            <4> QED
                BY <4>1
        <3>1. e # d /\ g.device[e] = Hub.device[e] /\ e \in DOMAIN Hub.device
            BY <1>10, <1>13 DEF HasValidFd
        <3>2. Hub.device[e].fd \in Hub.epoll
            BY <1>2, <3>1 DEF Descriptors
        <3>3. Hub.device[e].fd # -1
            BY <1>2, <1>3, <3>2 DEF Descriptors
        <3>4. Hub.device[e].fd # fd
            BY <1>2, <1>5, <3>1, <3>3 DEF Descriptors
        <3> QED
            BY <1>12, <3>1, <3>2, <3>4
    <2> QED
        BY <2>1, <2>2, <2>3, <2>4, <2>5, <2>6 DEF Descriptors
<1>18. HubOK(g) /\ Apart(g)
    BY <1>2, <1>5, <1>14, <1>15, <1>16, <1>17, SwitchedOK
<1>19. g.pending = hub.pending /\ g.needScan = hub.needScan /\ g.opening = hub.opening
    BY <1>3, <1>12 DEF Fields
<1>20. /\ SameHub(g, Hub') /\ hub'.device = g.device /\ hub'.opening = g.opening
       /\ hub'.pending = g.pending /\ hub'.needScan = g.needScan
    BY <1>1, <1>18, BecomesIs DEF HubOK
<1>21. CallOK'
    <2>1. hub.needScan = FALSE
        BY <1>1 DEF HubInv, CallOK
    <2> QED
        BY <1>1, <1>19, <1>20, <2>1 DEF HubInv, CallOK
<1>22. g.pending \in Seq(PendingItems) /\ dir' \subseteq Nodes
       /\ inotify' \in Seq({"create", "delete"} \X Nodes)
    BY <1>1, <1>19 DEF HubInv
<1> QED
    BY <1>1, <1>18, <1>21, <1>22, BecomesOK

-----------------------------------------------------------------------------
(* The theorem.                                                            *)

LEMMA StepOK ==
    ASSUME HubInv, ScanFits, [Next]_vars
    PROVE  HubInv'
<1>1. CASE UNCHANGED vars
    <2>1. UNCHANGED <<dir, inotify, file, hub, pc, call, known, strays, wasBuiltIn>>
        BY <1>1 DEF vars
    <2>2. SameHub(Hub, Hub')
        BY <2>1, SameHubIs DEF HubInv, HubOK
    <2>3. hub'.pending \in Seq(PendingItems) /\ dir' \subseteq Nodes
          /\ inotify' \in Seq({"create", "delete"} \X Nodes)
        BY <2>1 DEF HubInv
    <2>4. CallOK'
        BY <2>1 DEF HubInv, CallOK
    <2> QED
        BY <2>1, <2>2, <2>3, <2>4, StaysOK
<1>2. CASE ReaderStep
    BY <1>2, GetEventsOK, ReopenOK, ReportDevicesOK, TakeSpecialOK, TakeDeviceOK, ReadNotifyOK,
       EndRoundOK DEF ReaderStep
<1>3. CASE Poll \/ PollTimeout \/ Wake \/ RequestReopenDevices
    BY <1>3, PollOK, PollTimeoutOK, WakeOK, RequestReopenOK
<1>4. CASE \E node \in Nodes : Plug(node) \/ Unplug(node) \/ \E n \in BurstSizes : Burst(node, n)
    BY <1>4, PlugOK, UnplugOK, BurstOK
<1>5. CASE \E id \in known : EnableDevice(id) \/ DisableDevice(id)
    BY <1>5, EnableOK, DisableOK
<1> QED
    BY <1>1, <1>2, <1>3, <1>4, <1>5 DEF Next

LEMMA InvGivesStory == HubInv => HubStory
<1> SUFFICES ASSUME HubInv PROVE HubStory
    OBVIOUS
<1>1. /\ Hub.device = hub.device /\ Hub.opening = hub.opening /\ Hub.closing = hub.closing
      /\ Hub.controllers = hub.controllers /\ Hub.epoll = hub.epoll /\ Hub.lost = hub.lost
      /\ Hub.file = file
    BY HubIs DEF HubInv, HubOK
<1>2. HubType(Hub) /\ Descriptors(Hub) /\ Numbers(Hub) /\ Told(Hub)
    BY DEF HubInv, HubOK
<1>3. DeviceStory
    <2>1. ASSUME pc = "poll"
          PROVE  known \ ({BUILTIN} \cup wasBuiltIn) = DOMAIN hub.device \ wasBuiltIn
        <3>1. hub.opening = <<>> /\ hub.closing = <<>>
            BY <2>1 DEF HubInv, CallOK
        <3>2. Range(hub.opening) = {} /\ Range(hub.closing) = {}
            BY <3>1 DEF Range
        <3>3. ShouldKnow(Hub) = DOMAIN hub.device
            BY <1>1, <3>2 DEF ShouldKnow
        <3> QED
            BY <1>2, <3>3 DEF Told
    <2> QED
        BY <2>1 DEF DeviceStory, HubInv, StraysOK
<1>4. WatchedAreOpen
    <2>1. ASSUME NEW f \in DOMAIN file
          PROVE  Cardinality(DevicesByFd(hub, f)) = 1
        <3>1. PICK d \in DOMAIN hub.device : hub.device[d].fd = f
            BY <1>1, <1>2 DEF Descriptors
        <3>2. f # -1
            BY FilesTyped
        <3>3. DevicesByFd(hub, f) = {d}
            BY <1>1, <1>2, <3>1, <3>2 DEF DevicesByFd, Descriptors
        <3> QED
            BY <3>3, FS_Singleton
    <2>2. hub.epoll \subseteq DOMAIN file
        BY <1>1, <1>2 DEF Descriptors
    <2>3. hub.lost \/ \A d \in DOMAIN hub.device : HasValidFd(hub.device[d]) => hub.device[d].fd \in hub.epoll
        BY <1>1, <1>2 DEF Descriptors
    <2> QED
        BY <2>1, <2>2, <2>3 DEF WatchedAreOpen
<1>5. ControllersCounted
    <2>1. ASSUME ~hub.lost
          PROVE  hub.controllers = {hub.device[d].number : d \in DOMAIN hub.device} \ {0}
        <3>1. \A d \in DOMAIN hub.device : hub.device[d].number # 0 => hub.device[d].number \in hub.controllers
            BY <1>1, <1>2 DEF Numbers
        <3>2. \A n \in hub.controllers : \E d \in DOMAIN hub.device : hub.device[d].number = n
            BY <1>1, <1>2, <2>1 DEF Numbers
        <3>3. 0 \notin hub.controllers
            BY <1>1, <1>2 DEF HubType
        <3> QED
            BY <3>1, <3>2, <3>3
    <2>2. \A d, e \in DOMAIN hub.device :
              hub.device[d].number = hub.device[e].number /\ hub.device[d].number # 0 => d = e
        BY <1>1, <1>2 DEF Numbers
    <2> QED
        BY <2>1, <2>2 DEF ControllersCounted
<1> QED
    BY <1>3, <1>4, <1>5 DEF HubStory

\* Where whatever a scan has to report fits into the buffer, what the hub keeps
\* of its devices, what epoll watches and what the client has been told never
\* part, for any nodes, capabilities, buffer and bounds (getEvents with every
\* opening and closing, EventHubZizhan.cpp 830-1110 and 1480-1850).
THEOREM HubStoryKept == Spec /\ []ScanFits => []HubStory
<1>1. Init => HubInv
    BY InitOK
<1>2. HubInv /\ ScanFits /\ [Next]_vars => HubInv'
    BY StepOK
<1>3. HubInv => HubStory
    BY InvGivesStory
<1> QED
    BY <1>1, <1>2, <1>3, PTL DEF Spec
=============================================================================
