------------------------- MODULE InputReadersProofs -------------------------
(***************************************************************************)
(* The timeouts, the events and the changes of the two readers, for any    *)
(* delays, patterns and numbers of events, changes and threads.            *)
(*                                                                         *)
(*   AlwaysWakesInTime  every timer of a mapper is covered by its          *)
(*       reader's one timeout, and no reader sleeps in its own hub over a  *)
(*       change or an earlier timeout it was asked for.  TimeoutInv adds   *)
(*       the types (all delays are comparable), that a vibrating device    *)
(*       has a timer, and that an unset timeout is later than any.         *)
(*   EventsAlwaysSafe  no event is lost, doubled or overtaken.  EventsInv  *)
(*       adds the ranges of the counters, that a reader has a batch in     *)
(*       hand only between its poll and its processing, and what the       *)
(*       second reader has read at each step of the first.                 *)
(*   ChangesAlwaysSafe  no change is forgotten and no list of devices      *)
(*       left old.  ChangesInv adds, for each place between two steps of   *)
(*       a thread, who still has to bring the change and which list is     *)
(*       still to be told.                                                 *)
(***************************************************************************)
EXTENDS InputReaders, SequenceTheorems, WellFoundedInduction, TLAPS

ReaderState ==
    [changes : SUBSET Changes, devices : SUBSET Nat, config : Nat, applied : Nat,
     next : Delays, tap : Delays, vibrating : 0 .. Steps, step : Delays, queued : Seq(Nat)]
LocalState ==
    [wait : Delays, batch : Seq(Nat), rescanned : BOOLEAN, bumped : BOOLEAN, devices : SUBSET Nat]
HubState ==
    [read : Nat, devices : SUBSET Nat, reopen : {"no", "asked", "closed"}, wake : BOOLEAN]
Asking == [step : {"idle", "request", "forward"}, change : Changes \cup {"none"}]

Typed ==
    /\ pc \in ReaderNames \X {"configure", "poll", "process", "notify", "flush"}
    /\ log \in Seq([tap : BOOLEAN, age : 0 .. TapDelay])
    /\ plugs \in Nat /\ plugged \subseteq Nat /\ policyConfig \in Nat
    /\ hub \in [ReaderNames -> HubState]
    /\ rd \in [ReaderNames -> ReaderState]
    /\ local \in [ReaderNames -> LocalState]
    /\ asking \in [Requesters -> Asking]
    /\ \A q \in Requesters : asking[q].step # "idle" => asking[q].change \in Changes

\* The timers of the mappers of a reader with state s have their timeout.
Covered(s) ==
    /\ s.tap # Never => s.next <= s.tap
    /\ s.vibrating > 0 => s.step # Never /\ s.next <= s.step

\* Reader r may sleep in its hub.
Attentive(r) ==
    Step(r, "poll") /\ (rd[r].changes # {} \/ rd[r].next < local[r].wait)
      => hub[r].wake \/ hub[r].reopen # "no" \/ local[r].wait = 0

\* The inductive invariant.
TimeoutInv == Typed /\ \A r \in ReaderNames : Covered(rd[r]) /\ Attentive(r)

----------------------------------------------------------------------------
\* Delays.

LEMMA Delay ==
    /\ Never \in Nat /\ TapDelay \in Nat /\ StepDelay \in Nat /\ Steps \in Nat
    /\ 0 < TapDelay /\ TapDelay < Never /\ 0 < StepDelay /\ StepDelay < Never /\ 0 < Steps
    /\ Delays = 0 .. Never
    /\ 0 \in Delays /\ Never \in Delays /\ StepDelay \in Delays /\ 0 \in 0 .. Steps
    /\ Changes \subseteq {"configure", "reopen"}
BY InputAssumption DEF Never, Delays

LEMMA SoonerDelay ==
    ASSUME NEW d \in Delays
    PROVE  /\ Sooner(d) \in Delays
           /\ Sooner(d) = Never <=> d = Never
BY Delay DEF Sooner

LEMMA SoonerOrder ==
    ASSUME NEW d \in Delays, NEW e \in Delays
    PROVE  /\ d <= e /\ e # Never => Sooner(d) <= Sooner(e)
           /\ Sooner(d) < Sooner(e) => d < e
BY Delay DEF Sooner

LEMMA MinimumDelay ==
    ASSUME NEW d \in Delays, NEW e \in Delays
    PROVE  /\ Minimum(d, e) \in Delays
           /\ Minimum(d, e) <= d /\ Minimum(d, e) <= e
BY Delay DEF Minimum

\* A set of ages has a youngest.
LEMMA YoungestExists ==
    ASSUME NEW S \in SUBSET Nat, S # {}
    PROVE  Min(S) \in S
<1>1. PICK x \in S : \A y \in S : ~(<<y, x>> \in OpToRel(<, Nat))
  BY WFMin, NatLessThanWellFounded
<1>2. \A y \in S : x <= y
  <2>1. TAKE y \in S
  <2>2. ~(y < x)
    BY <1>1, <2>1 DEF OpToRel
  <2> QED BY <2>1, <2>2
<1> QED BY <1>2 DEF Min

LEMMA TapDueDelay ==
    ASSUME log \in Seq([tap : BOOLEAN, age : 0 .. TapDelay]), NEW batch
    PROVE  TapDue(batch) \in Delays
<1> DEFINE taps == { m \in 1 .. Len(log) : m \in ToSet(batch) /\ log[m].tap }
           ages == { log[n].age : n \in taps }
<1>1. \A n \in taps : log[n].age \in 0 .. TapDelay
  <2>1. TAKE n \in taps
  <2>2. n \in 1 .. Len(log)
    BY <2>1
  <2>3. log[n] \in [tap : BOOLEAN, age : 0 .. TapDelay]
    BY <2>2, ElementOfSeq
  <2> QED BY <2>3
<1>2. ages \subseteq 0 .. TapDelay
  BY <1>1
<1>3. CASE ages = {}
  BY <1>3, Delay DEF TapDue
<1>4. CASE ages # {}
  <2>1. Min(ages) \in ages
    <3>1. ages \in SUBSET Nat
      BY <1>2, Delay
    <3> HIDE DEF ages
    <3> QED BY <3>1, <1>4, YoungestExists
  <2>2. Min(ages) \in 0 .. TapDelay
    BY <1>2, <2>1
  <2>3. TapDue(batch) = TapDelay - Min(ages)
    BY <1>4 DEF TapDue
  <2> QED BY <2>2, <2>3, Delay
<1> QED BY <1>3, <1>4
----------------------------------------------------------------------------
\* What the mappers do to the state of their reader.

LEMMA WithTimeoutState ==
    ASSUME NEW s \in ReaderState, NEW d \in Delays
    PROVE  /\ WithTimeout(s, d) \in ReaderState
           /\ WithTimeout(s, d) = [s EXCEPT !.next = Minimum(s.next, d)]
           /\ WithTimeout(s, d).next <= s.next /\ WithTimeout(s, d).next <= d
<1>1. s.next \in Delays
  BY DEF ReaderState
<1>2. Minimum(s.next, d) \in Delays /\ Minimum(s.next, d) <= s.next /\ Minimum(s.next, d) <= d
  BY <1>1, MinimumDelay
<1> QED BY <1>2 DEF WithTimeout, ReaderState

\* After all timers have been asked for again the state is covered.
LEMMA TapExpiredState ==
    ASSUME NEW s \in ReaderState, s.vibrating > 0 => s.step # Never
    PROVE  LET t == TapExpired(s)
           IN  /\ t \in ReaderState
               /\ t.tap # Never => t.next <= t.tap
               /\ t.vibrating = s.vibrating /\ t.step = s.step
<1>1. CASE s.tap = 0
  <2> DEFINE t == [s EXCEPT !.tap = Never, !.queued = Append(@, 0)]
  <2>1. TapExpired(s) = t
    BY <1>1 DEF TapExpired
  <2>2. Append(s.queued, 0) \in Seq(Nat)
    BY DEF ReaderState
  <2>3. t \in ReaderState /\ t.tap = Never /\ t.vibrating = s.vibrating /\ t.step = s.step
    BY <2>2, Delay DEF ReaderState
  <2> QED BY <2>1, <2>3
<1>2. CASE s.tap # 0
  <2>1. s.tap \in Delays
    BY DEF ReaderState
  <2>2. TapExpired(s) = WithTimeout(s, s.tap)
    BY <1>2 DEF TapExpired
  <2>3. WithTimeout(s, s.tap).tap = s.tap /\ WithTimeout(s, s.tap).vibrating = s.vibrating
        /\ WithTimeout(s, s.tap).step = s.step
    BY <2>1, WithTimeoutState DEF ReaderState
  <2> QED BY <2>1, <2>2, <2>3, WithTimeoutState
<1> QED BY <1>1, <1>2

LEMMA NextStepState ==
    ASSUME NEW s \in ReaderState, s.vibrating > 0, s.tap # Never => s.next <= s.tap
    PROVE  NextStep(s) \in ReaderState /\ Covered(NextStep(s))
<1>0. s.vibrating \in 0 .. Steps /\ s.next \in Delays /\ s.tap \in Delays
  BY DEF ReaderState
<1>1. CASE s.vibrating = 1
  <2> DEFINE t == [s EXCEPT !.vibrating = 0, !.step = Never]
  <2>1. NextStep(s) = t
    BY <1>1 DEF NextStep
  <2>2. t \in ReaderState /\ t.vibrating = 0 /\ t.tap = s.tap /\ t.next = s.next
    BY Delay DEF ReaderState
  <2> QED BY <2>1, <2>2 DEF Covered
<1>2. CASE s.vibrating # 1
  <2> DEFINE t == [s EXCEPT !.vibrating = @ - 1, !.step = StepDelay]
             u == WithTimeout(t, StepDelay)
  <2>1. NextStep(s) = u
    BY <1>2 DEF NextStep
  <2>2. s.vibrating - 1 \in 0 .. Steps /\ StepDelay \in Delays
    BY <1>0, Delay
  <2>3. t \in ReaderState /\ t.next = s.next /\ t.tap = s.tap /\ t.step = StepDelay
    BY <2>2 DEF ReaderState
  <2>4. u \in ReaderState /\ u.next <= t.next /\ u.next <= StepDelay
    BY <2>2, <2>3, WithTimeoutState
  <2>5. u.tap = s.tap /\ u.step = StepDelay /\ u.next \in Delays
    <3>1. u = [t EXCEPT !.next = Minimum(t.next, StepDelay)]
      BY <2>2, <2>3, WithTimeoutState
    <3> HIDE DEF t, u
    <3> QED BY <2>3, <2>4, <3>1 DEF ReaderState
  <2>6. Covered(u)
    BY <1>0, <2>3, <2>4, <2>5, Delay DEF Covered
  <2> QED BY <2>1, <2>4, <2>6
<1> QED BY <1>1, <1>2

LEMMA StepExpiredState ==
    ASSUME NEW s \in ReaderState, s.tap # Never => s.next <= s.tap,
           s.vibrating > 0 => s.step # Never
    PROVE  StepExpired(s) \in ReaderState /\ Covered(StepExpired(s))
<1>0. s.vibrating \in 0 .. Steps /\ s.step \in Delays /\ s.next \in Delays /\ s.tap \in Delays
  BY DEF ReaderState
<1>1. CASE s.vibrating = 0
  BY <1>1 DEF StepExpired, Covered
<1>2. CASE s.vibrating > 0 /\ s.step = 0
  BY <1>2, NextStepState DEF StepExpired
<1>3. CASE s.vibrating > 0 /\ s.step # 0
  <2> DEFINE u == WithTimeout(s, s.step)
  <2>1. StepExpired(s) = u
    BY <1>3 DEF StepExpired
  <2>2. u \in ReaderState /\ u.next <= s.next /\ u.next <= s.step
    BY <1>0, WithTimeoutState
  <2>3. u.tap = s.tap /\ u.step = s.step /\ u.vibrating = s.vibrating /\ u.next \in Delays
    <3>1. u = [s EXCEPT !.next = Minimum(s.next, s.step)]
      BY <1>0, WithTimeoutState
    <3> HIDE DEF u
    <3> QED BY <2>2, <3>1 DEF ReaderState
  <2>4. Covered(u)
    BY <1>0, <1>3, <2>2, <2>3, Delay DEF Covered
  <2> QED BY <2>1, <2>2, <2>4
<1> QED BY <1>0, <1>1, <1>2, <1>3, Delay

\* mNextTimeout expires for all, and whoever still needs a timeout asks again.
LEMMA TimeoutExpiredState ==
    ASSUME NEW s \in ReaderState, Covered(s)
    PROVE  TimeoutExpired(s) \in ReaderState /\ Covered(TimeoutExpired(s))
<1>1. CASE s.next # 0
  BY <1>1 DEF TimeoutExpired
<1>2. CASE s.next = 0
  <2> DEFINE t == [s EXCEPT !.next = Never]
             u == TapExpired(t)
  <2>1. t \in ReaderState /\ t.vibrating = s.vibrating /\ t.step = s.step
    BY Delay DEF ReaderState
  <2>2. t.vibrating > 0 => t.step # Never
    BY <2>1 DEF Covered
  <2>3. u \in ReaderState /\ (u.tap # Never => u.next <= u.tap)
        /\ u.vibrating = t.vibrating /\ u.step = t.step
    BY <2>1, <2>2, TapExpiredState
  <2>4. StepExpired(u) \in ReaderState /\ Covered(StepExpired(u))
    BY <2>2, <2>3, StepExpiredState
  <2>5. TimeoutExpired(s) = StepExpired(u)
    BY <1>2 DEF TimeoutExpired
  <2> QED BY <2>4, <2>5
<1> QED BY <1>1, <1>2

\* Processing a batch keeps a reader covered: a tap brings its timeout with it.
LEMMA ProcessedState ==
    ASSUME Typed, NEW r \in ReaderNames, Covered(rd[r])
    PROVE  Processed(r) \in ReaderState /\ Covered(Processed(r))
<1> DEFINE l     == local[r]
           fresh == IF l.rescanned THEN [rd[r] EXCEPT !.tap = Never, !.vibrating = 0, !.step = Never,
                                                      !.applied = rd[r].config]
                                   ELSE rd[r]
           due   == TapDue(l.batch)
           done  == [fresh EXCEPT !.devices = hub[r].devices, !.queued = @ \o l.batch,
                                  !.tap = IF due = Never THEN @ ELSE due]
<1>1. rd[r] \in ReaderState /\ l \in LocalState /\ hub[r] \in HubState
  BY DEF Typed
<1>2. fresh \in ReaderState /\ Covered(fresh)
  <2>1. CASE l.rescanned
    <3> DEFINE f == [rd[r] EXCEPT !.tap = Never, !.vibrating = 0, !.step = Never,
                                  !.applied = rd[r].config]
    <3>1. f \in ReaderState /\ f.tap = Never /\ f.vibrating = 0
      BY <1>1, Delay DEF ReaderState
    <3> QED BY <2>1, <3>1 DEF Covered
  <2>2. CASE ~l.rescanned
    BY <1>1, <2>2
  <2> QED BY <2>1, <2>2
<1>3. due \in Delays
  BY TapDueDelay DEF Typed
<1>4. hub[r].devices \in SUBSET Nat /\ fresh.queued \o l.batch \in Seq(Nat)
  BY <1>1, <1>2 DEF HubState, LocalState, ReaderState
<1> HIDE DEF fresh, due
<1>5. /\ done \in ReaderState
      /\ done.next = fresh.next /\ done.vibrating = fresh.vibrating /\ done.step = fresh.step
      /\ done.tap = IF due = Never THEN fresh.tap ELSE due
  BY <1>2, <1>3, <1>4 DEF ReaderState
<1>6. Processed(r) = IF due = Never THEN done ELSE WithTimeout(done, due)
  BY DEF Processed, fresh, due
<1> HIDE DEF done
<1>7. CASE due = Never
  BY <1>2, <1>5, <1>6, <1>7 DEF Covered
<1>8. CASE due # Never
  <2> DEFINE u == WithTimeout(done, due)
  <2>1. u \in ReaderState /\ u.next <= done.next /\ u.next <= due
    BY <1>3, <1>5, WithTimeoutState
  <2>2. u.tap = done.tap /\ u.step = done.step /\ u.vibrating = done.vibrating
    BY <1>3, <1>5, WithTimeoutState DEF ReaderState
  <2>3. u.next \in Delays /\ done.next \in Delays /\ done.step \in Delays
    BY <1>5, <2>1 DEF ReaderState
  <2>4. Covered(u)
    BY <1>2, <1>3, <1>5, <1>8, <2>1, <2>2, <2>3, Delay DEF Covered
  <2> QED BY <1>6, <1>8, <2>1, <2>4
<1> QED BY <1>7, <1>8

----------------------------------------------------------------------------
\* The steps of the loop.

LEMMA InitTimeoutInv == Init => TimeoutInv
<1> SUFFICES ASSUME Init PROVE TimeoutInv
  OBVIOUS
<1> USE DEF Init
<1>1. hub \in [ReaderNames -> HubState]
  BY DEF HubState
<1>2. rd \in [ReaderNames -> ReaderState]
  BY Delay DEF ReaderState
<1>3. local \in [ReaderNames -> LocalState]
  BY Delay DEF LocalState
<1>4. asking \in [Requesters -> Asking]
  BY DEF Asking
<1>5. Typed
  BY <1>1, <1>2, <1>3, <1>4 DEF Typed, ReaderNames
<1>6. \A r \in ReaderNames : Covered(rd[r]) /\ Attentive(r)
  BY DEF Covered, Attentive, Step
<1> QED BY <1>5, <1>6 DEF TimeoutInv

\* The thread comes to a hub from the section before and in no other way.
LEMMA AtStep ==
    ASSUME NEW r \in ReaderNames, NEW step \in {"configure", "poll", "process", "notify", "flush"},
           At(r, step)
    PROVE  /\ pc = <<r, step>>
           /\ pc' \in ReaderNames \X {"configure", "poll", "process", "notify", "flush"}
           /\ \A q \in ReaderNames : pc' = <<q, "poll">> => step = "configure" /\ q = r
<1>1. CASE r = "reader"
  BY <1>1 DEF At, After, ReaderNames
<1>2. CASE r = "zizhan"
  BY <1>2 DEF At, After, ReaderNames
<1> QED BY <1>1, <1>2 DEF ReaderNames

\* What a step outside the sections before the hubs has to keep.
LEMMA LoopElsewhere ==
    ASSUME TimeoutInv, NEW r \in ReaderNames,
           NEW step \in {"poll", "process", "notify", "flush"}, At(r, step),
           UNCHANGED <<log, plugs, plugged, policyConfig, asking>>,
           hub' \in [ReaderNames -> HubState], local' \in [ReaderNames -> LocalState],
           rd' \in [ReaderNames -> ReaderState], \A q \in ReaderNames : Covered(rd'[q])
    PROVE  TimeoutInv'
<1>1. pc' \in ReaderNames \X {"configure", "poll", "process", "notify", "flush"}
      /\ \A q \in ReaderNames : pc' # <<q, "poll">>
  BY AtStep
<1>2. \A q \in ReaderNames : Attentive(q)'
  BY <1>1 DEF Attentive, Step
<1>3. Typed'
  BY <1>1 DEF TimeoutInv, Typed
<1> QED BY <1>2, <1>3 DEF TimeoutInv, Covered

\* The section before the hub forgets the changes and remembers the timeout.
LEMMA ConfigureStep ==
    ASSUME TimeoutInv, NEW r \in ReaderNames, Configure(r)
    PROVE  TimeoutInv'
<1> USE DEF TimeoutInv
<1>1. At(r, "configure") /\ UNCHANGED <<log, plugs, plugged, policyConfig, asking>>
  BY DEF Configure, outside
<1>2. pc' \in ReaderNames \X {"configure", "poll", "process", "notify", "flush"}
      /\ \A q \in ReaderNames : pc' = <<q, "poll">> => q = r
  BY <1>1, AtStep
<1>3. rd[r] \in ReaderState /\ hub[r] \in HubState /\ local[r] \in LocalState
      /\ rd \in [ReaderNames -> ReaderState] /\ hub \in [ReaderNames -> HubState]
      /\ local \in [ReaderNames -> LocalState] /\ policyConfig \in Nat
  BY DEF Typed
<1>4. CASE rd[r].changes # {}
  <2> DEFINE reopen == "reopen" \in rd[r].changes
             s == [rd[r] EXCEPT !.changes = {}, !.config = policyConfig,
                                !.applied = IF reopen THEN @ ELSE policyConfig]
             h == [hub[r] EXCEPT !.reopen = IF reopen THEN "asked" ELSE @]
  <2>1. /\ rd' = [rd EXCEPT ![r] = s] /\ hub' = [hub EXCEPT ![r] = h]
        /\ \E b \in BOOLEAN :
             local' = [local EXCEPT ![r] = [local[r] EXCEPT !.wait = 0, !.bumped = b /\ ~reopen]]
    BY <1>4 DEF Configure
  <2>2. s \in ReaderState /\ s.next = rd[r].next /\ s.tap = rd[r].tap
        /\ s.step = rd[r].step /\ s.vibrating = rd[r].vibrating
    BY <1>3 DEF ReaderState
  <2>3. h \in HubState
    BY <1>3 DEF HubState
  <2>4. PICK l \in LocalState : local' = [local EXCEPT ![r] = l] /\ l.wait = 0
    <3>1. PICK b \in BOOLEAN :
             local' = [local EXCEPT ![r] = [local[r] EXCEPT !.wait = 0, !.bumped = b /\ ~reopen]]
      BY <2>1
    <3>2. [local[r] EXCEPT !.wait = 0, !.bumped = b /\ ~reopen] \in LocalState
      BY <1>3, Delay DEF LocalState
    <3> QED BY <1>3, <3>1, <3>2 DEF LocalState
  <2> HIDE DEF s, h
  <2>5. rd' \in [ReaderNames -> ReaderState] /\ hub' \in [ReaderNames -> HubState]
        /\ local' \in [ReaderNames -> LocalState]
    BY <1>3, <2>1, <2>2, <2>3, <2>4
  <2>6. Typed'
    BY <1>1, <1>2, <2>5 DEF Typed
  <2>7. \A q \in ReaderNames : Covered(rd'[q])
    BY <1>3, <2>1, <2>2 DEF Covered
  <2>8. \A q \in ReaderNames : Attentive(q)'
    BY <1>2, <1>3, <2>4 DEF Attentive, Step
  <2> QED BY <2>6, <2>7, <2>8 DEF Covered
<1>5. CASE rd[r].changes = {}
  <2> DEFINE l == [local[r] EXCEPT !.wait = rd[r].next, !.bumped = FALSE]
  <2>1. local' = [local EXCEPT ![r] = l] /\ rd' = rd /\ hub' = hub
    BY <1>5 DEF Configure
  <2>2. l \in LocalState /\ l.wait = rd[r].next /\ rd[r].next \in Delays
    BY <1>3 DEF LocalState, ReaderState
  <2> HIDE DEF l
  <2>3. local' \in [ReaderNames -> LocalState] /\ local'[r].wait = rd[r].next
    BY <1>3, <2>1, <2>2
  <2>4. Typed'
    BY <1>1, <1>2, <1>3, <2>1, <2>3 DEF Typed
  <2>5. ~(rd[r].next < rd[r].next)
    BY <2>2, Delay
  <2>6. \A q \in ReaderNames : Attentive(q)'
    BY <1>2, <1>5, <2>1, <2>3, <2>5 DEF Attentive, Step
  <2> QED BY <2>1, <2>4, <2>6 DEF Covered
<1> QED BY <1>4, <1>5

LEMMA UnreadSequence ==
    ASSUME Typed, NEW r \in ReaderNames
    PROVE  Unread(r) \in Seq(Nat)
<1>1. hub[r].read \in Nat /\ Len(log) \in Nat
  BY DEF Typed, HubState
<1>2. CASE hub[r].read <= Len(log)
  <2>1. Len(log) - hub[r].read \in Nat
    BY <1>1, <1>2
  <2>2. Unread(r) \in [1 .. Len(log) - hub[r].read -> Nat]
    BY <1>1 DEF Unread
  <2> QED BY <2>1, <2>2, SeqDef
<1>3. CASE hub[r].read > Len(log)
  <2>1. 1 .. Len(log) - hub[r].read = 1 .. 0
    BY <1>1, <1>3
  <2>2. Unread(r) \in [1 .. 0 -> Nat]
    BY <2>1, <1>1 DEF Unread
  <2> QED BY <2>2, SeqDef
<1> QED BY <1>1, <1>2, <1>3

\* getEvents touches its hub and the batch.
LEMMA GetEventsStep ==
    ASSUME TimeoutInv, NEW r \in ReaderNames,
           GetEventsReopen(r) \/ GetEventsScan(r) \/ GetEvents(r)
    PROVE  TimeoutInv'
<1>1. At(r, "poll") /\ UNCHANGED <<log, plugs, plugged, policyConfig, asking, rd>>
  BY DEF GetEventsReopen, GetEventsScan, GetEvents, outside
<1>2. hub[r] \in HubState /\ local[r] \in LocalState /\ Len(log) \in Nat
      /\ Present \in SUBSET Nat /\ Unread(r) \in Seq(Nat) /\ <<>> \in Seq(Nat)
  BY UnreadSequence DEF TimeoutInv, Typed, Present, Keyboard
<1>3. hub' \in [ReaderNames -> HubState]
  <2>1. PICK h \in HubState : hub' = [hub EXCEPT ![r] = h]
    <3>1. CASE GetEventsReopen(r)
      <4> DEFINE h == [hub[r] EXCEPT !.reopen = "closed"]
      <4>1. h \in HubState
        BY <1>2 DEF HubState
      <4> QED BY <3>1, <4>1 DEF GetEventsReopen
    <3>2. CASE GetEventsScan(r)
      <4> DEFINE h == [hub[r] EXCEPT !.reopen = "no", !.devices = Present, !.read = Len(log)]
      <4>1. h \in HubState
        BY <1>2 DEF HubState
      <4> QED BY <3>2, <4>1 DEF GetEventsScan
    <3>3. CASE GetEvents(r)
      <4> DEFINE h == [hub[r] EXCEPT !.read = Len(log), !.devices = Present, !.wake = FALSE]
      <4>1. h \in HubState
        BY <1>2 DEF HubState
      <4> QED BY <3>3, <4>1 DEF GetEvents
    <3> QED BY <3>1, <3>2, <3>3
  <2> QED BY <2>1 DEF TimeoutInv, Typed
<1>4. local' \in [ReaderNames -> LocalState]
  <2>1. PICK b \in Seq(Nat), c \in BOOLEAN :
           local' = [local EXCEPT ![r].batch = b, ![r].rescanned = c]
    BY <1>2 DEF GetEventsReopen, GetEventsScan, GetEvents
  <2>2. [local[r] EXCEPT !.batch = b, !.rescanned = c] \in LocalState
    BY <1>2 DEF LocalState
  <2>3. local' = [local EXCEPT ![r] = [local[r] EXCEPT !.batch = b, !.rescanned = c]]
    BY <2>1
  <2> QED BY <2>2, <2>3 DEF TimeoutInv, Typed
<1>5. rd' \in [ReaderNames -> ReaderState] /\ \A q \in ReaderNames : Covered(rd'[q])
  BY <1>1 DEF TimeoutInv, Typed
<1> QED BY <1>1, <1>3, <1>4, <1>5, LoopElsewhere

LEMMA ProcessStep ==
    ASSUME TimeoutInv, NEW r \in ReaderNames, Process(r)
    PROVE  TimeoutInv'
<1> DEFINE s == TimeoutExpired(Processed(r))
<1>1. At(r, "process") /\ UNCHANGED <<log, plugs, plugged, policyConfig, asking>>
  BY DEF Process, outside
<1>2. s \in ReaderState /\ Covered(s)
  BY ProcessedState, TimeoutExpiredState DEF TimeoutInv
<1>3. rd' = [rd EXCEPT ![r] = s]
  BY DEF Process
<1>4. rd' \in [ReaderNames -> ReaderState] /\ \A q \in ReaderNames : Covered(rd'[q])
  <2> HIDE DEF s
  <2> QED BY <1>2, <1>3 DEF TimeoutInv, Typed
<1>5. hub' \in [ReaderNames -> HubState]
  <2> DEFINE b == hub[r].wake \/ Rearmed(rd[r], Processed(r)) \/ Rearmed(Processed(r), s)
  <2>1. hub' = [hub EXCEPT ![r].wake = b]
    BY Zenon DEF Process
  <2>2. b \in BOOLEAN
    OBVIOUS
  <2> HIDE DEF b, s
  <2>3. [hub[r] EXCEPT !.wake = b] \in HubState
    BY <2>2 DEF TimeoutInv, Typed, HubState
  <2>4. hub' = [hub EXCEPT ![r] = [hub[r] EXCEPT !.wake = b]]
    BY <2>1
  <2> QED BY <2>3, <2>4 DEF TimeoutInv, Typed
<1>6. local' \in [ReaderNames -> LocalState]
  <2>1. s.devices \in SUBSET Nat
    BY <1>2 DEF ReaderState
  <2> HIDE DEF s
  <2>2. PICK b \in BOOLEAN :
           local' = [local EXCEPT ![r].devices = s.devices, ![r].bumped = b,
                                  ![r].batch = <<>>, ![r].rescanned = FALSE]
    BY DEF Process, TimeoutInv, Typed, LocalState, s
  <2> DEFINE l == [local[r] EXCEPT !.devices = s.devices, !.bumped = b, !.batch = <<>>,
                                   !.rescanned = FALSE]
  <2>3. l \in LocalState
    <3>1. local[r] \in LocalState /\ <<>> \in Seq(Nat)
      BY DEF TimeoutInv, Typed
    <3> QED BY <2>1, <3>1 DEF LocalState
  <2>4. local' = [local EXCEPT ![r] = l]
    BY <2>2
  <2> QED BY <2>3, <2>4 DEF TimeoutInv, Typed
<1> QED BY <1>1, <1>4, <1>5, <1>6, LoopElsewhere

LEMMA NotifyAndFlushStep ==
    ASSUME TimeoutInv, NEW r \in ReaderNames, NotifyInputDevicesChanged(r) \/ Flush(r)
    PROVE  TimeoutInv'
<1>1. PICK step \in {"notify", "flush"} : At(r, step)
  BY DEF NotifyInputDevicesChanged, Flush
<1>2. UNCHANGED <<log, plugs, plugged, policyConfig, asking, hub, local>>
  BY DEF NotifyInputDevicesChanged, Flush, outside
<1>3. rd' \in [ReaderNames -> ReaderState] /\ \A q \in ReaderNames : Covered(rd'[q])
  <2>1. CASE NotifyInputDevicesChanged(r)
    BY <2>1 DEF NotifyInputDevicesChanged, TimeoutInv, Typed
  <2>2. CASE Flush(r)
    <3> DEFINE s == [rd[r] EXCEPT !.queued = <<>>]
    <3>1. s \in ReaderState /\ s.next = rd[r].next /\ s.tap = rd[r].tap
          /\ s.step = rd[r].step /\ s.vibrating = rd[r].vibrating
      <4>1. rd[r] \in ReaderState /\ <<>> \in Seq(Nat)
        BY DEF TimeoutInv, Typed
      <4> QED BY <4>1 DEF ReaderState
    <3>2. rd' = [rd EXCEPT ![r] = s]
      BY <2>2 DEF Flush
    <3> HIDE DEF s
    <3> QED BY <3>1, <3>2 DEF TimeoutInv, Typed, Covered
  <2> QED BY <2>1, <2>2
<1>4. hub' \in [ReaderNames -> HubState] /\ local' \in [ReaderNames -> LocalState]
  BY <1>2 DEF TimeoutInv, Typed
<1> QED BY <1>1, <1>2, <1>3, <1>4, LoopElsewhere

----------------------------------------------------------------------------
\* The steps of the others.

\* A step that leaves the readers alone and may wake a hub.
LEMMA OthersElsewhere ==
    ASSUME TimeoutInv, UNCHANGED <<pc, rd, local>>,
           hub' \in [ReaderNames -> HubState],
           \A r \in ReaderNames : hub'[r].reopen = hub[r].reopen /\ (hub[r].wake => hub'[r].wake),
           log' \in Seq([tap : BOOLEAN, age : 0 .. TapDelay]),
           plugs' \in Nat, plugged' \subseteq Nat, policyConfig' \in Nat,
           asking' \in [Requesters -> Asking],
           \A q \in Requesters : asking'[q].step # "idle" => asking'[q].change \in Changes
    PROVE  TimeoutInv'
<1>1. Typed'
  BY DEF TimeoutInv, Typed
<1>2. \A r \in ReaderNames : Attentive(r)'
  BY DEF TimeoutInv, Attentive, Step
<1> QED BY <1>1, <1>2 DEF TimeoutInv, Covered

LEMMA WorldStep ==
    ASSUME TimeoutInv, World
    PROVE  TimeoutInv'
<1>1. UNCHANGED <<pc, rd, local, hub, policyConfig, asking>>
  BY DEF World, InputEvent, PlugIn, PlugOut
<1>2. log' \in Seq([tap : BOOLEAN, age : 0 .. TapDelay])
  <2>1. CASE UNCHANGED log
    BY <2>1 DEF TimeoutInv, Typed
  <2>2. ASSUME NEW tap \in BOOLEAN, InputEvent(tap)
        PROVE  log' \in Seq([tap : BOOLEAN, age : 0 .. TapDelay])
    <3>1. [tap |-> tap, age |-> 0] \in [tap : BOOLEAN, age : 0 .. TapDelay]
      BY Delay
    <3> QED BY <2>2, <3>1 DEF InputEvent, TimeoutInv, Typed
  <2> QED BY <2>1, <2>2 DEF World, PlugIn, PlugOut
<1>3. plugs' \in Nat /\ plugged' \subseteq Nat
  <2>1. plugs + 1 \in Nat
    BY DEF TimeoutInv, Typed
  <2>2. CASE PlugIn
    BY <2>1, <2>2 DEF PlugIn, TimeoutInv, Typed
  <2>3. CASE UNCHANGED plugs /\ plugged' \subseteq plugged
    BY <2>3 DEF TimeoutInv, Typed
  <2> QED BY <2>2, <2>3 DEF World, InputEvent, PlugOut
<1> QED BY <1>1, <1>2, <1>3, OthersElsewhere DEF TimeoutInv, Typed

\* All timers come nearer together, so that their order stays.
LEMMA TickStep ==
    ASSUME TimeoutInv, Tick
    PROVE  TimeoutInv'
<1> USE DEF TimeoutInv
<1>1. UNCHANGED <<pc, plugged, plugs, hub, policyConfig, asking>>
  BY DEF Tick
<1>2. log' \in Seq([tap : BOOLEAN, age : 0 .. TapDelay])
  <2>1. Len(log) \in Nat /\ DOMAIN log = 1 .. Len(log)
    BY DEF Typed
  <2>2. \A i \in 1 .. Len(log) :
           [log[i] EXCEPT !.age = Minimum(@ + 1, TapDelay)] \in [tap : BOOLEAN, age : 0 .. TapDelay]
    <3>1. TAKE i \in 1 .. Len(log)
    <3>2. log[i] \in [tap : BOOLEAN, age : 0 .. TapDelay]
      BY <3>1, ElementOfSeq DEF Typed
    <3>3. Minimum(log[i].age + 1, TapDelay) \in 0 .. TapDelay
      BY <3>2, Delay DEF Minimum
    <3> QED BY <3>2, <3>3
  <2>3. log' = [i \in 1 .. Len(log) |-> [log[i] EXCEPT !.age = Minimum(@ + 1, TapDelay)]]
    BY <2>1 DEF Tick
  <2>4. log' \in [1 .. Len(log) -> [tap : BOOLEAN, age : 0 .. TapDelay]]
    BY <2>2, <2>3
  <2> QED BY <2>1, <2>4, SeqDef
<1>3. ASSUME NEW r \in ReaderNames
      PROVE  /\ rd'[r] \in ReaderState
             /\ rd'[r].next = Sooner(rd[r].next) /\ rd'[r].tap = Sooner(rd[r].tap)
             /\ rd'[r].step = Sooner(rd[r].step) /\ rd'[r].vibrating = rd[r].vibrating
             /\ rd'[r].changes = rd[r].changes
  <2>1. rd[r] \in ReaderState
    BY DEF Typed
  <2>2. rd[r].next \in Delays /\ rd[r].tap \in Delays /\ rd[r].step \in Delays
    BY <2>1 DEF ReaderState
  <2>3. Sooner(rd[r].next) \in Delays /\ Sooner(rd[r].tap) \in Delays /\ Sooner(rd[r].step) \in Delays
    BY <2>2, SoonerDelay
  <2>4. rd'[r] = [rd[r] EXCEPT !.next = Sooner(@), !.tap = Sooner(@), !.step = Sooner(@)]
    BY DEF Tick
  <2> QED BY <2>1, <2>3, <2>4 DEF ReaderState
<1>4. ASSUME NEW r \in ReaderNames
      PROVE  local'[r] \in LocalState /\ local'[r].wait = Sooner(local[r].wait)
  <2>1. local[r] \in LocalState
    BY DEF Typed
  <2>2. Sooner(local[r].wait) \in Delays
    BY <2>1, SoonerDelay DEF LocalState
  <2>3. local'[r] = [local[r] EXCEPT !.wait = Sooner(@)]
    BY DEF Tick
  <2> QED BY <2>1, <2>2, <2>3 DEF LocalState
<1>5. rd' \in [ReaderNames -> ReaderState] /\ local' \in [ReaderNames -> LocalState]
  <2>1. DOMAIN rd' = ReaderNames /\ rd' = [r \in ReaderNames |-> rd'[r]]
        /\ DOMAIN local' = ReaderNames /\ local' = [r \in ReaderNames |-> local'[r]]
    BY DEF Tick
  <2> QED BY <2>1, <1>3, <1>4
<1>6. Typed'
  BY <1>1, <1>2, <1>5 DEF Typed
<1>7. ASSUME NEW r \in ReaderNames
      PROVE  Covered(rd'[r]) /\ Attentive(r)'
  <2>1. rd[r] \in ReaderState /\ local[r] \in LocalState
    BY DEF Typed
  <2>2. rd[r].next \in Delays /\ rd[r].tap \in Delays /\ rd[r].step \in Delays
        /\ local[r].wait \in Delays
    BY <2>1 DEF ReaderState, LocalState
  <2>3. Covered(rd'[r])
    BY <1>3, <2>2, SoonerDelay, SoonerOrder DEF Covered
  <2>4. Sooner(0) = 0
    BY DEF Sooner
  <2>5. rd'[r].next < local'[r].wait => rd[r].next < local[r].wait
    BY <1>3, <1>4, <2>2, SoonerOrder
  <2>6. Attentive(r)'
    BY <1>1, <1>3, <1>4, <2>4, <2>5 DEF Attentive, Step
  <2> QED BY <2>3, <2>6
<1> QED BY <1>6, <1>7 DEF Covered

LEMMA ChangePolicyStep ==
    ASSUME TimeoutInv, NEW q \in Requesters, NEW c \in Changes, ChangePolicy(q, c)
    PROVE  TimeoutInv'
<1>1. UNCHANGED <<pc, log, plugs, plugged, hub, rd, local>> /\ policyConfig' = policyConfig + 1
  BY DEF ChangePolicy
<1>2. asking' \in [Requesters -> Asking]
      /\ \A p \in Requesters : asking'[p].step # "idle" => asking'[p].change \in Changes
  <2>1. asking' = [asking EXCEPT ![q] = [step |-> "request", change |-> c]]
    BY DEF ChangePolicy
  <2>2. [step |-> "request", change |-> c] \in Asking
    BY DEF Asking
  <2> QED BY <2>1, <2>2 DEF TimeoutInv, Typed
<1> QED BY <1>1, <1>2, OthersElsewhere DEF TimeoutInv, Typed

\* A change wakes the hub if it is the first since the reader took the last ones.
LEMMA RequestStep ==
    ASSUME TimeoutInv, NEW q \in Requesters, Request(q)
    PROVE  TimeoutInv'
<1> USE DEF TimeoutInv
<1>1. PICK r \in ReaderNames : Requested(q, r)
  BY DEF Request, RequestRefreshConfiguration, ForwardRefreshConfiguration, ReaderNames
<1>2. asking[q].step # "idle" /\ UNCHANGED <<pc, log, plugs, plugged, local, policyConfig>>
  BY DEF Request, RequestRefreshConfiguration, ForwardRefreshConfiguration
<1>3. rd[r] \in ReaderState /\ hub[r] \in HubState /\ asking[q].change \in Changes
      /\ asking[q] \in Asking
  BY <1>2 DEF Typed
<1> DEFINE s == [rd[r] EXCEPT !.changes = @ \cup {asking[q].change}]
           h == [hub[r] EXCEPT !.wake = @ \/ rd[r].changes = {}]
<1>4. rd' = [rd EXCEPT ![r] = s] /\ hub' = [hub EXCEPT ![r] = h]
  BY <1>1 DEF Requested
<1>5. s \in ReaderState /\ s.next = rd[r].next /\ s.tap = rd[r].tap
      /\ s.step = rd[r].step /\ s.vibrating = rd[r].vibrating
  BY <1>3 DEF ReaderState
<1>6. h \in HubState /\ h.reopen = hub[r].reopen
      /\ (hub[r].wake => h.wake) /\ (rd[r].changes = {} => h.wake)
  BY <1>3 DEF HubState
<1> HIDE DEF s, h
<1>7. asking' \in [Requesters -> Asking]
      /\ \A p \in Requesters : asking'[p].step # "idle" => asking'[p].change \in Changes
  <2>1. CASE RequestRefreshConfiguration(q)
    <3>1. asking' = [asking EXCEPT ![q] = [asking[q] EXCEPT !.step = "forward"]]
      BY <2>1 DEF RequestRefreshConfiguration
    <3>2. /\ [asking[q] EXCEPT !.step = "forward"] \in Asking
          /\ [asking[q] EXCEPT !.step = "forward"].change = asking[q].change
      BY <1>3 DEF Asking
    <3> QED BY <1>3, <3>1, <3>2 DEF Typed
  <2>2. CASE ForwardRefreshConfiguration(q)
    <3>1. asking' = [asking EXCEPT ![q] = [step |-> "idle", change |-> "none"]]
      BY <2>2 DEF ForwardRefreshConfiguration
    <3>2. [step |-> "idle", change |-> "none"] \in Asking
      BY DEF Asking
    <3> QED BY <3>1, <3>2 DEF Typed
  <2> QED BY <2>1, <2>2 DEF Request
<1>8. Typed'
  BY <1>2, <1>4, <1>5, <1>6, <1>7 DEF Typed
<1>9. \A p \in ReaderNames : Covered(rd'[p])
  BY <1>4, <1>5 DEF Typed, Covered
<1>10. \A p \in ReaderNames : Attentive(p)'
  <2>1. rd[r].changes # {} \/ h.wake
    BY <1>6
  <2> QED BY <1>2, <1>4, <1>5, <1>6, <2>1 DEF Typed, Attentive, Step
<1> QED BY <1>8, <1>9, <1>10 DEF Covered

\* An earlier timeout wakes the hub.
LEMMA VibrateStep ==
    ASSUME TimeoutInv, Vibrate
    PROVE  TimeoutInv'
<1> USE DEF TimeoutInv
<1> DEFINE t == [rd["reader"] EXCEPT !.vibrating = Steps, !.step = StepDelay]
           s == WithTimeout(t, StepDelay)
           h == [hub["reader"] EXCEPT !.wake = @ \/ Rearmed(rd["reader"], s)]
<1>1. rd' = [rd EXCEPT !["reader"] = s] /\ hub' = [hub EXCEPT !["reader"] = h]
      /\ UNCHANGED <<pc, log, plugs, plugged, local, policyConfig, asking>>
  BY DEF Vibrate
<1>2. "reader" \in ReaderNames /\ rd["reader"] \in ReaderState /\ hub["reader"] \in HubState
      /\ local["reader"] \in LocalState
  BY DEF Typed, ReaderNames
<1>3. t \in ReaderState /\ t.next = rd["reader"].next /\ t.tap = rd["reader"].tap
      /\ t.step = StepDelay /\ t.changes = rd["reader"].changes
  <2>1. Steps \in 0 .. Steps
    BY Delay
  <2> QED BY <1>2, <2>1, Delay DEF ReaderState
<1> HIDE DEF t
<1>4. s \in ReaderState /\ s.next <= t.next /\ s.next <= StepDelay
      /\ s = [t EXCEPT !.next = Minimum(t.next, StepDelay)]
  BY <1>3, Delay, WithTimeoutState
<1> HIDE DEF s
<1>5. s.tap = t.tap /\ s.step = t.step /\ s.changes = t.changes /\ s.next \in Delays
      /\ t.next \in Delays /\ t.tap \in Delays
  BY <1>3, <1>4 DEF ReaderState
<1>6. h \in HubState /\ h.reopen = hub["reader"].reopen /\ (hub["reader"].wake => h.wake)
      /\ (s.next # rd["reader"].next => h.wake)
  <2>1. s.next # Never
    BY <1>4, <1>5, Delay
  <2> QED BY <1>2, <2>1 DEF HubState, Rearmed
<1> HIDE DEF h
<1>7. Typed'
  BY <1>1, <1>2, <1>4, <1>6 DEF Typed
<1>8. Covered(s)
  BY <1>2, <1>3, <1>4, <1>5, Delay DEF Covered
<1>9. \A r \in ReaderNames : Covered(rd'[r])
  BY <1>1, <1>2, <1>8 DEF Typed
<1>10. \A r \in ReaderNames : Attentive(r)'
  BY <1>1, <1>2, <1>3, <1>4, <1>5, <1>6 DEF Typed, Attentive, Step
<1> QED BY <1>7, <1>9, <1>10 DEF Covered

LEMMA CancelVibrateStep ==
    ASSUME TimeoutInv, CancelVibrate
    PROVE  TimeoutInv'
<1> USE DEF TimeoutInv
<1> DEFINE s == [rd["reader"] EXCEPT !.vibrating = 0, !.step = Never]
<1>1. rd' = [rd EXCEPT !["reader"] = s]
      /\ UNCHANGED <<pc, log, plugs, plugged, local, hub, policyConfig, asking>>
  BY DEF CancelVibrate
<1>2. "reader" \in ReaderNames /\ rd["reader"] \in ReaderState
  BY DEF Typed, ReaderNames
<1>3. s \in ReaderState /\ s.next = rd["reader"].next /\ s.tap = rd["reader"].tap
      /\ s.vibrating = 0 /\ s.changes = rd["reader"].changes
  BY <1>2, Delay DEF ReaderState
<1> HIDE DEF s
<1>4. Typed'
  BY <1>1, <1>2, <1>3 DEF Typed
<1>5. \A r \in ReaderNames : Covered(rd'[r]) /\ Attentive(r)'
  BY <1>1, <1>2, <1>3 DEF Typed, Covered, Attentive, Step
<1> QED BY <1>4, <1>5 DEF Covered

LEMMA MonitorStep ==
    ASSUME TimeoutInv, Monitor \/ MonitorReturn
    PROVE  TimeoutInv'
<1>1. UNCHANGED <<pc, log, plugs, plugged, local, rd, policyConfig, asking>>
  BY DEF Monitor, MonitorReturn
<1>2. hub' \in [ReaderNames -> HubState]
      /\ \A r \in ReaderNames : hub'[r].reopen = hub[r].reopen /\ (hub[r].wake => hub'[r].wake)
  <2> DEFINE h == [hub["reader"] EXCEPT !.wake = TRUE]
  <2>1. hub["reader"] \in HubState /\ "reader" \in ReaderNames
    BY DEF TimeoutInv, Typed, ReaderNames
  <2>2. h \in HubState /\ h.reopen = hub["reader"].reopen /\ h.wake
    BY <2>1 DEF HubState
  <2>3. hub' = hub \/ hub' = [hub EXCEPT !["reader"] = h]
    BY DEF Monitor, MonitorReturn
  <2> HIDE DEF h
  <2> QED BY <2>1, <2>2, <2>3 DEF TimeoutInv, Typed
<1> QED BY <1>1, <1>2, OthersElsewhere DEF TimeoutInv, Typed

LEMMA NextTimeoutInv ==
    ASSUME TimeoutInv, [Next]_vars
    PROVE  TimeoutInv'
<1>1. CASE Loop
  <2>1. PICK r \in ReaderNames : LoopStep(r)
    BY <1>1 DEF Loop
  <2> QED BY <2>1, ConfigureStep, GetEventsStep, ProcessStep, NotifyAndFlushStep DEF LoopStep
<1>2. CASE World
  BY <1>2, WorldStep
<1>3. CASE Tick
  BY <1>3, TickStep
<1>4. ASSUME NEW q \in Requesters, Request(q) \/ \E c \in Changes : ChangePolicy(q, c)
      PROVE  TimeoutInv'
  BY <1>4, RequestStep, ChangePolicyStep
<1>5. CASE Vibrate \/ CancelVibrate \/ Monitor \/ MonitorReturn
  BY <1>5, VibrateStep, CancelVibrateStep, MonitorStep
<1>6. CASE UNCHANGED vars
  BY <1>6 DEF vars, TimeoutInv, Typed, Covered, Attentive, Step
<1> QED BY <1>1, <1>2, <1>3, <1>4, <1>5, <1>6 DEF Next

\* For any delays and any number of events, changes, vibrations and threads, no timer of a
\* mapper is left without a timeout of its reader (InputReader.cpp 376-384, 701-706), and no
\* reader sleeps in its own hub over a change of the configuration or an earlier timeout that
\* it was asked for (701-706, 829-839).
THEOREM AlwaysWakesInTime == Spec => []WakesInTime
<1>1. TimeoutInv => TimersCovered
  BY DEF TimeoutInv, Covered, TimersCovered
<1>2. TimeoutInv => NoSleepOnRequest
  BY DEF TimeoutInv, Attentive, NoSleepOnRequest
<1>3. TimeoutInv => WakesInTime
  BY <1>1, <1>2 DEF WakesInTime
<1> QED
  BY InitTimeoutInv, NextTimeoutInv, <1>3, PTL DEF Spec
----------------------------------------------------------------------------
(***************************************************************************)
(* The way of the events.                                                  *)
(***************************************************************************)

Ascending(s) ==
    \A i, j \in 1 .. Len(s) : i < j /\ 0 \notin {s[i], s[j]} => s[i] < s[j]

\* The events up to n are, in their order, in s, or they are in l.
InOrder(s, l, n) ==
    /\ Ascending(s)
    /\ (ToSet(s) \ {0}) \cup l = 1 .. n
    /\ ToSet(s) \cap l = {}

\* A batch is in hand between the hub and processEventsLocked only.
HandsFree(r) == Step(r, "process") \/ (local[r].batch = <<>> /\ ~local[r].rescanned)

\* The thread is past the second hub, or not yet past the first again.
Ahead == {<<"reader", s>> : s \in {"configure", "poll", "notify", "flush"}}
           \cup {<<"zizhan", s>> : s \in {"process", "notify", "flush"}}
CaughtUp ==
    pc \in Ahead => hub["zizhan"].reopen # "no" \/ hub["reader"].read <= hub["zizhan"].read

InRange(r) ==
    /\ hub[r].read \in 0 .. Len(log) /\ hub[r].devices \subseteq 0 .. plugs
    /\ rd[r].config \in 0 .. policyConfig /\ rd[r].applied \in 0 .. policyConfig

Ranges ==
    /\ plugged \subseteq 1 .. plugs
    /\ holder \in Requesters \cup {Nobody}
    /\ \A r \in ReaderNames : InRange(r)

Stories ==
    /\ delivered \in [ReaderNames -> Seq(Nat)] /\ lost \in [ReaderNames -> SUBSET Nat]
    /\ \A r \in ReaderNames : InOrder(Passed(r), lost[r], hub[r].read) /\ HandsFree(r)

\* The inductive invariant, on top of TimeoutInv.
EventsInv == TimeoutInv /\ Ranges /\ Stories /\ CaughtUp

\* An event, or the end of a tap, joins what has passed.
LEMMA AppendPassed ==
    ASSUME NEW s \in Seq(Nat), NEW l, NEW n \in Nat, InOrder(s, l, n)
    PROVE  InOrder(Append(s, 0), l, n)
<1>1. /\ Append(s, 0) \in Seq(Nat) /\ Len(Append(s, 0)) = Len(s) + 1
      /\ \A i \in 1 .. Len(s) : Append(s, 0)[i] = s[i]
      /\ Append(s, 0)[Len(s) + 1] = 0 /\ Len(s) \in Nat
  BY AppendProperties
<1>2. Ascending(Append(s, 0))
  BY <1>1 DEF InOrder, Ascending
<1>3. ToSet(Append(s, 0)) = ToSet(s) \cup {0}
  <2>1. DOMAIN s = 1 .. Len(s) /\ DOMAIN Append(s, 0) = 1 .. Len(s) + 1
    BY <1>1
  <2>2. ToSet(Append(s, 0)) = {Append(s, 0)[i] : i \in 1 .. Len(s) + 1}
        /\ ToSet(s) = {s[i] : i \in 1 .. Len(s)}
    BY <2>1 DEF ToSet
  <2> QED BY <1>1, <2>2
<1>4. 0 \notin l
  BY DEF InOrder
<1> QED BY <1>2, <1>3, <1>4 DEF InOrder

\* The events that a hub reads follow those it has read.
LEMMA ReadSet ==
    ASSUME NEW n \in Nat, NEW m \in Nat, n <= m,
           NEW u \in Seq(Nat), Len(u) = m - n, \A i \in 1 .. m - n : u[i] = n + i
    PROVE  ToSet(u) = n + 1 .. m
<1>1. ToSet(u) = {u[i] : i \in 1 .. m - n}
  BY DEF ToSet
<1>2. ASSUME NEW k \in n + 1 .. m PROVE k \in ToSet(u)
  <2>1. k - n \in 1 .. m - n /\ u[k - n] = n + (k - n)
    OBVIOUS
  <2> QED BY <1>1, <2>1
<1>3. ASSUME NEW i \in 1 .. m - n PROVE u[i] \in n + 1 .. m
  <2>1. u[i] = n + i
    OBVIOUS
  <2> QED BY <2>1
<1> QED BY <1>1, <1>2, <1>3

LEMMA LostPassed ==
    ASSUME NEW s \in Seq(Nat), NEW l, NEW n \in Nat, NEW m \in Nat, n <= m, InOrder(s, l, n)
    PROVE  InOrder(s, l \cup (n + 1 .. m), m)
<1>1. 1 .. m = (1 .. n) \cup (n + 1 .. m) /\ (1 .. n) \cap (n + 1 .. m) = {}
      /\ 0 \notin n + 1 .. m
  OBVIOUS
<1>2. (ToSet(s) \ {0}) \cup l = 1 .. n /\ ToSet(s) \cap l = {} /\ Ascending(s)
  BY DEF InOrder
<1>3. (ToSet(s) \ {0}) \cup (l \cup (n + 1 .. m)) = 1 .. m
      /\ ToSet(s) \cap (l \cup (n + 1 .. m)) = {}
  BY <1>1, <1>2
<1> QED BY <1>2, <1>3 DEF InOrder

LEMMA ReadPassed ==
    ASSUME NEW s \in Seq(Nat), NEW l, NEW n \in Nat, NEW m \in Nat, n <= m, InOrder(s, l, n),
           NEW u \in Seq(Nat), Len(u) = m - n, \A i \in 1 .. m - n : u[i] = n + i
    PROVE  InOrder(s \o u, l, m)
<1>1. ToSet(u) = n + 1 .. m
  BY ReadSet
<1>2. /\ s \o u \in Seq(Nat) /\ Len(s \o u) = Len(s) + Len(u) /\ Len(s) \in Nat
      /\ \A i \in 1 .. Len(s) + Len(u) :
            (s \o u)[i] = IF i <= Len(s) THEN s[i] ELSE u[i - Len(s)]
  BY ConcatProperties, LenProperties, Zenon
<1>3. ToSet(s) = {s[i] : i \in 1 .. Len(s)} /\ \A i \in 1 .. Len(s) : s[i] \in 0 .. n
  <2>1. ToSet(s) = {s[i] : i \in 1 .. Len(s)}
    BY DEF ToSet
  <2>2. ASSUME NEW i \in 1 .. Len(s) PROVE s[i] \in 0 .. n
    <3>1. s[i] \in ToSet(s)
      BY <2>1
    <3>2. s[i] = 0 \/ s[i] \in 1 .. n
      BY <3>1 DEF InOrder
    <3>3. \A a : a = 0 \/ a \in 1 .. n => a \in 0 .. n
      OBVIOUS
    <3> QED BY <3>2, <3>3, Zenon
  <2> QED BY <2>1, <2>2
<1>4. ToSet(s \o u) = ToSet(s) \cup ToSet(u)
  <2>1. ToSet(s \o u) = {(s \o u)[i] : i \in 1 .. Len(s) + Len(u)}
    BY <1>2, LenProperties DEF ToSet
  <2>2. ToSet(u) = {u[i] : i \in 1 .. Len(u)} /\ Len(u) \in Nat
    BY LenProperties, Zenon DEF ToSet
  <2>3. ASSUME NEW i \in 1 .. Len(u) PROVE u[i] \in ToSet(s \o u)
    <3>1. Len(s) + i \in 1 .. Len(s) + Len(u) /\ (s \o u)[Len(s) + i] = u[i]
      BY <1>2, <2>2
    <3> QED BY <2>1, <3>1
  <2>4. ASSUME NEW i \in 1 .. Len(s) PROVE s[i] \in ToSet(s \o u)
    <3>1. i \in 1 .. Len(s) + Len(u) /\ (s \o u)[i] = s[i]
      BY <1>2, <2>2
    <3> QED BY <2>1, <3>1
  <2>5. ASSUME NEW i \in 1 .. Len(s) + Len(u)
        PROVE  (s \o u)[i] \in ToSet(s) \cup ToSet(u)
    <3>1. CASE i <= Len(s)
      BY <1>2, <1>3, <3>1
    <3>2. CASE i > Len(s)
      <4>1. i - Len(s) \in 1 .. Len(u)
        BY <1>2, <2>2, <3>2
      <4> QED BY <1>2, <2>2, <3>2, <4>1
    <3> QED BY <1>2, <3>1, <3>2
  <2> QED BY <1>3, <2>1, <2>2, <2>3, <2>4, <2>5
<1>5. Ascending(s \o u)
  <2> SUFFICES ASSUME NEW i \in 1 .. Len(s) + Len(u), NEW j \in 1 .. Len(s) + Len(u), i < j,
                      0 \notin {(s \o u)[i], (s \o u)[j]}
               PROVE  (s \o u)[i] < (s \o u)[j]
    BY <1>2 DEF Ascending
  <2>1. CASE j <= Len(s)
    BY <1>2, <2>1 DEF InOrder, Ascending
  <2>2. CASE i <= Len(s) /\ j > Len(s)
    <3>1. j - Len(s) \in 1 .. m - n /\ i \in 1 .. Len(s)
      BY <1>2, <2>2
    <3>2. (s \o u)[i] = s[i] /\ (s \o u)[j] = u[j - Len(s)]
      BY <1>2, <2>2
    <3>3. s[i] \in 0 .. n /\ u[j - Len(s)] = n + (j - Len(s))
      BY <1>3, <3>1
    <3>4. \A a \in 0 .. n, k \in 1 .. m - n : a < n + k
      OBVIOUS
    <3> HIDE DEF InOrder
    <3> QED BY <3>1, <3>2, <3>3, <3>4
  <2>3. CASE i > Len(s)
    <3>1. j - Len(s) \in 1 .. m - n /\ i - Len(s) \in 1 .. m - n
      BY <1>2, <2>3
    <3>2. (s \o u)[i] = u[i - Len(s)] /\ (s \o u)[j] = u[j - Len(s)]
      <4>1. ~(i <= Len(s)) /\ ~(j <= Len(s))
        BY <1>2, <2>3
      <4> QED BY <1>2, <4>1
    <3>3. u[i - Len(s)] = n + (i - Len(s)) /\ u[j - Len(s)] = n + (j - Len(s))
      BY <3>1
    <3> QED BY <1>2, <3>1, <3>2, <3>3
  <2>4. i <= Len(s) \/ i > Len(s)
    BY <1>2
  <2>5. j <= Len(s) \/ j > Len(s)
    BY <1>2
  <2> QED BY <2>1, <2>2, <2>3, <2>4, <2>5
<1>6. ((ToSet(s) \cup ToSet(u)) \ {0}) \cup l = 1 .. m /\ (ToSet(s) \cup ToSet(u)) \cap l = {}
  <2>1. (ToSet(s) \ {0}) \cup l = 1 .. n /\ ToSet(s) \cap l = {}
    BY DEF InOrder
  <2>2. 1 .. m = (1 .. n) \cup (n + 1 .. m) /\ (1 .. n) \cap (n + 1 .. m) = {}
        /\ 0 \notin n + 1 .. m
    OBVIOUS
  <2> HIDE DEF InOrder
  <2> QED BY <1>1, <2>1, <2>2
<1> QED BY <1>4, <1>5, <1>6 DEF InOrder

LEMMA PassedSequence ==
    ASSUME Typed, NEW r \in ReaderNames, delivered[r] \in Seq(Nat)
    PROVE  /\ rd[r].queued \in Seq(Nat) /\ local[r].batch \in Seq(Nat)
           /\ Passed(r) = (delivered[r] \o rd[r].queued) \o local[r].batch
           /\ Passed(r) \in Seq(Nat)
<1>1. rd[r].queued \in Seq(Nat) /\ local[r].batch \in Seq(Nat)
  BY DEF Typed, ReaderState, LocalState
<1> QED BY <1>1 DEF Passed

\* Processing neither drops nor moves what a reader has, and may append the end of a tap.
LEMMA ProcessedFields ==
    ASSUME Typed, NEW r \in ReaderNames
    PROVE  LET p == Processed(r)
           IN  /\ p.devices = hub[r].devices /\ p.queued = rd[r].queued \o local[r].batch
               /\ p.changes = rd[r].changes /\ p.config = rd[r].config
               /\ p.applied = IF local[r].rescanned THEN rd[r].config ELSE rd[r].applied
<1> DEFINE l     == local[r]
           fresh == IF l.rescanned THEN [rd[r] EXCEPT !.tap = Never, !.vibrating = 0, !.step = Never,
                                                      !.applied = rd[r].config]
                                   ELSE rd[r]
           due   == TapDue(l.batch)
           done  == [fresh EXCEPT !.devices = hub[r].devices, !.queued = @ \o l.batch,
                                  !.tap = IF due = Never THEN @ ELSE due]
<1>1. rd[r] \in ReaderState
  BY DEF Typed
<1>2. DOMAIN fresh = DOMAIN rd[r] /\ fresh.queued = rd[r].queued /\ fresh.changes = rd[r].changes
      /\ fresh.config = rd[r].config
      /\ fresh.applied = IF l.rescanned THEN rd[r].config ELSE rd[r].applied
  BY <1>1 DEF ReaderState
<1>3. DOMAIN rd[r] = {"changes", "devices", "config", "applied", "next", "tap", "vibrating",
                      "step", "queued"}
  BY <1>1 DEF ReaderState
<1>4. Processed(r) = IF due = Never THEN done ELSE WithTimeout(done, due)
  BY DEF Processed
<1> HIDE DEF fresh, due
<1>5. DOMAIN done = DOMAIN rd[r] /\ done.devices = hub[r].devices
      /\ done.queued = rd[r].queued \o l.batch
      /\ done.changes = fresh.changes /\ done.config = fresh.config
      /\ done.applied = fresh.applied
  BY <1>2, <1>3
<1> HIDE DEF done
<1>6. LET w == WithTimeout(done, due)
      IN  /\ w.devices = done.devices /\ w.queued = done.queued /\ w.changes = done.changes
          /\ w.config = done.config /\ w.applied = done.applied
  BY <1>3, <1>5 DEF WithTimeout
<1> QED BY <1>2, <1>4, <1>5, <1>6

LEMMA TimeoutExpiredFields ==
    ASSUME NEW s \in ReaderState
    PROVE  LET t == TimeoutExpired(s)
           IN  /\ t.devices = s.devices /\ t.changes = s.changes /\ t.config = s.config
               /\ t.applied = s.applied /\ t.queued \in {s.queued, Append(s.queued, 0)}
<1> DEFINE Alike(t, u) == /\ DOMAIN t = DOMAIN u /\ t.devices = u.devices
                          /\ t.changes = u.changes /\ t.config = u.config
                          /\ t.applied = u.applied
           Names == {"changes", "devices", "config", "applied", "next", "tap", "vibrating",
                     "step", "queued"}
<1>1. DOMAIN s = Names
  BY DEF ReaderState
<1>2. ASSUME NEW t, DOMAIN t = Names, NEW d
      PROVE  Alike(WithTimeout(t, d), t) /\ WithTimeout(t, d).queued = t.queued
  BY <1>2 DEF WithTimeout
<1>3. ASSUME NEW t, DOMAIN t = Names
      PROVE  Alike(TapExpired(t), t) /\ TapExpired(t).queued \in {t.queued, Append(t.queued, 0)}
  <2>1. CASE t.tap = 0
    BY <1>3, <2>1 DEF TapExpired
  <2>2. CASE t.tap # 0
    BY <1>2, <1>3, <2>2 DEF TapExpired
  <2> QED BY <2>1, <2>2
<1>4. ASSUME NEW t, DOMAIN t = Names
      PROVE  Alike(NextStep(t), t) /\ NextStep(t).queued = t.queued
  <2>1. CASE t.vibrating = 1
    BY <1>4, <2>1 DEF NextStep
  <2>2. CASE t.vibrating # 1
    <3> DEFINE u == [t EXCEPT !.vibrating = @ - 1, !.step = StepDelay]
    <3>1. Alike(u, t) /\ u.queued = t.queued
      BY <1>4
    <3>2. NextStep(t) = WithTimeout(u, StepDelay)
      BY <2>2 DEF NextStep
    <3> HIDE DEF u
    <3> QED BY <1>2, <1>4, <3>1, <3>2
  <2> QED BY <2>1, <2>2
<1>5. ASSUME NEW t, DOMAIN t = Names
      PROVE  Alike(StepExpired(t), t) /\ StepExpired(t).queued = t.queued
  <2>1. CASE t.vibrating = 0
    BY <2>1 DEF StepExpired
  <2>2. CASE t.vibrating # 0 /\ t.step = 0
    BY <1>4, <1>5, <2>2 DEF StepExpired
  <2>3. CASE t.vibrating # 0 /\ t.step # 0
    BY <1>2, <1>5, <2>3 DEF StepExpired
  <2> QED BY <2>1, <2>2, <2>3
<1>6. CASE s.next # 0
  BY <1>6 DEF TimeoutExpired
<1>7. CASE s.next = 0
  <2> DEFINE t == [s EXCEPT !.next = Never]
  <2>1. Alike(t, s) /\ t.queued = s.queued
    BY <1>1
  <2>2. TimeoutExpired(s) = StepExpired(TapExpired(t))
    BY <1>7 DEF TimeoutExpired
  <2> HIDE DEF t
  <2>3. Alike(TapExpired(t), t) /\ TapExpired(t).queued \in {t.queued, Append(t.queued, 0)}
    BY <1>1, <1>3, <2>1
  <2>4. Alike(StepExpired(TapExpired(t)), TapExpired(t))
        /\ StepExpired(TapExpired(t)).queued = TapExpired(t).queued
    BY <1>1, <1>5, <2>1, <2>3
  <2> QED BY <2>1, <2>2, <2>3, <2>4
<1> QED BY <1>6, <1>7

LEMMA InitEventsInv == Init => EventsInv
<1> SUFFICES ASSUME Init PROVE EventsInv
  OBVIOUS
<1>1. TimeoutInv
  BY InitTimeoutInv
<1>2. ASSUME NEW r \in ReaderNames
      PROVE  /\ Passed(r) = <<>> /\ lost[r] = {} /\ hub[r].read = 0 /\ InRange(r)
             /\ HandsFree(r)
  <2>1. delivered[r] = <<>> /\ rd[r].queued = <<>> /\ local[r].batch = <<>>
        /\ ~local[r].rescanned
    BY DEF Init
  <2>2. Passed(r) = (<<>> \o <<>>) \o <<>>
    BY <2>1 DEF Passed
  <2>3. <<>> \o <<>> = <<>>
    BY EmptySeq, ConcatEmptySeq
  <2>4. InRange(r)
    <3>1. hub[r].read = 0 /\ hub[r].devices = {} /\ rd[r].config = 0 /\ rd[r].applied = 0
          /\ log = <<>> /\ plugs = 0 /\ policyConfig = 0
      BY DEF Init
    <3> QED BY <3>1 DEF InRange
  <2> QED BY <2>1, <2>2, <2>3, <2>4 DEF Init, HandsFree
<1>3. InOrder(<<>>, {}, 0)
  BY DEF InOrder, Ascending, ToSet
<1>4. Stories
  BY <1>2, <1>3 DEF Stories, Init
<1>5. Ranges
  BY <1>2 DEF Ranges, Init
<1>6. CaughtUp
  BY DEF CaughtUp, Init, ReaderNames
<1> QED BY <1>1, <1>4, <1>5, <1>6 DEF EventsInv

\* Where the thread comes from when it is ahead of the second hub.
LEMMA AheadStep ==
    ASSUME NEW r \in ReaderNames, NEW step \in {"configure", "poll", "process", "notify", "flush"},
           At(r, step), pc' \in Ahead
    PROVE  pc \in Ahead \/ (r = "zizhan" /\ step = "poll")
<1>1. CASE r = "reader"
  BY <1>1 DEF At, After, Ahead
<1>2. CASE r = "zizhan"
  BY <1>2 DEF At, After, Ahead
<1> QED BY <1>1, <1>2 DEF ReaderNames

\* A step with nothing in hand leaves nothing in hand.
LEMMA HandsEmpty ==
    ASSUME Stories, NEW r \in ReaderNames, NEW step, step # "process", At(r, step),
           NEW q \in ReaderNames
    PROVE  local[q].batch = <<>> /\ ~local[q].rescanned
BY DEF Stories, HandsFree, Step, At

\* What has passed stays when neither the hub's reading nor the queues move.
LEMMA StoriesElsewhere ==
    ASSUME Stories, UNCHANGED <<delivered, lost>>,
           \A r \in ReaderNames :
              /\ rd'[r].queued = rd[r].queued /\ local'[r].batch = local[r].batch
              /\ hub'[r].read = hub[r].read /\ HandsFree(r)'
    PROVE  Stories'
<1>1. \A r \in ReaderNames : Passed(r)' = Passed(r)
  BY DEF Passed
<1> QED BY <1>1 DEF Stories

LEMMA CaughtUpElsewhere ==
    ASSUME CaughtUp, pc' \in Ahead => pc \in Ahead,
           \A r \in ReaderNames : hub'[r].read = hub[r].read,
           hub'["zizhan"].reopen = hub["zizhan"].reopen
    PROVE  CaughtUp'
BY DEF CaughtUp, ReaderNames

\* Only refreshConfigurationLocked moves the versions in a reader.
LEMMA ConfigureEvents ==
    ASSUME EventsInv, TimeoutInv', NEW r \in ReaderNames, Configure(r)
    PROVE  EventsInv'
<1> USE DEF EventsInv
<1>1. At(r, "configure") /\ UNCHANGED <<delivered, lost, log, plugs, plugged, policyConfig, holder>>
  BY DEF Configure, outside
<1>2. hub \in [ReaderNames -> HubState] /\ rd \in [ReaderNames -> ReaderState]
      /\ local \in [ReaderNames -> LocalState] /\ policyConfig \in Nat
  BY DEF TimeoutInv, Typed
<1>3. \A q \in ReaderNames :
        /\ rd'[q].queued = rd[q].queued /\ local'[q].batch = local[q].batch
        /\ local'[q].rescanned = local[q].rescanned
        /\ hub'[q].read = hub[q].read /\ hub'[q].devices = hub[q].devices
        /\ q # r => hub'[q] = hub[q]
        /\ rd'[q].config \in {rd[q].config, policyConfig}
        /\ rd'[q].applied \in {rd[q].applied, policyConfig}
  <2>1. CASE rd[r].changes # {}
    <3> DEFINE s == [rd[r] EXCEPT !.changes = {}, !.config = policyConfig,
                       !.applied = IF "reopen" \in rd[r].changes THEN @ ELSE policyConfig]
               h == [hub[r] EXCEPT !.reopen = IF "reopen" \in rd[r].changes THEN "asked" ELSE @]
    <3>1. rd' = [rd EXCEPT ![r] = s] /\ hub' = [hub EXCEPT ![r] = h]
      BY <2>1 DEF Configure
    <3>2. PICK b \in BOOLEAN : local' = [local EXCEPT ![r] = [local[r] EXCEPT !.wait = 0, !.bumped = b]]
      BY <2>1 DEF Configure
    <3>3. [local[r] EXCEPT !.wait = 0, !.bumped = b].batch = local[r].batch
          /\ [local[r] EXCEPT !.wait = 0, !.bumped = b].rescanned = local[r].rescanned
      BY <1>2 DEF LocalState
    <3>4. s.queued = rd[r].queued /\ s.config = policyConfig /\ s.applied \in {rd[r].applied, policyConfig}
      BY <1>2 DEF ReaderState
    <3>5. h.read = hub[r].read /\ h.devices = hub[r].devices
      BY <1>2 DEF HubState
    <3> HIDE DEF s, h
    <3> QED BY <1>2, <3>1, <3>2, <3>3, <3>4, <3>5
  <2>2. CASE rd[r].changes = {}
    <3>1. UNCHANGED <<rd, hub>>
          /\ local' = [local EXCEPT ![r] = [local[r] EXCEPT !.wait = rd[r].next, !.bumped = FALSE]]
      BY <2>2 DEF Configure
    <3>2. [local[r] EXCEPT !.wait = rd[r].next, !.bumped = FALSE].batch = local[r].batch
          /\ [local[r] EXCEPT !.wait = rd[r].next, !.bumped = FALSE].rescanned = local[r].rescanned
      BY <1>2 DEF LocalState
    <3> QED BY <1>2, <3>1, <3>2
  <2> QED BY <2>1, <2>2
<1>4. Stories'
  <2>1. \A q \in ReaderNames : HandsFree(q)'
    BY <1>1, <1>3, HandsEmpty DEF HandsFree
  <2> QED BY <1>1, <1>3, <2>1, StoriesElsewhere
<1>5. Ranges'
  BY <1>1, <1>2, <1>3 DEF Ranges, InRange
<1>6. CaughtUp'
  <2>1. CASE r = "reader"
    BY <1>1, <1>3, <2>1, AheadStep, CaughtUpElsewhere DEF ReaderNames
  <2>2. CASE r = "zizhan"
    <3>1. pc' = <<"zizhan", "poll">>
      BY <1>1, <2>2 DEF At, After
    <3> QED BY <3>1 DEF CaughtUp, Ahead
  <2> QED BY <2>1, <2>2 DEF ReaderNames
<1> QED BY <1>4, <1>5, <1>6

\* What is read in one round follows what was read before.
LEMMA UnreadEvents ==
    ASSUME EventsInv, NEW r \in ReaderNames
    PROVE  /\ Unread(r) \in Seq(Nat) /\ Len(Unread(r)) = Len(log) - hub[r].read
           /\ \A i \in 1 .. Len(log) - hub[r].read : Unread(r)[i] = hub[r].read + i
           /\ hub[r].read \in Nat /\ Len(log) \in Nat /\ hub[r].read <= Len(log)
<1>1. hub[r].read \in Nat /\ Len(log) \in Nat /\ hub[r].read <= Len(log)
  BY DEF EventsInv, Ranges, InRange, TimeoutInv, Typed
<1>2. Len(log) - hub[r].read \in Nat
  BY <1>1
<1>3. Unread(r) = [i \in 1 .. Len(log) - hub[r].read |-> hub[r].read + i]
  BY DEF Unread
<1>4. Unread(r) \in Seq(Nat)
  BY UnreadSequence DEF EventsInv, TimeoutInv
<1>5. Len(Unread(r)) \in Nat /\ DOMAIN Unread(r) = 1 .. Len(Unread(r))
  BY <1>4, LenProperties
<1>6. DOMAIN Unread(r) = 1 .. Len(log) - hub[r].read
  BY <1>3, Zenon
<1>7. \A a, b \in Nat : 1 .. a = 1 .. b => a = b
  <2> TAKE a, b \in Nat
  <2> HAVE 1 .. a = 1 .. b
  <2>1. a \in 1 .. b \/ a = 0
    OBVIOUS
  <2>2. b \in 1 .. a \/ b = 0
    OBVIOUS
  <2> QED BY <2>1, <2>2
<1>8. Len(Unread(r)) = Len(log) - hub[r].read
  BY <1>2, <1>5, <1>6, <1>7, Zenon
<1>9. \A i \in 1 .. Len(log) - hub[r].read : Unread(r)[i] = hub[r].read + i
  BY <1>3, Zenon
<1> QED BY <1>1, <1>4, <1>8, <1>9, Zenon

\* getEvents hands over, or loses, what it reads, and nothing else.
LEMMA GetEventsEvents ==
    ASSUME EventsInv, TimeoutInv', NEW r \in ReaderNames,
           GetEventsReopen(r) \/ GetEventsScan(r) \/ GetEvents(r)
    PROVE  EventsInv'
<1> USE DEF EventsInv
<1>1. At(r, "poll")
      /\ UNCHANGED <<delivered, rd, log, plugs, plugged, policyConfig, holder>>
  BY DEF GetEventsReopen, GetEventsScan, GetEvents, outside
<1>2. hub \in [ReaderNames -> HubState] /\ local \in [ReaderNames -> LocalState]
      /\ delivered[r] \in Seq(Nat) /\ Typed
  BY DEF TimeoutInv, Typed, Stories
<1>3. pc' = <<r, "process">>
  BY <1>1 DEF At, After, ReaderNames
<1>4. \A q \in ReaderNames : q # r =>
         /\ hub'[q] = hub[q] /\ local'[q] = local[q] /\ lost'[q] = lost[q]
  BY <1>2 DEF Stories, GetEventsReopen, GetEventsScan, GetEvents
<1>5. local[r].batch = <<>>
  BY <1>1, HandsEmpty
<1> DEFINE s == delivered[r] \o rd[r].queued
<1>6. s \in Seq(Nat) /\ InOrder(s, lost[r], hub[r].read)
  <2>1. rd[r].queued \in Seq(Nat)
    BY <1>2, PassedSequence
  <2>2. s \in Seq(Nat)
    BY <1>2, <2>1, ConcatProperties
  <2>3. Passed(r) = s
    BY <1>5, <2>2, ConcatEmptySeq DEF Passed
  <2> QED BY <2>2, <2>3 DEF Stories
<1>7. Passed(r)' = s \o local'[r].batch
  BY <1>1 DEF Passed
<1> HIDE DEF s
<1>8. /\ InOrder(Passed(r)', lost'[r], hub'[r].read)
      /\ lost' \in [ReaderNames -> SUBSET Nat]
      /\ hub'[r].devices \in {hub[r].devices, Present}
      /\ \/ hub'[r].reopen # "no" /\ hub'[r].read = hub[r].read
         \/ hub'[r].read = Len(log)
  <2>1. CASE GetEventsReopen(r)
    <3>1. hub' = [hub EXCEPT ![r].reopen = "closed"] /\ UNCHANGED lost
          /\ local' = [local EXCEPT ![r].batch = <<>>, ![r].rescanned = FALSE]
      BY <2>1 DEF GetEventsReopen
    <3>2. local'[r].batch = <<>> /\ hub'[r].read = hub[r].read /\ hub'[r].devices = hub[r].devices
          /\ hub'[r].reopen = "closed"
      BY <1>2, <3>1 DEF LocalState, HubState
    <3>3. Passed(r)' = s
      BY <1>6, <1>7, <3>2, ConcatEmptySeq
    <3> QED BY <1>6, <3>1, <3>2, <3>3 DEF Stories
  <2>2. CASE GetEventsScan(r)
    <3>1. hub' = [hub EXCEPT ![r].reopen = "no", ![r].devices = Present, ![r].read = Len(log)]
          /\ lost' = [lost EXCEPT ![r] = @ \cup ToSet(Unread(r))]
          /\ local' = [local EXCEPT ![r].batch = <<>>, ![r].rescanned = TRUE]
      BY <2>2 DEF GetEventsScan
    <3>2. local'[r].batch = <<>> /\ hub'[r].read = Len(log) /\ hub'[r].devices = Present
          /\ lost \in [ReaderNames -> SUBSET Nat]
          /\ lost'[r] = lost[r] \cup ToSet(Unread(r))
      BY <1>2, <3>1 DEF LocalState, HubState, Stories
    <3>3. Passed(r)' = s
      BY <1>6, <1>7, <3>2, ConcatEmptySeq
    <3>4. InOrder(s, lost[r] \cup ToSet(Unread(r)), Len(log))
          /\ ToSet(Unread(r)) = hub[r].read + 1 .. Len(log)
      <4>1. ToSet(Unread(r)) = hub[r].read + 1 .. Len(log)
        BY UnreadEvents, ReadSet
      <4>2. InOrder(s, lost[r] \cup ToSet(Unread(r)), Len(log))
        BY <1>6, <4>1, UnreadEvents, LostPassed
      <4> QED BY <4>1, <4>2
    <3>5. ToSet(Unread(r)) \in SUBSET Nat
      BY <3>4, UnreadEvents
    <3> QED BY <3>1, <3>2, <3>3, <3>4, <3>5
  <2>3. CASE GetEvents(r)
    <3>1. hub' = [hub EXCEPT ![r].read = Len(log), ![r].devices = Present, ![r].wake = FALSE]
          /\ UNCHANGED lost
          /\ local' = [local EXCEPT ![r].batch = Unread(r), ![r].rescanned = FALSE]
      BY <2>3 DEF GetEvents
    <3>2. local'[r].batch = Unread(r) /\ hub'[r].read = Len(log) /\ hub'[r].devices = Present
      BY <1>2, <3>1 DEF LocalState, HubState
    <3>3. InOrder(s \o Unread(r), lost[r], Len(log))
      BY <1>6, UnreadEvents, ReadPassed
    <3> QED BY <1>7, <3>1, <3>2, <3>3 DEF Stories
  <2> QED BY <2>1, <2>2, <2>3
<1>9. Stories'
  <2>1. ASSUME NEW q \in ReaderNames
        PROVE  InOrder(Passed(q), lost[q], hub[q].read)' /\ HandsFree(q)'
    <3>1. CASE q = r
      BY <1>3, <1>8, <3>1 DEF HandsFree, Step
    <3>2. CASE q # r
      <4>1. Passed(q)' = Passed(q)
        BY <1>1, <1>4, <3>2 DEF Passed
      <4>2. HandsFree(q)'
        BY <1>1, <1>4, <3>2, HandsEmpty DEF HandsFree
      <4> QED BY <1>4, <3>2, <4>1, <4>2 DEF Stories
    <3> QED BY <3>1, <3>2
  <2>2. delivered' \in [ReaderNames -> Seq(Nat)]
    BY <1>1 DEF Stories
  <2> QED BY <1>8, <2>1, <2>2 DEF Stories
<1>10. Ranges'
  <2>1. Present \subseteq 0 .. plugs /\ plugs \in Nat
    BY DEF Present, Keyboard, Ranges, TimeoutInv, Typed
  <2>2. \A q \in ReaderNames : hub'[q].read \in 0 .. Len(log) /\ hub'[q].devices \subseteq 0 .. plugs
    <3> TAKE q \in ReaderNames
    <3>1. hub[q].read \in 0 .. Len(log) /\ hub[q].devices \subseteq 0 .. plugs
      BY DEF Ranges, InRange
    <3>2. Len(log) \in 0 .. Len(log)
      BY UnreadEvents
    <3> QED BY <1>4, <1>8, <2>1, <3>1, <3>2
  <2> QED BY <1>1, <2>2 DEF Ranges, InRange
<1>11. CaughtUp'
  <2>1. CASE r = "reader"
    BY <1>3, <2>1 DEF CaughtUp, Ahead
  <2>2. CASE r = "zizhan"
    <3>1. hub'["reader"] = hub["reader"] /\ hub["reader"].read <= Len(log)
      BY <1>4, <2>2, UnreadEvents DEF ReaderNames
    <3> QED BY <1>8, <2>2, <3>1 DEF CaughtUp
  <2> QED BY <2>1, <2>2 DEF ReaderNames
<1> QED BY <1>9, <1>10, <1>11

\* What Process(r) changes, seen from the other invariants.
LEMMA ProcessFields ==
    ASSUME TimeoutInv, NEW r \in ReaderNames, Process(r)
    PROVE  /\ rd'[r].devices = hub[r].devices /\ rd'[r].changes = rd[r].changes
           /\ rd'[r].config = rd[r].config
           /\ rd'[r].applied = IF local[r].rescanned THEN rd[r].config ELSE rd[r].applied
           /\ rd'[r].queued \in {rd[r].queued \o local[r].batch,
                                Append(rd[r].queued \o local[r].batch, 0)}
           /\ local'[r].batch = <<>> /\ ~local'[r].rescanned
           /\ local'[r].devices = hub[r].devices
           /\ r = "zizhan" => local'[r].bumped
           /\ \A q \in ReaderNames :
                /\ hub'[q].read = hub[q].read /\ hub'[q].devices = hub[q].devices
                /\ hub'[q].reopen = hub[q].reopen
                /\ q # r => rd'[q] = rd[q] /\ local'[q] = local[q]
<1> DEFINE p == Processed(r)
           s == TimeoutExpired(p)
<1>1. Typed /\ Covered(rd[r]) /\ rd \in [ReaderNames -> ReaderState]
      /\ hub \in [ReaderNames -> HubState] /\ local \in [ReaderNames -> LocalState]
  BY DEF TimeoutInv, Typed
<1>2. p \in ReaderState
  BY <1>1, ProcessedState
<1>3. rd' = [rd EXCEPT ![r] = s]
      /\ hub' = [hub EXCEPT ![r].wake = @ \/ Rearmed(rd[r], p) \/ Rearmed(p, s)]
      /\ local' = [local EXCEPT
             ![r].devices = s.devices,
             ![r].bumped = \/ @ \/ r = "zizhan"
                           \/ local[r].rescanned \/ s.devices # rd[r].devices,
             ![r].batch = <<>>, ![r].rescanned = FALSE]
  BY DEF Process
<1>4. /\ p.devices = hub[r].devices /\ p.queued = rd[r].queued \o local[r].batch
      /\ p.changes = rd[r].changes /\ p.config = rd[r].config
      /\ p.applied = IF local[r].rescanned THEN rd[r].config ELSE rd[r].applied
  BY <1>1, ProcessedFields
<1> HIDE DEF p
<1>5. /\ s.devices = p.devices /\ s.changes = p.changes /\ s.config = p.config
      /\ s.applied = p.applied /\ s.queued \in {p.queued, Append(p.queued, 0)}
  BY <1>2, TimeoutExpiredFields
<1> HIDE DEF s
<1>6. /\ local'[r].batch = <<>> /\ ~local'[r].rescanned /\ local'[r].devices = s.devices
      /\ r = "zizhan" => local'[r].bumped
  BY <1>1, <1>3 DEF LocalState
<1>7. \A q \in ReaderNames :
        /\ hub'[q].read = hub[q].read /\ hub'[q].devices = hub[q].devices
        /\ hub'[q].reopen = hub[q].reopen
        /\ q # r => rd'[q] = rd[q] /\ local'[q] = local[q]
  BY <1>1, <1>3 DEF HubState
<1>8. rd'[r] = s /\ \A q \in ReaderNames : q # r => rd'[q] = rd[q]
  BY <1>1, <1>3
<1>9. /\ rd'[r].devices = hub[r].devices /\ rd'[r].changes = rd[r].changes
      /\ rd'[r].config = rd[r].config
      /\ rd'[r].applied = IF local[r].rescanned THEN rd[r].config ELSE rd[r].applied
      /\ rd'[r].queued \in {rd[r].queued \o local[r].batch,
                           Append(rd[r].queued \o local[r].batch, 0)}
  BY <1>4, <1>5, <1>8
<1>10. local'[r].devices = hub[r].devices
  BY <1>4, <1>5, <1>6
<1> QED BY <1>6, <1>7, <1>9, <1>10

LEMMA ProcessEvents ==
    ASSUME EventsInv, TimeoutInv', NEW r \in ReaderNames, Process(r)
    PROVE  EventsInv'
<1> USE DEF EventsInv
<1>1. At(r, "process")
      /\ UNCHANGED <<delivered, lost, log, plugs, plugged, policyConfig, holder>>
  BY DEF Process, outside
<1>2. pc' # <<r, "process">>
  BY <1>1 DEF At, After, ReaderNames
<1> DEFINE s == rd[r].queued \o local[r].batch
           d == delivered[r]
<1>3. d \in Seq(Nat) /\ rd[r].queued \in Seq(Nat) /\ local[r].batch \in Seq(Nat) /\ s \in Seq(Nat)
      /\ Passed(r) = d \o s /\ Passed(r) \in Seq(Nat)
  <2>1. d \in Seq(Nat)
    BY DEF Stories
  <2>2. rd[r].queued \in Seq(Nat) /\ local[r].batch \in Seq(Nat) /\ Passed(r) \in Seq(Nat)
        /\ Passed(r) = (d \o rd[r].queued) \o local[r].batch
    BY <2>1, PassedSequence DEF TimeoutInv
  <2>3. (d \o rd[r].queued) \o local[r].batch = d \o s
    <3>1. \A a, b, c \in Seq(Nat) : (a \o b) \o c = a \o (b \o c)
      BY ConcatAssociative, SMTT(30)
    <3> QED BY <2>1, <2>2, <3>1
  <2> QED BY <2>1, <2>2, <2>3, ConcatProperties
<1>4. Passed(r)' = (d \o rd'[r].queued) \o <<>> /\ rd'[r].queued \in {s, Append(s, 0)}
  BY <1>1, ProcessFields DEF Passed
<1> HIDE DEF s, d
<1>5. Passed(r)' \in {Passed(r), Append(Passed(r), 0)}
  <2>1. CASE rd'[r].queued = s
    BY <1>3, <1>4, <2>1, ConcatEmptySeq
  <2>2. CASE rd'[r].queued = Append(s, 0)
    <3>1. Append(s, 0) = s \o <<0>> /\ <<0>> \in Seq(Nat)
      BY <1>3, AppendIsConcat
    <3>2. d \o (s \o <<0>>) = (d \o s) \o <<0>>
      BY <1>3, <3>1, ConcatAssociative
    <3>3. (d \o s) \o <<0>> = Append(d \o s, 0) /\ Append(d \o s, 0) \in Seq(Nat)
      BY <1>3, AppendIsConcat, AppendProperties
    <3>4. d \o Append(s, 0) = Append(Passed(r), 0)
      BY <1>3, <3>1, <3>2, <3>3
    <3>5. Append(Passed(r), 0) \o <<>> = Append(Passed(r), 0)
      BY <1>3, <3>3, ConcatEmptySeq
    <3> QED BY <1>4, <2>2, <3>4, <3>5
  <2> QED BY <1>4, <2>1, <2>2
<1>6. Stories'
  <2>1. ASSUME NEW q \in ReaderNames
        PROVE  InOrder(Passed(q), lost[q], hub[q].read)' /\ HandsFree(q)'
    <3>1. hub'[q].read = hub[q].read /\ hub[q].read \in Nat
          /\ InOrder(Passed(q), lost[q], hub[q].read)
      BY ProcessFields, UnreadEvents DEF Stories
    <3>2. CASE q = r
      <4>1. InOrder(Append(Passed(r), 0), lost[r], hub[r].read)
        BY <1>3, <3>1, <3>2, AppendPassed
      <4>2. HandsFree(r)'
        BY ProcessFields DEF HandsFree
      <4> QED BY <1>1, <1>5, <3>1, <3>2, <4>1, <4>2
    <3>3. CASE q # r
      <4>1. rd'[q] = rd[q] /\ local'[q] = local[q]
        BY <3>3, ProcessFields
      <4>2. Passed(q)' = Passed(q)
        BY <1>1, <4>1 DEF Passed
      <4>3. HandsFree(q)'
        BY <1>1, <3>3, <4>1 DEF HandsFree, Stories, At, Step
      <4> QED BY <1>1, <3>1, <4>2, <4>3
    <3> QED BY <3>2, <3>3
  <2> QED BY <1>1, <2>1 DEF Stories
<1>7. Ranges'
  <2>1. ASSUME NEW q \in ReaderNames PROVE InRange(q)'
    <3>1. hub'[q].read = hub[q].read /\ hub'[q].devices = hub[q].devices
          /\ rd'[q].config = rd[q].config /\ rd'[q].applied \in {rd[q].applied, rd[q].config}
      BY ProcessFields
    <3> QED BY <1>1, <3>1 DEF Ranges, InRange
  <2> QED BY <1>1, <2>1 DEF Ranges
<1>8. CaughtUp'
  BY <1>1, AheadStep, ProcessFields, CaughtUpElsewhere DEF ReaderNames
<1> QED BY <1>6, <1>7, <1>8

\* What is flushed was queued.
LEMMA NotifyAndFlushEvents ==
    ASSUME EventsInv, TimeoutInv', NEW r \in ReaderNames, NotifyInputDevicesChanged(r) \/ Flush(r)
    PROVE  EventsInv'
<1> USE DEF EventsInv
<1>1. PICK step \in {"notify", "flush"} : At(r, step)
  BY DEF NotifyInputDevicesChanged, Flush
<1>2. UNCHANGED <<lost, log, plugs, plugged, policyConfig, holder, hub, local>>
  BY DEF NotifyInputDevicesChanged, Flush, outside
<1>3. rd \in [ReaderNames -> ReaderState] /\ Typed
  BY DEF TimeoutInv, Typed
<1>4. /\ delivered' \in [ReaderNames -> Seq(Nat)]
      /\ \A q \in ReaderNames :
           /\ rd'[q].config = rd[q].config /\ rd'[q].applied = rd[q].applied
           /\ Passed(q)' = Passed(q)
  <2>1. CASE NotifyInputDevicesChanged(r)
    BY <2>1, <1>2 DEF NotifyInputDevicesChanged, Stories, Passed
  <2>2. CASE Flush(r)
    <3>1. delivered' = [delivered EXCEPT ![r] = @ \o rd[r].queued]
          /\ rd' = [rd EXCEPT ![r] = [rd[r] EXCEPT !.queued = <<>>]]
      BY <2>2 DEF Flush
    <3>2. delivered[r] \in Seq(Nat) /\ rd[r].queued \in Seq(Nat) /\ local[r].batch \in Seq(Nat)
      BY <1>3, PassedSequence DEF Stories
    <3>3. delivered[r] \o rd[r].queued \in Seq(Nat)
      BY <3>2, ConcatProperties
    <3>4. delivered' \in [ReaderNames -> Seq(Nat)]
          /\ delivered'[r] = delivered[r] \o rd[r].queued
      BY <3>1, <3>3 DEF Stories
    <3>5. rd'[r].config = rd[r].config /\ rd'[r].applied = rd[r].applied /\ rd'[r].queued = <<>>
      BY <1>3, <3>1 DEF ReaderState
    <3>6. Passed(r)' = Passed(r)
      <4>1. Passed(r)' = ((delivered[r] \o rd[r].queued) \o <<>>) \o local[r].batch
        BY <1>2, <3>4, <3>5 DEF Passed
      <4>2. (delivered[r] \o rd[r].queued) \o <<>> = delivered[r] \o rd[r].queued
        BY <3>3, ConcatEmptySeq
      <4> QED BY <4>1, <4>2 DEF Passed
    <3>7. ASSUME NEW q \in ReaderNames, q # r
          PROVE  rd'[q] = rd[q] /\ delivered'[q] = delivered[q] /\ Passed(q)' = Passed(q)
      <4>1. rd'[q] = rd[q] /\ delivered'[q] = delivered[q]
        BY <1>3, <3>1, <3>7 DEF Stories
      <4> QED BY <1>2, <4>1 DEF Passed
    <3> QED BY <3>4, <3>5, <3>6, <3>7
  <2> QED BY <2>1, <2>2
<1>5. Stories'
  <2>1. \A q \in ReaderNames : HandsFree(q)'
    BY <1>1, <1>2, HandsEmpty DEF HandsFree
  <2> QED BY <1>2, <1>4, <2>1 DEF Stories
<1>6. Ranges'
  BY <1>2, <1>4 DEF Ranges, InRange
<1>7. CaughtUp'
  BY <1>1, <1>2, AheadStep, CaughtUpElsewhere
<1> QED BY <1>5, <1>6, <1>7

\* The other threads and the world leave alone what has passed.
LEMMA OthersEvents ==
    ASSUME EventsInv, TimeoutInv', UNCHANGED <<pc, delivered, lost>>,
           plugged' \subseteq 1 .. plugs', holder' \in Requesters \cup {Nobody},
           Len(log') >= Len(log), plugs' >= plugs, policyConfig' >= policyConfig,
           \A r \in ReaderNames :
             /\ rd'[r].queued = rd[r].queued /\ rd'[r].config = rd[r].config
             /\ rd'[r].applied = rd[r].applied
             /\ local'[r].batch = local[r].batch /\ local'[r].rescanned = local[r].rescanned
             /\ hub'[r].read = hub[r].read /\ hub'[r].devices = hub[r].devices
             /\ hub'[r].reopen = hub[r].reopen
    PROVE  EventsInv'
<1> USE DEF EventsInv
<1>1. Len(log) \in Nat /\ Len(log') \in Nat /\ plugs \in Nat /\ plugs' \in Nat
      /\ policyConfig \in Nat /\ policyConfig' \in Nat
  BY DEF TimeoutInv, Typed
<1>2. Stories'
  <2>1. \A r \in ReaderNames : HandsFree(r)'
    BY DEF Stories, HandsFree, Step
  <2> QED BY <2>1, StoriesElsewhere
<1>3. Ranges'
  <2>1. ASSUME NEW r \in ReaderNames PROVE InRange(r)'
    <3>1. InRange(r)
      BY DEF Ranges
    <3>2. \A a, b \in Nat : b >= a => 0 .. a \subseteq 0 .. b
      OBVIOUS
    <3>3. /\ 0 .. Len(log) \subseteq 0 .. Len(log') /\ 0 .. plugs \subseteq 0 .. plugs'
          /\ 0 .. policyConfig \subseteq 0 .. policyConfig'
      BY <1>1, <3>2
    <3> QED BY <3>1, <3>3, Zenon DEF InRange
  <2> QED BY <2>1 DEF Ranges
<1>4. CaughtUp'
  BY CaughtUpElsewhere, "zizhan" \in ReaderNames DEF ReaderNames
<1> QED BY <1>2, <1>3, <1>4

\* A step of the world, of the clock or of another thread.
Others ==
    \/ World \/ Tick
    \/ \E q \in Requesters : Request(q) \/ \E c \in Changes : ChangePolicy(q, c)
    \/ Vibrate \/ CancelVibrate \/ Monitor \/ MonitorReturn
    \/ UNCHANGED vars

\* What is between a hub and the listener is the loop's alone.
LEMMA OthersFields ==
    ASSUME TimeoutInv, Others
    PROVE  /\ UNCHANGED <<pc, delivered, lost, policyDevices>>
           /\ \A r \in ReaderNames :
                /\ rd'[r].queued = rd[r].queued /\ rd'[r].config = rd[r].config
                /\ rd'[r].applied = rd[r].applied /\ rd[r].changes \subseteq rd'[r].changes
                /\ local'[r].batch = local[r].batch /\ local'[r].rescanned = local[r].rescanned
                /\ local'[r].bumped = local[r].bumped /\ local'[r].devices = local[r].devices
                /\ hub'[r].read = hub[r].read /\ hub'[r].devices = hub[r].devices
                /\ hub'[r].reopen = hub[r].reopen
<1> DEFINE Kept(s, t) == /\ t.queued = s.queued /\ t.config = s.config
                         /\ t.applied = s.applied /\ s.changes \subseteq t.changes
           Noted(k, l) == /\ l.batch = k.batch /\ l.rescanned = k.rescanned
                          /\ l.bumped = k.bumped /\ l.devices = k.devices
           Same(g, h) == h.read = g.read /\ h.devices = g.devices /\ h.reopen = g.reopen
<1>1. UNCHANGED <<pc, delivered, lost, policyDevices>>
  BY DEF Others, World, InputEvent, PlugIn, PlugOut, Tick, Request, RequestRefreshConfiguration,
         ForwardRefreshConfiguration, ChangePolicy, Vibrate, CancelVibrate, Monitor,
         MonitorReturn, vars
<1>2. rd \in [ReaderNames -> ReaderState] /\ hub \in [ReaderNames -> HubState]
      /\ local \in [ReaderNames -> LocalState] /\ "reader" \in ReaderNames
  BY DEF TimeoutInv, Typed, ReaderNames
<1>3. ASSUME NEW r \in ReaderNames PROVE Noted(local[r], local'[r])
  <2>1. CASE UNCHANGED local
    BY <2>1
  <2>2. CASE Tick
    <3>1. local'[r] = [local[r] EXCEPT !.wait = Sooner(@)]
      BY <2>2 DEF Tick
    <3> QED BY <1>2, <3>1 DEF LocalState
  <2> QED BY <2>1, <2>2 DEF Others, World, InputEvent, PlugIn, PlugOut, Request,
        RequestRefreshConfiguration, ForwardRefreshConfiguration, ChangePolicy, Vibrate,
        CancelVibrate, Monitor, MonitorReturn, vars
<1>4. ASSUME NEW r \in ReaderNames PROVE Same(hub[r], hub'[r])
  <2>1. CASE UNCHANGED hub
    BY <2>1
  <2>2. ASSUME NEW p \in ReaderNames, NEW b, hub' = [hub EXCEPT ![p] = [hub[p] EXCEPT !.wake = b]]
        PROVE  Same(hub[r], hub'[r])
    BY <1>2, <2>2 DEF HubState
  <2>3. ASSUME NEW q \in Requesters, NEW p \in ReaderNames, Requested(q, p)
        PROVE  Same(hub[r], hub'[r])
    <3>1. hub' = [hub EXCEPT ![p] = [hub[p] EXCEPT !.wake = @ \/ rd[p].changes = {}]]
      BY <2>3 DEF Requested
    <3> QED BY <1>2, <3>1 DEF HubState
  <2>4. CASE \E q \in Requesters : Request(q)
    BY <1>2, <2>3, <2>4 DEF Request, RequestRefreshConfiguration, ForwardRefreshConfiguration,
                            ReaderNames
  <2>5. CASE Vibrate
    BY <1>2, <2>2, <2>5 DEF Vibrate
  <2>6. CASE Monitor
    BY <1>2, <2>2, <2>6 DEF Monitor
  <2> QED BY <2>1, <2>4, <2>5, <2>6 DEF Others, World, InputEvent, PlugIn, PlugOut, Tick,
        ChangePolicy, CancelVibrate, MonitorReturn, vars
<1>5. ASSUME NEW r \in ReaderNames PROVE Kept(rd[r], rd'[r])
  <2>1. CASE UNCHANGED rd
    BY <2>1
  <2>2. CASE Tick
    <3>1. rd'[r] = [rd[r] EXCEPT !.next = Sooner(@), !.tap = Sooner(@), !.step = Sooner(@)]
      BY <2>2 DEF Tick
    <3> QED BY <1>2, <3>1 DEF ReaderState
  <2>3. ASSUME NEW q \in Requesters, NEW p \in ReaderNames, Requested(q, p)
        PROVE  Kept(rd[r], rd'[r])
    <3>1. rd' = [rd EXCEPT ![p] = [rd[p] EXCEPT !.changes = @ \cup {asking[q].change}]]
      BY <2>3 DEF Requested
    <3> QED BY <1>2, <3>1 DEF ReaderState
  <2>4. CASE \E q \in Requesters : Request(q)
    BY <1>2, <2>3, <2>4 DEF Request, RequestRefreshConfiguration, ForwardRefreshConfiguration,
                            ReaderNames
  <2>5. CASE Vibrate
    <3> DEFINE t == [rd["reader"] EXCEPT !.vibrating = Steps, !.step = StepDelay]
    <3>1. rd' = [rd EXCEPT !["reader"] = WithTimeout(t, StepDelay)]
      BY <2>5 DEF Vibrate
    <3>2. Kept(rd["reader"], t) /\ DOMAIN t = DOMAIN rd["reader"]
      BY <1>2 DEF ReaderState
    <3>3. DOMAIN t = {"changes", "devices", "config", "applied", "next", "tap", "vibrating",
                      "step", "queued"}
      BY <1>2, <3>2 DEF ReaderState
    <3> HIDE DEF t
    <3>4. Kept(rd["reader"], WithTimeout(t, StepDelay))
      BY <3>2, <3>3 DEF WithTimeout
    <3> QED BY <1>2, <3>1, <3>4
  <2>6. CASE CancelVibrate
    <3>1. rd' = [rd EXCEPT !["reader"] = [rd["reader"] EXCEPT !.vibrating = 0, !.step = Never]]
      BY <2>6 DEF CancelVibrate
    <3> QED BY <1>2, <3>1 DEF ReaderState
  <2> QED BY <2>1, <2>2, <2>4, <2>5, <2>6 DEF Others, World, InputEvent, PlugIn, PlugOut,
        ChangePolicy, Monitor, MonitorReturn, vars
<1> QED BY <1>1, <1>3, <1>4, <1>5

LEMMA OthersCounts ==
    ASSUME EventsInv, Others
    PROVE  /\ plugged' \subseteq 1 .. plugs' /\ holder' \in Requesters \cup {Nobody}
           /\ Len(log') >= Len(log) /\ plugs' >= plugs /\ policyConfig' >= policyConfig
<1>1. Len(log) \in Nat /\ plugs \in Nat /\ policyConfig \in Nat /\ plugged \subseteq 1 .. plugs
      /\ holder \in Requesters \cup {Nobody}
      /\ log \in Seq([tap : BOOLEAN, age : 0 .. TapDelay])
  BY DEF EventsInv, Ranges, TimeoutInv, Typed
<1>2. Len(log') >= Len(log)
  <2>1. CASE UNCHANGED log
    BY <1>1, <2>1
  <2>2. ASSUME NEW tap \in BOOLEAN, InputEvent(tap) PROVE Len(log') >= Len(log)
    <3>1. log' = Append(log, [tap |-> tap, age |-> 0])
      BY <2>2 DEF InputEvent
    <3>2. [tap |-> tap, age |-> 0] \in [tap : BOOLEAN, age : 0 .. TapDelay]
      BY Delay
    <3>3. Len(log') = Len(log) + 1
      BY <1>1, <3>1, <3>2, AppendProperties
    <3> QED BY <1>1, <3>3
  <2>3. CASE Tick
    <3>1. DOMAIN log = 1 .. Len(log)
      BY <1>1
    <3>2. log' = [i \in 1 .. Len(log) |-> [log[i] EXCEPT !.age = Minimum(@ + 1, TapDelay)]]
      BY <2>3, <3>1 DEF Tick
    <3>3. Len(log') = Len(log)
      BY <1>1, <3>2
    <3> QED BY <1>1, <3>3
  <2> QED BY <2>1, <2>2, <2>3 DEF Others, World, PlugIn, PlugOut, Request,
        RequestRefreshConfiguration, ForwardRefreshConfiguration, ChangePolicy, Vibrate,
        CancelVibrate, Monitor, MonitorReturn, vars
<1>3. plugged' \subseteq 1 .. plugs' /\ plugs' >= plugs
  <2>1. CASE UNCHANGED <<plugged, plugs>>
    BY <1>1, <2>1
  <2>2. CASE PlugIn
    BY <1>1, <2>2 DEF PlugIn
  <2>3. CASE \E d \in plugged : PlugOut(d)
    BY <1>1, <2>3 DEF PlugOut
  <2> QED BY <2>1, <2>2, <2>3 DEF Others, World, InputEvent, Tick, Request,
        RequestRefreshConfiguration, ForwardRefreshConfiguration, ChangePolicy, Vibrate,
        CancelVibrate, Monitor, MonitorReturn, vars
<1>4. holder' \in Requesters \cup {Nobody}
  <2>1. CASE UNCHANGED holder
    BY <1>1, <2>1
  <2>2. CASE \E q \in Requesters : Request(q)
    BY <2>2 DEF Request, RequestRefreshConfiguration, ForwardRefreshConfiguration
  <2> QED BY <2>1, <2>2 DEF Others, World, InputEvent, PlugIn, PlugOut, Tick, ChangePolicy,
        Vibrate, CancelVibrate, Monitor, MonitorReturn, vars
<1>5. policyConfig' >= policyConfig
  <2>1. CASE UNCHANGED policyConfig
    BY <1>1, <2>1
  <2>2. CASE \E q \in Requesters, c \in Changes : ChangePolicy(q, c)
    BY <1>1, <2>2 DEF ChangePolicy
  <2> QED BY <2>1, <2>2 DEF Others, World, InputEvent, PlugIn, PlugOut, Tick, Request,
        RequestRefreshConfiguration, ForwardRefreshConfiguration, Vibrate, CancelVibrate,
        Monitor, MonitorReturn, vars
<1> QED BY <1>2, <1>3, <1>4, <1>5

LEMMA NextEventsInv ==
    ASSUME EventsInv, [Next]_vars
    PROVE  EventsInv'
<1>1. TimeoutInv'
  BY NextTimeoutInv DEF EventsInv
<1>2. CASE Loop
  <2>1. PICK r \in ReaderNames : LoopStep(r)
    BY <1>2 DEF Loop
  <2> QED BY <1>1, <2>1, ConfigureEvents, GetEventsEvents, ProcessEvents, NotifyAndFlushEvents
          DEF LoopStep
<1>3. CASE Others
  <2>1. TimeoutInv
    BY DEF EventsInv
  <2> QED BY <1>1, <1>3, <2>1, OthersFields, OthersCounts, OthersEvents
<1> QED BY <1>2, <1>3 DEF Next, Others

\* For any number of events, devices, changes and threads, whatever a hub has read is queued,
\* flushed or in hand, once and in the order of the world, unless it came while the hub had its
\* devices closed; and the second reader has read all that the first has when the thread comes
\* back to the first hub (InputReader.cpp 331-408, InputReaderZizhan.cpp 333-375).
THEOREM EventsAlwaysSafe == Spec => []EventsSafe
<1>1. ASSUME EventsInv PROVE EventsSafe
  <2> USE <1>1 DEF EventsInv
  <2>1. TypeOK
    <3>1. pc \in ReaderNames \X {"configure", "poll", "process", "notify", "flush"}
      BY DEF TimeoutInv, Typed
    <3>2. pc \in {<<"reader", s>> : s \in {"configure", "poll", "process", "notify", "flush"}}
             \cup {<<"zizhan", s>> : s \in {"configure", "poll", "process", "notify", "flush"}}
      BY <3>1 DEF ReaderNames
    <3>3. \A i \in 1 .. Len(log) : log[i].tap \in BOOLEAN /\ log[i].age \in 0 .. TapDelay
      <4> TAKE i \in 1 .. Len(log)
      <4>1. log[i] \in [tap : BOOLEAN, age : 0 .. TapDelay]
        BY ElementOfSeq DEF TimeoutInv, Typed
      <4> QED BY <4>1
    <3>4. plugged \subseteq 1 .. plugs /\ holder \in Requesters \cup {Nobody}
      BY DEF Ranges
    <3>5. ASSUME NEW r \in ReaderNames
          PROVE  /\ hub[r].read \in 0 .. Len(log) /\ hub[r].devices \subseteq 0 .. plugs
                 /\ hub[r].reopen \in {"no", "asked", "closed"} /\ hub[r].wake \in BOOLEAN
                 /\ rd[r].changes \subseteq Changes /\ rd[r].applied \in 0 .. policyConfig
                 /\ {rd[r].next, rd[r].tap, rd[r].step, local[r].wait} \subseteq Delays
                 /\ rd[r].vibrating \in 0 .. Steps
      <4>1. InRange(r)
        BY DEF Ranges
      <4>2. rd[r] \in ReaderState /\ hub[r] \in HubState /\ local[r] \in LocalState
        BY DEF TimeoutInv, Typed
      <4> QED BY <4>1, <4>2 DEF InRange, ReaderState, HubState, LocalState
    <3> QED BY <3>2, <3>3, <3>4, <3>5 DEF TypeOK
  <2>2. EventsInOrder
    BY DEF Stories, InOrder, Ascending, EventsInOrder
  <2>3. SecondCatchesUp
    BY DEF CaughtUp, Ahead, SecondCatchesUp, Step
  <2> QED BY <2>1, <2>2, <2>3 DEF EventsSafe
<1> QED
  BY InitEventsInv, NextEventsInv, <1>1, PTL DEF Spec

----------------------------------------------------------------------------
(***************************************************************************)
(* Changes of the configuration and of the devices.                        *)
(***************************************************************************)

\* Requester q has still to ask reader r for a change.
Coming(r, q) == asking[q].step = "request" \/ (r = "zizhan" /\ asking[q].step = "forward")
ChangeComes(r) == rd[r].changes # {} \/ \E q \in Requesters : Coming(r, q)

\* The reader has read the policy's configuration, and its devices follow the reader.
Carried(r) ==
    /\ rd[r].config # policyConfig => ChangeComes(r)
    /\ rd[r].applied # policyConfig =>
          ChangeComes(r) \/ hub[r].reopen # "no" \/ local[r].rescanned

\* From processEventsLocked to the next poll, loopOnce has the devices its hub has reported,
\* and the policy is told of those of one of the hubs.
Reported ==
    /\ Step("zizhan", "configure") \/ Step("zizhan", "poll") \/ Step("zizhan", "process")
       \/ Step("zizhan", "notify") \/ Step("zizhan", "flush") \/ Step("reader", "notify")
         => local["reader"].devices = hub["reader"].devices
    /\ Step("zizhan", "notify") =>
         local["zizhan"].bumped /\ local["zizhan"].devices = hub["zizhan"].devices
    /\ Step("zizhan", "flush") \/ Step("reader", "notify") =>
         policyDevices = hub["zizhan"].devices
    /\ Step("reader", "flush") \/ Step("reader", "configure") \/ Step("reader", "poll") =>
         policyDevices \in {hub["reader"].devices, hub["zizhan"].devices}

\* The inductive invariant, on top of EventsInv.
ChangesInv == EventsInv /\ (\A r \in ReaderNames : Carried(r)) /\ Reported

LEMMA InitChangesInv == Init => ChangesInv
<1> SUFFICES ASSUME Init PROVE ChangesInv
  OBVIOUS
<1>1. \A r \in ReaderNames : Carried(r)
  BY DEF Init, Carried
<1>2. Reported
  BY DEF Init, Reported, Step, ReaderNames
<1> QED BY <1>1, <1>2, InitEventsInv DEF ChangesInv

\* What a reader has of the changes depends on nothing of the other.
LEMMA CarriedElsewhere ==
    ASSUME NEW q \in ReaderNames, Carried(q), UNCHANGED <<policyConfig, asking>>,
           rd'[q].changes = rd[q].changes, rd'[q].config = rd[q].config,
           rd'[q].applied = rd[q].applied, hub'[q].reopen = hub[q].reopen,
           local'[q].rescanned = local[q].rescanned
    PROVE  Carried(q)'
BY DEF Carried, ChangeComes, Coming

\* The reader takes the changes with the configuration as it is now.
LEMMA ConfigureChanges ==
    ASSUME ChangesInv, NEW r \in ReaderNames, Configure(r)
    PROVE  (\A q \in ReaderNames : Carried(q)') /\ Reported'
<1>1. At(r, "configure") /\ UNCHANGED <<policyDevices, policyConfig, asking>>
  BY DEF Configure, outside
<1>2. hub \in [ReaderNames -> HubState] /\ rd \in [ReaderNames -> ReaderState]
      /\ local \in [ReaderNames -> LocalState]
  BY DEF ChangesInv, EventsInv, TimeoutInv, Typed
<1>3. PICK s, h, l :
        /\ rd' = [rd EXCEPT ![r] = s] /\ hub' = [hub EXCEPT ![r] = h]
        /\ local' = [local EXCEPT ![r] = l]
        /\ h.devices = hub[r].devices /\ l.devices = local[r].devices
        /\ l.rescanned = local[r].rescanned
        /\ \/ s.config = policyConfig /\ (s.applied = policyConfig \/ h.reopen = "asked")
           \/ s = rd[r] /\ h = hub[r]
  <2>1. CASE rd[r].changes # {}
    <3> DEFINE s == [rd[r] EXCEPT !.changes = {}, !.config = policyConfig,
                       !.applied = IF "reopen" \in rd[r].changes THEN @ ELSE policyConfig]
               h == [hub[r] EXCEPT !.reopen = IF "reopen" \in rd[r].changes THEN "asked" ELSE @]
    <3>1. rd' = [rd EXCEPT ![r] = s] /\ hub' = [hub EXCEPT ![r] = h]
      BY <2>1 DEF Configure
    <3>2. PICK b \in BOOLEAN :
             local' = [local EXCEPT ![r] = [local[r] EXCEPT !.wait = 0, !.bumped = b]]
      BY <2>1 DEF Configure
    <3> DEFINE l == [local[r] EXCEPT !.wait = 0, !.bumped = b]
    <3>3. l.devices = local[r].devices /\ l.rescanned = local[r].rescanned
      BY <1>2 DEF LocalState
    <3>4. s.config = policyConfig /\ (s.applied = policyConfig \/ h.reopen = "asked")
      BY <1>2 DEF ReaderState, HubState
    <3>5. h.devices = hub[r].devices
      BY <1>2 DEF HubState
    <3>6. local' = [local EXCEPT ![r] = l]
      BY <3>2
    <3> HIDE DEF s, h, l
    <3> QED BY <3>1, <3>3, <3>4, <3>5, <3>6
  <2>2. CASE rd[r].changes = {}
    <3> DEFINE l == [local[r] EXCEPT !.wait = rd[r].next, !.bumped = FALSE]
    <3>1. rd' = [rd EXCEPT ![r] = rd[r]] /\ hub' = [hub EXCEPT ![r] = hub[r]]
          /\ local' = [local EXCEPT ![r] = l]
      BY <1>2, <2>2 DEF Configure
    <3>2. l.devices = local[r].devices /\ l.rescanned = local[r].rescanned
      BY <1>2 DEF LocalState
    <3> HIDE DEF l
    <3> QED BY <3>1, <3>2
  <2> QED BY <2>1, <2>2
<1>4. ASSUME NEW q \in ReaderNames PROVE Carried(q)'
  <2>1. Carried(q)
    BY DEF ChangesInv
  <2>2. CASE q = r /\ s.config = policyConfig /\ (s.applied = policyConfig \/ h.reopen = "asked")
    <3>1. rd'[q] = s /\ hub'[q] = h
      BY <1>2, <1>3, <2>2
    <3> QED BY <1>1, <2>2, <3>1 DEF Carried
  <2>3. CASE q # r \/ (s = rd[r] /\ h = hub[r])
    <3>1. rd'[q] = rd[q] /\ hub'[q] = hub[q] /\ local'[q].rescanned = local[q].rescanned
      BY <1>2, <1>3, <2>3
    <3> QED BY <1>1, <2>1, <3>1, CarriedElsewhere
  <2> QED BY <1>3, <2>2, <2>3
<1>5. \A q \in ReaderNames : hub'[q].devices = hub[q].devices /\ local'[q].devices = local[q].devices
  BY <1>2, <1>3
<1>6. Reported'
  <2>1. CASE r = "reader"
    <3>1. pc = <<"reader", "configure">> /\ pc' = <<"reader", "poll">>
      BY <1>1, <2>1 DEF At, After
    <3> QED BY <1>1, <1>5, <3>1 DEF ChangesInv, Reported, Step, ReaderNames
  <2>2. CASE r = "zizhan"
    <3>1. pc = <<"zizhan", "configure">> /\ pc' = <<"zizhan", "poll">>
      BY <1>1, <2>2 DEF At, After
    <3> QED BY <1>1, <1>5, <3>1 DEF ChangesInv, Reported, Step, ReaderNames
  <2> QED BY <2>1, <2>2 DEF ReaderNames
<1> QED BY <1>4, <1>6

\* A reopening stays asked for until the devices have been scanned.
LEMMA GetEventsChanges ==
    ASSUME ChangesInv, NEW r \in ReaderNames,
           GetEventsReopen(r) \/ GetEventsScan(r) \/ GetEvents(r)
    PROVE  (\A q \in ReaderNames : Carried(q)') /\ Reported'
<1>1. At(r, "poll") /\ UNCHANGED <<rd, policyDevices, policyConfig, asking>>
  BY DEF GetEventsReopen, GetEventsScan, GetEvents, outside
<1>2. hub \in [ReaderNames -> HubState] /\ local \in [ReaderNames -> LocalState]
      /\ \A q \in ReaderNames : Carried(q)
  BY DEF ChangesInv, EventsInv, TimeoutInv, Typed
<1>3. \A q \in ReaderNames : q # r => hub'[q] = hub[q] /\ local'[q] = local[q]
  BY <1>2 DEF GetEventsReopen, GetEventsScan, GetEvents
<1>4. \/ hub'[r].reopen # "no" \/ local'[r].rescanned
      \/ hub[r].reopen = "no" /\ ~local[r].rescanned
  <2>1. CASE GetEventsReopen(r)
    BY <1>2, <2>1 DEF GetEventsReopen, HubState
  <2>2. CASE GetEventsScan(r)
    BY <1>2, <2>2 DEF GetEventsScan, LocalState
  <2>3. CASE GetEvents(r)
    BY <1>1, <2>3, HandsEmpty DEF GetEvents, ChangesInv, EventsInv
  <2> QED BY <2>1, <2>2, <2>3
<1>5. ASSUME NEW q \in ReaderNames PROVE Carried(q)'
  <2>1. CASE q = r
    BY <1>1, <1>2, <1>4, <2>1 DEF Carried, ChangeComes, Coming
  <2>2. CASE q # r
    BY <1>1, <1>2, <1>3, <2>2, CarriedElsewhere
  <2> QED BY <2>1, <2>2
<1>6. Reported'
  <2>1. CASE r = "reader"
    <3>1. pc' = <<"reader", "process">>
      BY <1>1, <2>1 DEF At, After
    <3> QED BY <3>1 DEF Reported, Step
  <2>2. CASE r = "zizhan"
    <3>1. pc = <<"zizhan", "poll">> /\ pc' = <<"zizhan", "process">>
      BY <1>1, <2>2 DEF At, After
    <3> QED BY <1>3, <2>2, <3>1 DEF ChangesInv, Reported, Step, ReaderNames
  <2> QED BY <2>1, <2>2 DEF ReaderNames
<1> QED BY <1>5, <1>6

\* The devices that a scan opens are configured as the reader has read it.
LEMMA ProcessChanges ==
    ASSUME ChangesInv, NEW r \in ReaderNames, Process(r)
    PROVE  (\A q \in ReaderNames : Carried(q)') /\ Reported'
<1>1. At(r, "process") /\ UNCHANGED <<policyDevices, policyConfig, asking>>
  BY DEF Process, outside
<1>2. TimeoutInv /\ \A q \in ReaderNames : Carried(q)
  BY DEF ChangesInv, EventsInv
<1>3. ASSUME NEW q \in ReaderNames PROVE Carried(q)'
  <2>1. CASE q = r /\ local[r].rescanned
    <3>1. rd'[r].changes = rd[r].changes /\ rd'[r].config = rd[r].config
          /\ rd'[r].applied = rd[r].config
      BY <1>2, <2>1, ProcessFields
    <3> QED BY <1>1, <1>2, <2>1, <3>1 DEF Carried, ChangeComes, Coming
  <2>2. CASE q = r /\ ~local[r].rescanned
    <3>1. rd'[r].changes = rd[r].changes /\ rd'[r].config = rd[r].config
          /\ rd'[r].applied = rd[r].applied /\ hub'[r].reopen = hub[r].reopen
          /\ ~local'[r].rescanned
      BY <1>2, <2>2, ProcessFields
    <3> QED BY <1>1, <1>2, <2>2, <3>1 DEF Carried, ChangeComes, Coming
  <2>3. CASE q # r
    <3>1. rd'[q] = rd[q] /\ local'[q] = local[q] /\ hub'[q].reopen = hub[q].reopen
      BY <1>2, <2>3, ProcessFields
    <3> QED BY <1>1, <1>2, <3>1, CarriedElsewhere
  <2> QED BY <2>1, <2>2, <2>3
<1>4. Reported'
  <2>1. /\ local'[r].devices = hub[r].devices
        /\ r = "zizhan" => local'[r].bumped
        /\ \A q \in ReaderNames :
             hub'[q].devices = hub[q].devices /\ (q # r => local'[q] = local[q])
    BY <1>2, ProcessFields
  <2>2. CASE r = "reader"
    <3>1. pc' = <<"zizhan", "configure">>
      BY <1>1, <2>2 DEF At, After
    <3> QED BY <2>1, <2>2, <3>1 DEF Reported, Step
  <2>3. CASE r = "zizhan"
    <3>1. pc = <<"zizhan", "process">> /\ pc' = <<"zizhan", "notify">>
      BY <1>1, <2>3 DEF At, After
    <3> QED BY <2>1, <2>3, <3>1 DEF ChangesInv, Reported, Step, ReaderNames
  <2> QED BY <2>2, <2>3 DEF ReaderNames
<1> QED BY <1>3, <1>4

\* The policy is told of the devices of the second hub, then perhaps of those of the first.
LEMMA NotifyAndFlushChanges ==
    ASSUME ChangesInv, NEW r \in ReaderNames, NotifyInputDevicesChanged(r) \/ Flush(r)
    PROVE  (\A q \in ReaderNames : Carried(q)') /\ Reported'
<1>1. UNCHANGED <<hub, local, policyConfig, asking>>
  BY DEF NotifyInputDevicesChanged, Flush, outside
<1>2. rd \in [ReaderNames -> ReaderState] /\ \A q \in ReaderNames : Carried(q)
  BY DEF ChangesInv, EventsInv, TimeoutInv, Typed
<1>3. ASSUME NEW q \in ReaderNames PROVE Carried(q)'
  <2>1. rd'[q].changes = rd[q].changes /\ rd'[q].config = rd[q].config
        /\ rd'[q].applied = rd[q].applied
    <3>1. CASE NotifyInputDevicesChanged(r)
      BY <3>1 DEF NotifyInputDevicesChanged
    <3>2. CASE Flush(r)
      <4>1. rd' = [rd EXCEPT ![r] = [rd[r] EXCEPT !.queued = <<>>]]
        BY <3>2 DEF Flush
      <4> QED BY <1>2, <4>1 DEF ReaderState
    <3> QED BY <3>1, <3>2
  <2> QED BY <1>1, <1>2, <2>1, CarriedElsewhere
<1>4. Reported'
  <2>1. CASE NotifyInputDevicesChanged(r)
    <3>1. At(r, "notify")
          /\ policyDevices' = IF local[r].bumped THEN local[r].devices ELSE policyDevices
      BY <2>1 DEF NotifyInputDevicesChanged
    <3>2. CASE r = "reader"
      <4>1. pc = <<"reader", "notify">> /\ pc' = <<"reader", "flush">>
        BY <3>1, <3>2 DEF At, After
      <4> QED BY <1>1, <3>1, <3>2, <4>1 DEF ChangesInv, Reported, Step
    <3>3. CASE r = "zizhan"
      <4>1. pc = <<"zizhan", "notify">> /\ pc' = <<"zizhan", "flush">>
        BY <3>1, <3>3 DEF At, After
      <4> QED BY <1>1, <3>1, <3>3, <4>1 DEF ChangesInv, Reported, Step
    <3> QED BY <3>2, <3>3 DEF ReaderNames
  <2>2. CASE Flush(r)
    <3>1. At(r, "flush") /\ UNCHANGED policyDevices
      BY <2>2 DEF Flush
    <3>2. CASE r = "reader"
      <4>1. pc = <<"reader", "flush">> /\ pc' = <<"reader", "configure">>
        BY <3>1, <3>2 DEF At, After
      <4> QED BY <1>1, <3>1, <4>1 DEF ChangesInv, Reported, Step
    <3>3. CASE r = "zizhan"
      <4>1. pc = <<"zizhan", "flush">> /\ pc' = <<"reader", "notify">>
        BY <3>1, <3>3 DEF At, After
      <4> QED BY <1>1, <3>1, <4>1 DEF ChangesInv, Reported, Step
    <3> QED BY <3>2, <3>3 DEF ReaderNames
  <2> QED BY <2>1, <2>2
<1> QED BY <1>3, <1>4

\* A change is on its way to a reader until its flag is set there.
LEMMA OthersChanges ==
    ASSUME ChangesInv, Others
    PROVE  (\A q \in ReaderNames : Carried(q)') /\ Reported'
<1>1. TimeoutInv /\ (\A r \in ReaderNames : Carried(r)) /\ Reported
  BY DEF ChangesInv, EventsInv
<1>2. asking \in [Requesters -> Asking] /\ rd \in [ReaderNames -> ReaderState]
  BY <1>1 DEF TimeoutInv, Typed
<1>3. Reported'
  BY <1>1, OthersFields DEF Reported, Step, ReaderNames
<1>4. ASSUME NEW r \in ReaderNames PROVE Carried(r)'
  <2>1. /\ rd'[r].config = rd[r].config /\ rd'[r].applied = rd[r].applied
        /\ rd[r].changes \subseteq rd'[r].changes
        /\ hub'[r].reopen = hub[r].reopen /\ local'[r].rescanned = local[r].rescanned
    BY <1>1, OthersFields
  <2>2. CASE UNCHANGED <<policyConfig, asking>>
    BY <1>1, <2>1, <2>2 DEF Carried, ChangeComes, Coming
  <2>3. ASSUME NEW q \in Requesters, NEW c \in Changes, ChangePolicy(q, c)
        PROVE  Carried(r)'
    <3>1. asking'[q].step = "request"
      BY <1>2, <2>3 DEF ChangePolicy
    <3> QED BY <3>1 DEF Carried, ChangeComes, Coming
  <2>4. ASSUME NEW q \in Requesters, Request(q)
        PROVE  Carried(r)'
    <3>1. UNCHANGED policyConfig /\ \A p \in Requesters : p # q => asking'[p] = asking[p]
      BY <1>2, <2>4 DEF Request, RequestRefreshConfiguration, ForwardRefreshConfiguration
    <3>2. ASSUME NEW p \in ReaderNames, Requested(q, p) PROVE rd'[p].changes # {}
      <4>1. rd' = [rd EXCEPT ![p] = [rd[p] EXCEPT !.changes = @ \cup {asking[q].change}]]
        BY <3>2 DEF Requested
      <4> QED BY <1>2, <4>1 DEF ReaderState
    <3>3. ChangeComes(r) => ChangeComes(r)'
      <4>1. CASE RequestRefreshConfiguration(q)
        <5>1. Requested(q, "reader") /\ asking[q].step = "request"
              /\ asking' = [asking EXCEPT ![q] = [asking[q] EXCEPT !.step = "forward"]]
          BY <4>1 DEF RequestRefreshConfiguration
        <5>2. asking'[q].step = "forward"
          BY <1>2, <5>1 DEF Asking
        <5>3. CASE r = "reader"
          BY <3>2, <5>1, <5>3 DEF ChangeComes
        <5>4. CASE r = "zizhan"
          BY <5>2, <5>4 DEF ChangeComes, Coming
        <5> QED BY <5>3, <5>4 DEF ReaderNames
      <4>2. CASE ForwardRefreshConfiguration(q)
        <5>1. Requested(q, "zizhan") /\ asking[q].step = "forward"
          BY <4>2 DEF ForwardRefreshConfiguration
        <5>2. CASE r = "reader"
          BY <2>1, <3>1, <5>1, <5>2 DEF ChangeComes, Coming
        <5>3. CASE r = "zizhan"
          BY <3>2, <5>1, <5>3 DEF ChangeComes
        <5> QED BY <5>2, <5>3 DEF ReaderNames
      <4> QED BY <2>4, <4>1, <4>2 DEF Request
    <3> QED BY <1>1, <2>1, <3>1, <3>3 DEF Carried
  <2> QED BY <2>2, <2>3, <2>4 DEF Others, World, InputEvent, PlugIn, PlugOut, Tick, Vibrate,
        CancelVibrate, Monitor, MonitorReturn, vars
<1> QED BY <1>3, <1>4

LEMMA NextChangesInv ==
    ASSUME ChangesInv, [Next]_vars
    PROVE  ChangesInv'
<1>1. EventsInv'
  BY NextEventsInv DEF ChangesInv
<1>2. CASE Loop
  <2>1. PICK r \in ReaderNames : LoopStep(r)
    BY <1>2 DEF Loop
  <2> QED BY <1>1, <2>1, ConfigureChanges, GetEventsChanges, ProcessChanges,
             NotifyAndFlushChanges DEF LoopStep, ChangesInv
<1>3. CASE Others
  BY <1>1, <1>3, OthersChanges DEF ChangesInv
<1> QED BY <1>2, <1>3 DEF Next, Others

\* For any number of threads that change the configuration, and of devices that come and go: as
\* long as the devices of a reader are configured with an old version there is a flag, a
\* reopening or a thread on its way that brings the new one, though only the first of several
\* changes wakes the hub and each reader has a lock of its own (InputReader.cpp 332-336,
\* 829-844); and the policy's list, which both readers write, is current when the thread comes
\* to the first hub and both have reported all there is (387-398).
THEOREM ChangesAlwaysSafe == Spec => []ChangesSafe
<1>1. ASSUME ChangesInv PROVE ChangesSafe
  <2>1. ChangeCarried
    BY <1>1 DEF ChangesInv, Carried, ChangeComes, Coming, ChangeCarried
  <2>2. ListCurrentAtRest
    BY <1>1 DEF ChangesInv, Reported, ListCurrentAtRest, ReaderNames
  <2> QED BY <2>1, <2>2 DEF ChangesSafe
<1> QED
  BY InitChangesInv, NextChangesInv, <1>1, PTL DEF Spec
=============================================================================
