---- MODULE ActiveConfig ----
(***************************************************************************)
(* The change of the internal display's configuration (its refresh rate).  *)
(* The scheduler's timers, under mStateLock, and the main thread's         *)
(* messages write down the one that is desired, under mActiveConfigLock;   *)
(* the main thread takes it up in performSetActiveConfig, which holds that *)
(* lock only to copy it, tells the composer, and makes it the active one a *)
(* frame later, when the fence has signalled.  Who is told of the change   *)
(* is left out.                                                            *)
(***************************************************************************)
EXTENDS Naturals

CONSTANTS Configs,     \* the display's configurations
          Preferred,   \* the one the scheduler prefers when it is allowed
          First,       \* the active one at the start
          MaxRequests  \* bound: changes the timers and clients ask for

VARIABLES allowed,   \* mAllowedDisplayConfigs, {} for all of them
          desired,   \* mDesiredActiveConfig and mDesiredActiveConfigChanged
          upcoming,  \* mUpcomingActiveConfig
          active,    \* the display's active configuration
          composer,  \* the one the composer was told
          checking,  \* mCheckPendingFence
          taken,     \* the main thread's copy of desired, between two locks
          wake,      \* an invalidate is asked for
          requests,  \* the bound's count
          unseen     \* history: the desired one was ended and never looked at

vars == <<allowed, desired, upcoming, active, composer, checking, taken, wake, requests, unseen>>

Init ==
    /\ allowed = {}
    /\ desired = [config |-> First, changed |-> FALSE]
    /\ upcoming = First /\ active = First /\ composer = First
    /\ checking = FALSE /\ taken = {} /\ wake = FALSE
    /\ requests = 0 /\ unseen = FALSE

IsDisplayConfigAllowed(c, set) == set = {} \/ c \in set

\* Mutant: the first wish asks for no frame
SetDesiredQuietly(c) ==
    desired' = [config |-> c, changed |-> TRUE] /\ unseen' = FALSE /\ wake' = wake
\* the wish replaces the one before; the first one asks for a frame
SetDesiredActiveConfig(c) ==
    /\ desired' = [config |-> c, changed |-> TRUE] /\ unseen' = FALSE
    /\ wake' = (wake \/ ~desired.changed)

\* a timer or the content detection of the scheduler wants another rate
SetRefreshRateTo(c) ==
    /\ requests < MaxRequests /\ requests' = requests + 1
    /\ IsDisplayConfigAllowed(c, allowed)
    /\ SetDesiredActiveConfig(c)
    /\ UNCHANGED <<allowed, upcoming, active, composer, checking, taken>>

\* a client changes the allowed ones, in a message to the main thread, which
\* is not in the middle of a frame
SetAllowedDisplayConfigs(set) ==
    /\ taken = {} /\ requests < MaxRequests /\ requests' = requests + 1
    /\ set # {} /\ set # allowed /\ allowed' = set
    /\ IF IsDisplayConfigAllowed(Preferred, set) THEN SetDesiredActiveConfig(Preferred)
       ELSE \E c \in set : SetDesiredActiveConfig(c)
    /\ UNCHANGED <<upcoming, active, composer, checking, taken>>

----
(* performSetActiveConfig, at the start of a frame of the main thread *)

\* A frame whose fence has not signalled asks for another and changes nothing.

\* setActiveConfigInternal
SetActiveConfigInternal == active' = upcoming

\* the fence has signalled, and the desired configuration is copied under its lock
TakeDesired ==
    /\ taken = {} /\ wake
    /\ wake' = FALSE /\ checking' = FALSE
    /\ IF checking THEN SetActiveConfigInternal ELSE UNCHANGED active
    /\ taken' = IF desired.changed THEN {desired.config} ELSE {}
    /\ UNCHANGED <<allowed, desired, upcoming, composer, requests, unseen>>

\* desiredActiveConfigChangeDone for the copy c: it ends the wish there is,
\* which since the copy may have become another
DesiredActiveConfigChangeDone(c) ==
    /\ desired' = [desired EXCEPT !.changed = FALSE]
    /\ unseen' = (desired.config # c)

\* nothing to change, or no longer allowed: the wish is done with; else the
\* composer is told and the fence of the next frame waited for
UseTaken(c) ==
    /\ taken = {c} /\ taken' = {}
    /\ IF active = c \/ ~IsDisplayConfigAllowed(c, allowed)
       THEN DesiredActiveConfigChangeDone(c) /\ UNCHANGED <<upcoming, composer, checking, wake>>
       ELSE /\ upcoming' = c /\ composer' = c
            /\ checking' = TRUE /\ wake' = TRUE
            /\ UNCHANGED <<desired, unseen>>
    /\ UNCHANGED <<allowed, active, requests>>

Main == TakeDesired \/ \E c \in Configs : UseTaken(c)
Next ==
    \/ Main
    \/ \E c \in Configs : SetRefreshRateTo(c)
    \/ \E set \in SUBSET Configs : SetAllowedDisplayConfigs(set)

\* The main thread gets its frames and fences signal.
Fairness == WF_vars(Main)
Spec == Init /\ [][Next]_vars /\ Fairness

----
(* Properties *)

\* When no change is under way the composer shows the configuration the
\* display has, and it is one of those allowed, in whatever order the wishes
\* and the change of what is allowed came.
AllowedAtRest ==
    ~desired.changed /\ ~checking /\ taken = {} =>
        active = composer /\ IsDisplayConfigAllowed(active, allowed)

\* A wish that was looked at is what the display has when no change is under
\* way, or it is not allowed.  The exception is real: a wish for another
\* configuration that comes between the copy and the end of the wish copied is
\* ended with it (SurfaceFlinger.cpp 1029, 997), against :929 "Worst case we
\* set the desired config twice".
WishKept ==
    ~desired.changed /\ ~checking /\ taken = {} /\ ~unseen
        /\ IsDisplayConfigAllowed(desired.config, allowed)
            => active = desired.config /\ composer = desired.config

\* A wish is shown by the composer and the display, unless another one replaces
\* it, what is allowed comes to exclude it, or it is ended unseen.
WishTakesEffect ==
    \A c \in Configs :
        desired.changed /\ desired.config = c
            ~> \/ active = c /\ composer = c
               \/ desired.config # c \/ ~IsDisplayConfigAllowed(c, allowed) \/ unseen
====
