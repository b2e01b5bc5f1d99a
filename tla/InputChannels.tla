--------------------------- MODULE InputChannels ----------------------------
(* The registration of one input channel                                      *)
(* (com_android_server_input_InputManagerService.cpp 1456-1534): the           *)
(* dispatcher keeps the channel, and the Java object keeps a callback that     *)
(* takes the channel out of the dispatcher if the object is disposed of while  *)
(* it is registered.  Each of the two changes is made under a lock of its own, *)
(* so that calls of two threads mix between them.  A thread in a call holds    *)
(* the object, which is therefore disposed of between calls only.              *)
EXTENDS Integers

CONSTANT Threads

VARIABLES
  registered, \* the dispatcher has the channel
  callback,   \* the object has the dispose callback
  disposed,   \* the object is gone
  step        \* per thread: "idle" or what its call does next

channelVars == <<registered, callback, disposed, step>>

Init ==
  /\ registered = FALSE /\ callback = FALSE /\ disposed = FALSE
  /\ step = [t \in Threads |-> "idle"]

\* nativeRegisterInputChannel: a channel the dispatcher has already is an error.
RegisterInputChannel(t) ==
  /\ ~disposed /\ step[t] = "idle"
  /\ registered' = TRUE
  /\ step' = [step EXCEPT ![t] = IF registered THEN "idle" ELSE "set callback"]
  /\ UNCHANGED <<callback, disposed>>

SetDisposeCallback(t) ==
  /\ step[t] = "set callback"
  /\ callback' = TRUE
  /\ step' = [step EXCEPT ![t] = "idle"]
  /\ UNCHANGED <<registered, disposed>>

\* nativeUnregisterInputChannel: the callback goes first; an unknown channel is ignored.
UnregisterInputChannel(t) ==
  \/ /\ ~disposed /\ step[t] = "idle"
     /\ callback' = FALSE
     /\ step' = [step EXCEPT ![t] = "unregister"]
     /\ UNCHANGED <<registered, disposed>>
  \/ /\ step[t] = "unregister"
     /\ registered' = FALSE
     /\ step' = [step EXCEPT ![t] = "idle"]
     /\ UNCHANGED <<callback, disposed>>

\* handleInputChannelDisposed
Dispose ==
  /\ ~disposed /\ \A t \in Threads : step[t] = "idle"
  /\ disposed' = TRUE /\ callback' = FALSE
  /\ registered' = (registered /\ ~callback)
  /\ UNCHANGED step

Next ==
  \/ \E t \in Threads : RegisterInputChannel(t) \/ SetDisposeCallback(t) \/ UnregisterInputChannel(t)
  \/ Dispose

Spec == Init /\ [][Next]_channelVars

\* However the calls of several threads mix, the dispatcher never keeps a channel whose object
\* is gone (1456-1534).
NoChannelLeft == disposed => ~registered
=============================================================================
