----------------------------- MODULE MCReadPath -----------------------------
(* The two ends of an input event's way, for liveness.  They share no          *)
(* variable: a behaviour picks one part and the other stands still.            *)
(*   window: one thread that reads the device and two that call the window     *)
(*           driver; every event it reads passes through the driver's list     *)
(*   input:  the input reader thread that polls both hubs, and a thread that   *)
(*           changes its policy                                                *)
EXTENDS WindowDispatch

VARIABLES
    part,
    step, log, plugged, plugs, hub, rd, local, delivered, lost, policyConfig, policyDevices,
    asking, holder, vibrations, monitor, monitors

Requesting == {"q1"}
Input == INSTANCE InputReaders WITH
    pc <- step, Requesters <- Requesting, TapDelay <- 1, StepDelay <- 1, Steps <- 2, MaxEvents <- 2,
    MaxChanges <- 1, MaxVibrations <- 0, MaxMonitors <- 0, MaxPlugs <- 0, Changes <- {"configure"}

inputVars == <<step, log, plugged, plugs, hub, rd, local, delivered, lost, policyConfig,
               policyDevices, asking, holder, vibrations, monitor, monitors>>
readVars == <<part, vars, inputVars>>

ReadInit == part \in {"window", "input"} /\ Init /\ Input!Init

ReadNext ==
    /\ part' = part
    /\ \/ part = "window" /\ Next /\ UNCHANGED inputVars
       \/ part = "input" /\ Input!Next /\ UNCHANGED vars

\* A thread that has not entered the driver owes nothing, so that the fairness
\* of the window driver needs no condition.
InputFairness ==
    /\ WF_inputVars(part = "input" /\ Input!Loop) /\ WF_inputVars(part = "input" /\ Input!Tick)
    /\ \A q \in Requesting : WF_inputVars(part = "input" /\ Input!Request(q))
ReadSpec == ReadInit /\ [][ReadNext]_readVars /\ Fairness /\ InputFairness

\* Events and timers reach the listener (InputReader.cpp 331-408, InputReaderZizhan.cpp 333-375).
EventsDelivered == Input!EventsDelivered

\* Every change of the configuration reaches the devices of both readers
\* (InputReader.cpp 332-336, 829-844).
ConfigurationSettles == Input!ConfigurationSettles
=============================================================================
