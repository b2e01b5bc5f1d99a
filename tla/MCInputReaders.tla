--------------------------- MODULE MCInputReaders ---------------------------
(* Two instances of the input reader thread; a behaviour is one of them.      *)
(*   events:  input events, a timer of each kind, one thread that asks for    *)
(*            a change                                                        *)
(*   changes: two threads that ask for changes and one that monitors, while   *)
(*            devices are plugged in and out                                  *)
(* In events only q1 asks, so the symmetry of q1 and q2 joins no two of its   *)
(* states.                                                                    *)
EXTENDS InputReaders, TLC

CONSTANTS q1, q2

Eventful == INSTANCE InputReaders WITH
    Requesters <- {q1}, MaxChanges <- 1, MaxMonitors <- 0, MaxPlugs <- 0
Changing == INSTANCE InputReaders WITH
    MaxEvents <- 0, MaxVibrations <- 0

VARIABLE part

InputInit == part \in {"events", "changes"} /\ Init
InputNext ==
    /\ part' = part
    /\ \/ part = "events" /\ Eventful!Next
       \/ part = "changes" /\ Changing!Next
InputSpec == InputInit /\ [][InputNext]_<<part, vars>>

Symmetry == Permutations({q1, q2})
=============================================================================
