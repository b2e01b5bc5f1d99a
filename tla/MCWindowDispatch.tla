-------------------------- MODULE MCWindowDispatch --------------------------
(* Instances of WindowDispatch for TLC, with a history of the walks that no *)
(* other walk overlapped.                                                   *)
EXTENDS WindowDispatch, TLC

VARIABLE alone    \* the readers whose walk met no other walk so far

\* Whether reader r is between the dequeue and the end of its walk.
InWalk(loc, r) == loc[r] \in {"policy", "deliver", "memcpy"}

SoloInit == Init /\ alone = {}

SoloNext ==
    /\ Next
    /\ alone' = {r \in Readers :
                    /\ InWalk(pc', r) \/ pc'[r] = "copy_to_user"
                    /\ r \in alone \/ pc[r] = "dispatch"
                    /\ \A q \in Readers \ {r} : ~InWalk(pc', q)}

SoloSpec == SoloInit /\ [][SoloNext]_<<vars, alone>>

\* Each thread may dispatch the event another one enqueued (dispatcher.c 29-51,
\* input-compat.c 66-107).  A walk that no other one overlapped leaves what it
\* dispatched, and nothing else, in a buffer it copied to; overlapping walks
\* leave older events or mixtures.
AloneShown ==
    \A r \in alone : pc[r] = "copy_to_user" /\ got[r] # {} =>
        \E b \in Buffers : mem[b] = {ev[r]}

\* Readers, callers and windows are interchangeable, for the safety run.
WindowSymmetry ==
    Permutations(Readers) \cup Permutations(Callers) \cup Permutations(Nodes)
=============================================================================
