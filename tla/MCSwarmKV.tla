----------------------------- MODULE MCSwarmKV -----------------------------
(***************************************************************************)
(* Instances of SwarmKV for TLC.                                           *)
(***************************************************************************)
EXTENDS SwarmKV, TLC

\* Keys are interchangeable, and so are callers.
Interchangeable == Permutations(Key) \cup Permutations(Caller)

\* The writer is one process that neither fails nor restarts.
SmoothNext ==
    \/ \E c \in Caller :
          \/ \E k \in Key, v \in Value : Put(c, k, v)
          \/ Answered(c)
    \/ Converge

SmoothSpec == Init /\ [][SmoothNext]_kvVars
=============================================================================
