------------------------- MODULE ResumableDownload --------------------------
(***************************************************************************)
(* What downloadImage promises (imager.mjs:14-16, 191-195): whatever is    *)
(* interrupted, a packet that is kept is never downloaded again, and an    *)
(* image is composed only when every packet is there.  What is downloaded  *)
(* is kept once state.json lists it; a call that ends before that has      *)
(* downloaded it in vain.                                                  *)
(***************************************************************************)
CONSTANT Packet
VARIABLES
    have,       \* packets that are kept
    fetched,    \* packets that were downloaded and are not kept yet
    composed,   \* whether an image was composed
    lost        \* the user removed the packets, once

Init == have = {} /\ fetched = {} /\ composed = FALSE /\ lost = FALSE

Fetch(i) ==
    /\ i \notin have \cup fetched
    /\ fetched' = fetched \cup {i}
    /\ UNCHANGED <<have, composed, lost>>

Keep(i) ==
    /\ i \in fetched
    /\ have' = have \cup {i}
    /\ fetched' = fetched \ {i}
    /\ UNCHANGED <<composed, lost>>

\* The call ends, or what it downloaded was removed.
Waste(i) ==
    /\ i \in fetched
    /\ fetched' = fetched \ {i}
    /\ UNCHANGED <<have, composed, lost>>

Compose ==
    /\ have = Packet
    /\ composed' = TRUE
    /\ UNCHANGED <<have, fetched, lost>>

Lose ==
    /\ ~lost /\ lost' = TRUE
    /\ have' = {}
    /\ UNCHANGED <<fetched, composed>>

Next == Compose \/ Lose \/ \E i \in Packet : Fetch(i) \/ Keep(i) \/ Waste(i)

Spec == Init /\ [][Next]_<<have, fetched, composed, lost>>
=============================================================================
