----------------------------- MODULE BondedClaim -----------------------------
(***************************************************************************)
(* What the report registry promises, with every contract it is made of    *)
(* left out: claims are opened against a bond held in escrow; a claim may  *)
(* be contested once; an uncontested claim can only be upheld; only a      *)
(* contested claim can be slashed; a closed claim stays closed; and the    *)
(* escrow gives up one bond per claim that closes, never more.             *)
(***************************************************************************)
EXTENDS Integers

CONSTANTS
  ClaimId,   \* the claims that may be opened
  Bond       \* the bond behind each

VARIABLES
  claim,     \* claim[c]: the stage claim c is in
  escrow     \* what is held

Stage == {"none", "open", "contested", "upheld", "slashed"}

Init ==
  /\ claim = [c \in ClaimId |-> "none"]
  /\ escrow = 0

Move(c, from, to) ==
  /\ claim[c] \in from
  /\ claim' = [claim EXCEPT ![c] = to]

OpenClaim(c) ==
  /\ Move(c, {"none"}, "open")
  /\ escrow' = escrow + Bond

Contest(c) ==
  /\ Move(c, {"open"}, "contested")
  /\ UNCHANGED escrow

\* Winning an uncontested claim returns the bond; winning a contested one
\* may leave some of what the loser forfeited in escrow.
Uphold(c) ==
  \/ /\ Move(c, {"open"}, "upheld")
     /\ escrow' = escrow - Bond
  \/ /\ Move(c, {"contested"}, "upheld")
     /\ escrow' >= escrow - Bond

Slash(c) ==
  /\ Move(c, {"contested"}, "slashed")
  /\ escrow' = escrow - Bond

Next == \E c \in ClaimId : OpenClaim(c) \/ Contest(c) \/ Uphold(c) \/ Slash(c)

Spec == Init /\ [][Next]_<<claim, escrow>>
=============================================================================
