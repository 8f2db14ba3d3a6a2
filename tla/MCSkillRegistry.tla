--------------------------- MODULE MCSkillRegistry ---------------------------
(***************************************************************************)
(* Two runs of the publishing tool, as the repository has it: both with    *)
(* the deployer's key, which also signs the orbital record.                *)
(***************************************************************************)
EXTENDS SkillRegistry, TLC

CONSTANTS deployer, verifier

Wallets == [p \in Run |-> IF p \in Disputer THEN verifier ELSE deployer]

Interchangeable == Permutations(Publisher) \cup Permutations(Attestor)
=============================================================================
