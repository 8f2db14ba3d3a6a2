-------------------------- MODULE MCVerifierAgent --------------------------
(***************************************************************************)
(* Instances of VerifierAgent for TLC.                                     *)
(***************************************************************************)
EXTENDS VerifierAgent, TLC

\* Nothing fails except the fetching of metadata.
SmoothNext ==
    \/ ChainStep
    \/ RivalEnrols
    \/ Fund
    \/ EditIdentity
    \/ Onboarding
    \/ Tick

SmoothSpec == Init /\ [][SmoothNext]_agentVars
=============================================================================
