------------------------------ MODULE Lighthouse ------------------------------
(***************************************************************************)
(* The vessel half of contracts/src/Lighthouse.sol: one wrapped ENS name   *)
(* imo-<n>.vessel.phare.eth per vessel, minted by Lighthouse on the first  *)
(* upheld sighting, sealed to it by fuses, with text records that only     *)
(* the report registry can refresh.                                        *)
(*                                                                         *)
(* The NameWrapper and the resolver are not part of the repository.  What  *)
(* Lighthouse.sol and its tests rely on: a child name whose                *)
(* PARENT_CANNOT_CONTROL fuse is burnt cannot be minted again by the       *)
(* parent or its operators, and only the owner of a wrapped name writes    *)
(* its records.  A call that breaks either rule reverts.                   *)
(***************************************************************************)
EXTENDS Naturals

CONSTANTS
  Imo,            \* IMO numbers of vessels
  Meta,           \* what a report says of a vessel: metadata, country, cargo, position
  Image,          \* orbital corroborations: image, its hash and the prediction
  NoText,         \* a text record nobody has set
  ClaimedImos     \* vessels an earlier deployment named under the same parent

ASSUME LighthouseAssumption ==
  /\ ClaimedImos \subseteq Imo
  /\ NoText \notin Meta \cup Image \cup Nat

VARIABLES
  vessel,             \* vessel[i]: owner, fuses and text records of imo-<i>
  operatorApproved    \* the parent names' owner has made Lighthouse its operator

lighthouseVars == <<vessel, operatorApproved>>

Owner == {"none", "lighthouse", "parent", "earlier"}
Fuse  == {"PARENT_CANNOT_CONTROL", "CANNOT_TRANSFER", "CANNOT_UNWRAP"}

\* Faulty variant of FusesVessel: the parent keeps control of the name.
FusesVesselUnsealed == {"CANNOT_TRANSFER", "CANNOT_UNWRAP"}

\* FUSES_VESSEL
FusesVessel == {"PARENT_CANNOT_CONTROL", "CANNOT_TRANSFER", "CANNOT_UNWRAP"}

VesselName ==
  [owner : Owner, fuses : SUBSET Fuse,
   log : Meta \cup {NoText}, count : Nat \cup {NoText},
   disputed : Nat \cup {NoText}, orbital : Image \cup {NoText}]

LighthouseTypeOK ==
  /\ vessel \in [Imo -> VesselName]
  /\ operatorApproved \in BOOLEAN

Unnamed ==
  [owner |-> "none", fuses |-> {}, log |-> NoText, count |-> NoText,
   disputed |-> NoText, orbital |-> NoText]

\* A name minted, and sealed to it, by an earlier deployment's Lighthouse.
NamedEarlier ==
  [owner |-> "earlier", fuses |-> FusesVessel, log |-> NoText, count |-> NoText,
   disputed |-> NoText, orbital |-> NoText]

LighthouseInit ==
  /\ vessel = [i \in Imo |->
       IF i \in ClaimedImos THEN NamedEarlier ELSE Unnamed]
  /\ operatorApproved = FALSE

-----------------------------------------------------------------------------
\* nameVessel: mint the name to Lighthouse itself, seal it, and set the
\* first records.  The two sighting counters are not among them.
NameVessel(imo, meta) ==
  /\ operatorApproved
  /\ "PARENT_CANNOT_CONTROL" \notin vessel[imo].fuses
  /\ vessel' = [vessel EXCEPT ![imo].owner = "lighthouse",
                              ![imo].fuses = FusesVessel,
                              ![imo].log   = meta]
  /\ UNCHANGED operatorApproved

\* Faulty variant of RecordSighting: the two counters change places.
RecordSightingSwapped(imo, meta, sightings, disputed) ==
  /\ vessel[imo].owner = "lighthouse"
  /\ vessel' = [vessel EXCEPT ![imo].log      = meta,
                              ![imo].count    = disputed,
                              ![imo].disputed = sightings]
  /\ UNCHANGED operatorApproved

\* recordSighting: refresh the records of a named vessel.
RecordSighting(imo, meta, sightings, disputed) ==
  /\ vessel[imo].owner = "lighthouse"
  /\ vessel' = [vessel EXCEPT ![imo].log      = meta,
                              ![imo].count    = sightings,
                              ![imo].disputed = disputed]
  /\ UNCHANGED operatorApproved

\* recordOrbital: add an orbital corroboration to a named vessel.
RecordOrbital(imo, image) ==
  /\ vessel[imo].owner = "lighthouse"
  /\ vessel' = [vessel EXCEPT ![imo].orbital = image]
  /\ UNCHANGED operatorApproved

\* The owner of the parent names approves Lighthouse (setApprovalForAll).
ApproveOperator ==
  /\ ~operatorApproved
  /\ operatorApproved' = TRUE
  /\ UNCHANGED vessel

\* The owner of the parent names mints or takes over a child name, which
\* the NameWrapper allows while PARENT_CANNOT_CONTROL is not burnt.
ParentTakes(imo) ==
  /\ "PARENT_CANNOT_CONTROL" \notin vessel[imo].fuses
  /\ vessel[imo].owner # "parent"
  /\ vessel' = [vessel EXCEPT ![imo].owner = "parent"]
  /\ UNCHANGED operatorApproved
=============================================================================
