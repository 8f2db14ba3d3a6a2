--------------------------- MODULE OptimisticOracle ---------------------------
(***************************************************************************)
(* UMA's OptimisticOracleV3 as the contracts use it.  The oracle is not    *)
(* part of the repository: these operators say what ReportRegistry.sol,    *)
(* its fork tests and the skill's registry.js expect of it.                *)
(*                                                                         *)
(*  - assertTruth opens an assertion backed by the asserter's bond;        *)
(*  - until the liveness window closes, one disputer may post an equal     *)
(*    bond;                                                                *)
(*  - an undisputed assertion settles as true once the window has closed;  *)
(*  - a disputed one settles by the voters' verdict, and both bonds minus  *)
(*    the oracle's fee go to the winner;                                   *)
(*  - dispute and settle call the recipient back in the same transaction.  *)
(***************************************************************************)
EXTENDS BondToken

CONSTANTS
  AssertionId,   \* assertion ids, opaque to the registry
  Nobody,        \* address(0)
  Oracle,        \* the oracle's own address
  Store,         \* UMA's store: where the oracle's fee goes
  UmaBonds,      \* the values getMinimumBond may return
  OracleFee(_)   \* what the oracle keeps of a lost bond

ASSUME OracleAssumption ==
  /\ Nobody \notin Account
  /\ {Oracle, Store} \subseteq Account
  /\ UmaBonds \subseteq Nat \ {0}
  /\ \A b \in UmaBonds : OracleFee(b) \in 0..b

VARIABLES
  assertions,    \* assertions[a]: the assertion opened under id a
  minimumBond    \* what getMinimumBond returns now

oracleVars == <<assertions, minimumBond>>

Verdict == {"none", "true", "false"}

Assertion ==
  [asserter : Account \cup {Nobody}, bond : Nat, disputer : Account \cup {Nobody},
   expired : BOOLEAN, verdict : Verdict, settled : BOOLEAN]

NoAssertion ==
  [asserter |-> Nobody, bond |-> 0, disputer |-> Nobody,
   expired |-> FALSE, verdict |-> "none", settled |-> FALSE]

OracleInit ==
  /\ assertions = [a \in AssertionId |-> NoAssertion]
  /\ minimumBond \in UmaBonds

Exists(a)   == assertions[a].asserter # Nobody
Disputed(a) == assertions[a].disputer # Nobody

-----------------------------------------------------------------------------
\* assertTruth, the bond having been pulled from the asserter.
OpenAssertion(a, asserter, bond) ==
  /\ ~Exists(a)
  /\ assertions' = [assertions EXCEPT ![a] =
       [asserter |-> asserter, bond |-> bond, disputer |-> Nobody,
        expired |-> FALSE, verdict |-> "none", settled |-> FALSE]]

\* disputeAssertion is open: one dispute, inside the liveness window.
CanDispute(a) ==
  /\ Exists(a)
  /\ ~Disputed(a)
  /\ ~assertions[a].expired
  /\ ~assertions[a].settled

RecordDispute(a, disputer) ==
  assertions' = [assertions EXCEPT ![a].disputer = disputer]

\* settleAssertion is open, and would resolve the assertion this way.
ResolvesTrue(a) ==
  /\ Exists(a)
  /\ ~assertions[a].settled
  /\ IF Disputed(a) THEN assertions[a].verdict = "true" ELSE assertions[a].expired

ResolvesFalse(a) ==
  /\ Exists(a)
  /\ ~assertions[a].settled
  /\ Disputed(a)
  /\ assertions[a].verdict = "false"

RecordSettled(a) == assertions' = [assertions EXCEPT ![a].settled = TRUE]

\* What the oracle pays the winner, and the balances once it has paid.
WinnersShare(a) ==
  LET bond == assertions[a].bond
  IN  IF Disputed(a) THEN 2 * bond - OracleFee(bond) ELSE bond

FeeTaken(a) == IF Disputed(a) THEN OracleFee(assertions[a].bond) ELSE 0

OraclePays(b, a, winner) ==
  Transfer(Transfer(b, Oracle, Store, FeeTaken(a)), Oracle, winner, WinnersShare(a))

-----------------------------------------------------------------------------
\* The liveness window of assertion a closes.
LivenessElapses(a) ==
  /\ Exists(a)
  /\ ~assertions[a].expired
  /\ assertions' = [assertions EXCEPT ![a].expired = TRUE]
  /\ UNCHANGED <<balance, minimumBond>>

\* UMA's voters decide a disputed assertion, once.
VotersDecide(a, v) ==
  /\ Exists(a)
  /\ Disputed(a)
  /\ assertions[a].verdict = "none"
  /\ v \in Verdict \ {"none"}
  /\ assertions' = [assertions EXCEPT ![a].verdict = v]
  /\ UNCHANGED <<balance, minimumBond>>

\* UMA changes its minimum bond; open assertions keep theirs.
MinimumBondChanges(b) ==
  /\ b \in UmaBonds \ {minimumBond}
  /\ minimumBond' = b
  /\ UNCHANGED <<balance, assertions>>
=============================================================================
