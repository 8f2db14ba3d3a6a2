---------------------------- MODULE ReportRegistry ----------------------------
(***************************************************************************)
(* contracts/src/ReportRegistry.sol composed with the contracts it calls   *)
(* and is called by: the bond currency, the slash pool, UMA's oracle and   *)
(* Lighthouse.  One action is one transaction: it either takes effect as a *)
(* whole or, when a require or a called contract reverts, not at all, so   *)
(* the guards of an action are every require on its path.                  *)
(***************************************************************************)
EXTENDS SlashPool, OptimisticOracle, Lighthouse, Totals

CONSTANTS
  Reporters,        \* accounts that submit reports
  Verifiers,        \* accounts that dispute them
  Registry,         \* the registry's own address
  Treasury,         \* the account paid 20% of a slashed bond
  ProtocolBond,     \* the bond a reporter escrows with the registry
  InitialBalance,   \* what each reporter and verifier starts with
  NoImo,            \* imo = 0
  EmptyMeta,        \* the empty metadata reference
  NoImage,          \* imageHash = 0
  NoId,             \* the zero assertion id
  WiredFirst,       \* the deployer wires Lighthouse before anyone submits
  OutsideDeposits   \* bound: amounts others deposit, once per report

ASSUME RegistryAssumption ==
  /\ MaxReports \in Nat
  /\ ProtocolBond \in Nat \ {0}
  /\ InitialBalance \in Nat
  /\ WiredFirst \in BOOLEAN
  /\ OutsideDeposits \subseteq Nat
  /\ Reporters \cup Verifiers \cup {Registry, Treasury, Pool} \subseteq Account
  /\ {Registry, Pool, Oracle, Store} \cap (Reporters \cup Verifiers) = {}
  /\ Registry \notin {Treasury, Pool, Oracle, Store}
  /\ Pool \notin {Oracle, Store}
  /\ NoImo \notin Imo
  /\ EmptyMeta \notin Meta \cup {NoText}
  /\ NoImage \notin Image \cup {NoText}
  /\ NoId \notin AssertionId

VARIABLES
  lighthouse,          \* Lighthouse has been wired to the registry
  reportCount,         \* how many reports were submitted
  reports,             \* reports[r]
  assertionToReport,   \* assertionToReport[a]: the report asserted under a, or 0
  sightingsByImo,      \* per vessel: upheld sightings
  disputedByImo,       \* per vessel: upheld sightings that had been disputed
  vesselNamed,         \* per vessel: its ENS name was minted
  signed               \* corroborations <<report, image>> the attestor has signed

registryVars ==
  <<lighthouse, reportCount, reports, assertionToReport,
    sightingsByImo, disputedByImo, vesselNamed>>

vars == <<balance, poolVars, oracleVars, lighthouseVars, registryVars, signed>>

-----------------------------------------------------------------------------
PENDING       == 0
DISPUTED      == 1
SETTLED_TRUE  == 2
SETTLED_FALSE == 3

Report ==
  [reporter : Reporters \cup {Nobody}, bond : Nat, umaBond : Nat,
   status : PENDING..SETTLED_FALSE, imo : Imo \cup {NoImo},
   meta : Meta \cup {EmptyMeta}, assertionId : AssertionId \cup {NoId},
   orbitalAttested : BOOLEAN, orbitalImage : Image \cup {NoImage}]

\* A slot of the reports mapping nobody has written yet.
NoReport ==
  [reporter |-> Nobody, bond |-> 0, umaBond |-> 0, status |-> PENDING,
   imo |-> NoImo, meta |-> EmptyMeta, assertionId |-> NoId,
   orbitalAttested |-> FALSE, orbitalImage |-> NoImage]

Submitted == 1..reportCount
Open      == {r \in Submitted : reports[r].status \in {PENDING, DISPUTED}}

\* The split of a slashed bond; the treasury takes what rounding leaves.
BPS_DENOM        == 10000
DisputerShare(b) == (b * 5000) \div BPS_DENOM
PoolShare(b)     == (b * 3000) \div BPS_DENOM
TreasuryShareRemainder(b) == b - DisputerShare(b)   \* faulty: forgets the pool's share
TreasuryShareRounded(b)   == (b * 2000) \div BPS_DENOM   \* faulty: leaves the remainder
TreasuryShare(b) == b - DisputerShare(b) - PoolShare(b)

\* Faulty variant of Refund: UMA's minimum bond as it is now, not as it was
\* when the report was submitted.
RefundAtCurrentMinimum(report) == report.bond + minimumBond

\* What an upheld reporter gets back.
Refund(report) == report.bond + report.umaBond

\* Faulty variant of ValidSignature: the signed digest leaves out the report.
SignatureForAnyReport(r, image) == \E s \in signed : s[2] = image

\* attest's signature check: the attestor signed this image for this report.
ValidSignature(r, image) == <<r, image>> \in signed

-----------------------------------------------------------------------------
Init ==
  /\ balance = [x \in Account |->
                  IF x \in Reporters \cup Verifiers THEN InitialBalance ELSE 0]
  /\ PoolInit
  /\ OracleInit
  /\ LighthouseInit
  /\ lighthouse = FALSE
  /\ reportCount = 0
  /\ reports = [r \in ReportId |-> NoReport]
  /\ assertionToReport = [a \in AssertionId |-> 0]
  /\ sightingsByImo = [i \in Imo |-> 0]
  /\ disputedByImo = [i \in Imo |-> 0]
  /\ vesselNamed = [i \in Imo |-> FALSE]
  /\ signed = {}

\* setLighthouse: by the admin, once.
SetLighthouse ==
  /\ ~lighthouse
  /\ lighthouse' = TRUE
  /\ UNCHANGED <<balance, poolVars, oracleVars, lighthouseVars, reportCount, reports,
                 assertionToReport, sightingsByImo, disputedByImo, vesselNamed, signed>>

\* Faulty variant of MapAssertion: the report's id is taken before the
\* counter is incremented.
MapAssertionTooEarly(a, id) == assertionToReport' = [assertionToReport EXCEPT ![a] = id - 1]

MapAssertion(a, id) == assertionToReport' = [assertionToReport EXCEPT ![a] = id]

\* Faulty variant of NextId: ids follow the number of open reports, so the
\* id of a settled report is used again.
NextIdByOpenReports == Cardinality(Open) + 1

NextId == reportCount + 1

\* submit: pull both bonds from the reporter, hand UMA's to the oracle,
\* open the assertion and record the report under the next id.
Submit(p, imo, meta, a) ==
  LET umaBond == minimumBond
      pulled  == Transfer(balance, p, Registry, ProtocolBond + umaBond)
      id      == NextId
  IN  /\ reportCount < MaxReports
      /\ WiredFirst => lighthouse
      /\ imo # NoImo
      /\ meta # EmptyMeta
      /\ Funded(balance, p, ProtocolBond + umaBond)
      /\ OpenAssertion(a, Registry, umaBond)
      /\ balance' = Transfer(pulled, Registry, Oracle, umaBond)
      /\ reportCount' = id
      /\ reports' = [reports EXCEPT ![id] =
           [reporter |-> p, bond |-> ProtocolBond, umaBond |-> umaBond,
            status |-> PENDING, imo |-> imo, meta |-> meta, assertionId |-> a,
            orbitalAttested |-> FALSE, orbitalImage |-> NoImage]]
      /\ MapAssertion(a, id)
      /\ UNCHANGED <<poolVars, minimumBond, lighthouseVars, lighthouse,
                     sightingsByImo, disputedByImo, vesselNamed, signed>>

\* An assertion somebody else opens on the oracle that names the registry
\* as callback recipient.
AssertElsewhere(p, a) ==
  /\ Funded(balance, p, minimumBond)
  /\ OpenAssertion(a, p, minimumBond)
  /\ balance' = Transfer(balance, p, Oracle, minimumBond)
  /\ UNCHANGED <<poolVars, minimumBond, lighthouseVars, registryVars, signed>>

-----------------------------------------------------------------------------
\* Faulty variant of AssertionDisputedCallback: the status is not flipped.
AssertionDisputedCallbackSilent(a) ==
  /\ assertionToReport[a] # 0
  /\ reports[assertionToReport[a]].status = PENDING
  /\ UNCHANGED reports

\* assertionDisputedCallback, called by the oracle.
AssertionDisputedCallback(a) ==
  LET r == assertionToReport[a]
  IN  /\ r # 0
      /\ reports[r].status = PENDING
      /\ reports' = [reports EXCEPT ![r].status = DISPUTED]

\* disputeAssertion on the oracle: the disputer posts a bond equal to the
\* asserter's, and the registry is called back.
DisputeAssertion(v, a) ==
  /\ CanDispute(a)
  /\ Funded(balance, v, assertions[a].bond)
  /\ balance' = Transfer(balance, v, Oracle, assertions[a].bond)
  /\ RecordDispute(a, v)
  /\ AssertionDisputedCallback(a)
  /\ UNCHANGED <<poolVars, minimumBond, lighthouseVars, lighthouse, reportCount,
                 assertionToReport, sightingsByImo, disputedByImo, vesselNamed, signed>>

\* Faulty variant of CountSighting: every sighting counts as disputed.
CountSightingAsDisputed(imo, wasDisputed) ==
  /\ sightingsByImo' = [sightingsByImo EXCEPT ![imo] = @ + 1]
  /\ disputedByImo' = [disputedByImo EXCEPT ![imo] = @ + 1]

\* What _onTruthfulSettlement counts: sightings, and disputed ones apart.
CountSighting(imo, wasDisputed) ==
  /\ sightingsByImo' = [sightingsByImo EXCEPT ![imo] = @ + 1]
  /\ disputedByImo' = [disputedByImo EXCEPT ![imo] = IF wasDisputed THEN @ + 1 ELSE @]

\* Faulty variant of OnTruthfulSettlement: the vessel is named but not
\* flagged as named.
OnTruthfulSettlementUnflagged(imo, meta, wasDisputed) ==
  IF lighthouse
  THEN CountSighting(imo, wasDisputed) /\ NameVessel(imo, meta) /\ UNCHANGED vesselNamed
  ELSE UNCHANGED <<lighthouseVars, sightingsByImo, disputedByImo, vesselNamed>>

\* _onTruthfulSettlement: once Lighthouse is wired, count the sighting and
\* name the vessel, or refresh the records of one already named.
OnTruthfulSettlement(imo, meta, wasDisputed) ==
  \/ /\ ~lighthouse
     /\ UNCHANGED <<lighthouseVars, sightingsByImo, disputedByImo, vesselNamed>>
  \/ /\ lighthouse
     /\ CountSighting(imo, wasDisputed)
     /\ ~vesselNamed[imo]
     /\ vesselNamed' = [vesselNamed EXCEPT ![imo] = TRUE]
     /\ NameVessel(imo, meta)
  \/ /\ lighthouse
     /\ CountSighting(imo, wasDisputed)
     /\ vesselNamed[imo]
     /\ RecordSighting(imo, meta, sightingsByImo'[imo], disputedByImo'[imo])
     /\ UNCHANGED vesselNamed

\* settleAssertion when the assertion holds: the oracle pays the registry,
\* then assertionResolvedCallback(a, true) refunds the reporter.
SettleTruthful(a) ==
  LET r      == assertionToReport[a]
      paid   == OraclePays(balance, a, Registry)
      refund == Refund(reports[r])
  IN  /\ ResolvesTrue(a)
      /\ r # 0
      /\ reports[r].status \in {PENDING, DISPUTED}
      /\ Funded(balance, Oracle, FeeTaken(a) + WinnersShare(a))
      /\ Funded(paid, Registry, refund)
      /\ balance' = Transfer(paid, Registry, reports[r].reporter, refund)
      /\ RecordSettled(a)
      /\ reports' = [reports EXCEPT ![r].status = SETTLED_TRUE]
      /\ OnTruthfulSettlement(reports[r].imo, reports[r].meta, reports[r].status = DISPUTED)
      /\ UNCHANGED <<poolVars, minimumBond, lighthouse, reportCount,
                     assertionToReport, signed>>

\* settleAssertion when the voters found against the reporter: the oracle
\* pays the disputer, then assertionResolvedCallback(a, false) splits the
\* protocol bond between disputer, slash pool and treasury.
SettleFalse(a) ==
  LET r        == assertionToReport[a]
      disputer == assertions[a].disputer
      bond     == reports[r].bond
      paid     == OraclePays(balance, a, disputer)
      split1   == Transfer(paid, Registry, disputer, DisputerShare(bond))
      split2   == Transfer(split1, Registry, Pool, PoolShare(bond))
  IN  /\ ResolvesFalse(a)
      /\ r # 0
      /\ reports[r].status \in {PENDING, DISPUTED}
      /\ disputer # Nobody
      /\ Funded(balance, Oracle, FeeTaken(a) + WinnersShare(a))
      /\ Funded(paid, Registry, DisputerShare(bond))
      /\ PoolAccepts(split1, Registry, PoolShare(bond))
      /\ Funded(split2, Registry, TreasuryShare(bond))
      /\ balance' = Transfer(split2, Registry, Treasury, TreasuryShare(bond))
      /\ BookDeposit(r, PoolShare(bond))
      /\ RecordSettled(a)
      /\ reports' = [reports EXCEPT ![r].status = SETTLED_FALSE]
      /\ UNCHANGED <<minimumBond, lighthouseVars, lighthouse, reportCount, assertionToReport,
                     sightingsByImo, disputedByImo, vesselNamed, signed>>

Settle(a) == SettleTruthful(a) \/ SettleFalse(a)

-----------------------------------------------------------------------------
\* The attestor's key signs a corroboration of a submitted report, off chain.
SignCorroboration(r, image) ==
  /\ r \in Submitted
  /\ <<r, image>> \notin signed
  /\ signed' = signed \cup {<<r, image>>}
  /\ UNCHANGED <<balance, poolVars, oracleVars, lighthouseVars, registryVars>>

\* attest: bind a signed corroboration to a report that was upheld.
Attest(r, image) ==
  /\ reports[r].reporter # Nobody
  /\ reports[r].status = SETTLED_TRUE
  /\ ~reports[r].orbitalAttested
  /\ image # NoImage
  /\ ValidSignature(r, image)
  /\ reports' = [reports EXCEPT ![r].orbitalAttested = TRUE, ![r].orbitalImage = image]
  /\ \/ ~lighthouse /\ UNCHANGED lighthouseVars
     \/ lighthouse  /\ RecordOrbital(reports[r].imo, image)
  /\ UNCHANGED <<balance, poolVars, oracleVars, lighthouse, reportCount, assertionToReport,
                 sightingsByImo, disputedByImo, vesselNamed, signed>>

\* The actions of the contracts the registry does not call back into.
OracleStep ==
  /\ \/ \E a \in AssertionId : LivenessElapses(a)
     \/ \E a \in AssertionId, v \in Verdict : VotersDecide(a, v)
     \/ \E b \in UmaBonds : MinimumBondChanges(b)
  /\ UNCHANGED <<poolVars, lighthouseVars, registryVars, signed>>

DeployerApproves ==
  /\ ApproveOperator
  /\ UNCHANGED <<balance, poolVars, oracleVars, registryVars, signed>>

ParentOwnerTakes ==
  /\ \E i \in Imo : ParentTakes(i)
  /\ UNCHANGED <<balance, poolVars, oracleVars, registryVars, signed>>

OutsideDeposit ==
  /\ \E p \in Verifiers, r \in ReportId, amount \in OutsideDeposits :
       /\ depositOf[r] = 0
       /\ DepositSlash(p, r, amount)
  /\ UNCHANGED <<oracleVars, lighthouseVars, registryVars, signed>>

Next ==
  \/ SetLighthouse
  \/ DeployerApproves
  \/ ParentOwnerTakes
  \/ \E p \in Reporters, i \in Imo \cup {NoImo}, m \in Meta \cup {EmptyMeta}, a \in AssertionId :
       Submit(p, i, m, a)
  \/ \E p \in Verifiers, a \in AssertionId : AssertElsewhere(p, a)
  \/ \E v \in Verifiers, a \in AssertionId : DisputeAssertion(v, a)
  \/ \E a \in AssertionId : Settle(a)
  \/ \E r \in ReportId, g \in Image : SignCorroboration(r, g)
  \/ \E r \in ReportId, g \in Image \cup {NoImage} : Attest(r, g)
  \/ OracleStep
  \/ OutsideDeposit

Spec == Init /\ [][Next]_vars

(***************************************************************************)
(* Fairness.  Time passes, UMA's voters decide what is put to them, and    *)
(* the deployer completes the set-up; settleAssertion may be called by     *)
(* anyone, and the web app (useReportSubmit), the skill and VesselSettle   *)
(* all call it once the window has closed.  Nobody is obliged to submit,   *)
(* dispute, sign or attest.                                                *)
(***************************************************************************)
Fairness ==
  /\ \A a \in AssertionId :
       /\ WF_vars(LivenessElapses(a) /\ UNCHANGED <<poolVars, lighthouseVars, registryVars, signed>>)
       /\ WF_vars(\E v \in Verdict : VotersDecide(a, v) /\ UNCHANGED <<poolVars, lighthouseVars, registryVars, signed>>)
       /\ WF_vars(Settle(a))
  /\ WF_vars(SetLighthouse)
  /\ WF_vars(DeployerApproves)

FairSpec == Spec /\ Fairness

-----------------------------------------------------------------------------
(***************************************************************************)
(* Invariants.                                                             *)
(***************************************************************************)

\* Type invariant of the composed contracts: no balance, counter or deposit
\* ever goes below zero, and every record stays in its type.
TypeOK ==
  /\ balance \in [Account -> Nat]
  /\ depositOf \in [ReportId -> Nat]
  /\ totalDeposited \in Nat
  /\ assertions \in [AssertionId -> Assertion]
  /\ minimumBond \in UmaBonds
  /\ LighthouseTypeOK
  /\ lighthouse \in BOOLEAN
  /\ reportCount \in 0..MaxReports
  /\ reports \in [ReportId -> Report]
  /\ assertionToReport \in [AssertionId -> 0..MaxReports]
  /\ sightingsByImo \in [Imo -> Nat]
  /\ disputedByImo \in [Imo -> Nat]
  /\ vesselNamed \in [Imo -> BOOLEAN]
  /\ signed \subseteq ReportId \X Image

\* The registry's view of a report never diverges from the oracle's view of
\* the assertion behind it, although each learns of the other's steps only
\* through callbacks: pending iff unsettled and undisputed, disputed iff
\* unsettled with a disputer, and so on; both also agree on the bond.
StatusAgreesWithOracle ==
  \A r \in Submitted :
    LET assertion == assertions[reports[r].assertionId]
        disputed  == assertion.disputer # Nobody
        status    == reports[r].status
    IN  /\ assertion.asserter = Registry
        /\ assertion.bond = reports[r].umaBond
        /\ status = PENDING  <=> ~assertion.settled /\ ~disputed
        /\ status = DISPUTED <=> ~assertion.settled /\ disputed
        /\ status = SETTLED_FALSE =>
             assertion.settled /\ disputed /\ assertion.verdict = "false"
        /\ status = SETTLED_TRUE =>
             assertion.settled /\ (disputed => assertion.verdict = "true")

\* Reports and the registry's own assertions are in one-to-one
\* correspondence, whatever other assertions name the registry as their
\* callback recipient.
OneAssertionPerReport ==
  /\ \A r \in Submitted : reports[r].assertionId \in AssertionId
                         /\ assertionToReport[reports[r].assertionId] = r
  /\ \A a \in AssertionId :
       /\ assertionToReport[a] # 0 => /\ assertionToReport[a] \in Submitted
                                      /\ reports[assertionToReport[a]].assertionId = a
       /\ assertionToReport[a] # 0 <=> assertions[a].asserter = Registry

\* The registry always holds the protocol bond of every report that is
\* still open, so neither a refund nor a split can fail for want of funds,
\* in whatever order the reports are settled.
Solvent == balance[Registry] >= ProtocolBond * Cardinality(Open)

\* A vessel is flagged as named exactly when it has an upheld sighting, and
\* exactly then its ENS name belongs to Lighthouse and is sealed; disputed
\* sightings are some of the sightings.
NamedIffSighted ==
  \A i \in Imo :
    /\ vesselNamed[i] <=> sightingsByImo[i] > 0
    /\ vesselNamed[i] <=> vessel[i].owner = "lighthouse"
    /\ vesselNamed[i] => vessel[i].fuses = FusesVessel
    /\ disputedByImo[i] <= sightingsByImo[i]

Upheld(i) == {r \in Submitted : reports[r].status = SETTLED_TRUE /\ reports[r].imo = i}

\* The ENS records of a vessel come from its own upheld reports; from the
\* second sighting on, its counters are the registry's.
EnsMirrorsRegistry ==
  \A i \in Imo :
    /\ vesselNamed[i] => \E r \in Upheld(i) : vessel[i].log = reports[r].meta
    /\ sightingsByImo[i] > 1 => /\ vessel[i].count = sightingsByImo[i]
                                /\ vessel[i].disputed = disputedByImo[i]

\* Only an upheld report is ever corroborated, with an image the attestor
\* signed for that very report, and a vessel's orbital records always come
\* from a corroborated report of that vessel.
CorroborationIsSigned ==
  /\ \A r \in ReportId :
       reports[r].orbitalAttested =>
         /\ r \in Submitted
         /\ reports[r].status = SETTLED_TRUE
         /\ <<r, reports[r].orbitalImage>> \in signed
  /\ \A i \in Imo :
       vessel[i].orbital # NoText =>
         \E r \in Upheld(i) : /\ reports[r].orbitalAttested
                              /\ reports[r].orbitalImage = vessel[i].orbital

UpheldDisputed(i) == {r \in Upheld(i) : Disputed(reports[r].assertionId)}

\* With Lighthouse wired before the first report, the registry's counters
\* are exactly the numbers of upheld and of disputed but upheld reports.
SightingsMatchSettlements ==
  WiredFirst => \A i \in Imo : /\ sightingsByImo[i] = Cardinality(Upheld(i))
                               /\ disputedByImo[i] = Cardinality(UpheldDisputed(i))

\* Whenever Lighthouse is wired, the counters never exceed the upheld reports.
SightingsBounded ==
  \A i \in Imo : /\ sightingsByImo[i] <= Cardinality(Upheld(i))
                 /\ disputedByImo[i] <= Cardinality(UpheldDisputed(i))

\* Every token the pool holds is booked, and its total is the sum of what
\* is booked per report, whether slashed or deposited by others.
PoolAccounted ==
  /\ totalDeposited = Total(depositOf, ReportId)
  /\ Treasury # Pool => balance[Pool] = totalDeposited

(***************************************************************************)
(* Every balance is explained by the outcome of the reports.  Each party's *)
(* account is explained as far as it plays no second part.                 *)
(***************************************************************************)
Unreturned(p) == {r \in Submitted : reports[r].reporter = p /\ reports[r].status # SETTLED_TRUE}
ReportBonds   == [r \in ReportId |-> reports[r].bond + reports[r].umaBond]

\* A reporter is short by the bonds of its reports that were not upheld.
ReporterExplained(p) ==
  balance[p] + Total(ReportBonds, Unreturned(p)) = InitialBalance

AssertedBy(v)  == {a \in AssertionId : assertions[a].asserter = v}
DisputedBy(v)  == {a \in AssertionId : assertions[a].disputer = v}
WonBy(v)       == {a \in DisputedBy(v) : assertions[a].settled /\ assertions[a].verdict = "false"}
AssertionBonds == [a \in AssertionId |-> assertions[a].bond]

\* What a disputer that was right gains: the loser's bond but for the oracle's
\* fee, and half of the slashed protocol bond.
Winnings ==
  [a \in AssertionId |->
     assertions[a].bond - OracleFee(assertions[a].bond) + DisputerShare(ProtocolBond)]

\* A verifier is short by the bonds of its own assertions and of the disputes
\* it has not won, and has gained the winnings of the others.
VerifierExplained(v) ==
  balance[v] + Total(AssertionBonds, AssertedBy(v)) + Total(AssertionBonds, DisputedBy(v) \ WonBy(v))
    = InitialBalance + Total(Winnings, WonBy(v))

Slashed     == {r \in Submitted : reports[r].status = SETTLED_FALSE}
WonDisputes == {r \in Submitted : reports[r].status = SETTLED_TRUE /\ Disputed(reports[r].assertionId)}

\* What UMA pays the registry beyond the reporter's refund.
Surplus == [r \in ReportId |-> reports[r].umaBond - OracleFee(reports[r].umaBond)]

\* A reporter is short by exactly the bonds of its reports that were not
\* upheld, a verifier by its open and lost disputes, the treasury holds its
\* share of every slashed bond, and the registry the open bonds and, beyond
\* them, exactly the winnings of the disputes its reporters won.
BalancesExplained ==
  /\ \A p \in Reporters \ (Verifiers \cup {Treasury}) : ReporterExplained(p)
  /\ OutsideDeposits = {} =>
       \A v \in Verifiers \ (Reporters \cup {Treasury}) : VerifierExplained(v)
  /\ Treasury \notin Reporters \cup Verifiers \cup {Pool, Oracle, Store} =>
       balance[Treasury] = TreasuryShare(ProtocolBond) * Cardinality(Slashed)
  /\ balance[Registry] = ProtocolBond * Cardinality(Open) + Total(Surplus, WonDisputes)

(***************************************************************************)
(* Action properties.                                                      *)
(***************************************************************************)

\* A settled report is final: no later callback, settlement, submission or attestation
\* of any report changes any field of it (outcome, parties, bonds, vessel, claim), but
\* that one that was upheld is corroborated once, and that corroboration is never replaced.
SettledIsFinal ==
  [][\A r \in ReportId :
       reports[r].status \in {SETTLED_TRUE, SETTLED_FALSE} =>
         \/ reports'[r] = reports[r]
         \/ /\ reports[r].status = SETTLED_TRUE /\ ~reports[r].orbitalAttested
            /\ \E image \in Image :
                 reports'[r] = [reports[r] EXCEPT !.orbitalAttested = TRUE,
                                                  !.orbitalImage = image]]_vars

(***************************************************************************)
(* Liveness.                                                               *)
(***************************************************************************)

\* Every submitted report is eventually settled, disputed or not.
EveryReportSettles ==
  \A r \in ReportId :
    r \in Submitted ~> reports[r].status \in {SETTLED_TRUE, SETTLED_FALSE}

(***************************************************************************)
(* Refinement: what the contracts together promise a reporter.             *)
(***************************************************************************)
StageOf(report) ==
  IF report.reporter = Nobody THEN "none"
  ELSE IF report.status = PENDING THEN "open"
  ELSE IF report.status = DISPUTED THEN "contested"
  ELSE IF report.status = SETTLED_TRUE THEN "upheld"
  ELSE "slashed"

Claims == INSTANCE BondedClaim WITH
  ClaimId <- ReportId,
  Bond    <- ProtocolBond,
  claim   <- [r \in ReportId |-> StageOf(reports[r])],
  escrow  <- balance[Registry]

\* Every step of the five contracts is a step of BondedClaim or leaves it
\* unchanged: reports are slashed only after a dispute, close once, and
\* each closing report costs the registry exactly one protocol bond.
ImplementsBondedClaim == Claims!Spec
=============================================================================
