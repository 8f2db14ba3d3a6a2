------------------------- MODULE ReportRegistryProofs -------------------------
(***************************************************************************)
(* Proofs about ReportRegistry for every value of its constants: any       *)
(* number of reports, reporters, verifiers and vessels, any bond.          *)
(***************************************************************************)
EXTENDS ReportRegistry, FiniteSetTheorems, TLAPS

(***************************************************************************)
(* Arithmetic of the split (ReportRegistry.sol, DISPUTER_BPS, POOL_BPS).   *)
(***************************************************************************)

\* The three shares of a slashed bond are never negative and add up to it:
\* rounding neither creates nor loses a token.
THEOREM SplitIsExact ==
  ASSUME NEW b \in Nat
  PROVE  /\ DisputerShare(b) \in Nat
         /\ PoolShare(b) \in Nat
         /\ TreasuryShare(b) \in Nat
         /\ DisputerShare(b) + PoolShare(b) + TreasuryShare(b) = b
BY DEF DisputerShare, PoolShare, TreasuryShare, BPS_DENOM

\* The pool's share rounds down to zero exactly for bonds below four units,
\* the bonds for which depositSlash refuses the deposit of a slashed report.
THEOREM PoolShareVanishes ==
  ASSUME NEW b \in Nat
  PROVE  PoolShare(b) = 0 <=> b < 4
BY DEF PoolShare, BPS_DENOM

(***************************************************************************)
(* Transfers.                                                              *)
(***************************************************************************)

\* A transfer the payer can afford leaves every balance a natural number.
LEMMA TransferType ==
  ASSUME NEW b \in [Account -> Nat], NEW payer \in Account, NEW payee \in Account,
         NEW amount \in Nat, Funded(b, payer, amount)
  PROVE  Transfer(b, payer, payee, amount) \in [Account -> Nat]
BY DEF Transfer, Funded

\* A transfer moves amount from payer to payee and touches nobody else.
LEMMA TransferMoves ==
  ASSUME NEW b \in [Account -> Nat], NEW payer \in Account, NEW payee \in Account,
         NEW amount \in Nat
  PROVE  /\ payer # payee => Transfer(b, payer, payee, amount)[payer] = b[payer] - amount
         /\ payer # payee => Transfer(b, payer, payee, amount)[payee] = b[payee] + amount
         /\ \A x \in Account \ {payer, payee} : Transfer(b, payer, payee, amount)[x] = b[x]
BY DEF Transfer

(***************************************************************************)
(* The inductive invariant: the invariants of ReportRegistry, and what     *)
(* they need of slots not yet used and of who the parties can be.          *)
(***************************************************************************)
WellFormed ==
  /\ \A r \in ReportId \ Submitted : reports[r] = NoReport
  /\ \A r \in Submitted : /\ reports[r].reporter \in Reporters
                          /\ reports[r].bond = ProtocolBond
                          /\ reports[r].imo \in Imo
                          /\ reports[r].meta \in Meta
  /\ \A a \in AssertionId :
       /\ Exists(a)  => assertions[a].bond \in UmaBonds
       /\ ~Exists(a) => assertions[a] = NoAssertion
       /\ assertions[a].asserter \in Verifiers \cup {Registry, Nobody}
       /\ assertions[a].disputer \in Verifiers \cup {Nobody}

Core == TypeOK /\ WellFormed /\ OneAssertionPerReport /\ StatusAgreesWithOracle

\* What the oracle pays out when it settles: never less than the bond it was
\* given, and the registry's balance moves only if the registry won.
LEMMA OraclePayment ==
  ASSUME Core, NEW a \in AssertionId, NEW winner \in Verifiers \cup {Registry},
         Exists(a), Funded(balance, Oracle, FeeTaken(a) + WinnersShare(a))
  PROVE  /\ WinnersShare(a) \in Nat /\ WinnersShare(a) >= assertions[a].bond
         /\ OraclePays(balance, a, winner) \in [Account -> Nat]
         /\ OraclePays(balance, a, winner)[Registry] =
              IF winner = Registry THEN balance[Registry] + WinnersShare(a)
                                   ELSE balance[Registry]
<1> DEFINE bond == assertions[a].bond
           fee  == FeeTaken(a)
           b1   == Transfer(balance, Oracle, Store, fee)
<1>1. bond \in UmaBonds /\ bond \in Nat /\ OracleFee(bond) \in 0..bond
  BY OracleAssumption DEF Core, WellFormed
<1>2. fee \in Nat /\ WinnersShare(a) \in Nat /\ WinnersShare(a) >= bond
  BY <1>1 DEF FeeTaken, WinnersShare
<1>3. balance \in [Account -> Nat] /\ winner \in Account /\ Oracle \in Account
      /\ Store \in Account /\ Registry \in Account
      /\ Registry # Oracle /\ Registry # Store /\ winner # Oracle /\ Registry \notin Verifiers
  BY OracleAssumption, RegistryAssumption DEF Core, TypeOK
<1>4. b1 \in [Account -> Nat] /\ b1[Registry] = balance[Registry]
      /\ b1[Oracle] >= WinnersShare(a)
  BY <1>2, <1>3 DEF Transfer, Funded
<1>5. OraclePays(balance, a, winner) = Transfer(b1, Oracle, winner, WinnersShare(a))
  BY DEF OraclePays
<1>6. OraclePays(balance, a, winner) \in [Account -> Nat]
  BY <1>2, <1>3, <1>4, <1>5, TransferType DEF Funded
<1>7. OraclePays(balance, a, winner)[Registry] =
        IF winner = Registry THEN balance[Registry] + WinnersShare(a) ELSE balance[Registry]
  <2> HIDE DEF b1
  <2>1. CASE winner = Registry
    BY <2>1, <1>2, <1>3, <1>4, <1>5 DEF Transfer
  <2>2. CASE winner # Registry
    BY <2>2, <1>2, <1>3, <1>4, <1>5 DEF Transfer
  <2> QED BY <2>1, <2>2
<1> QED BY <1>2, <1>6, <1>7

LEMMA InitCore == Init => Core
<1> SUFFICES ASSUME Init PROVE Core
  OBVIOUS
<1> USE DEF Init, PoolInit, OracleInit, LighthouseInit, ReportId
<1>1. TypeOK
  <2>1. reports \in [ReportId -> Report]
    BY RegistryAssumption DEF NoReport, Report, PENDING, SETTLED_FALSE
  <2>2. assertions \in [AssertionId -> Assertion]
    BY DEF NoAssertion, Assertion, Verdict
  <2>3. LighthouseTypeOK
    BY DEF LighthouseTypeOK, VesselName, Unnamed, NamedEarlier, Owner, FusesVessel, Fuse
  <2>4. balance \in [Account -> Nat]
    BY RegistryAssumption
  <2>5. /\ depositOf \in [ReportId -> Nat] /\ totalDeposited \in Nat
        /\ minimumBond \in UmaBonds
        /\ reportCount \in 0..MaxReports
    BY RegistryAssumption
  <2>6. /\ assertionToReport \in [AssertionId -> 0..MaxReports]
        /\ sightingsByImo \in [Imo -> Nat]
        /\ disputedByImo \in [Imo -> Nat]
    BY RegistryAssumption
  <2>7. lighthouse \in BOOLEAN /\ vesselNamed \in [Imo -> BOOLEAN] /\ signed \subseteq ReportId \X Image
    BY Zenon
  <2> HIDE DEF Init, PoolInit, OracleInit, LighthouseInit, ReportId
  <2> QED BY <2>1, <2>2, <2>3, <2>4, <2>5, <2>6, <2>7 DEF TypeOK
<1>2. WellFormed
  BY DEF WellFormed, Submitted, Exists, NoAssertion
<1>3. OneAssertionPerReport /\ StatusAgreesWithOracle
  BY RegistryAssumption, OracleAssumption
     DEF OneAssertionPerReport, StatusAgreesWithOracle, Submitted, NoAssertion
<1> QED BY <1>1, <1>2, <1>3 DEF Core

(***************************************************************************)
(* What each transaction does to the balances: they stay natural numbers,  *)
(* and the registry gains one protocol bond per report submitted and gives *)
(* up one per report settled.                                              *)
(***************************************************************************)

\* The parties of the protocol are distinct accounts.
LEMMA Parties ==
  /\ Registry \in Account /\ Oracle \in Account /\ Store \in Account
  /\ Pool \in Account /\ Treasury \in Account
  /\ Reporters \subseteq Account /\ Verifiers \subseteq Account
  /\ Registry \notin Reporters \cup Verifiers
  /\ Registry # Oracle /\ Registry # Store /\ Registry # Pool /\ Registry # Treasury
  /\ Oracle \notin Reporters \cup Verifiers
  /\ Nobody \notin Account /\ UmaBonds \subseteq Nat
  /\ ProtocolBond \in Nat
BY OracleAssumption, RegistryAssumption

LEMMA SubmitMoney ==
  ASSUME Core, NEW p \in Reporters, NEW imo, NEW meta, NEW a \in AssertionId,
         Submit(p, imo, meta, a)
  PROVE  /\ balance' \in [Account -> Nat]
         /\ balance'[Registry] = balance[Registry] + ProtocolBond
<1>1. minimumBond \in Nat /\ balance \in [Account -> Nat]
  BY Parties DEF Core, TypeOK
<1> DEFINE pulled == Transfer(balance, p, Registry, ProtocolBond + minimumBond)
<1>2. Funded(balance, p, ProtocolBond + minimumBond)
      /\ balance' = Transfer(pulled, Registry, Oracle, minimumBond)
  BY DEF Submit
<1>3. /\ pulled \in [Account -> Nat]
      /\ pulled[Registry] = balance[Registry] + ProtocolBond + minimumBond
  BY <1>1, <1>2, Parties DEF Transfer, Funded
<1> HIDE DEF pulled
<1> QED BY <1>1, <1>2, <1>3, Parties DEF Transfer

LEMMA AssertElsewhereMoney ==
  ASSUME Core, NEW p \in Verifiers, NEW a \in AssertionId, AssertElsewhere(p, a)
  PROVE  /\ balance' \in [Account -> Nat]
         /\ balance'[Registry] = balance[Registry]
<1>1. minimumBond \in Nat /\ balance \in [Account -> Nat]
  BY Parties DEF Core, TypeOK
<1> QED BY <1>1, Parties DEF AssertElsewhere, Transfer, Funded

LEMMA DisputeMoney ==
  ASSUME Core, NEW v \in Verifiers, NEW a \in AssertionId, DisputeAssertion(v, a)
  PROVE  /\ balance' \in [Account -> Nat]
         /\ balance'[Registry] = balance[Registry]
<1>1. assertions[a].bond \in Nat /\ balance \in [Account -> Nat]
  BY Parties DEF Core, TypeOK, WellFormed, DisputeAssertion, CanDispute
<1> QED BY <1>1, Parties DEF DisputeAssertion, Transfer, Funded

LEMMA OutsideDepositMoney ==
  ASSUME Core, OutsideDeposit
  PROVE  /\ balance' \in [Account -> Nat]
         /\ balance'[Registry] = balance[Registry]
<1>1. PICK p \in Verifiers, r \in ReportId, amount \in OutsideDeposits :
        DepositSlash(p, r, amount)
  BY DEF OutsideDeposit
<1>2. amount \in Nat /\ balance \in [Account -> Nat]
  BY RegistryAssumption DEF Core, TypeOK
<1> QED BY <1>1, <1>2, Parties DEF DepositSlash, PoolAccepts, Transfer, Funded

\* The report behind an assertion the registry may be called back for.
LEMMA ReportBehind ==
  ASSUME Core, NEW a \in AssertionId, assertionToReport[a] # 0
  PROVE  LET r == assertionToReport[a]
         IN  /\ r \in Submitted /\ r \in ReportId
             /\ reports[r].assertionId = a
             /\ reports[r].reporter \in Reporters
             /\ reports[r].bond = ProtocolBond
             /\ reports[r].umaBond = assertions[a].bond
             /\ reports[r].imo \in Imo
             /\ reports[r].meta \in Meta
             /\ \A q \in Submitted : reports[q].assertionId = a => q = r
<1>1. assertionToReport[a] \in Submitted /\ reportCount \in 0..MaxReports /\ MaxReports \in Nat
  BY RegistryAssumption DEF Core, OneAssertionPerReport, TypeOK
<1> QED BY <1>1 DEF Core, OneAssertionPerReport, WellFormed, StatusAgreesWithOracle,
                    Submitted, ReportId

\* Upholding a report costs the registry its protocol bond; when the report
\* had been disputed, the registry may be left with more.
LEMMA SettleTruthfulMoney ==
  ASSUME Core, NEW a \in AssertionId, SettleTruthful(a)
  PROVE  /\ balance' \in [Account -> Nat]
         /\ balance'[Registry] >= balance[Registry] - ProtocolBond
         /\ ~Disputed(a) => balance'[Registry] = balance[Registry] - ProtocolBond
<1> DEFINE r      == assertionToReport[a]
           paid   == OraclePays(balance, a, Registry)
           refund == ProtocolBond + assertions[a].bond
           p      == reports[r].reporter
<1>1. /\ Exists(a) /\ r # 0
      /\ Funded(balance, Oracle, FeeTaken(a) + WinnersShare(a))
      /\ Funded(paid, Registry, Refund(reports[r]))
      /\ balance' = Transfer(paid, Registry, p, Refund(reports[r]))
  BY DEF SettleTruthful, ResolvesTrue
<1>2. p \in Reporters /\ Refund(reports[r]) = refund
  BY <1>1, ReportBehind DEF Refund
<1>3. /\ WinnersShare(a) \in Nat /\ WinnersShare(a) >= assertions[a].bond
      /\ paid \in [Account -> Nat]
      /\ paid[Registry] = balance[Registry] + WinnersShare(a)
  BY <1>1, OraclePayment
<1>4. assertions[a].bond \in Nat /\ balance[Registry] \in Nat
  BY <1>1, Parties DEF Core, TypeOK, WellFormed
<1>5. ~Disputed(a) => WinnersShare(a) = assertions[a].bond
  BY DEF WinnersShare
<1> HIDE DEF paid, p, r
<1>6. balance' \in [Account -> Nat] /\ balance'[Registry] = paid[Registry] - refund
  BY <1>1, <1>2, <1>3, <1>4, Parties DEF Transfer, Funded
<1> QED BY <1>3, <1>4, <1>5, <1>6, Parties

\* Slashing a report costs the registry exactly its protocol bond.
LEMMA SettleFalseMoney ==
  ASSUME Core, NEW a \in AssertionId, SettleFalse(a)
  PROVE  /\ balance' \in [Account -> Nat]
         /\ balance'[Registry] = balance[Registry] - ProtocolBond
         /\ Disputed(a)
<1> DEFINE r        == assertionToReport[a]
           disputer == assertions[a].disputer
           d        == DisputerShare(ProtocolBond)
           s        == PoolShare(ProtocolBond)
           t        == TreasuryShare(ProtocolBond)
           paid     == OraclePays(balance, a, disputer)
           split1   == Transfer(paid, Registry, disputer, d)
           split2   == Transfer(split1, Registry, Pool, s)
<1>1. r # 0 /\ Exists(a) /\ Disputed(a)
  BY DEF SettleFalse, ResolvesFalse
<1>2. reports[r].bond = ProtocolBond
  BY <1>1, ReportBehind
<1>3. /\ disputer # Nobody
      /\ Funded(balance, Oracle, FeeTaken(a) + WinnersShare(a))
      /\ Funded(paid, Registry, d)
      /\ Funded(split1, Registry, s)
      /\ Funded(split2, Registry, t)
      /\ balance' = Transfer(split2, Registry, Treasury, t)
  BY <1>2 DEF SettleFalse, PoolAccepts
<1>4. disputer \in Verifiers
  BY <1>3 DEF Core, WellFormed
<1>5. d \in Nat /\ s \in Nat /\ t \in Nat /\ d + s + t = ProtocolBond
  BY Parties, SplitIsExact
<1>6. paid \in [Account -> Nat] /\ paid[Registry] = balance[Registry]
  BY <1>1, <1>3, <1>4, OraclePayment, Parties
<1>7. balance[Registry] \in Nat
  BY Parties DEF Core, TypeOK
<1> HIDE DEF disputer, d, s, t, paid, r
<1>8. split1 \in [Account -> Nat] /\ split1[Registry] = balance[Registry] - d
  BY <1>3, <1>4, <1>5, <1>6, Parties DEF Transfer, Funded
<1> HIDE DEF split1
<1>9. split2 \in [Account -> Nat] /\ split2[Registry] = balance[Registry] - d - s
  BY <1>3, <1>5, <1>7, <1>8, Parties DEF Transfer, Funded
<1> HIDE DEF split2
<1>10. balance' \in [Account -> Nat] /\ balance'[Registry] = balance[Registry] - d - s - t
  BY <1>3, <1>5, <1>7, <1>9, Parties DEF Transfer, Funded
<1> QED BY <1>1, <1>5, <1>7, <1>10, Parties

(***************************************************************************)
(* Every transaction preserves Core.                                       *)
(***************************************************************************)

\* The set of submitted reports, and the ids it leaves free.
LEMMA SubmittedIds ==
  ASSUME Core
  PROVE  /\ reportCount \in Nat /\ MaxReports \in Nat
         /\ Submitted \subseteq ReportId
         /\ \A r \in Submitted : r \in Nat /\ r # 0
         /\ reportCount < MaxReports => reportCount + 1 \in ReportId \ Submitted
BY RegistryAssumption DEF Core, TypeOK, Submitted, ReportId

LEMMA SubmitCore ==
  ASSUME Core, NEW p \in Reporters, NEW imo \in Imo \cup {NoImo},
         NEW meta \in Meta \cup {EmptyMeta}, NEW a \in AssertionId,
         Submit(p, imo, meta, a)
  PROVE  Core'
<1> DEFINE id == reportCount + 1
           filed == [reporter |-> p, bond |-> ProtocolBond, umaBond |-> minimumBond,
                     status |-> PENDING, imo |-> imo, meta |-> meta, assertionId |-> a,
                     orbitalAttested |-> FALSE, orbitalImage |-> NoImage]
           opened == [asserter |-> Registry, bond |-> minimumBond, disputer |-> Nobody,
                      expired |-> FALSE, verdict |-> "none", settled |-> FALSE]
<1>1. /\ reportCount < MaxReports /\ imo \in Imo /\ meta \in Meta /\ ~Exists(a)
      /\ assertions' = [assertions EXCEPT ![a] = opened]
      /\ reportCount' = id
      /\ reports' = [reports EXCEPT ![id] = filed]
      /\ assertionToReport' = [assertionToReport EXCEPT ![a] = id]
      /\ UNCHANGED <<poolVars, minimumBond, lighthouseVars, lighthouse,
                     sightingsByImo, disputedByImo, vesselNamed, signed>>
  BY DEF Submit, OpenAssertion, MapAssertion, NextId
<1>2. /\ id \in ReportId \ Submitted /\ Submitted' = Submitted \cup {id}
      /\ Submitted \subseteq ReportId /\ id # 0 /\ id \in 0..MaxReports
      /\ 0 \notin Submitted
  BY <1>1, SubmittedIds DEF Submitted, ReportId
<1>3. minimumBond \in UmaBonds /\ minimumBond \in Nat
  BY Parties DEF Core, TypeOK
<1>4. filed \in Report /\ opened \in Assertion
  BY <1>1, <1>3, Parties DEF Report, Assertion, PENDING, SETTLED_FALSE, Verdict
<1> HIDE DEF filed, opened
<1>5. TypeOK'
  <2>1. reports' \in [ReportId -> Report] /\ assertions' \in [AssertionId -> Assertion]
    BY <1>1, <1>2, <1>4 DEF Core, TypeOK
  <2>2. balance' \in [Account -> Nat]
    BY SubmitMoney
  <2>3. assertionToReport' \in [AssertionId -> 0..MaxReports] /\ reportCount' \in 0..MaxReports
    BY <1>1, <1>2 DEF Core, TypeOK
  <2> QED BY <1>1, <2>1, <2>2, <2>3
          DEF Core, TypeOK, LighthouseTypeOK, poolVars, lighthouseVars
<1>6. assertionToReport[a] = 0 /\ \A r \in Submitted : reports[r].assertionId # a
  BY <1>1, <1>2, Parties DEF Core, OneAssertionPerReport, WellFormed, Exists
<1>7. WellFormed'
  BY <1>1, <1>2, <1>3, Parties
     DEF Core, TypeOK, WellFormed, Exists, filed, opened
<1>8. OneAssertionPerReport'
  BY <1>1, <1>2, <1>6, Parties
     DEF Core, TypeOK, OneAssertionPerReport, filed, opened
<1>9. StatusAgreesWithOracle'
  BY <1>1, <1>2, <1>6
     DEF Core, TypeOK, OneAssertionPerReport, StatusAgreesWithOracle, filed, opened,
         PENDING, DISPUTED, SETTLED_TRUE, SETTLED_FALSE
<1> QED BY <1>5, <1>7, <1>8, <1>9 DEF Core

LEMMA AssertElsewhereCore ==
  ASSUME Core, NEW p \in Verifiers, NEW a \in AssertionId, AssertElsewhere(p, a)
  PROVE  Core'
<1> DEFINE opened == [asserter |-> p, bond |-> minimumBond, disputer |-> Nobody,
                      expired |-> FALSE, verdict |-> "none", settled |-> FALSE]
<1>1. /\ ~Exists(a)
      /\ assertions' = [assertions EXCEPT ![a] = opened]
      /\ UNCHANGED <<poolVars, minimumBond, lighthouseVars, registryVars, signed>>
  BY DEF AssertElsewhere, OpenAssertion
<1>2. minimumBond \in UmaBonds /\ opened \in Assertion
  BY Parties DEF Core, TypeOK, Assertion, Verdict
<1> HIDE DEF opened
<1>3. TypeOK'
  <2>1. assertions' \in [AssertionId -> Assertion]
    BY <1>1, <1>2 DEF Core, TypeOK
  <2> QED BY <1>1, <2>1, AssertElsewhereMoney
          DEF Core, TypeOK, LighthouseTypeOK, poolVars, lighthouseVars, registryVars
<1>4. Submitted' = Submitted /\ assertionToReport[a] = 0
      /\ \A r \in Submitted : reports[r].assertionId # a
  BY <1>1, SubmittedIds, Parties
     DEF Core, OneAssertionPerReport, Exists, Submitted, registryVars
<1>5. WellFormed'
  BY <1>1, <1>2, <1>4, Parties
     DEF Core, TypeOK, WellFormed, Exists, opened, registryVars
<1>6. OneAssertionPerReport'
  BY <1>1, <1>4, Parties DEF Core, TypeOK, OneAssertionPerReport, opened, registryVars
<1>7. StatusAgreesWithOracle'
  BY <1>1, <1>4 DEF Core, TypeOK, OneAssertionPerReport, StatusAgreesWithOracle, registryVars
<1> QED BY <1>3, <1>5, <1>6, <1>7 DEF Core

LEMMA DisputeCore ==
  ASSUME Core, NEW v \in Verifiers, NEW a \in AssertionId, DisputeAssertion(v, a)
  PROVE  Core'
<1> DEFINE r == assertionToReport[a]
<1>1. /\ CanDispute(a) /\ r # 0
      /\ assertions' = [assertions EXCEPT ![a].disputer = v]
      /\ reports[r].status = PENDING
      /\ reports' = [reports EXCEPT ![r].status = DISPUTED]
      /\ UNCHANGED <<poolVars, minimumBond, lighthouseVars, lighthouse, reportCount,
                     assertionToReport, sightingsByImo, disputedByImo, vesselNamed, signed>>
  BY DEF DisputeAssertion, RecordDispute, AssertionDisputedCallback
<1>2. /\ r \in Submitted /\ r \in ReportId /\ reports[r].assertionId = a
      /\ \A q \in Submitted : reports[q].assertionId = a => q = r
  BY <1>1, ReportBehind
<1> HIDE DEF r
<1>3. TypeOK'
  <2>1. reports' \in [ReportId -> Report]
    BY <1>1, <1>2 DEF Core, TypeOK, Report, PENDING, DISPUTED, SETTLED_FALSE
  <2>2. assertions' \in [AssertionId -> Assertion]
    BY <1>1, Parties DEF Core, TypeOK, Assertion
  <2> QED BY <1>1, <2>1, <2>2, DisputeMoney
          DEF Core, TypeOK, LighthouseTypeOK, poolVars, lighthouseVars
<1>4. Submitted' = Submitted
  BY <1>1 DEF Submitted
<1>5. WellFormed'
  BY <1>1, <1>2, <1>4 DEF Core, TypeOK, WellFormed, Exists, CanDispute
<1>6. OneAssertionPerReport'
  BY <1>1, <1>2, <1>4 DEF Core, TypeOK, OneAssertionPerReport
<1>7. StatusAgreesWithOracle'
  BY <1>1, <1>2, <1>4, Parties
     DEF Core, TypeOK, StatusAgreesWithOracle, OneAssertionPerReport, CanDispute,
         PENDING, DISPUTED, SETTLED_TRUE, SETTLED_FALSE
<1> QED BY <1>3, <1>5, <1>6, <1>7 DEF Core

\* The records of a vessel stay in their type when its name is minted.
LEMMA NameVesselType ==
  ASSUME LighthouseTypeOK, NEW imo \in Imo, NEW meta \in Meta, NameVessel(imo, meta)
  PROVE  LighthouseTypeOK'
BY DEF LighthouseTypeOK, NameVessel, VesselName, Owner, Fuse, FusesVessel

\* The records of a vessel stay in their type when they are refreshed.
LEMMA RecordSightingType ==
  ASSUME LighthouseTypeOK, NEW imo \in Imo, NEW meta \in Meta,
         NEW n \in Nat, NEW m \in Nat, RecordSighting(imo, meta, n, m)
  PROVE  LighthouseTypeOK'
<1>1. vessel[imo] \in VesselName /\ vessel'[imo] = [vessel[imo] EXCEPT !.log = meta, !.count = n, !.disputed = m]
  BY DEF LighthouseTypeOK, RecordSighting
<1>2. vessel'[imo] \in VesselName
  BY <1>1 DEF VesselName
<1> QED BY <1>2 DEF LighthouseTypeOK, RecordSighting

\* What the settlement of an upheld report leaves of Lighthouse's state and
\* of the sighting counters.
LEMMA TruthfulSettlementType ==
  ASSUME TypeOK, NEW imo \in Imo, NEW meta \in Meta, NEW wasDisputed \in BOOLEAN,
         OnTruthfulSettlement(imo, meta, wasDisputed)
  PROVE  /\ LighthouseTypeOK'
         /\ sightingsByImo' \in [Imo -> Nat]
         /\ disputedByImo' \in [Imo -> Nat]
         /\ vesselNamed' \in [Imo -> BOOLEAN]
<1>1. CASE UNCHANGED <<lighthouseVars, sightingsByImo, disputedByImo, vesselNamed>>
  BY <1>1 DEF TypeOK, LighthouseTypeOK, lighthouseVars
<1>2. ASSUME CountSighting(imo, wasDisputed)
      PROVE  sightingsByImo' \in [Imo -> Nat] /\ disputedByImo' \in [Imo -> Nat]
  BY <1>2 DEF TypeOK, CountSighting
<1>3. CASE /\ CountSighting(imo, wasDisputed)
           /\ vesselNamed' = [vesselNamed EXCEPT ![imo] = TRUE]
           /\ NameVessel(imo, meta)
  <2>1. vesselNamed' \in [Imo -> BOOLEAN]
    BY <1>3 DEF TypeOK
  <2> QED BY <1>2, <1>3, <2>1, NameVesselType DEF TypeOK
<1>4. CASE /\ CountSighting(imo, wasDisputed)
           /\ RecordSighting(imo, meta, sightingsByImo'[imo], disputedByImo'[imo])
           /\ UNCHANGED vesselNamed
  <2>1. sightingsByImo' \in [Imo -> Nat] /\ disputedByImo' \in [Imo -> Nat]
    BY <1>2, <1>4
  <2>2. sightingsByImo'[imo] \in Nat /\ disputedByImo'[imo] \in Nat
    BY <2>1
  <2> QED BY <1>4, <2>1, <2>2, RecordSightingType DEF TypeOK
<1> QED BY <1>1, <1>3, <1>4 DEF OnTruthfulSettlement

\* Closing the report behind a settled assertion keeps reports and
\* assertions in agreement, whichever way it is closed.
LEMMA ClosedTogether ==
  ASSUME Core, NEW a \in AssertionId, NEW outcome \in {SETTLED_TRUE, SETTLED_FALSE},
         assertionToReport[a] # 0, Exists(a), ~assertions[a].settled,
         outcome = SETTLED_TRUE => (Disputed(a) => assertions[a].verdict = "true"),
         outcome = SETTLED_FALSE => Disputed(a) /\ assertions[a].verdict = "false",
         assertions' = [assertions EXCEPT ![a].settled = TRUE],
         reports' = [reports EXCEPT ![assertionToReport[a]].status = outcome],
         UNCHANGED <<reportCount, assertionToReport>>
  PROVE  /\ reports' \in [ReportId -> Report]
         /\ assertions' \in [AssertionId -> Assertion]
         /\ WellFormed' /\ OneAssertionPerReport' /\ StatusAgreesWithOracle'
<1> DEFINE r == assertionToReport[a]
<1>1. /\ r \in Submitted /\ r \in ReportId /\ reports[r].assertionId = a
      /\ \A q \in Submitted : reports[q].assertionId = a => q = r
  BY ReportBehind
<1>2. reports' = [reports EXCEPT ![r].status = outcome]
  OBVIOUS
<1> HIDE DEF r
<1>3. reports' \in [ReportId -> Report]
  <2>1. outcome \in PENDING..SETTLED_FALSE
    BY DEF PENDING, SETTLED_TRUE, SETTLED_FALSE
  <2>2. reports[r] \in Report
    BY <1>1 DEF Core, TypeOK
  <2>3. [reports[r] EXCEPT !.status = outcome] \in Report
    BY <2>1, <2>2 DEF Report
  <2> QED BY <1>1, <1>2, <2>3 DEF Core, TypeOK
<1>4. assertions' \in [AssertionId -> Assertion]
  BY DEF Core, TypeOK, Assertion
<1>5. Submitted' = Submitted
  BY DEF Submitted
<1>6. WellFormed'
  BY <1>1, <1>2, <1>5 DEF Core, TypeOK, WellFormed, Exists
<1>7. OneAssertionPerReport'
  BY <1>1, <1>2, <1>5 DEF Core, TypeOK, OneAssertionPerReport
<1>8. StatusAgreesWithOracle'
  BY <1>1, <1>2, <1>5
     DEF Core, TypeOK, StatusAgreesWithOracle, OneAssertionPerReport, Disputed,
         PENDING, DISPUTED, SETTLED_TRUE, SETTLED_FALSE
<1> QED BY <1>3, <1>4, <1>6, <1>7, <1>8

LEMMA SettleTruthfulCore ==
  ASSUME Core, NEW a \in AssertionId, SettleTruthful(a)
  PROVE  Core'
<1> DEFINE r == assertionToReport[a]
<1>1. /\ r # 0 /\ Exists(a) /\ ~assertions[a].settled
      /\ Disputed(a) => assertions[a].verdict = "true"
      /\ assertions' = [assertions EXCEPT ![a].settled = TRUE]
      /\ reports' = [reports EXCEPT ![r].status = SETTLED_TRUE]
      /\ OnTruthfulSettlement(reports[r].imo, reports[r].meta, reports[r].status = DISPUTED)
      /\ UNCHANGED <<poolVars, minimumBond, lighthouse, reportCount,
                     assertionToReport, signed>>
  BY DEF SettleTruthful, ResolvesTrue, RecordSettled
<1>2. /\ reports' \in [ReportId -> Report]
      /\ assertions' \in [AssertionId -> Assertion]
      /\ WellFormed' /\ OneAssertionPerReport' /\ StatusAgreesWithOracle'
  <2>1. SETTLED_TRUE # SETTLED_FALSE /\ UNCHANGED <<reportCount, assertionToReport>>
    BY <1>1 DEF SETTLED_TRUE, SETTLED_FALSE
  <2> QED BY <1>1, <2>1, ClosedTogether
<1>3. reports[r].imo \in Imo /\ reports[r].meta \in Meta
  BY <1>1, ReportBehind
<1>4. (reports[r].status = DISPUTED) \in BOOLEAN
  OBVIOUS
<1>5. /\ LighthouseTypeOK'
      /\ sightingsByImo' \in [Imo -> Nat]
      /\ disputedByImo' \in [Imo -> Nat]
      /\ vesselNamed' \in [Imo -> BOOLEAN]
  BY <1>1, <1>3, <1>4, TruthfulSettlementType DEF Core
<1>6. TypeOK'
  BY <1>1, <1>2, <1>5, SettleTruthfulMoney DEF Core, TypeOK, poolVars
<1> QED BY <1>2, <1>6 DEF Core

LEMMA SettleFalseCore ==
  ASSUME Core, NEW a \in AssertionId, SettleFalse(a)
  PROVE  Core'
<1> DEFINE r == assertionToReport[a]
<1>1. /\ r # 0 /\ Exists(a) /\ ~assertions[a].settled
      /\ Disputed(a) /\ assertions[a].verdict = "false"
      /\ assertions' = [assertions EXCEPT ![a].settled = TRUE]
      /\ reports' = [reports EXCEPT ![r].status = SETTLED_FALSE]
      /\ BookDeposit(r, PoolShare(reports[r].bond))
      /\ UNCHANGED <<minimumBond, lighthouseVars, lighthouse, reportCount, assertionToReport,
                     sightingsByImo, disputedByImo, vesselNamed, signed>>
  BY DEF SettleFalse, ResolvesFalse, RecordSettled
<1>2. /\ reports' \in [ReportId -> Report]
      /\ assertions' \in [AssertionId -> Assertion]
      /\ WellFormed' /\ OneAssertionPerReport' /\ StatusAgreesWithOracle'
  <2>1. SETTLED_TRUE # SETTLED_FALSE /\ UNCHANGED <<reportCount, assertionToReport>>
    BY <1>1 DEF SETTLED_TRUE, SETTLED_FALSE
  <2> QED BY <1>1, <2>1, ClosedTogether
<1>3. r \in ReportId /\ PoolShare(reports[r].bond) \in Nat
  BY <1>1, ReportBehind, SplitIsExact, Parties
<1>4. depositOf' \in [ReportId -> Nat] /\ totalDeposited' \in Nat
  BY <1>1, <1>3 DEF BookDeposit, Core, TypeOK
<1>5. TypeOK'
  BY <1>1, <1>2, <1>4, SettleFalseMoney
     DEF Core, TypeOK, LighthouseTypeOK, lighthouseVars
<1> QED BY <1>2, <1>5 DEF Core

LEMMA OracleStepCore ==
  ASSUME Core, OracleStep
  PROVE  Core'
<1>1. /\ UNCHANGED <<balance, poolVars, lighthouseVars, registryVars, signed>>
      /\ Submitted' = Submitted
  BY DEF OracleStep, LivenessElapses, VotersDecide, MinimumBondChanges, Submitted, registryVars
<1>2. ASSUME assertions' \in [AssertionId -> Assertion], minimumBond' \in UmaBonds
      PROVE  TypeOK'
  BY <1>1, <1>2 DEF Core, TypeOK, LighthouseTypeOK, poolVars, lighthouseVars, registryVars
<1>3. ASSUME NEW a \in AssertionId, LivenessElapses(a)
      PROVE  Core'
  <2>1. Exists(a) /\ assertions' = [assertions EXCEPT ![a].expired = TRUE]
        /\ UNCHANGED minimumBond
    BY <1>3 DEF LivenessElapses
  <2>2. TypeOK'
    BY <1>2, <2>1 DEF Core, TypeOK, Assertion
  <2>3. WellFormed' /\ OneAssertionPerReport'
    BY <1>1, <2>1 DEF Core, TypeOK, WellFormed, OneAssertionPerReport, Exists, registryVars
  <2>4. StatusAgreesWithOracle'
    BY <1>1, <2>1 DEF Core, TypeOK, OneAssertionPerReport, StatusAgreesWithOracle, registryVars
  <2> QED BY <2>2, <2>3, <2>4 DEF Core
<1>4. ASSUME NEW a \in AssertionId, NEW v \in Verdict, VotersDecide(a, v)
      PROVE  Core'
  <2>1. Exists(a) /\ Disputed(a) /\ assertions[a].verdict = "none"
        /\ assertions' = [assertions EXCEPT ![a].verdict = v]
        /\ UNCHANGED minimumBond
    BY <1>4 DEF VotersDecide
  <2>2. TypeOK'
    BY <1>2, <2>1 DEF Core, TypeOK, Assertion
  <2>3. WellFormed' /\ OneAssertionPerReport'
    BY <1>1, <2>1 DEF Core, TypeOK, WellFormed, OneAssertionPerReport, Exists, registryVars
  <2>4. StatusAgreesWithOracle'
    BY <1>1, <2>1
       DEF Core, TypeOK, OneAssertionPerReport, StatusAgreesWithOracle, Disputed, registryVars,
           PENDING, DISPUTED, SETTLED_TRUE, SETTLED_FALSE
  <2> QED BY <2>2, <2>3, <2>4 DEF Core
<1>5. ASSUME NEW b \in UmaBonds, MinimumBondChanges(b)
      PROVE  Core'
  <2>1. minimumBond' = b /\ UNCHANGED assertions
    BY <1>5 DEF MinimumBondChanges
  <2>2. TypeOK'
    BY <1>2, <2>1 DEF Core, TypeOK
  <2> QED BY <1>1, <2>1, <2>2
          DEF Core, WellFormed, OneAssertionPerReport, StatusAgreesWithOracle, Exists, registryVars
<1> QED BY <1>3, <1>4, <1>5 DEF OracleStep

LEMMA OrbitalType ==
  ASSUME LighthouseTypeOK, NEW imo \in Imo, NEW image \in Image, RecordOrbital(imo, image)
  PROVE  LighthouseTypeOK'
BY DEF LighthouseTypeOK, RecordOrbital, VesselName

LEMMA AttestCore ==
  ASSUME Core, NEW r \in ReportId, NEW image \in Image \cup {NoImage}, Attest(r, image)
  PROVE  Core'
<1>1. /\ reports[r].reporter # Nobody /\ image \in Image
      /\ reports' = [reports EXCEPT ![r].orbitalAttested = TRUE, ![r].orbitalImage = image]
      /\ UNCHANGED lighthouseVars \/ RecordOrbital(reports[r].imo, image)
      /\ UNCHANGED <<balance, poolVars, oracleVars, lighthouse, reportCount, assertionToReport,
                     sightingsByImo, disputedByImo, vesselNamed, signed>>
  BY DEF Attest
<1>2. r \in Submitted /\ reports[r].imo \in Imo /\ Submitted' = Submitted
  BY <1>1 DEF Core, WellFormed, NoReport, Submitted
<1>3. reports' \in [ReportId -> Report]
  <2>1. reports[r] \in Report
    BY DEF Core, TypeOK
  <2>2. [reports[r] EXCEPT !.orbitalAttested = TRUE, !.orbitalImage = image] \in Report
    BY <1>1, <2>1 DEF Report
  <2> QED BY <1>1, <2>2 DEF Core, TypeOK
<1>4. LighthouseTypeOK'
  BY <1>1, <1>2, OrbitalType DEF Core, TypeOK, LighthouseTypeOK, lighthouseVars
<1>5. TypeOK'
  BY <1>1, <1>3, <1>4 DEF Core, TypeOK, poolVars, oracleVars
<1>6. \A q \in ReportId :
        /\ q # r => reports'[q] = reports[q]
        /\ reports'[q].reporter = reports[q].reporter
        /\ reports'[q].bond = reports[q].bond
        /\ reports'[q].umaBond = reports[q].umaBond
        /\ reports'[q].status = reports[q].status
        /\ reports'[q].imo = reports[q].imo
        /\ reports'[q].meta = reports[q].meta
        /\ reports'[q].assertionId = reports[q].assertionId
  <2>1. reports[r] \in Report
    BY DEF Core, TypeOK
  <2>2. reports'[r] = [reports[r] EXCEPT !.orbitalAttested = TRUE, !.orbitalImage = image]
    BY <1>1 DEF Core, TypeOK
  <2>3. \A q \in ReportId : q # r => reports'[q] = reports[q]
    BY <1>1 DEF Core, TypeOK
  <2>4. /\ reports'[r].reporter = reports[r].reporter
        /\ reports'[r].bond = reports[r].bond
        /\ reports'[r].umaBond = reports[r].umaBond
        /\ reports'[r].status = reports[r].status
        /\ reports'[r].imo = reports[r].imo
        /\ reports'[r].meta = reports[r].meta
        /\ reports'[r].assertionId = reports[r].assertionId
    BY <2>1, <2>2 DEF Report
  <2> QED BY <2>3, <2>4
<1>7. UNCHANGED <<assertions, assertionToReport, reportCount>> /\ Submitted \subseteq ReportId
  BY <1>1, SubmittedIds DEF oracleVars
<1>8. WellFormed' /\ OneAssertionPerReport'
  BY <1>2, <1>6, <1>7
     DEF Core, WellFormed, OneAssertionPerReport, Exists
<1>9. StatusAgreesWithOracle'
  BY <1>2, <1>6, <1>7 DEF Core, StatusAgreesWithOracle
<1> QED BY <1>5, <1>8, <1>9 DEF Core

\* The transactions that touch neither reports nor assertions.
LEMMA OtherCore ==
  ASSUME Core,
         \/ SetLighthouse \/ DeployerApproves \/ ParentOwnerTakes \/ OutsideDeposit
         \/ \E r \in ReportId, image \in Image : SignCorroboration(r, image)
         \/ UNCHANGED vars
  PROVE  Core'
<1>1. UNCHANGED <<oracleVars, reportCount, reports, assertionToReport>>
  BY DEF SetLighthouse, DeployerApproves, ParentOwnerTakes, OutsideDeposit, SignCorroboration,
         registryVars, vars
<1>2. Submitted' = Submitted
  BY <1>1 DEF Submitted
<1>3. WellFormed' /\ OneAssertionPerReport' /\ StatusAgreesWithOracle'
  BY <1>1, <1>2
     DEF Core, WellFormed, OneAssertionPerReport, StatusAgreesWithOracle, Exists, oracleVars
<1>4. TypeOK'
  <2> USE DEF Core, TypeOK, oracleVars, poolVars, lighthouseVars, registryVars
  <2>1. CASE SetLighthouse
    BY <1>1, <2>1 DEF SetLighthouse, LighthouseTypeOK
  <2>2. CASE DeployerApproves
    BY <1>1, <2>2 DEF DeployerApproves, ApproveOperator, LighthouseTypeOK
  <2>3. CASE ParentOwnerTakes
    <3>1. PICK i \in Imo : ParentTakes(i)
      BY <2>3 DEF ParentOwnerTakes
    <3>2. LighthouseTypeOK'
      BY <3>1 DEF ParentTakes, LighthouseTypeOK, VesselName, Owner
    <3> QED BY <1>1, <2>3, <3>2 DEF ParentOwnerTakes
  <2>4. CASE OutsideDeposit
    <3>1. PICK p \in Verifiers, r \in ReportId, amount \in OutsideDeposits :
            BookDeposit(r, amount)
      BY <2>4 DEF OutsideDeposit, DepositSlash
    <3>2. depositOf' \in [ReportId -> Nat] /\ totalDeposited' \in Nat
      BY <3>1, RegistryAssumption DEF BookDeposit
    <3> QED BY <1>1, <2>4, <3>2, OutsideDepositMoney DEF OutsideDeposit, LighthouseTypeOK
  <2>5. ASSUME NEW r \in ReportId, NEW image \in Image, SignCorroboration(r, image)
        PROVE  TypeOK'
    <3>1. signed' \subseteq ReportId \X Image
      BY <2>5 DEF SignCorroboration
    <3> QED BY <1>1, <2>5, <3>1 DEF SignCorroboration, LighthouseTypeOK
  <2>6. CASE UNCHANGED vars
    BY <2>6 DEF vars, LighthouseTypeOK
  <2> HIDE DEF Core, TypeOK
  <2> QED BY <2>1, <2>2, <2>3, <2>4, <2>5, <2>6
<1> QED BY <1>3, <1>4 DEF Core

\* Core is inductive.
LEMMA NextCore == Core /\ [Next]_vars => Core'
<1> SUFFICES ASSUME Core, [Next]_vars PROVE Core'
  OBVIOUS
<1>1. ASSUME NEW p \in Reporters, NEW i \in Imo \cup {NoImo}, NEW m \in Meta \cup {EmptyMeta},
             NEW a \in AssertionId, Submit(p, i, m, a)
      PROVE  Core'
  BY <1>1, SubmitCore
<1>2. ASSUME NEW p \in Verifiers, NEW a \in AssertionId, AssertElsewhere(p, a)
      PROVE  Core'
  BY <1>2, AssertElsewhereCore
<1>3. ASSUME NEW v \in Verifiers, NEW a \in AssertionId, DisputeAssertion(v, a)
      PROVE  Core'
  BY <1>3, DisputeCore
<1>4. ASSUME NEW a \in AssertionId, Settle(a)
      PROVE  Core'
  BY <1>4, SettleTruthfulCore, SettleFalseCore DEF Settle
<1>5. ASSUME NEW r \in ReportId, NEW g \in Image \cup {NoImage}, Attest(r, g)
      PROVE  Core'
  BY <1>5, AttestCore
<1>6. CASE OracleStep
  BY <1>6, OracleStepCore
<1> QED BY <1>1, <1>2, <1>3, <1>4, <1>5, <1>6, OtherCore DEF Next

\* The contracts keep every balance, counter and record in its type, the
\* report and its assertion in agreement, and the two maps between them
\* inverse to each other, however many reports, parties and vessels there are.
THEOREM Correspondence == Spec => []Core
<1>1. Init => Core
  BY InitCore
<1>2. Core /\ [Next]_vars => Core'
  BY NextCore
<1> QED BY <1>1, <1>2, PTL DEF Spec

\* No balance or counter goes below zero and every record stays in its type.
THEOREM TypeCorrect == Spec => []TypeOK
BY Correspondence, PTL DEF Core

\* A report's status always agrees with the state of its assertion.
THEOREM StatusAgreement == Spec => []StatusAgreesWithOracle
BY Correspondence, PTL DEF Core

\* Reports and the registry's own assertions correspond one to one.
THEOREM AssertionCorrespondence == Spec => []OneAssertionPerReport
BY Correspondence, PTL DEF Core

-----------------------------------------------------------------------------
(***************************************************************************)
(* What follows: the registry can always pay, settled reports are final,   *)
(* the contracts implement BondedClaim, and the public records of a vessel *)
(* agree with its reports.  Each step is described once, by what it does   *)
(* to the set of open reports and to the registry's balance; the theorems  *)
(* are read off from that.                                                 *)
(***************************************************************************)

\* A step opens report r: its slot was free, and one bond enters escrow.
Opens(r) ==
  /\ r \in ReportId \ Submitted
  /\ Submitted' = Submitted \cup {r}
  /\ reports'[r].status = PENDING
  /\ reports'[r].reporter # Nobody
  /\ \A q \in ReportId \ {r} : reports'[q] = reports[q]
  /\ balance'[Registry] = balance[Registry] + ProtocolBond

\* A step disputes report r.
Contests(r) ==
  /\ r \in Submitted
  /\ Submitted' = Submitted
  /\ reports[r].status = PENDING
  /\ reports' = [reports EXCEPT ![r].status = DISPUTED]
  /\ balance'[Registry] = balance[Registry]

\* A step closes report r with this outcome, at the cost of one bond.
Closes(r, outcome) ==
  /\ r \in Submitted
  /\ Submitted' = Submitted
  /\ reports[r].status \in {PENDING, DISPUTED}
  /\ outcome \in {SETTLED_TRUE, SETTLED_FALSE}
  /\ reports' = [reports EXCEPT ![r].status = outcome]
  /\ balance'[Registry] >= balance[Registry] - ProtocolBond
  /\ reports[r].status = PENDING \/ outcome = SETTLED_FALSE =>
       balance'[Registry] = balance[Registry] - ProtocolBond
  /\ outcome = SETTLED_FALSE => reports[r].status = DISPUTED

\* A step corroborates report r, which had been upheld.
Corroborates(r) ==
  /\ r \in Submitted
  /\ Submitted' = Submitted
  /\ reports[r].status = SETTLED_TRUE
  /\ ~reports[r].orbitalAttested
  /\ \E image \in Image :
       reports' = [reports EXCEPT ![r].orbitalAttested = TRUE, ![r].orbitalImage = image]
  /\ balance'[Registry] = balance[Registry]

\* Every other step.
LeavesReports ==
  /\ Submitted' = Submitted
  /\ reports' = reports
  /\ balance'[Registry] = balance[Registry]

LEMMA SubmitOpens ==
  ASSUME Core, NEW p \in Reporters, NEW imo, NEW meta, NEW a \in AssertionId,
         Submit(p, imo, meta, a)
  PROVE  \E r \in ReportId : Opens(r)
<1> DEFINE id == reportCount + 1
           filed == [reporter |-> p, bond |-> ProtocolBond, umaBond |-> minimumBond,
                     status |-> PENDING, imo |-> imo, meta |-> meta, assertionId |-> a,
                     orbitalAttested |-> FALSE, orbitalImage |-> NoImage]
<1>1. reportCount < MaxReports /\ reportCount' = id
      /\ reports' = [reports EXCEPT ![id] = filed]
  BY DEF Submit, NextId
<1>2. id \in ReportId \ Submitted /\ Submitted' = Submitted \cup {id}
  BY <1>1, SubmittedIds DEF Submitted, ReportId
<1>3. filed.status = PENDING /\ filed.reporter # Nobody
  BY Parties
<1> HIDE DEF filed
<1>4. Opens(id)
  BY <1>1, <1>2, <1>3, SubmitMoney DEF Opens, Core, TypeOK
<1> QED BY <1>2, <1>4

LEMMA DisputeContests ==
  ASSUME Core, NEW v \in Verifiers, NEW a \in AssertionId, DisputeAssertion(v, a)
  PROVE  \E r \in ReportId : Contests(r)
<1>1. Contests(assertionToReport[a])
  BY ReportBehind, DisputeMoney
     DEF DisputeAssertion, AssertionDisputedCallback, Contests, Submitted
<1> QED BY <1>1, SubmittedIds DEF Contests

LEMMA SettleCloses ==
  ASSUME Core, NEW a \in AssertionId, Settle(a)
  PROVE  \E r \in ReportId, outcome \in {SETTLED_TRUE, SETTLED_FALSE} : Closes(r, outcome)
<1> DEFINE r == assertionToReport[a]
<1>1. r # 0 /\ Submitted' = Submitted /\ reports[r].status \in {PENDING, DISPUTED}
  BY DEF Settle, SettleTruthful, SettleFalse, Submitted
<1>2. r \in Submitted /\ r \in ReportId /\ reports[r].assertionId = a
  BY <1>1, ReportBehind
<1>3. reports[r].status = DISPUTED <=> Disputed(a)
  BY <1>1, <1>2
     DEF Core, StatusAgreesWithOracle, Disputed, PENDING, DISPUTED, SETTLED_TRUE, SETTLED_FALSE
<1>4. PENDING # DISPUTED /\ SETTLED_TRUE # SETTLED_FALSE
  BY DEF PENDING, DISPUTED, SETTLED_TRUE, SETTLED_FALSE
<1>5. CASE SettleTruthful(a)
  <2>1. reports' = [reports EXCEPT ![r].status = SETTLED_TRUE]
    BY <1>5 DEF SettleTruthful
  <2>2. /\ balance'[Registry] >= balance[Registry] - ProtocolBond
        /\ ~Disputed(a) => balance'[Registry] = balance[Registry] - ProtocolBond
    BY <1>5, SettleTruthfulMoney
  <2> QED BY <1>1, <1>2, <1>3, <1>4, <2>1, <2>2 DEF Closes
<1>6. CASE SettleFalse(a)
  <2>1. reports' = [reports EXCEPT ![r].status = SETTLED_FALSE]
    BY <1>6 DEF SettleFalse
  <2>2. balance'[Registry] = balance[Registry] - ProtocolBond /\ Disputed(a)
    BY <1>6, SettleFalseMoney
  <2>3. balance[Registry] \in Nat /\ ProtocolBond \in Nat
    BY Parties DEF Core, TypeOK
  <2>4. balance'[Registry] >= balance[Registry] - ProtocolBond
    BY <2>2, <2>3
  <2>5. Closes(r, SETTLED_FALSE)
    BY <1>1, <1>2, <1>3, <2>1, <2>2, <2>4 DEF Closes
  <2> QED BY <1>2, <2>5
<1> QED BY <1>5, <1>6 DEF Settle

LEMMA AttestCorroborates ==
  ASSUME Core, NEW r \in ReportId, NEW image \in Image \cup {NoImage}, Attest(r, image)
  PROVE  Corroborates(r)
<1>1. r \in Submitted /\ image \in Image
  BY DEF Attest, Core, WellFormed, NoReport
<1>2. Submitted' = Submitted
  BY DEF Attest, Submitted
<1> QED BY <1>1, <1>2 DEF Attest, Corroborates

\* What any step but a settlement does to the reports and to the registry's balance.
LEMMA OpenStepShape ==
  ASSUME Core, [Next]_vars, \A a \in AssertionId : ~Settle(a)
  PROVE  \/ \E r \in ReportId : Opens(r) \/ Contests(r) \/ Corroborates(r)
         \/ LeavesReports
<1>1. ASSUME NEW p \in Reporters, NEW i \in Imo \cup {NoImo}, NEW m \in Meta \cup {EmptyMeta},
             NEW a \in AssertionId, Submit(p, i, m, a)
      PROVE  \E r \in ReportId : Opens(r)
  BY <1>1, SubmitOpens
<1>2. ASSUME NEW p \in Verifiers, NEW a \in AssertionId, AssertElsewhere(p, a)
      PROVE  LeavesReports
  BY <1>2, AssertElsewhereMoney DEF AssertElsewhere, LeavesReports, Submitted, registryVars
<1>3. ASSUME NEW v \in Verifiers, NEW a \in AssertionId, DisputeAssertion(v, a)
      PROVE  \E r \in ReportId : Contests(r)
  BY <1>3, DisputeContests
<1>4. ASSUME NEW r \in ReportId, NEW g \in Image \cup {NoImage}, Attest(r, g)
      PROVE  Corroborates(r)
  BY <1>4, AttestCorroborates
<1>5. CASE OutsideDeposit
  BY <1>5, OutsideDepositMoney DEF OutsideDeposit, LeavesReports, Submitted, registryVars
<1>6. CASE OracleStep
  BY <1>6 DEF OracleStep, LivenessElapses, VotersDecide, MinimumBondChanges,
              LeavesReports, Submitted, registryVars
<1>7. CASE \/ SetLighthouse \/ DeployerApproves \/ ParentOwnerTakes
           \/ \E r \in ReportId, g \in Image : SignCorroboration(r, g)
  BY <1>7 DEF SetLighthouse, DeployerApproves, ParentOwnerTakes, SignCorroboration,
              LeavesReports, Submitted, registryVars
<1>8. CASE UNCHANGED vars
  BY <1>8 DEF vars, LeavesReports, Submitted, registryVars
<1> QED BY <1>1, <1>2, <1>3, <1>4, <1>5, <1>6, <1>7, <1>8 DEF Next

\* What any step does to the reports and to the registry's balance.
LEMMA StepShape ==
  ASSUME Core, [Next]_vars
  PROVE  \/ \E r \in ReportId : Opens(r) \/ Contests(r) \/ Corroborates(r)
         \/ \E r \in ReportId, outcome \in {SETTLED_TRUE, SETTLED_FALSE} : Closes(r, outcome)
         \/ LeavesReports
BY OpenStepShape, SettleCloses

(***************************************************************************)
(* Solvency.                                                               *)
(***************************************************************************)

LEMMA OpenIsFinite ==
  ASSUME Core
  PROVE  IsFiniteSet(Open) /\ Cardinality(Open) \in Nat
<1>1. IsFiniteSet(ReportId)
  BY RegistryAssumption, FS_Interval DEF ReportId
<1>2. Open \in SUBSET ReportId
  BY SubmittedIds DEF Open
<1> QED BY <1>1, <1>2, FS_Subset, FS_CardinalityType

LEMMA Distribute ==
  ASSUME NEW b \in Nat, NEW n \in Nat
  PROVE  /\ b * (n + 1) = b * n + b
         /\ n > 0 => b * (n - 1) = b * n - b
         /\ b * n \in Nat
OBVIOUS

LEMMA StepSolvent ==
  ASSUME Core, Core', Solvent, [Next]_vars
  PROVE  Solvent'
<1>1. balance[Registry] \in Nat /\ balance'[Registry] \in Nat /\ ProtocolBond \in Nat
  BY Parties DEF Core, TypeOK
<1>2. IsFiniteSet(Open) /\ Cardinality(Open) \in Nat
  BY OpenIsFinite
<1>3. Submitted \subseteq ReportId /\ reports \in [ReportId -> Report]
  BY SubmittedIds DEF Core, TypeOK
<1> DEFINE n == Cardinality(Open)
<1>4. ASSUME NEW r \in ReportId, Opens(r)
      PROVE  Solvent'
  <2>1. Open' = Open \cup {r} /\ r \notin Open
    BY <1>3, <1>4 DEF Opens, Open, PENDING, DISPUTED
  <2>2. Cardinality(Open') = n + 1
    BY <1>2, <2>1, FS_AddElement
  <2>3. balance'[Registry] = balance[Registry] + ProtocolBond
    BY <1>4 DEF Opens
  <2> QED BY <1>1, <1>2, <2>2, <2>3, Distribute DEF Solvent
<1>5. ASSUME NEW r \in ReportId, NEW outcome \in {SETTLED_TRUE, SETTLED_FALSE},
             Closes(r, outcome)
      PROVE  Solvent'
  <2>1. Open' = Open \ {r} /\ r \in Open
    BY <1>3, <1>5 DEF Closes, Open, PENDING, DISPUTED, SETTLED_TRUE, SETTLED_FALSE
  <2>2. Cardinality(Open') = n - 1 /\ n > 0
    BY <1>2, <2>1, FS_RemoveElement, FS_EmptySet
  <2>3. balance'[Registry] >= balance[Registry] - ProtocolBond
    BY <1>5 DEF Closes
  <2> QED BY <1>1, <1>2, <2>2, <2>3, Distribute DEF Solvent
<1>6. ASSUME Open' = Open, balance'[Registry] = balance[Registry]
      PROVE  Solvent'
  BY <1>6 DEF Solvent
<1>7. ASSUME NEW r \in ReportId, Contests(r)
      PROVE  Solvent'
  <2>1. Open' = Open
    BY <1>3, <1>7 DEF Contests, Open, PENDING, DISPUTED
  <2> QED BY <1>6, <1>7, <2>1 DEF Contests
<1>8. ASSUME NEW r \in ReportId, Corroborates(r)
      PROVE  Solvent'
  <2>1. reports[r] \in Report /\ \A q \in ReportId \ {r} : reports'[q] = reports[q]
    BY <1>3, <1>8 DEF Corroborates
  <2>2. reports'[r].status = reports[r].status
    BY <1>3, <1>8, <2>1 DEF Corroborates, Report
  <2>3. Open' = Open
    BY <1>3, <1>8, <2>1, <2>2 DEF Corroborates, Open
  <2> QED BY <1>6, <1>8, <2>3 DEF Corroborates
<1>9. CASE LeavesReports
  BY <1>6, <1>9 DEF LeavesReports, Open
<1> QED BY <1>4, <1>5, <1>7, <1>8, <1>9, StepShape

\* However many reports are open and in whatever order they are disputed and
\* settled, the registry holds the protocol bond of each: no refund and no
\* split can fail for want of funds.
THEOREM RegistryIsSolvent == Spec => []Solvent
<1>1. Init => Solvent
  <2> SUFFICES ASSUME Init PROVE Solvent
    OBVIOUS
  <2>1. Open = {} /\ balance[Registry] = 0
    BY RegistryAssumption DEF Init, Open, Submitted
  <2> QED BY <2>1, FS_EmptySet, Parties DEF Solvent
<1>2. Core /\ Core' /\ Solvent /\ [Next]_vars => Solvent'
  BY StepSolvent
<1> QED BY <1>1, <1>2, Correspondence, PTL DEF Spec

(***************************************************************************)
(* Finality.                                                               *)
(***************************************************************************)

\* Corroborating a report changes nothing else of it.
LEMMA CorroborationKeeps ==
  ASSUME Core, NEW r \in ReportId, Corroborates(r)
  PROVE  /\ \A q \in ReportId \ {r} : reports'[q] = reports[q]
         /\ reports'[r].status = reports[r].status
         /\ reports'[r].reporter = reports[r].reporter
         /\ reports'[r].assertionId = reports[r].assertionId
         /\ reports[r].status = SETTLED_TRUE /\ ~reports[r].orbitalAttested
         /\ \E image \in Image :
              reports'[r] = [reports[r] EXCEPT !.orbitalAttested = TRUE, !.orbitalImage = image]
<1>1. reports \in [ReportId -> Report] /\ reports[r] \in Report
  BY DEF Core, TypeOK
<1>2. PICK image \in Image :
        reports' = [reports EXCEPT ![r].orbitalAttested = TRUE, ![r].orbitalImage = image]
  BY DEF Corroborates
<1>3. reports'[r] = [reports[r] EXCEPT !.orbitalAttested = TRUE, !.orbitalImage = image]
  BY <1>1, <1>2
<1>4. \A q \in ReportId \ {r} : reports'[q] = reports[q]
  BY <1>1, <1>2
<1>5. /\ reports'[r].status = reports[r].status
      /\ reports'[r].reporter = reports[r].reporter
      /\ reports'[r].assertionId = reports[r].assertionId
  BY <1>1, <1>3 DEF Report
<1>6. reports[r].status = SETTLED_TRUE /\ ~reports[r].orbitalAttested
  BY DEF Corroborates
<1> QED BY <1>3, <1>4, <1>5, <1>6

\* Settled is settled: no sequence of callbacks, settlements, submissions or
\* attestations, of this report or of others, changes a field of a report that is
\* settled, but to write its one corroboration when it was upheld.
THEOREM SettledForGood == Spec => SettledIsFinal
<1> DEFINE Final(r) ==
      reports[r].status \in {SETTLED_TRUE, SETTLED_FALSE} =>
        \/ reports'[r] = reports[r]
        \/ /\ reports[r].status = SETTLED_TRUE /\ ~reports[r].orbitalAttested
           /\ \E image \in Image :
                reports'[r] = [reports[r] EXCEPT !.orbitalAttested = TRUE,
                                                 !.orbitalImage = image]
<1>1. ASSUME Core, [Next]_vars, NEW r \in ReportId
      PROVE  Final(r)
  <2>1. reports \in [ReportId -> Report]
    BY <1>1 DEF Core, TypeOK
  <2>2. ASSUME NEW q \in ReportId, Opens(q)
        PROVE  Final(r)
    <3>1. reports[q].status \notin {SETTLED_TRUE, SETTLED_FALSE}
      BY <1>1, <2>2 DEF Opens, Core, WellFormed, NoReport, PENDING, SETTLED_TRUE, SETTLED_FALSE
    <3>2. r # q => reports'[r] = reports[r]
      BY <2>2 DEF Opens
    <3> QED BY <3>1, <3>2
  <2>3. ASSUME NEW q \in ReportId, Contests(q)
        PROVE  Final(r)
    <3>1. reports[q].status \notin {SETTLED_TRUE, SETTLED_FALSE}
      BY <2>3 DEF Contests, PENDING, SETTLED_TRUE, SETTLED_FALSE
    <3>2. r # q => reports'[r] = reports[r]
      BY <2>1, <2>3 DEF Contests
    <3> QED BY <3>1, <3>2
  <2>4. ASSUME NEW q \in ReportId, Corroborates(q)
        PROVE  Final(r)
    BY <1>1, <2>4, CorroborationKeeps
  <2>5. ASSUME NEW q \in ReportId, NEW outcome \in {SETTLED_TRUE, SETTLED_FALSE},
               Closes(q, outcome)
        PROVE  Final(r)
    <3>1. reports[q].status \notin {SETTLED_TRUE, SETTLED_FALSE}
      BY <2>5 DEF Closes, PENDING, DISPUTED, SETTLED_TRUE, SETTLED_FALSE
    <3>2. r # q => reports'[r] = reports[r]
      BY <2>1, <2>5 DEF Closes
    <3> QED BY <3>1, <3>2
  <2>6. CASE LeavesReports
    BY <2>6 DEF LeavesReports
  <2> HIDE DEF Final
  <2> QED BY <1>1, <2>2, <2>3, <2>4, <2>5, <2>6, StepShape
<1>2. Core /\ [Next]_vars => [\A r \in ReportId : Final(r)]_vars
  BY <1>1
<1> QED BY <1>2, Correspondence, PTL DEF Spec, SettledIsFinal

(***************************************************************************)
(* Refinement.                                                             *)
(***************************************************************************)

Stages == [r \in ReportId |-> StageOf(reports[r])]

\* A step that changes one report changes that report's stage only.
LEMMA OneStageMoves ==
  ASSUME NEW r \in ReportId, \A q \in ReportId \ {r} : reports'[q] = reports[q]
  PROVE  Stages' = [Stages EXCEPT ![r] = StageOf(reports'[r])]
BY DEF Stages

\* The stage of a submitted report follows its status.
LEMMA StageOfSubmitted ==
  ASSUME Core, NEW r \in Submitted
  PROVE  /\ reports[r].status = PENDING       => StageOf(reports[r]) = "open"
         /\ reports[r].status = DISPUTED      => StageOf(reports[r]) = "contested"
         /\ reports[r].status = SETTLED_TRUE  => StageOf(reports[r]) = "upheld"
         /\ reports[r].status = SETTLED_FALSE => StageOf(reports[r]) = "slashed"
<1>1. reports[r].reporter # Nobody
  BY Parties DEF Core, WellFormed
<1> QED BY <1>1 DEF StageOf, PENDING, DISPUTED, SETTLED_TRUE, SETTLED_FALSE

\* Every step of the composed contracts is a step of BondedClaim or a stutter.
LEMMA StepRefines ==
  ASSUME Core, Core', [Next]_vars
  PROVE  [Claims!Next]_<<Stages, balance[Registry]>>
<1>1. /\ balance[Registry] \in Nat /\ balance'[Registry] \in Nat /\ ProtocolBond \in Nat
      /\ reports \in [ReportId -> Report] /\ Submitted \subseteq ReportId
  BY Parties, SubmittedIds DEF Core, TypeOK
<1>2. ASSUME NEW r \in ReportId, Opens(r)
      PROVE  Claims!OpenClaim(r)
  <2>1. StageOf(reports[r]) = "none"
    BY <1>2 DEF Opens, Core, WellFormed, NoReport, StageOf
  <2>2. StageOf(reports'[r]) = "open"
    BY <1>2 DEF Opens, StageOf
  <2>3. Stages' = [Stages EXCEPT ![r] = "open"]
    BY <1>2, <2>2, OneStageMoves DEF Opens
  <2> QED BY <1>2, <2>1, <2>3 DEF Opens, Stages, Claims!OpenClaim, Claims!Move
<1>3. ASSUME NEW r \in ReportId, Contests(r)
      PROVE  Claims!Contest(r)
  <2>1. StageOf(reports[r]) = "open"
    BY <1>3, StageOfSubmitted DEF Contests
  <2>2. reports'[r].status = DISPUTED /\ r \in Submitted'
        /\ \A q \in ReportId \ {r} : reports'[q] = reports[q]
    BY <1>1, <1>3 DEF Contests, Report
  <2>3. StageOf(reports'[r]) = "contested"
    BY <2>2, Parties DEF Core, WellFormed, StageOf, PENDING, DISPUTED
  <2>4. Stages' = [Stages EXCEPT ![r] = "contested"]
    BY <2>2, <2>3, OneStageMoves
  <2> QED BY <1>3, <2>1, <2>4 DEF Contests, Stages, Claims!Contest, Claims!Move
<1>4. ASSUME NEW r \in ReportId, Closes(r, SETTLED_TRUE)
      PROVE  Claims!Uphold(r)
  <2>1. reports'[r].status = SETTLED_TRUE /\ r \in Submitted'
        /\ \A q \in ReportId \ {r} : reports'[q] = reports[q]
    BY <1>1, <1>4 DEF Closes, Report
  <2>2. StageOf(reports'[r]) = "upheld"
    BY <2>1, Parties
       DEF Core, WellFormed, StageOf, PENDING, DISPUTED, SETTLED_TRUE
  <2>3. Stages' = [Stages EXCEPT ![r] = "upheld"]
    BY <2>1, <2>2, OneStageMoves
  <2>4. \/ /\ StageOf(reports[r]) = "open"
           /\ balance'[Registry] = balance[Registry] - ProtocolBond
        \/ /\ StageOf(reports[r]) = "contested"
           /\ balance'[Registry] >= balance[Registry] - ProtocolBond
    BY <1>4, StageOfSubmitted DEF Closes
  <2> QED BY <2>3, <2>4 DEF Stages, Claims!Uphold, Claims!Move
<1>5. ASSUME NEW r \in ReportId, Closes(r, SETTLED_FALSE)
      PROVE  Claims!Slash(r)
  <2>1. reports'[r].status = SETTLED_FALSE /\ r \in Submitted'
        /\ \A q \in ReportId \ {r} : reports'[q] = reports[q]
    BY <1>1, <1>5 DEF Closes, Report
  <2>2. StageOf(reports'[r]) = "slashed"
    BY <2>1, Parties
       DEF Core, WellFormed, StageOf, PENDING, DISPUTED, SETTLED_TRUE, SETTLED_FALSE
  <2>3. Stages' = [Stages EXCEPT ![r] = "slashed"]
    BY <2>1, <2>2, OneStageMoves
  <2>4. StageOf(reports[r]) = "contested"
        /\ balance'[Registry] = balance[Registry] - ProtocolBond
    BY <1>5, StageOfSubmitted DEF Closes
  <2> QED BY <2>3, <2>4 DEF Stages, Claims!Slash, Claims!Move
<1>6. ASSUME NEW r \in ReportId, Corroborates(r)
      PROVE  UNCHANGED <<Stages, balance[Registry]>>
  <2>1. StageOf(reports'[r]) = StageOf(reports[r])
    BY <1>6, CorroborationKeeps DEF StageOf
  <2>2. Stages' = Stages
    BY <1>6, <2>1, CorroborationKeeps DEF Stages
  <2> QED BY <1>6, <2>2 DEF Corroborates
<1>7. CASE LeavesReports
  BY <1>7 DEF LeavesReports, Stages
<1> QED BY <1>2, <1>3, <1>4, <1>5, <1>6, <1>7, StepShape DEF Claims!Next

\* The five contracts together implement BondedClaim: a report is slashed
\* only after a dispute, closes once, and the registry gives up one protocol
\* bond per closed report, never more.
THEOREM RegistryImplementsBondedClaim == Spec => ImplementsBondedClaim
<1>1. Init => Claims!Init
  BY RegistryAssumption DEF Init, NoReport, StageOf, Claims!Init
<1>2. Core /\ Core' /\ [Next]_vars =>
        [Claims!Next]_<<[r \in ReportId |-> StageOf(reports[r])], balance[Registry]>>
  BY StepRefines DEF Stages
<1> QED BY <1>1, <1>2, Correspondence, PTL DEF Spec, ImplementsBondedClaim, Claims!Spec

-----------------------------------------------------------------------------
(***************************************************************************)
(* The public records: the ENS name of a vessel, the registry's counters   *)
(* and the corroborations agree, whatever the owner of the parent name     *)
(* does and in whatever order reports are settled and attested.  A step is *)
(* described by what it does to names and counters.                        *)
(***************************************************************************)
namesAndCounters == <<vessel, sightingsByImo, disputedByImo, vesselNamed>>

\* The owner of the parent name takes vessel i's name.
Takes(i) ==
  /\ "PARENT_CANNOT_CONTROL" \notin vessel[i].fuses
  /\ vessel' = [vessel EXCEPT ![i].owner = "parent"]
  /\ UNCHANGED <<sightingsByImo, disputedByImo, vesselNamed>>

\* Nothing changes for the vessels other than i.
OnlyVessel(i) ==
  \A j \in Imo \ {i} : /\ vessel'[j] = vessel[j]
                       /\ sightingsByImo'[j] = sightingsByImo[j]
                       /\ disputedByImo'[j] = disputedByImo[j]
                       /\ vesselNamed'[j] = vesselNamed[j]

\* A sighting of vessel i is counted and its records are written.
Sighted(i, meta) ==
  /\ OnlyVessel(i)
  /\ sightingsByImo'[i] = sightingsByImo[i] + 1
  /\ disputedByImo'[i] \in {disputedByImo[i], disputedByImo[i] + 1}
  /\ vesselNamed'[i]
  /\ vessel'[i].owner = "lighthouse"
  /\ vessel'[i].fuses = FusesVessel
  /\ vessel'[i].log = meta
  /\ vessel'[i].orbital = vessel[i].orbital
  /\ sightingsByImo[i] > 0 => /\ vessel'[i].count = sightingsByImo'[i]
                              /\ vessel'[i].disputed = disputedByImo'[i]

\* A sighting of a report that the step upholds.
SightedBy(r) ==
  /\ Sighted(reports[r].imo, reports[r].meta)
  /\ Submitted' = Submitted
  /\ reports' = [reports EXCEPT ![r].status = SETTLED_TRUE]

\* The corroboration of an upheld report r is written to its vessel's name.
OrbitalOf(r) ==
  LET i == reports[r].imo
  IN  /\ vessel' = [vessel EXCEPT ![i].orbital = reports'[r].orbitalImage]
      /\ reports'[r].orbitalAttested
      /\ reports[r].status = SETTLED_TRUE
      /\ UNCHANGED <<sightingsByImo, disputedByImo, vesselNamed>>

(***************************************************************************)
(* Steps.                                                                  *)
(***************************************************************************)

\* Minting a name sets owner, fuses and log, and leaves the other records.
LEMMA NameVesselFields ==
  ASSUME LighthouseTypeOK, NEW imo \in Imo, NEW meta \in Meta, NameVessel(imo, meta)
  PROVE  /\ \A j \in Imo \ {imo} : vessel'[j] = vessel[j]
         /\ vessel'[imo].owner = "lighthouse"
         /\ vessel'[imo].fuses = FusesVessel
         /\ vessel'[imo].log = meta
         /\ vessel'[imo].orbital = vessel[imo].orbital
<1>1. vessel[imo] \in VesselName
      /\ vessel'[imo] = [vessel[imo] EXCEPT !.owner = "lighthouse", !.fuses = FusesVessel,
                                            !.log = meta]
  BY DEF LighthouseTypeOK, NameVessel
<1>2. \A j \in Imo \ {imo} : vessel'[j] = vessel[j]
  BY DEF LighthouseTypeOK, NameVessel
<1>3. /\ vessel'[imo].owner = "lighthouse"
      /\ vessel'[imo].fuses = FusesVessel
      /\ vessel'[imo].log = meta
      /\ vessel'[imo].orbital = vessel[imo].orbital
  BY <1>1 DEF VesselName
<1> QED BY <1>2, <1>3

\* Refreshing the records sets log and counters, and leaves owner and fuses.
LEMMA RecordSightingFields ==
  ASSUME LighthouseTypeOK, NEW imo \in Imo, NEW meta, NEW n, NEW m,
         RecordSighting(imo, meta, n, m)
  PROVE  /\ \A j \in Imo \ {imo} : vessel'[j] = vessel[j]
         /\ vessel'[imo].owner = "lighthouse"
         /\ vessel'[imo].fuses = vessel[imo].fuses
         /\ vessel'[imo].log = meta
         /\ vessel'[imo].count = n
         /\ vessel'[imo].disputed = m
         /\ vessel'[imo].orbital = vessel[imo].orbital
<1>1. vessel[imo] \in VesselName /\ vessel[imo].owner = "lighthouse"
      /\ vessel'[imo] = [vessel[imo] EXCEPT !.log = meta, !.count = n, !.disputed = m]
  BY DEF LighthouseTypeOK, RecordSighting
<1>2. \A j \in Imo \ {imo} : vessel'[j] = vessel[j]
  BY DEF LighthouseTypeOK, RecordSighting
<1>3. /\ vessel'[imo].owner = "lighthouse"
      /\ vessel'[imo].fuses = vessel[imo].fuses
      /\ vessel'[imo].log = meta
      /\ vessel'[imo].count = n
      /\ vessel'[imo].disputed = m
      /\ vessel'[imo].orbital = vessel[imo].orbital
  BY <1>1 DEF VesselName
<1> QED BY <1>2, <1>3

\* Counting a sighting touches the counters of its vessel only.
LEMMA CountFields ==
  ASSUME TypeOK, NEW imo \in Imo, NEW wasDisputed \in BOOLEAN, CountSighting(imo, wasDisputed)
  PROVE  /\ sightingsByImo'[imo] = sightingsByImo[imo] + 1
         /\ disputedByImo'[imo] \in {disputedByImo[imo], disputedByImo[imo] + 1}
         /\ \A j \in Imo \ {imo} : /\ sightingsByImo'[j] = sightingsByImo[j]
                                   /\ disputedByImo'[j] = disputedByImo[j]
BY DEF TypeOK, CountSighting

\* An upheld report either leaves names and counters alone, Lighthouse not being
\* wired, or counts as a sighting of its vessel and is written to its name.
LEMMA TruthfulSighting ==
  ASSUME TypeOK, NamedIffSighted, NEW imo \in Imo, NEW meta \in Meta,
         NEW wasDisputed \in BOOLEAN, OnTruthfulSettlement(imo, meta, wasDisputed)
  PROVE  UNCHANGED namesAndCounters \/ Sighted(imo, meta)
<1>1. /\ LighthouseTypeOK /\ vesselNamed \in [Imo -> BOOLEAN]
      /\ sightingsByImo[imo] \in Nat
  BY DEF TypeOK
<1>2. CASE UNCHANGED <<lighthouseVars, sightingsByImo, disputedByImo, vesselNamed>>
  BY <1>2 DEF lighthouseVars, namesAndCounters
<1>3. CASE /\ CountSighting(imo, wasDisputed)
           /\ ~vesselNamed[imo]
           /\ vesselNamed' = [vesselNamed EXCEPT ![imo] = TRUE]
           /\ NameVessel(imo, meta)
  <2>1. vesselNamed'[imo] /\ \A j \in Imo \ {imo} : vesselNamed'[j] = vesselNamed[j]
    BY <1>1, <1>3
  <2>2. ~(sightingsByImo[imo] > 0)
    BY <1>3 DEF NamedIffSighted
  <2> QED BY <1>1, <1>3, <2>1, <2>2, NameVesselFields, CountFields DEF Sighted, OnlyVessel
<1>4. CASE /\ CountSighting(imo, wasDisputed)
           /\ vesselNamed[imo]
           /\ RecordSighting(imo, meta, sightingsByImo'[imo], disputedByImo'[imo])
           /\ UNCHANGED vesselNamed
  <2>1. vessel[imo].fuses = FusesVessel
    BY <1>4 DEF NamedIffSighted
  <2> QED BY <1>1, <1>4, <2>1, RecordSightingFields, CountFields DEF Sighted, OnlyVessel
<1> QED BY <1>2, <1>3, <1>4 DEF OnTruthfulSettlement

\* What any step does to names and counters.
LEMMA VesselStep ==
  ASSUME Core, NamedIffSighted, [Next]_vars
  PROVE  \/ UNCHANGED namesAndCounters
         \/ \E i \in Imo : Takes(i)
         \/ \E r \in Submitted : SightedBy(r) \/ OrbitalOf(r)
<1>1. ASSUME NEW a \in AssertionId, SettleTruthful(a)
      PROVE  UNCHANGED namesAndCounters \/ \E r \in Submitted : SightedBy(r)
  <2> DEFINE r == assertionToReport[a]
  <2>1. /\ r # 0 /\ Submitted' = Submitted
        /\ reports' = [reports EXCEPT ![r].status = SETTLED_TRUE]
        /\ OnTruthfulSettlement(reports[r].imo, reports[r].meta, reports[r].status = DISPUTED)
    BY <1>1 DEF SettleTruthful, Submitted
  <2>2. r \in Submitted /\ reports[r].imo \in Imo /\ reports[r].meta \in Meta
    BY <2>1, ReportBehind
  <2>3. (reports[r].status = DISPUTED) \in BOOLEAN
    OBVIOUS
  <2>4. UNCHANGED namesAndCounters \/ Sighted(reports[r].imo, reports[r].meta)
    BY <2>1, <2>2, <2>3, TruthfulSighting DEF Core
  <2> QED BY <2>1, <2>2, <2>4 DEF SightedBy
<1>2. ASSUME NEW r \in ReportId, NEW image \in Image \cup {NoImage}, Attest(r, image)
      PROVE  UNCHANGED namesAndCounters \/ \E q \in Submitted : OrbitalOf(q)
  <2>1. r \in Submitted /\ reports[r].status = SETTLED_TRUE
    BY <1>2 DEF Attest, Core, WellFormed, NoReport
  <2>2. reports'[r] = [reports[r] EXCEPT !.orbitalAttested = TRUE, !.orbitalImage = image]
        /\ reports[r] \in Report
    BY <1>2 DEF Attest, Core, TypeOK
  <2>3. reports'[r].orbitalAttested /\ reports'[r].orbitalImage = image
    BY <2>2 DEF Report
  <2>4. UNCHANGED <<sightingsByImo, disputedByImo, vesselNamed>>
        /\ (UNCHANGED lighthouseVars \/ RecordOrbital(reports[r].imo, image))
    BY <1>2 DEF Attest
  <2> QED BY <2>1, <2>3, <2>4 DEF OrbitalOf, RecordOrbital, lighthouseVars, namesAndCounters
<1>3. CASE ParentOwnerTakes
  BY <1>3 DEF ParentOwnerTakes, ParentTakes, Takes, registryVars
<1>4. CASE \/ SetLighthouse \/ DeployerApproves \/ OracleStep \/ OutsideDeposit
           \/ \E r \in ReportId, g \in Image : SignCorroboration(r, g)
  BY <1>4 DEF SetLighthouse, DeployerApproves, ApproveOperator, OracleStep, OutsideDeposit,
              SignCorroboration, lighthouseVars, registryVars, namesAndCounters
<1>5. CASE \/ \E p \in Reporters, i \in Imo \cup {NoImo}, m \in Meta \cup {EmptyMeta},
                 a \in AssertionId : Submit(p, i, m, a)
           \/ \E p \in Verifiers, a \in AssertionId : AssertElsewhere(p, a)
           \/ \E v \in Verifiers, a \in AssertionId : DisputeAssertion(v, a)
           \/ \E a \in AssertionId : SettleFalse(a)
  BY <1>5 DEF Submit, AssertElsewhere, DisputeAssertion, SettleFalse,
              lighthouseVars, registryVars, namesAndCounters
<1>6. CASE UNCHANGED vars
  BY <1>6 DEF vars, lighthouseVars, registryVars, namesAndCounters
<1> QED BY <1>1, <1>2, <1>3, <1>4, <1>5, <1>6 DEF Next, Settle

\* An upheld report stays upheld, of the same vessel and assertion and with the same
\* metadata, and keeps the corroboration it has.
LEMMA UpheldSurvives ==
  ASSUME Core, [Next]_vars, NEW r \in Submitted, reports[r].status = SETTLED_TRUE
  PROVE  /\ r \in Submitted'
         /\ reports'[r].status = SETTLED_TRUE
         /\ reports'[r].imo = reports[r].imo
         /\ reports'[r].meta = reports[r].meta
         /\ reports'[r].assertionId = reports[r].assertionId
         /\ reports[r].orbitalAttested => /\ reports'[r].orbitalAttested
                                          /\ reports'[r].orbitalImage = reports[r].orbitalImage
<1>1. reports \in [ReportId -> Report] /\ r \in ReportId /\ reports[r] \in Report
  BY SubmittedIds DEF Core, TypeOK
<1>2. CASE \E q \in ReportId : Opens(q)
  BY <1>1, <1>2 DEF Opens
<1>3. CASE \E q \in ReportId : Contests(q)
  BY <1>1, <1>3 DEF Contests, PENDING, SETTLED_TRUE
<1>4. CASE \E q \in ReportId, outcome \in {SETTLED_TRUE, SETTLED_FALSE} : Closes(q, outcome)
  BY <1>1, <1>4 DEF Closes, PENDING, DISPUTED, SETTLED_TRUE
<1>5. ASSUME NEW q \in ReportId, Corroborates(q)
      PROVE  /\ reports'[r].status = SETTLED_TRUE
             /\ reports'[r].imo = reports[r].imo
             /\ reports'[r].meta = reports[r].meta
             /\ reports'[r].assertionId = reports[r].assertionId
             /\ reports[r].orbitalAttested => reports'[r] = reports[r]
  <2>1. PICK image \in Image :
          reports' = [reports EXCEPT ![q].orbitalAttested = TRUE, ![q].orbitalImage = image]
    BY <1>5 DEF Corroborates
  <2>2. CASE q # r
    BY <1>1, <2>1, <2>2
  <2>3. CASE q = r
    <3>1. reports'[r] = [reports[r] EXCEPT !.orbitalAttested = TRUE, !.orbitalImage = image]
      BY <1>1, <2>1, <2>3
    <3>2. ~reports[r].orbitalAttested
      BY <1>5, <2>3 DEF Corroborates
    <3> QED BY <1>1, <3>1, <3>2 DEF Report
  <2> QED BY <2>2, <2>3
<1>6. CASE LeavesReports
  BY <1>6 DEF LeavesReports
<1>7. CASE \E q \in ReportId : Corroborates(q)
  BY <1>5, <1>7 DEF Corroborates
<1> QED BY <1>2, <1>3, <1>4, <1>6, <1>7, StepShape

\* A corroboration after a step was there before, or is signed for that very report.
LEMMA AttestationHasReason ==
  ASSUME Core, [Next]_vars, NEW r \in ReportId, reports'[r].orbitalAttested
  PROVE  \/ /\ reports[r].orbitalAttested
            /\ reports'[r].orbitalImage = reports[r].orbitalImage
         \/ /\ r \in Submitted /\ reports[r].status = SETTLED_TRUE
            /\ <<r, reports'[r].orbitalImage>> \in signed
<1> DEFINE Before == /\ reports[r].orbitalAttested
                     /\ reports'[r].orbitalImage = reports[r].orbitalImage
<1>1. reports \in [ReportId -> Report] /\ reports[r] \in Report
  BY DEF Core, TypeOK
<1>2. ASSUME NEW p \in Reporters, NEW i \in Imo \cup {NoImo}, NEW m \in Meta \cup {EmptyMeta},
             NEW a \in AssertionId, Submit(p, i, m, a)
      PROVE  Before
  <2> DEFINE filed == [reporter |-> p, bond |-> ProtocolBond, umaBond |-> minimumBond,
                       status |-> PENDING, imo |-> i, meta |-> m, assertionId |-> a,
                       orbitalAttested |-> FALSE, orbitalImage |-> NoImage]
  <2>1. reports' = [reports EXCEPT ![reportCount + 1] = filed] /\ ~filed.orbitalAttested
    BY <1>2 DEF Submit, NextId
  <2> HIDE DEF filed
  <2> QED BY <1>1, <2>1
<1>3. ASSUME NEW q \in ReportId, NEW image \in Image \cup {NoImage}, Attest(q, image)
      PROVE  Before \/ /\ r \in Submitted /\ reports[r].status = SETTLED_TRUE
                       /\ <<r, reports'[r].orbitalImage>> \in signed
  <2>1. reports' = [reports EXCEPT ![q].orbitalAttested = TRUE, ![q].orbitalImage = image]
        /\ <<q, image>> \in signed /\ reports[q].status = SETTLED_TRUE
        /\ reports[q].reporter # Nobody
    BY <1>3 DEF Attest, ValidSignature
  <2>2. CASE q # r
    BY <1>1, <2>1, <2>2
  <2>3. CASE q = r
    <3>1. reports'[r] = [reports[r] EXCEPT !.orbitalAttested = TRUE, !.orbitalImage = image]
      BY <1>1, <2>1, <2>3
    <3>2. reports'[r].orbitalImage = image
      BY <1>1, <3>1 DEF Report
    <3>3. r \in Submitted
      BY <2>1, <2>3 DEF Core, WellFormed, NoReport
    <3> QED BY <2>1, <2>3, <3>2, <3>3
  <2> QED BY <2>2, <2>3
<1>4. ASSUME NEW q, NEW s, reports' = [reports EXCEPT ![q].status = s]
      PROVE  Before
  BY <1>1, <1>4 DEF Report
<1>5. CASE \/ \E v \in Verifiers, a \in AssertionId : DisputeAssertion(v, a)
           \/ \E a \in AssertionId : Settle(a)
  <2>1. PICK a \in AssertionId : \/ \E v \in Verifiers : DisputeAssertion(v, a)
                                \/ SettleTruthful(a) \/ SettleFalse(a)
    BY <1>5 DEF Settle
  <2>2. \E s \in {DISPUTED, SETTLED_TRUE, SETTLED_FALSE} :
          reports' = [reports EXCEPT ![assertionToReport[a]].status = s]
    BY <2>1, Zenon DEF DisputeAssertion, AssertionDisputedCallback, SettleTruthful, SettleFalse
  <2> QED BY <1>4, <2>2
<1>6. CASE UNCHANGED reports
  BY <1>6
<1>7. CASE \/ SetLighthouse \/ DeployerApproves \/ ParentOwnerTakes \/ OracleStep
           \/ OutsideDeposit
           \/ \E q \in ReportId, g \in Image : SignCorroboration(q, g)
           \/ \E p \in Verifiers, a \in AssertionId : AssertElsewhere(p, a)
           \/ UNCHANGED vars
  <2>1. UNCHANGED reports
    BY <1>7 DEF SetLighthouse, DeployerApproves, ParentOwnerTakes, OracleStep, OutsideDeposit,
                SignCorroboration, AssertElsewhere, registryVars, vars
  <2> QED BY <1>6, <2>1
<1> QED BY <1>2, <1>3, <1>5, <1>7 DEF Next

\* Signatures are never withdrawn.
LEMMA SignaturesStay ==
  ASSUME [Next]_vars
  PROVE  signed \subseteq signed'
BY DEF Next, SetLighthouse, DeployerApproves, ParentOwnerTakes, Submit, AssertElsewhere,
       DisputeAssertion, Settle, SettleTruthful, SettleFalse, SignCorroboration, Attest,
       OracleStep, OutsideDeposit, vars

(***************************************************************************)
(* The invariants.                                                         *)
(***************************************************************************)

LEMMA StepNamed ==
  ASSUME Core, NamedIffSighted, [Next]_vars
  PROVE  NamedIffSighted'
<1>1. /\ vessel \in [Imo -> VesselName] /\ vesselNamed \in [Imo -> BOOLEAN]
      /\ sightingsByImo \in [Imo -> Nat] /\ disputedByImo \in [Imo -> Nat]
      /\ \A r \in Submitted : reports[r].imo \in Imo
  BY DEF Core, WellFormed, TypeOK, LighthouseTypeOK
<1>2. CASE UNCHANGED namesAndCounters
  BY <1>2 DEF NamedIffSighted, namesAndCounters
<1>3. ASSUME NEW i \in Imo, Takes(i)
      PROVE  NamedIffSighted'
  <2>1. ~vesselNamed[i]
    BY <1>3 DEF Takes, NamedIffSighted, FusesVessel
  <2>2. vessel'[i].owner = "parent" /\ \A j \in Imo \ {i} : vessel'[j] = vessel[j]
    BY <1>1, <1>3 DEF Takes, VesselName
  <2> QED BY <1>3, <2>1, <2>2 DEF Takes, NamedIffSighted
<1>4. ASSUME NEW r \in Submitted, SightedBy(r)
      PROVE  NamedIffSighted'
  <2> DEFINE i == reports[r].imo
  <2>1. i \in Imo /\ Sighted(i, reports[r].meta)
    BY <1>1, <1>4 DEF SightedBy
  <2> HIDE DEF i
  <2>2. /\ sightingsByImo'[i] > 0 /\ disputedByImo'[i] <= sightingsByImo'[i]
        /\ vesselNamed'[i] /\ vessel'[i].owner = "lighthouse"
        /\ vessel'[i].fuses = FusesVessel
    BY <1>1, <2>1 DEF Sighted, NamedIffSighted
  <2>3. OnlyVessel(i)
    BY <2>1 DEF Sighted
  <2> QED BY <2>1, <2>2, <2>3 DEF OnlyVessel, NamedIffSighted
<1>5. ASSUME NEW r \in Submitted, OrbitalOf(r)
      PROVE  NamedIffSighted'
  <2>1. \A i \in Imo : vessel'[i].owner = vessel[i].owner /\ vessel'[i].fuses = vessel[i].fuses
    BY <1>1, <1>5 DEF OrbitalOf, VesselName
  <2> QED BY <1>5, <2>1 DEF OrbitalOf, NamedIffSighted
<1> QED BY <1>2, <1>3, <1>4, <1>5, VesselStep

\* A report upheld for a vessel goes on being one.
LEMMA UpheldGrows ==
  ASSUME Core, [Next]_vars, NEW i \in Imo
  PROVE  Upheld(i) \subseteq Upheld(i)'
BY UpheldSurvives DEF Upheld

\* The report a sighting is counted for is upheld by the step.
LEMMA SightedIsUpheld ==
  ASSUME Core, NEW r \in Submitted, SightedBy(r), NEW i \in Imo, i = reports[r].imo
  PROVE  r \in Upheld(i)' /\ reports'[r].meta = reports[r].meta
<1>1. reports[r] \in Report /\ reports'[r] = [reports[r] EXCEPT !.status = SETTLED_TRUE]
  BY SubmittedIds DEF Core, TypeOK, SightedBy
<1>2. reports'[r].status = SETTLED_TRUE /\ reports'[r].imo = reports[r].imo
      /\ reports'[r].meta = reports[r].meta
  BY <1>1 DEF Report
<1> QED BY <1>2 DEF Upheld, SightedBy

LEMMA StepMirrors ==
  ASSUME Core, NamedIffSighted, EnsMirrorsRegistry, [Next]_vars
  PROVE  EnsMirrorsRegistry'
<1> DEFINE HasLog(i)   == vesselNamed[i] => \E r \in Upheld(i) : vessel[i].log = reports[r].meta
           Counts(i) == sightingsByImo[i] > 1 => /\ vessel[i].count = sightingsByImo[i]
                                                 /\ vessel[i].disputed = disputedByImo[i]
<1>1. /\ vessel \in [Imo -> VesselName]
      /\ sightingsByImo \in [Imo -> Nat]
      /\ \A r \in Submitted : reports[r].imo \in Imo
  BY DEF Core, WellFormed, TypeOK, LighthouseTypeOK
<1>2. \A i \in Imo : HasLog(i) /\ Counts(i)
  BY DEF EnsMirrorsRegistry
<1>3. ASSUME NEW i \in Imo, vessel'[i].log = vessel[i].log, vesselNamed'[i] = vesselNamed[i]
      PROVE  HasLog(i)'
  <2>1. SUFFICES ASSUME vesselNamed'[i] PROVE \E r \in Upheld(i)' : vessel'[i].log = reports'[r].meta
    BY <1>3
  <2>2. PICK r \in Upheld(i) : vessel[i].log = reports[r].meta
    BY <1>2, <1>3, <2>1
  <2>3. r \in Upheld(i)' /\ reports'[r].meta = reports[r].meta
    BY <2>2, UpheldSurvives DEF Upheld
  <2> QED BY <1>3, <2>2, <2>3
<1>4. ASSUME NEW i \in Imo, vessel'[i].count = vessel[i].count,
             vessel'[i].disputed = vessel[i].disputed,
             sightingsByImo'[i] = sightingsByImo[i], disputedByImo'[i] = disputedByImo[i]
      PROVE  Counts(i)'
  BY <1>2, <1>4
<1> SUFFICES ASSUME NEW i \in Imo PROVE HasLog(i)' /\ Counts(i)'
  BY DEF EnsMirrorsRegistry
<1>5. CASE UNCHANGED namesAndCounters
  BY <1>3, <1>4, <1>5 DEF namesAndCounters
<1>6. ASSUME NEW j \in Imo, Takes(j)
      PROVE  HasLog(i)' /\ Counts(i)'
  <2>1. /\ vessel'[i].log = vessel[i].log /\ vessel'[i].count = vessel[i].count
        /\ vessel'[i].disputed = vessel[i].disputed
    BY <1>1, <1>6 DEF Takes, VesselName
  <2> QED BY <1>3, <1>4, <1>6, <2>1 DEF Takes
<1>7. ASSUME NEW r \in Submitted, OrbitalOf(r)
      PROVE  HasLog(i)' /\ Counts(i)'
  <2>1. /\ vessel'[i].log = vessel[i].log /\ vessel'[i].count = vessel[i].count
        /\ vessel'[i].disputed = vessel[i].disputed
    BY <1>1, <1>7 DEF OrbitalOf, VesselName
  <2> QED BY <1>3, <1>4, <1>7, <2>1 DEF OrbitalOf
<1>8. ASSUME NEW r \in Submitted, SightedBy(r)
      PROVE  HasLog(i)' /\ Counts(i)'
  <2>1. reports[r].imo \in Imo /\ Sighted(reports[r].imo, reports[r].meta)
    BY <1>1, <1>8 DEF SightedBy
  <2>2. CASE i = reports[r].imo
    <3>1. r \in Upheld(i)' /\ vessel'[i].log = reports'[r].meta
      BY <1>8, <2>1, <2>2, SightedIsUpheld DEF Sighted
    <3>2. Counts(i)'
      BY <1>1, <2>1, <2>2 DEF Sighted
    <3> QED BY <3>1, <3>2
  <2>3. CASE i # reports[r].imo
    BY <1>3, <1>4, <2>1, <2>3 DEF Sighted, OnlyVessel
  <2> QED BY <2>2, <2>3
<1> QED BY <1>5, <1>6, <1>7, <1>8, VesselStep

LEMMA StepCorroboration ==
  ASSUME Core, NamedIffSighted, CorroborationIsSigned, [Next]_vars
  PROVE  CorroborationIsSigned'
<1> DEFINE Backed(i) == vessel[i].orbital # NoText =>
                          \E r \in Upheld(i) : /\ reports[r].orbitalAttested
                                               /\ reports[r].orbitalImage = vessel[i].orbital
<1>1. /\ vessel \in [Imo -> VesselName]
      /\ \A r \in Submitted : reports[r].imo \in Imo
  BY DEF Core, WellFormed, TypeOK, LighthouseTypeOK
<1>2. ASSUME NEW r \in ReportId, reports'[r].orbitalAttested
      PROVE  /\ r \in Submitted'
             /\ reports'[r].status = SETTLED_TRUE
             /\ <<r, reports'[r].orbitalImage>> \in signed'
  <2>1. /\ r \in Submitted /\ reports[r].status = SETTLED_TRUE
        /\ <<r, reports'[r].orbitalImage>> \in signed
    BY <1>2, AttestationHasReason DEF CorroborationIsSigned
  <2> QED BY <2>1, UpheldSurvives, SignaturesStay
<1>3. ASSUME NEW i \in Imo, vessel'[i].orbital = vessel[i].orbital
      PROVE  Backed(i)'
  BY <1>3, UpheldGrows, UpheldSurvives DEF CorroborationIsSigned, Upheld
<1>4. ASSUME NEW i \in Imo
      PROVE  Backed(i)'
  <2>1. CASE UNCHANGED namesAndCounters
    BY <1>3, <2>1 DEF namesAndCounters
  <2>2. ASSUME NEW j \in Imo, Takes(j)
        PROVE  vessel'[i].orbital = vessel[i].orbital
    BY <1>1, <2>2 DEF Takes, VesselName
  <2>3. ASSUME NEW r \in Submitted, SightedBy(r)
        PROVE  vessel'[i].orbital = vessel[i].orbital
    BY <1>1, <2>3 DEF SightedBy, Sighted, OnlyVessel
  <2>4. ASSUME NEW r \in Submitted, OrbitalOf(r)
        PROVE  Backed(i)'
    <3>1. CASE i = reports[r].imo
      <4>1. vessel'[i].orbital = reports'[r].orbitalImage /\ reports'[r].orbitalAttested
            /\ reports[r].status = SETTLED_TRUE
        BY <1>1, <2>4, <3>1 DEF OrbitalOf, VesselName
      <4>2. r \in Upheld(i)'
        BY <3>1, <4>1, UpheldSurvives DEF Upheld
      <4> QED BY <4>1, <4>2
    <3>2. CASE i # reports[r].imo
      BY <1>1, <1>3, <2>4, <3>2 DEF OrbitalOf
    <3> QED BY <3>1, <3>2
  <2> QED BY <1>3, <2>1, <2>2, <2>3, <2>4, VesselStep
<1> QED BY <1>2, <1>4 DEF CorroborationIsSigned

LEMMA InitNames == Init => NamedIffSighted /\ EnsMirrorsRegistry /\ CorroborationIsSigned
BY DEF Init, LighthouseInit, NamedEarlier, Unnamed, NamedIffSighted, EnsMirrorsRegistry,
       CorroborationIsSigned, NoReport

\* Every vessel with an upheld sighting, and no other, has a name that belongs to
\* Lighthouse and is sealed to it, for any number of reports and vessels, whatever the
\* owner of the parent name does in between.
THEOREM NamesFollowSightings == Spec => []NamedIffSighted
<1>1. Core /\ NamedIffSighted /\ [Next]_vars => NamedIffSighted'
  BY StepNamed
<1> QED BY <1>1, InitNames, Correspondence, PTL DEF Spec

\* The records of a vessel's name come from its own upheld reports, and from the second
\* sighting on its counters are the registry's.
THEOREM RecordsMirrorRegistry == Spec => []EnsMirrorsRegistry
<1>1. Core /\ NamedIffSighted /\ EnsMirrorsRegistry /\ [Next]_vars => EnsMirrorsRegistry'
  BY StepMirrors
<1> QED BY <1>1, InitNames, Correspondence, NamesFollowSightings, PTL DEF Spec

\* No signature is ever used for another report, and no vessel shows an image that none
\* of its upheld reports was attested with.
THEOREM CorroborationsAreSigned == Spec => []CorroborationIsSigned
<1>1. Core /\ NamedIffSighted /\ CorroborationIsSigned /\ [Next]_vars => CorroborationIsSigned'
  BY StepCorroboration
<1> QED BY <1>1, InitNames, Correspondence, NamesFollowSightings, PTL DEF Spec
=============================================================================
