------------------------ MODULE ReportRegistryAccounts ------------------------
(***************************************************************************)
(* What follows from ReportRegistryProofs for the counters and the money:  *)
(* the sightings of a vessel are its upheld reports, the pool books every  *)
(* token it holds, and every balance is explained by the reports' outcome. *)
(***************************************************************************)
EXTENDS ReportRegistryProofs

(***************************************************************************)
(* Totals.                                                                 *)
(***************************************************************************)

\* The units of one element are as many as its value.
LEMMA OneUnits ==
  ASSUME NEW x, NEW n \in Nat
  PROVE  IsFiniteSet({x} \X (1 .. n)) /\ Cardinality({x} \X (1 .. n)) = n
<1>1. IsFiniteSet({x}) /\ Cardinality({x}) = 1
  BY FS_Singleton
<1>2. IsFiniteSet(1 .. n) /\ Cardinality(1 .. n) = n
  <2>1. IsFiniteSet(1 .. n) /\ Cardinality(1 .. n) = IF 1 > n THEN 0 ELSE n - 1 + 1
    BY FS_Interval
  <2> QED BY <2>1
<1> DEFINE one == {x}
           some == 1 .. n
<1> HIDE DEF one, some
<1>3. IsFiniteSet(one \X some) /\ Cardinality(one \X some) = Cardinality(one) * Cardinality(some)
  BY <1>1, <1>2, FS_Product DEF one, some
<1> QED BY <1>1, <1>2, <1>3 DEF one, some

\* A total over a finite set is a natural number.
LEMMA TotalType ==
  ASSUME NEW S, IsFiniteSet(S), NEW f, \A x \in S : f[x] \in Nat
  PROVE  IsFiniteSet(Units(f, S)) /\ Total(f, S) \in Nat
<1> DEFINE U == {{x} \X (1 .. f[x]) : x \in S}
           g == [x \in S |-> {x} \X (1 .. f[x])]
<1>1. g \in Surjection(S, U)
  BY DEF Surjection
<1>2. IsFiniteSet(U)
  BY <1>1, FS_Surjection
<1>3. ASSUME NEW T \in U PROVE IsFiniteSet(T)
  <2>1. PICK x \in S : T = {x} \X (1 .. f[x])
    OBVIOUS
  <2>2. f[x] \in Nat
    OBVIOUS
  <2> QED BY <2>1, <2>2, OneUnits
<1>4. IsFiniteSet(UNION U)
  <2> HIDE DEF U
  <2> QED BY <1>2, <1>3, FS_UNION
<1> QED BY <1>4, FS_CardinalityType DEF Units, Total

\* Totals agree where the functions do.
LEMMA TotalAgrees ==
  ASSUME NEW S, NEW f, NEW g, \A x \in S : f[x] = g[x]
  PROVE  Total(f, S) = Total(g, S)
<1>1. Units(f, S) = Units(g, S)
  BY DEF Units
<1> QED BY <1>1 DEF Total

\* Nothing adds up to zero.
LEMMA TotalOfNothing ==
  ASSUME NEW f
  PROVE  Total(f, {}) = 0
BY FS_EmptySet DEF Total, Units

\* One element more adds its value.
LEMMA TotalAdds ==
  ASSUME NEW S, IsFiniteSet(S), NEW f, \A y \in S : f[y] \in Nat,
         NEW x, x \notin S, f[x] \in Nat
  PROVE  Total(f, S \cup {x}) = Total(f, S) + f[x]
<1> DEFINE A == Units(f, S)
           B == {x} \X (1 .. f[x])
<1>1. Units(f, S \cup {x}) = A \cup B
  BY DEF Units
<1>2. A \cap B = {}
  BY DEF Units
<1>3. IsFiniteSet(A) /\ Total(f, S) \in Nat /\ Total(f, S) = Cardinality(A)
  BY TotalType DEF Total
<1>6. Total(f, S \cup {x}) = Cardinality(A \cup B)
  BY <1>1 DEF Total
<1>4. IsFiniteSet(B) /\ Cardinality(B) = f[x]
  BY OneUnits
<1> HIDE DEF A, B
<1>5. Cardinality(A \cup B) = Cardinality(A) + Cardinality(B) - Cardinality({})
  BY <1>2, <1>3, <1>4, FS_Union
<1> QED BY <1>3, <1>4, <1>6, <1>5, FS_EmptySet

\* One element less takes its value away.
LEMMA TotalRemoves ==
  ASSUME NEW S, IsFiniteSet(S), NEW f, \A y \in S : f[y] \in Nat, NEW x \in S
  PROVE  /\ Total(f, S \ {x}) = Total(f, S) - f[x]
         /\ Total(f, S \ {x}) \in Nat
<1>1. IsFiniteSet(S \ {x})
  BY FS_RemoveElement
<1>2. Total(f, (S \ {x}) \cup {x}) = Total(f, S \ {x}) + f[x]
  BY <1>1, TotalAdds
<1>3. (S \ {x}) \cup {x} = S
  OBVIOUS
<1>4. Total(f, S \ {x}) \in Nat /\ Total(f, S) \in Nat /\ f[x] \in Nat
  BY <1>1, TotalType
<1> QED BY <1>2, <1>3, <1>4

\* Another value of one element changes the total by the difference.
LEMMA TotalChanges ==
  ASSUME NEW S, IsFiniteSet(S), NEW f, NEW g, NEW x \in S,
         \A y \in S : f[y] \in Nat /\ g[y] \in Nat,
         \A y \in S \ {x} : g[y] = f[y]
  PROVE  Total(g, S) = Total(f, S) - f[x] + g[x]
<1>1. /\ Total(f, S \ {x}) = Total(f, S) - f[x]
      /\ Total(f, S \ {x}) \in Nat
      /\ Total(g, S \ {x}) = Total(g, S) - g[x]
  BY TotalRemoves
<1>2. Total(f, S) \in Nat /\ Total(g, S) \in Nat
  BY TotalType
<1>3. Total(f, S \ {x}) = Total(g, S \ {x})
  BY TotalAgrees
<1> QED BY <1>1, <1>2, <1>3

(***************************************************************************)
(* Sightings.                                                              *)
(***************************************************************************)

\* Who disputed an assertion does not change once it is settled.
LEMMA DisputerStays ==
  ASSUME Core, [Next]_vars, NEW a \in AssertionId, Exists(a), assertions[a].settled
  PROVE  assertions'[a].disputer = assertions[a].disputer
<1>1. assertions \in [AssertionId -> Assertion] /\ assertions[a] \in Assertion
  BY DEF Core, TypeOK
<1>2. ASSUME NEW b, ~Exists(b) \/ ~assertions[b].settled, NEW new,
             assertions' = [assertions EXCEPT ![b] = new]
      PROVE  assertions'[a].disputer = assertions[a].disputer
  BY <1>1, <1>2
<1>3. ASSUME NEW b \in AssertionId, NEW x, NEW bond, OpenAssertion(b, x, bond)
      PROVE  assertions'[a].disputer = assertions[a].disputer
  BY <1>2, <1>3 DEF OpenAssertion
<1>4. ASSUME NEW b \in AssertionId, NEW v \in Verifiers, DisputeAssertion(v, b)
      PROVE  assertions'[a].disputer = assertions[a].disputer
  BY <1>2, <1>4 DEF DisputeAssertion, CanDispute, RecordDispute
<1>5. ASSUME NEW b \in AssertionId,
             Settle(b) \/ LivenessElapses(b) \/ \E v \in Verdict : VotersDecide(b, v)
      PROVE  assertions'[a].disputer = assertions[a].disputer
  <2>1. \/ assertions' = [assertions EXCEPT ![b].settled = TRUE]
        \/ assertions' = [assertions EXCEPT ![b].expired = TRUE]
        \/ \E v \in Verdict : assertions' = [assertions EXCEPT ![b].verdict = v]
    BY <1>5 DEF Settle, SettleTruthful, SettleFalse, RecordSettled, LivenessElapses, VotersDecide
  <2> QED BY <1>1, <2>1 DEF Assertion
<1>6. CASE UNCHANGED assertions
  BY <1>6
<1>7. CASE OracleStep
  BY <1>5, <1>6, <1>7 DEF OracleStep, MinimumBondChanges
<1>8. CASE \/ SetLighthouse \/ DeployerApproves \/ ParentOwnerTakes \/ OutsideDeposit
           \/ \E r \in ReportId, g \in Image : SignCorroboration(r, g)
           \/ \E r \in ReportId, g \in Image \cup {NoImage} : Attest(r, g)
           \/ UNCHANGED vars
  BY <1>6, <1>8 DEF SetLighthouse, DeployerApproves, ParentOwnerTakes, OutsideDeposit,
                    SignCorroboration, Attest, oracleVars, vars
<1>9. CASE \/ \E p \in Reporters, i \in Imo \cup {NoImo}, m \in Meta \cup {EmptyMeta},
                 b \in AssertionId : Submit(p, i, m, b)
           \/ \E p \in Verifiers, b \in AssertionId : AssertElsewhere(p, b)
  BY <1>3, <1>9 DEF Submit, AssertElsewhere
<1> QED BY <1>4, <1>5, <1>7, <1>8, <1>9 DEF Next

\* Only the settlement of its assertion upholds a report.
LEMMA UpheldBySettlement ==
  ASSUME Core, [Next]_vars, \A a \in AssertionId : ~SettleTruthful(a),
         NEW r \in ReportId, r \in Submitted', reports'[r].status = SETTLED_TRUE
  PROVE  r \in Submitted /\ reports[r].status = SETTLED_TRUE
<1> USE DEF PENDING, DISPUTED, SETTLED_TRUE, SETTLED_FALSE
<1>1. reports \in [ReportId -> Report] /\ Submitted \subseteq ReportId
  BY SubmittedIds DEF Core, TypeOK
<1>2. ASSUME NEW a \in AssertionId, Settle(a)
      PROVE  r \in Submitted /\ reports[r].status = SETTLED_TRUE
  <2>1. SettleFalse(a)
    BY <1>2 DEF Settle
  <2>2. reports' = [reports EXCEPT ![assertionToReport[a]].status = SETTLED_FALSE]
        /\ Submitted' = Submitted
    BY <2>1 DEF SettleFalse, Submitted
  <2> QED BY <1>1, <2>2 DEF Report
<1>3. ASSUME NEW q \in ReportId, Opens(q) \/ Contests(q)
      PROVE  r \in Submitted /\ reports[r].status = SETTLED_TRUE
  <2>1. CASE Opens(q)
    BY <2>1 DEF Opens
  <2>2. CASE Contests(q)
    BY <1>1, <2>2 DEF Contests, Report
  <2> QED BY <1>3, <2>1, <2>2
<1>4. ASSUME NEW q \in ReportId, Corroborates(q)
      PROVE  r \in Submitted /\ reports[r].status = SETTLED_TRUE
  <2>1. reports'[r].status = reports[r].status
    BY <1>4, CorroborationKeeps
  <2> QED BY <1>4, <2>1 DEF Corroborates
<1>5. CASE LeavesReports
  BY <1>5 DEF LeavesReports
<1> QED BY <1>2, <1>3, <1>4, <1>5, OpenStepShape

\* What a settlement that upholds the report r of vessel j does to the counters.
Counts(r, j) ==
  \/ /\ ~lighthouse
     /\ UNCHANGED <<sightingsByImo, disputedByImo>>
  \/ /\ lighthouse
     /\ CountSighting(j, reports[r].status = DISPUTED)

\* A step that upholds report r.
Upholds(r) ==
  /\ r \in Submitted
  /\ Submitted' = Submitted
  /\ reports[r].status \in {PENDING, DISPUTED}
  /\ reports' = [reports EXCEPT ![r].status = SETTLED_TRUE]
  /\ reports[r].status = DISPUTED <=> Disputed(reports[r].assertionId)
  /\ assertions' = [assertions EXCEPT ![reports[r].assertionId].settled = TRUE]
  /\ Counts(r, reports[r].imo)

\* A truthful settlement upholds the report behind its assertion and counts it.
LEMMA SettlementUpholds ==
  ASSUME Core, NEW a \in AssertionId, SettleTruthful(a)
  PROVE  \E r \in ReportId : Upholds(r)
<1> DEFINE r == assertionToReport[a]
<1>1. /\ r # 0 /\ reports[r].status \in {PENDING, DISPUTED}
      /\ reports' = [reports EXCEPT ![r].status = SETTLED_TRUE]
      /\ OnTruthfulSettlement(reports[r].imo, reports[r].meta, reports[r].status = DISPUTED)
      /\ Submitted' = Submitted
      /\ assertions' = [assertions EXCEPT ![a].settled = TRUE]
  BY DEF SettleTruthful, Submitted, RecordSettled
<1>2. r \in Submitted /\ r \in ReportId /\ reports[r].assertionId = a
  BY <1>1, ReportBehind
<1>3. Counts(r, reports[r].imo)
  BY <1>1 DEF OnTruthfulSettlement, Counts
<1>4. reports[r].status = DISPUTED <=> Disputed(a)
  BY <1>1, <1>2
     DEF Core, StatusAgreesWithOracle, Disputed, PENDING, DISPUTED, SETTLED_TRUE, SETTLED_FALSE
<1> QED BY <1>1, <1>2, <1>3, <1>4 DEF Upholds

\* Only a settlement moves the counters.
LEMMA CountersStay ==
  ASSUME [Next]_vars, \A a \in AssertionId : ~SettleTruthful(a)
  PROVE  UNCHANGED <<sightingsByImo, disputedByImo>>
BY DEF Next, SetLighthouse, DeployerApproves, ParentOwnerTakes, Submit, AssertElsewhere,
       DisputeAssertion, Settle, SettleFalse, SignCorroboration, Attest, OracleStep,
       OutsideDeposit, registryVars, vars

\* The assertion behind an upheld report exists and is settled.
LEMMA UpheldIsSettled ==
  ASSUME Core, NEW i \in Imo, NEW r \in Upheld(i)
  PROVE  /\ reports[r].assertionId \in AssertionId
         /\ Exists(reports[r].assertionId) /\ assertions[reports[r].assertionId].settled
BY Parties DEF Core, Upheld, StatusAgreesWithOracle, OneAssertionPerReport, Exists,
               PENDING, DISPUTED, SETTLED_TRUE, SETTLED_FALSE

\* The upheld reports of a vessel, disputed or not, once upheld.
LEMMA UpheldDisputedStays ==
  ASSUME Core, [Next]_vars, NEW i \in Imo, NEW r \in Upheld(i)
  PROVE  r \in Upheld(i)' /\ (r \in UpheldDisputed(i)' <=> r \in UpheldDisputed(i))
<1>1. r \in Upheld(i)' /\ reports'[r].assertionId = reports[r].assertionId
  BY UpheldSurvives DEF Upheld
<1>2. Disputed(reports[r].assertionId)' <=> Disputed(reports[r].assertionId)
  BY <1>1, UpheldIsSettled, DisputerStays DEF Disputed
<1> QED BY <1>1, <1>2 DEF UpheldDisputed, Disputed

\* What any step does to the upheld reports of a vessel and to its counters.
LEMMA UpheldStep ==
  ASSUME Core, [Next]_vars, NEW i \in Imo
  PROVE  \/ /\ Upheld(i)' = Upheld(i)
            /\ UpheldDisputed(i)' = UpheldDisputed(i)
            /\ sightingsByImo'[i] = sightingsByImo[i]
            /\ disputedByImo'[i] = disputedByImo[i]
         \/ \E r \in ReportId \ Upheld(i) :
              /\ r \in Submitted
              /\ Upheld(i)' = Upheld(i) \cup {r}
              /\ UpheldDisputed(i)' = IF reports[r].status = DISPUTED
                                      THEN UpheldDisputed(i) \cup {r} ELSE UpheldDisputed(i)
              /\ Counts(r, i)
<1>1. /\ reports \in [ReportId -> Report] /\ Submitted \subseteq ReportId
      /\ sightingsByImo \in [Imo -> Nat] /\ disputedByImo \in [Imo -> Nat]
      /\ \A r \in Submitted : reports[r].imo \in Imo
  BY SubmittedIds DEF Core, TypeOK, WellFormed
<1>2. CASE \A a \in AssertionId : ~SettleTruthful(a)
  <2>1. Upheld(i)' \subseteq Upheld(i)
    <3> SUFFICES ASSUME NEW r \in Upheld(i)' PROVE r \in Upheld(i)
      OBVIOUS
    <3>1. r \in ReportId /\ r \in Submitted' /\ reports'[r].status = SETTLED_TRUE
      <4>1. reportCount' \in 0..MaxReports
        BY NextCore DEF Core, TypeOK
      <4> QED BY <4>1, RegistryAssumption DEF Upheld, Submitted, ReportId
    <3>2. r \in Submitted /\ reports[r].status = SETTLED_TRUE
      BY <1>2, <3>1, UpheldBySettlement
    <3>3. reports'[r].imo = reports[r].imo
      BY <3>2, UpheldSurvives
    <3> QED BY <3>2, <3>3 DEF Upheld
  <2>2. Upheld(i)' = Upheld(i) /\ UpheldDisputed(i)' = UpheldDisputed(i)
    BY <2>1, UpheldDisputedStays DEF UpheldDisputed
  <2> QED BY <1>2, <2>2, CountersStay
<1>3. ASSUME NEW r \in ReportId, Upholds(r), reports[r].imo # i
      PROVE  /\ Upheld(i)' = Upheld(i)
             /\ UpheldDisputed(i)' = UpheldDisputed(i)
             /\ sightingsByImo'[i] = sightingsByImo[i]
             /\ disputedByImo'[i] = disputedByImo[i]
  <2>1. reports'[r].imo = reports[r].imo /\ \A q \in ReportId \ {r} : reports'[q] = reports[q]
    BY <1>1, <1>3 DEF Upholds, Report
  <2>2. Upheld(i)' = Upheld(i)
    BY <1>1, <1>3, <2>1 DEF Upholds, Upheld
  <2>3. UpheldDisputed(i)' = UpheldDisputed(i)
    BY <2>2, UpheldDisputedStays DEF UpheldDisputed
  <2>4. sightingsByImo'[i] = sightingsByImo[i] /\ disputedByImo'[i] = disputedByImo[i]
    BY <1>1, <1>3 DEF Upholds, Counts, CountSighting
  <2> QED BY <2>2, <2>3, <2>4
<1>4. ASSUME NEW r \in ReportId, Upholds(r), reports[r].imo = i
      PROVE  /\ r \notin Upheld(i)
             /\ r \in Submitted
             /\ Upheld(i)' = Upheld(i) \cup {r}
             /\ UpheldDisputed(i)' = IF reports[r].status = DISPUTED
                                     THEN UpheldDisputed(i) \cup {r} ELSE UpheldDisputed(i)
             /\ Counts(r, i)
  <2>1. /\ reports'[r].imo = i /\ reports'[r].status = SETTLED_TRUE
        /\ reports'[r].assertionId = reports[r].assertionId
        /\ \A q \in ReportId \ {r} : reports'[q] = reports[q]
    BY <1>1, <1>4 DEF Upholds, Report
  <2>2. r \notin Upheld(i) /\ Upheld(i)' = Upheld(i) \cup {r}
    BY <1>1, <1>4, <2>1
       DEF Upholds, Upheld, PENDING, DISPUTED, SETTLED_TRUE, SETTLED_FALSE
  <2>3. Disputed(reports[r].assertionId)' <=> reports[r].status = DISPUTED
    <3>1. /\ assertions \in [AssertionId -> Assertion]
          /\ reports[r].assertionId \in AssertionId
      BY <1>4 DEF Core, TypeOK, OneAssertionPerReport, Upholds
    <3>2. assertions'[reports[r].assertionId].disputer = assertions[reports[r].assertionId].disputer
      BY <1>4, <3>1 DEF Upholds, Assertion
    <3> QED BY <1>4, <2>1, <3>2 DEF Upholds, Disputed
  <2>4. r \in UpheldDisputed(i)' <=> reports[r].status = DISPUTED
    BY <2>1, <2>2, <2>3 DEF UpheldDisputed
  <2>5. UpheldDisputed(i)' = IF reports[r].status = DISPUTED
                             THEN UpheldDisputed(i) \cup {r} ELSE UpheldDisputed(i)
    BY <2>2, <2>4, UpheldDisputedStays DEF UpheldDisputed
  <2> QED BY <1>4, <2>2, <2>5 DEF Upholds
<1> QED BY <1>2, <1>3, <1>4, SettlementUpholds

\* A vessel has finitely many upheld reports.
LEMMA UpheldIsFinite ==
  ASSUME Core, NEW i \in Imo
  PROVE  IsFiniteSet(Upheld(i)) /\ IsFiniteSet(UpheldDisputed(i))
<1>1. IsFiniteSet(ReportId)
  BY RegistryAssumption, FS_Interval DEF ReportId
<1>2. Upheld(i) \in SUBSET ReportId /\ UpheldDisputed(i) \in SUBSET ReportId
  BY SubmittedIds DEF Upheld, UpheldDisputed
<1> QED BY <1>1, <1>2, FS_Subset

\* Without Lighthouse no report is submitted, if it must be wired first.
Wired == WiredFirst /\ Submitted # {} => lighthouse

\* Wired first, Lighthouse stays wired.
LEMMA StepWired ==
  ASSUME Wired, [Next]_vars
  PROVE  Wired'
BY DEF Wired, Next, SetLighthouse, DeployerApproves, ParentOwnerTakes, Submit, AssertElsewhere,
       DisputeAssertion, Settle, SettleTruthful, SettleFalse, SignCorroboration, Attest,
       OracleStep, OutsideDeposit, registryVars, vars, Submitted

\* A counter follows the number of what it counts, if only from below.
LEMMA OneMore ==
  ASSUME Core, NEW i \in Imo, NEW r \in ReportId \ Upheld(i)
  PROVE  /\ Cardinality(Upheld(i)) \in Nat /\ Cardinality(UpheldDisputed(i)) \in Nat
         /\ Cardinality(Upheld(i) \cup {r}) = Cardinality(Upheld(i)) + 1
         /\ Cardinality(UpheldDisputed(i) \cup {r}) = Cardinality(UpheldDisputed(i)) + 1
<1>1. r \notin UpheldDisputed(i)
  BY DEF UpheldDisputed
<1> QED BY <1>1, UpheldIsFinite, FS_AddElement, FS_CardinalityType

\* Every step counts what it upholds.
LEMMA StepSightings ==
  ASSUME Core, Wired, SightingsMatchSettlements, SightingsBounded, [Next]_vars
  PROVE  SightingsMatchSettlements' /\ SightingsBounded'
<1> SUFFICES ASSUME NEW i \in Imo
             PROVE  /\ sightingsByImo'[i] <= Cardinality(Upheld(i)')
                    /\ disputedByImo'[i] <= Cardinality(UpheldDisputed(i)')
                    /\ WiredFirst => /\ sightingsByImo'[i] = Cardinality(Upheld(i)')
                                     /\ disputedByImo'[i] = Cardinality(UpheldDisputed(i)')
  BY DEF SightingsMatchSettlements, SightingsBounded
<1> DEFINE s == Cardinality(Upheld(i))
           d == Cardinality(UpheldDisputed(i))
<1>1. /\ sightingsByImo \in [Imo -> Nat] /\ disputedByImo \in [Imo -> Nat]
      /\ sightingsByImo[i] <= s /\ disputedByImo[i] <= d
      /\ WiredFirst => sightingsByImo[i] = s /\ disputedByImo[i] = d
  BY DEF Core, TypeOK, SightingsMatchSettlements, SightingsBounded
<1>2. CASE /\ Upheld(i)' = Upheld(i)
           /\ UpheldDisputed(i)' = UpheldDisputed(i)
           /\ sightingsByImo'[i] = sightingsByImo[i]
           /\ disputedByImo'[i] = disputedByImo[i]
  BY <1>1, <1>2
<1>3. ASSUME NEW r \in ReportId \ Upheld(i),
             r \in Submitted,
             Upheld(i)' = Upheld(i) \cup {r},
             UpheldDisputed(i)' = IF reports[r].status = DISPUTED
                                  THEN UpheldDisputed(i) \cup {r} ELSE UpheldDisputed(i),
             Counts(r, i)
      PROVE  /\ sightingsByImo'[i] <= Cardinality(Upheld(i)')
             /\ disputedByImo'[i] <= Cardinality(UpheldDisputed(i)')
             /\ WiredFirst => /\ sightingsByImo'[i] = Cardinality(Upheld(i)')
                              /\ disputedByImo'[i] = Cardinality(UpheldDisputed(i)')
  <2>1. /\ s \in Nat /\ d \in Nat
        /\ Cardinality(Upheld(i)') = s + 1
        /\ Cardinality(UpheldDisputed(i)') = IF reports[r].status = DISPUTED THEN d + 1 ELSE d
    BY <1>3, OneMore
  <2>2. WiredFirst => lighthouse
    BY <1>3 DEF Wired
  <2>3. \/ ~lighthouse /\ sightingsByImo'[i] = sightingsByImo[i]
                       /\ disputedByImo'[i] = disputedByImo[i]
        \/ /\ sightingsByImo'[i] = sightingsByImo[i] + 1
           /\ disputedByImo'[i] = IF reports[r].status = DISPUTED THEN disputedByImo[i] + 1
                                                                  ELSE disputedByImo[i]
    BY <1>1, <1>3 DEF Counts, CountSighting
  <2> HIDE DEF s, d
  <2> QED BY <1>1, <2>1, <2>2, <2>3
<1> QED BY <1>2, <1>3, UpheldStep

\* To begin with there are no sightings.
LEMMA InitSightings == Init => Wired /\ SightingsMatchSettlements /\ SightingsBounded
<1> SUFFICES ASSUME Init PROVE Wired /\ SightingsMatchSettlements /\ SightingsBounded
  OBVIOUS
<1>1. Submitted = {} /\ \A i \in Imo : Upheld(i) = {} /\ UpheldDisputed(i) = {}
  BY DEF Init, Submitted, Upheld, UpheldDisputed
<1>2. \A i \in Imo : sightingsByImo[i] = 0 /\ disputedByImo[i] = 0
  BY DEF Init
<1> QED BY <1>1, <1>2, FS_EmptySet DEF Wired, SightingsMatchSettlements, SightingsBounded

\* In whatever order reports are disputed, settled and attested, and whether Lighthouse
\* is wired early or late, no vessel is credited with a sighting that was not upheld.
LEMMA SightingsInvariant ==
  Spec => [](Wired /\ SightingsMatchSettlements /\ SightingsBounded)
<1>1. Core /\ Wired /\ SightingsMatchSettlements /\ SightingsBounded /\ [Next]_vars
        => Wired' /\ SightingsMatchSettlements' /\ SightingsBounded'
  BY StepWired, StepSightings
<1> QED BY <1>1, InitSightings, Correspondence, PTL DEF Spec

\* With Lighthouse wired first, a vessel's counters are its upheld reports, and the
\* disputed ones among them, exactly.
THEOREM SightingsAreUpheldReports == Spec => []SightingsMatchSettlements
BY SightingsInvariant, PTL

\* With Lighthouse wired at any time, they never exceed them.
THEOREM SightingsNeverExceed == Spec => []SightingsBounded
BY SightingsInvariant, PTL

(***************************************************************************)
(* What each transaction pays, and to whom.                                *)
(***************************************************************************)

\* The oracle's payment reaches the winner, and nobody else but its store.
LEMMA OraclePaysWinner ==
  ASSUME Core, NEW a \in AssertionId, NEW winner \in Verifiers \cup {Registry}, Exists(a)
  PROVE  /\ WinnersShare(a) \in Nat
         /\ OraclePays(balance, a, winner)[winner] = balance[winner] + WinnersShare(a)
         /\ \A x \in Account \ {Oracle, Store, winner} :
              OraclePays(balance, a, winner)[x] = balance[x]
<1> DEFINE bond == assertions[a].bond
           fee  == FeeTaken(a)
           b1   == Transfer(balance, Oracle, Store, fee)
<1>1. bond \in UmaBonds /\ bond \in Nat /\ OracleFee(bond) \in 0..bond
  BY OracleAssumption DEF Core, WellFormed
<1>2. fee \in Nat /\ WinnersShare(a) \in Nat
  BY <1>1 DEF FeeTaken, WinnersShare
<1>3. balance \in [Account -> Nat] /\ winner \in Account /\ winner \notin {Oracle, Store}
  BY Parties, RegistryAssumption DEF Core, TypeOK
<1>4. \A x \in Account \ {Oracle, Store} : b1[x] = balance[x]
  BY <1>3 DEF Transfer
<1>5. DOMAIN b1 = Account
      /\ OraclePays(balance, a, winner) = Transfer(b1, Oracle, winner, WinnersShare(a))
  BY <1>3 DEF OraclePays, Transfer
<1> HIDE DEF b1
<1>6. /\ Transfer(b1, Oracle, winner, WinnersShare(a))[winner] = b1[winner] + WinnersShare(a)
      /\ \A x \in Account \ {Oracle, winner} : Transfer(b1, Oracle, winner, WinnersShare(a))[x] = b1[x]
  BY <1>3, <1>5 DEF Transfer
<1> QED BY <1>2, <1>3, <1>4, <1>5, <1>6

\* Submitting costs the reporter both bonds.
LEMMA SubmitPays ==
  ASSUME Core, NEW p \in Reporters, NEW imo, NEW meta, NEW a \in AssertionId,
         Submit(p, imo, meta, a)
  PROVE  /\ balance'[p] = balance[p] - (ProtocolBond + minimumBond)
         /\ \A x \in Account \ {p, Registry, Oracle} : balance'[x] = balance[x]
<1>1. minimumBond \in Nat /\ balance \in [Account -> Nat] /\ p \in Account
      /\ p # Registry /\ p # Oracle
  BY Parties DEF Core, TypeOK
<1> DEFINE pulled == Transfer(balance, p, Registry, ProtocolBond + minimumBond)
<1>2. balance' = Transfer(pulled, Registry, Oracle, minimumBond)
  BY DEF Submit
<1>3. /\ pulled[p] = balance[p] - (ProtocolBond + minimumBond)
      /\ \A x \in Account \ {p, Registry} : pulled[x] = balance[x]
      /\ DOMAIN pulled = Account
  BY <1>1, Parties DEF Transfer
<1> HIDE DEF pulled
<1>4. \A x \in Account \ {Registry, Oracle} : balance'[x] = pulled[x]
  BY <1>2, <1>3, Parties DEF Transfer
<1> QED BY <1>1, <1>3, <1>4

\* An assertion of one's own costs UMA's minimum bond.
LEMMA AssertElsewherePays ==
  ASSUME Core, NEW p \in Verifiers, NEW a \in AssertionId, AssertElsewhere(p, a)
  PROVE  /\ balance'[p] = balance[p] - minimumBond
         /\ \A x \in Account \ {p, Oracle} : balance'[x] = balance[x]
BY Parties DEF Core, TypeOK, AssertElsewhere, Transfer

\* A dispute costs a bond equal to the asserter's.
LEMMA DisputePays ==
  ASSUME Core, NEW v \in Verifiers, NEW a \in AssertionId, DisputeAssertion(v, a)
  PROVE  /\ balance'[v] = balance[v] - assertions[a].bond
         /\ \A x \in Account \ {v, Oracle} : balance'[x] = balance[x]
BY Parties DEF Core, TypeOK, DisputeAssertion, Transfer

\* A deposit goes from the payer to the pool.
LEMMA DepositPays ==
  ASSUME Core, NEW p \in Verifiers, NEW r \in ReportId, NEW amount \in OutsideDeposits,
         DepositSlash(p, r, amount)
  PROVE  /\ balance'[Pool] = balance[Pool] + amount
         /\ \A x \in Account \ {p, Pool} : balance'[x] = balance[x]
BY Parties, RegistryAssumption DEF Core, TypeOK, DepositSlash, Transfer

\* A truthful settlement returns both bonds; the registry keeps what the oracle pays beyond.
LEMMA TruthfulPays ==
  ASSUME Core, NEW a \in AssertionId, SettleTruthful(a)
  PROVE  LET p == reports[assertionToReport[a]].reporter
         IN  /\ p \in Reporters
             /\ balance'[p] = balance[p] + ProtocolBond + assertions[a].bond
             /\ balance'[Registry] =
                  balance[Registry] + WinnersShare(a) - (ProtocolBond + assertions[a].bond)
             /\ \A x \in Account \ {Oracle, Store, Registry, p} : balance'[x] = balance[x]
<1> DEFINE r      == assertionToReport[a]
           p      == reports[r].reporter
           paid   == OraclePays(balance, a, Registry)
           refund == ProtocolBond + assertions[a].bond
<1>1. /\ Exists(a) /\ r # 0 /\ balance' = Transfer(paid, Registry, p, Refund(reports[r]))
      /\ Funded(balance, Oracle, FeeTaken(a) + WinnersShare(a))
  BY DEF SettleTruthful, ResolvesTrue
<1>2. p \in Reporters /\ Refund(reports[r]) = refund
  BY <1>1, ReportBehind DEF Refund
<1>3. p \in Account /\ p \notin {Oracle, Store, Registry} /\ balance \in [Account -> Nat]
  <2> HIDE DEF p
  <2> QED BY <1>2, Parties, RegistryAssumption DEF Core, TypeOK
<1>4. assertions[a].bond \in Nat /\ ProtocolBond \in Nat /\ refund \in Nat
  <2>1. assertions[a].bond \in UmaBonds
    BY <1>1 DEF Core, WellFormed
  <2>2. assertions[a].bond \in Nat
    BY <2>1, Parties
  <2> QED BY <2>2, Parties
<1>5. /\ paid \in [Account -> Nat] /\ WinnersShare(a) \in Nat
      /\ paid[Registry] = balance[Registry] + WinnersShare(a)
      /\ \A x \in Account \ {Oracle, Store, Registry} : paid[x] = balance[x]
  BY <1>1, OraclePaysWinner, OraclePayment
<1> HIDE DEF paid, p, r, refund
<1>6. /\ balance'[p] = paid[p] + refund
      /\ balance'[Registry] = paid[Registry] - refund
      /\ \A x \in Account \ {Registry, p} : balance'[x] = paid[x]
  BY <1>1, <1>2, <1>3, <1>5, Parties DEF Transfer
<1>7. balance'[p] = balance[p] + refund
  BY <1>3, <1>5, <1>6
<1>8. balance'[Registry] = balance[Registry] + WinnersShare(a) - refund
  <2>1. balance[Registry] \in Nat /\ refund \in Nat
    BY <1>3, <1>4, Parties
  <2> QED BY <1>5, <1>6, <2>1
<1>9. \A x \in Account \ {Oracle, Store, Registry, p} : balance'[x] = balance[x]
  BY <1>5, <1>6
<1>10. balance[p] \in Nat /\ balance'[p] = balance[p] + ProtocolBond + assertions[a].bond
  BY <1>3, <1>7, <1>4 DEF refund
<1>11. balance'[Registry] = balance[Registry] + WinnersShare(a) - (ProtocolBond + assertions[a].bond)
  BY <1>8 DEF refund
<1> QED BY <1>2, <1>9, <1>10, <1>11 DEF p, r

\* A slashing pays the disputer, the pool and the treasury, and nobody else.
LEMMA FalsePays ==
  ASSUME Core, NEW a \in AssertionId, SettleFalse(a)
  PROVE  LET v == assertions[a].disputer
         IN  /\ v \in Verifiers
             /\ v # Treasury => balance'[v] =
                  balance[v] + WinnersShare(a) + DisputerShare(ProtocolBond)
             /\ Pool # Treasury => balance'[Pool] = balance[Pool] + PoolShare(ProtocolBond)
             /\ Treasury \notin {v, Pool, Oracle, Store} =>
                  balance'[Treasury] = balance[Treasury] + TreasuryShare(ProtocolBond)
             /\ \A x \in Account \ {Oracle, Store, Registry, Pool, Treasury, v} :
                  balance'[x] = balance[x]
<1> DEFINE r      == assertionToReport[a]
           v      == assertions[a].disputer
           d      == DisputerShare(ProtocolBond)
           s      == PoolShare(ProtocolBond)
           t      == TreasuryShare(ProtocolBond)
           paid   == OraclePays(balance, a, v)
           split1 == Transfer(paid, Registry, v, d)
           split2 == Transfer(split1, Registry, Pool, s)
<1>1. r # 0 /\ Exists(a) /\ v # Nobody
  BY DEF SettleFalse, ResolvesFalse
<1>2. reports[r].bond = ProtocolBond
  BY <1>1, ReportBehind
<1>3. balance' = Transfer(split2, Registry, Treasury, t)
      /\ Funded(balance, Oracle, FeeTaken(a) + WinnersShare(a))
  BY <1>2 DEF SettleFalse
<1>4. v \in Verifiers /\ v \in Account \ {Oracle, Store, Registry, Pool}
      /\ balance \in [Account -> Nat]
  BY <1>1, Parties, RegistryAssumption DEF Core, WellFormed, TypeOK
<1>5. d \in Nat /\ s \in Nat /\ t \in Nat
  BY Parties, SplitIsExact
<1>6. /\ paid \in [Account -> Nat] /\ WinnersShare(a) \in Nat
      /\ paid[v] = balance[v] + WinnersShare(a)
      /\ \A x \in Account \ {Oracle, Store, v} : paid[x] = balance[x]
  BY <1>1, <1>3, <1>4, OraclePaysWinner, OraclePayment
<1> HIDE DEF v, d, s, t, paid, r
<1>7. /\ DOMAIN split1 = Account
      /\ split1[v] = paid[v] + d
      /\ \A x \in Account \ {Registry, v} : split1[x] = paid[x]
  BY <1>4, <1>5, <1>6, Parties DEF Transfer
<1> HIDE DEF split1
<1>8. /\ DOMAIN split2 = Account
      /\ split2[Pool] = split1[Pool] + s
      /\ \A x \in Account \ {Registry, Pool} : split2[x] = split1[x]
  BY <1>5, <1>7, Parties DEF Transfer
<1> HIDE DEF split2
<1>9. /\ balance'[Treasury] = split2[Treasury] + t
      /\ \A x \in Account \ {Registry, Treasury} : balance'[x] = split2[x]
  BY <1>3, <1>5, <1>8, Parties DEF Transfer
<1>10. v # Treasury => balance'[v] = balance[v] + WinnersShare(a) + d
  BY <1>4, <1>6, <1>7, <1>8, <1>9
<1>11. Pool # Treasury => balance'[Pool] = balance[Pool] + s
  BY <1>4, <1>6, <1>7, <1>8, <1>9, Parties, RegistryAssumption
<1>12. Treasury \notin {v, Pool, Oracle, Store} => balance'[Treasury] = balance[Treasury] + t
  BY <1>6, <1>7, <1>8, <1>9, Parties
<1>13. \A x \in Account \ {Oracle, Store, Registry, Pool, Treasury, v} : balance'[x] = balance[x]
  BY <1>6, <1>7, <1>8, <1>9
<1> QED BY <1>4, <1>10, <1>11, <1>12, <1>13 DEF v, d, s, t

(***************************************************************************)
(* The books.  Beside Core they need that only finitely many assertions    *)
(* were ever opened, and that nobody disputes or settles an assertion that *)
(* is not the registry's: its callbacks would revert.                      *)
(***************************************************************************)
Asserted == {a \in AssertionId : Exists(a)}

OwnDisputes ==
  \A a \in AssertionId :
    Disputed(a) \/ assertions[a].settled => assertions[a].asserter = Registry

Books == IsFiniteSet(Asserted) /\ OwnDisputes

\* A step leaves the parties, the bonds and the outcome of report r alone.
SameTerms(r) ==
  /\ reports'[r].reporter = reports[r].reporter
  /\ reports'[r].bond = reports[r].bond
  /\ reports'[r].umaBond = reports[r].umaBond
  /\ reports'[r].assertionId = reports[r].assertionId

SameOutcome(r) ==
  /\ reports'[r].status = SETTLED_TRUE <=> reports[r].status = SETTLED_TRUE
  /\ reports'[r].status = SETTLED_FALSE <=> reports[r].status = SETTLED_FALSE

SameReports ==
  /\ Submitted' = Submitted
  /\ \A r \in Submitted : SameTerms(r) /\ SameOutcome(r)

\* A step leaves what assertion a is worth, and to whom, alone.
SameAssertion(a) ==
  /\ assertions'[a].asserter = assertions[a].asserter
  /\ assertions'[a].bond = assertions[a].bond
  /\ assertions'[a].disputer = assertions[a].disputer
  /\ assertions'[a].settled = assertions[a].settled
  /\ assertions[a].settled => assertions'[a].verdict = assertions[a].verdict

\* A step that moves no money and decides nothing.
Quiet ==
  /\ UNCHANGED <<balance, poolVars>>
  /\ SameReports
  /\ \A a \in AssertionId : SameAssertion(a)

\* Attestation touches only what the attestor adds.
LEMMA CorroborationTerms ==
  ASSUME Core, NEW r \in ReportId, Corroborates(r)
  PROVE  SameReports
<1>1. reports \in [ReportId -> Report] /\ reports[r] \in Report
  BY DEF Core, TypeOK
<1>2. PICK image \in Image :
        reports' = [reports EXCEPT ![r].orbitalAttested = TRUE, ![r].orbitalImage = image]
  BY DEF Corroborates
<1>3. reports'[r] = [reports[r] EXCEPT !.orbitalAttested = TRUE, !.orbitalImage = image]
  BY <1>1, <1>2
<1>4. /\ reports'[r].reporter = reports[r].reporter
      /\ reports'[r].bond = reports[r].bond
      /\ reports'[r].umaBond = reports[r].umaBond
      /\ reports'[r].assertionId = reports[r].assertionId
      /\ reports'[r].status = reports[r].status
  BY <1>1, <1>3 DEF Report
<1>5. Submitted \subseteq ReportId /\ \A q \in ReportId \ {r} : reports'[q] = reports[q]
  BY <1>1, <1>2, SubmittedIds
<1> QED BY <1>4, <1>5 DEF Corroborates, SameReports, SameTerms, SameOutcome

\* A settled and disputed assertion of the registry's has its verdict.
LEMMA VerdictIsIn ==
  ASSUME Core, Books, NEW a \in AssertionId, Disputed(a), assertions[a].settled
  PROVE  assertions[a].verdict # "none"
<1>1. assertionToReport[a] # 0
  BY DEF Books, OwnDisputes, Core, OneAssertionPerReport
<1>2. assertionToReport[a] \in Submitted /\ reports[assertionToReport[a]].assertionId = a
      /\ reports[assertionToReport[a]] \in Report
  BY <1>1, ReportBehind DEF Core, TypeOK
<1>3. reports[assertionToReport[a]].status \in {SETTLED_TRUE, SETTLED_FALSE}
  BY <1>2 DEF Core, StatusAgreesWithOracle, Disputed, Report,
              PENDING, DISPUTED, SETTLED_TRUE, SETTLED_FALSE
<1> QED BY <1>2, <1>3 DEF Core, StatusAgreesWithOracle, Disputed

\* The steps that move no money.
LEMMA QuietSteps ==
  ASSUME Core, Books, [Next]_vars,
         \A p \in Reporters, i \in Imo \cup {NoImo}, m \in Meta \cup {EmptyMeta},
            a \in AssertionId : ~Submit(p, i, m, a),
         \A p \in Verifiers, a \in AssertionId : ~AssertElsewhere(p, a) /\ ~DisputeAssertion(p, a),
         \A a \in AssertionId : ~Settle(a),
         ~OutsideDeposit
  PROVE  Quiet
<1>1. assertions \in [AssertionId -> Assertion] /\ Submitted \subseteq ReportId
  BY SubmittedIds DEF Core, TypeOK
<1>2. ASSUME NEW r \in ReportId, NEW g \in Image \cup {NoImage}, Attest(r, g)
      PROVE  Quiet
  <2>1. SameReports
    BY <1>2, AttestCorroborates, CorroborationTerms
  <2> QED BY <1>2, <2>1 DEF Attest, Quiet, SameAssertion, oracleVars, poolVars
<1>3. CASE OracleStep
  <2>1. UNCHANGED <<balance, poolVars, reports, reportCount>>
    BY <1>3 DEF OracleStep, LivenessElapses, VotersDecide, MinimumBondChanges, registryVars
  <2>2. ASSUME NEW a \in AssertionId, NEW b \in AssertionId, LivenessElapses(b)
        PROVE  SameAssertion(a)
    BY <1>1, <2>2 DEF LivenessElapses, SameAssertion, Assertion
  <2>3. ASSUME NEW a \in AssertionId, NEW b \in AssertionId, NEW v \in Verdict, VotersDecide(b, v)
        PROVE  SameAssertion(a)
    <3>1. assertions[b].settled => assertions[b].verdict # "none"
      BY <2>3, VerdictIsIn DEF VotersDecide
    <3>2. assertions[b] \in Assertion /\ assertions[a] \in Assertion
      BY <1>1
    <3>3. assertions' = [assertions EXCEPT ![b].verdict = v] /\ assertions[b].verdict = "none"
      BY <2>3 DEF VotersDecide
    <3>4. CASE a = b
      BY <1>1, <3>1, <3>2, <3>3, <3>4 DEF SameAssertion, Assertion
    <3>5. CASE a # b
      BY <1>1, <3>3, <3>5 DEF SameAssertion
    <3> QED BY <3>4, <3>5
  <2>4. \A a \in AssertionId : SameAssertion(a)
    BY <1>3, <2>2, <2>3 DEF OracleStep, MinimumBondChanges, SameAssertion
  <2> QED BY <2>1, <2>4 DEF Quiet, SameReports, SameTerms, SameOutcome, Submitted
<1>4. CASE \/ SetLighthouse \/ DeployerApproves \/ ParentOwnerTakes
           \/ \E r \in ReportId, g \in Image : SignCorroboration(r, g)
           \/ UNCHANGED vars
  <2>1. UNCHANGED <<balance, poolVars, reports, reportCount, assertions>>
    BY <1>4 DEF SetLighthouse, DeployerApproves, ParentOwnerTakes, SignCorroboration,
                vars, registryVars, oracleVars
  <2> QED BY <2>1 DEF Quiet, SameReports, SameTerms, SameOutcome, SameAssertion, Submitted
<1> QED BY <1>2, <1>3, <1>4 DEF Next

\* What opening an assertion changes: one record, until then untouched.
LEMMA Opening ==
  ASSUME Core, NEW a \in AssertionId, NEW x, NEW bond, OpenAssertion(a, x, bond)
  PROVE  /\ assertions[a] = NoAssertion
         /\ \A b \in AssertionId \ {a} : assertions'[b] = assertions[b]
         /\ assertions'[a].asserter = x /\ assertions'[a].bond = bond
         /\ assertions'[a].disputer = Nobody /\ ~assertions'[a].settled
<1>1. ~Exists(a) /\ assertions \in [AssertionId -> Assertion]
      /\ assertions' = [assertions EXCEPT ![a] =
           [asserter |-> x, bond |-> bond, disputer |-> Nobody,
            expired |-> FALSE, verdict |-> "none", settled |-> FALSE]]
  BY DEF OpenAssertion, Core, TypeOK
<1>2. assertions[a] = NoAssertion
  BY <1>1 DEF Core, WellFormed
<1> QED BY <1>1, <1>2

\* What a dispute changes: the disputer of one unsettled, undisputed assertion.
LEMMA Disputing ==
  ASSUME Core, NEW v \in Verifiers, NEW a \in AssertionId, DisputeAssertion(v, a)
  PROVE  /\ Exists(a) /\ ~Disputed(a) /\ ~assertions[a].settled
         /\ assertions[a].asserter = Registry
         /\ \A b \in AssertionId \ {a} : assertions'[b] = assertions[b]
         /\ assertions'[a].asserter = assertions[a].asserter
         /\ assertions'[a].bond = assertions[a].bond
         /\ assertions'[a].disputer = v /\ ~assertions'[a].settled
<1>1. assertions \in [AssertionId -> Assertion] /\ assertions[a] \in Assertion
  BY DEF Core, TypeOK
<1>2. assertions' = [assertions EXCEPT ![a].disputer = v] /\ CanDispute(a)
      /\ assertionToReport[a] # 0
  BY DEF DisputeAssertion, RecordDispute, AssertionDisputedCallback
<1>3. assertions[a].asserter = Registry
  BY <1>2 DEF Core, OneAssertionPerReport
<1>4. /\ assertions'[a].asserter = assertions[a].asserter
      /\ assertions'[a].bond = assertions[a].bond
      /\ assertions'[a].disputer = v
      /\ assertions'[a].settled = assertions[a].settled
  BY <1>1, <1>2 DEF Assertion
<1>5. \A b \in AssertionId \ {a} : assertions'[b] = assertions[b]
  BY <1>1, <1>2
<1> QED BY <1>2, <1>3, <1>4, <1>5 DEF CanDispute

\* What a settlement changes of the assertions: one is settled.
LEMMA Settling ==
  ASSUME Core, NEW a \in AssertionId, Settle(a)
  PROVE  /\ Exists(a) /\ ~assertions[a].settled /\ assertions[a].asserter = Registry
         /\ \A b \in AssertionId \ {a} : assertions'[b] = assertions[b]
         /\ assertions'[a].asserter = assertions[a].asserter
         /\ assertions'[a].bond = assertions[a].bond
         /\ assertions'[a].disputer = assertions[a].disputer
         /\ assertions'[a].verdict = assertions[a].verdict
         /\ assertions'[a].settled
<1>1. assertions \in [AssertionId -> Assertion] /\ assertions[a] \in Assertion
  BY DEF Core, TypeOK
<1>2. assertions' = [assertions EXCEPT ![a].settled = TRUE] /\ assertionToReport[a] # 0
      /\ Exists(a) /\ ~assertions[a].settled
  BY DEF Settle, SettleTruthful, SettleFalse, RecordSettled, ResolvesTrue, ResolvesFalse
<1>3. assertions[a].asserter = Registry
  BY <1>2 DEF Core, OneAssertionPerReport
<1>4. /\ assertions'[a].asserter = assertions[a].asserter
      /\ assertions'[a].bond = assertions[a].bond
      /\ assertions'[a].disputer = assertions[a].disputer
      /\ assertions'[a].verdict = assertions[a].verdict
  BY <1>1, <1>2 DEF Assertion
<1>5. assertions'[a].settled
  BY <1>1, <1>2 DEF Assertion
<1>6. \A b \in AssertionId \ {a} : assertions'[b] = assertions[b]
  BY <1>1, <1>2
<1> QED BY <1>2, <1>3, <1>4, <1>5, <1>6

\* Every step keeps the books in order.
LEMMA StepBooks ==
  ASSUME Core, Books, [Next]_vars
  PROVE  Books'
<1>1. ASSUME NEW a \in AssertionId,
             \A b \in AssertionId \ {a} :
               /\ assertions'[b].asserter = assertions[b].asserter
               /\ assertions'[b].disputer = assertions[b].disputer
               /\ assertions'[b].settled = assertions[b].settled,
             Disputed(a)' \/ assertions'[a].settled => assertions'[a].asserter = Registry
      PROVE  Books'
  <2>1. OwnDisputes'
    <3> SUFFICES ASSUME NEW b \in AssertionId, assertions'[b].disputer # Nobody \/ assertions'[b].settled
                 PROVE  assertions'[b].asserter = Registry
      BY DEF OwnDisputes, Disputed
    <3>1. CASE b = a
      BY <1>1, <3>1 DEF Disputed
    <3>2. CASE b # a
      BY <1>1, <3>2 DEF Books, OwnDisputes, Disputed
    <3> QED BY <3>1, <3>2
  <2>2. Asserted' \subseteq Asserted \cup {a}
    BY <1>1 DEF Asserted, Exists
  <2>3. IsFiniteSet(Asserted \cup {a})
    BY FS_AddElement DEF Books
  <2>4. IsFiniteSet(Asserted')
    BY <2>2, <2>3, FS_Subset
  <2> QED BY <2>1, <2>4 DEF Books
<1>2. ASSUME NEW a \in AssertionId, NEW x, NEW bond, OpenAssertion(a, x, bond)
      PROVE  Books'
  BY <1>1, <1>2, Opening DEF Disputed
<1>3. ASSUME NEW v \in Verifiers, NEW a \in AssertionId, DisputeAssertion(v, a)
      PROVE  Books'
  BY <1>1, <1>3, Disputing
<1>4. ASSUME NEW a \in AssertionId, Settle(a)
      PROVE  Books'
  BY <1>1, <1>4, Settling
<1>5. ASSUME \A a \in AssertionId : SameAssertion(a)
      PROVE  Books'
  <2>1. Asserted' = Asserted
    BY <1>5 DEF Asserted, Exists, SameAssertion
  <2>2. OwnDisputes'
    BY <1>5 DEF OwnDisputes, Disputed, SameAssertion, Books
  <2> QED BY <2>1, <2>2 DEF Books
<1>6. CASE OutsideDeposit
  BY <1>5, <1>6 DEF OutsideDeposit, SameAssertion, oracleVars
<1>7. CASE Quiet
  BY <1>5, <1>7 DEF Quiet
<1>8. ASSUME NEW p \in Reporters, NEW i \in Imo \cup {NoImo}, NEW m \in Meta \cup {EmptyMeta},
             NEW a \in AssertionId, Submit(p, i, m, a)
      PROVE  Books'
  BY <1>2, <1>8 DEF Submit
<1>9. ASSUME NEW p \in Verifiers, NEW a \in AssertionId, AssertElsewhere(p, a)
      PROVE  Books'
  BY <1>2, <1>9 DEF AssertElsewhere
<1> QED BY <1>3, <1>4, <1>6, <1>7, <1>8, <1>9, QuietSteps

(***************************************************************************)
(* What each transaction does to the reports.                              *)
(***************************************************************************)

\* Submitting files one report more.
Files(id, p, bond, a) ==
  /\ id \in ReportId \ Submitted
  /\ Submitted' = Submitted \cup {id}
  /\ \A r \in Submitted : reports'[r] = reports[r]
  /\ reports'[id].reporter = p
  /\ reports'[id].bond = ProtocolBond
  /\ reports'[id].umaBond = bond
  /\ reports'[id].assertionId = a
  /\ reports'[id].status = PENDING

\* Submit files a report under the next id.
LEMMA Filing ==
  ASSUME Core, NEW p \in Reporters, NEW imo, NEW meta, NEW a \in AssertionId,
         Submit(p, imo, meta, a)
  PROVE  \E id \in ReportId : Files(id, p, minimumBond, a)
<1> DEFINE id == reportCount + 1
<1>1. reportCount < MaxReports /\ reportCount' = id
      /\ reports' = [reports EXCEPT ![id] =
           [reporter |-> p, bond |-> ProtocolBond, umaBond |-> minimumBond,
            status |-> PENDING, imo |-> imo, meta |-> meta, assertionId |-> a,
            orbitalAttested |-> FALSE, orbitalImage |-> NoImage]]
  BY DEF Submit, NextId
<1>2. id \in ReportId \ Submitted /\ Submitted' = Submitted \cup {id}
  BY <1>1, SubmittedIds DEF Submitted, ReportId
<1>3. reports \in [ReportId -> Report] /\ Submitted \subseteq ReportId
  BY SubmittedIds DEF Core, TypeOK
<1> HIDE DEF id
<1>4. /\ \A r \in Submitted : reports'[r] = reports[r]
      /\ reports'[id].reporter = p
      /\ reports'[id].bond = ProtocolBond
      /\ reports'[id].umaBond = minimumBond
      /\ reports'[id].assertionId = a
      /\ reports'[id].status = PENDING
  BY <1>1, <1>2, <1>3
<1> QED BY <1>2, <1>4 DEF Files

\* A new status alone leaves the terms of every report as they are.
LEMMA NewStatusKeepsTerms ==
  ASSUME Core, NEW r \in ReportId, NEW status \in PENDING..SETTLED_FALSE,
         reports' = [reports EXCEPT ![r].status = status]
  PROVE  /\ \A q \in ReportId : SameTerms(q)
         /\ \A q \in ReportId \ {r} : reports'[q] = reports[q]
         /\ reports'[r].status = status
<1>1. reports \in [ReportId -> Report] /\ reports[r] \in Report
  BY DEF Core, TypeOK
<1>2. \A q \in ReportId \ {r} : reports'[q] = reports[q]
  BY <1>1
<1>3. SameTerms(r) /\ reports'[r].status = status
  BY <1>1 DEF SameTerms, Report
<1>4. \A q \in ReportId : SameTerms(q)
  BY <1>2, <1>3 DEF SameTerms
<1> QED BY <1>2, <1>3, <1>4

\* A dispute decides no report.
LEMMA DisputeKeepsReports ==
  ASSUME Core, NEW v \in Verifiers, NEW a \in AssertionId, DisputeAssertion(v, a)
  PROVE  SameReports
<1> DEFINE r == assertionToReport[a]
<1> USE DEF PENDING, DISPUTED, SETTLED_TRUE, SETTLED_FALSE
<1>1. r # 0 /\ reports[r].status = PENDING /\ reports' = [reports EXCEPT ![r].status = DISPUTED]
      /\ Submitted' = Submitted
  BY DEF DisputeAssertion, AssertionDisputedCallback, Submitted
<1>2. r \in ReportId /\ Submitted \subseteq ReportId
  BY <1>1, ReportBehind, SubmittedIds
<1>3. DISPUTED \in PENDING..SETTLED_FALSE
  OBVIOUS
<1> HIDE DEF r
<1>4. /\ \A q \in ReportId : SameTerms(q)
      /\ \A q \in ReportId \ {r} : reports'[q] = reports[q]
      /\ reports'[r].status = DISPUTED
  BY <1>1, <1>2, <1>3, NewStatusKeepsTerms
<1> QED BY <1>1, <1>2, <1>4 DEF SameReports, SameOutcome

\* A settlement decides one open report, the one behind the assertion.
Decides(r, a, outcome) ==
  /\ r \in Submitted
  /\ Submitted' = Submitted
  /\ reports[r].assertionId = a
  /\ reports[r].status \in {PENDING, DISPUTED}
  /\ reports[r].bond = ProtocolBond
  /\ reports[r].umaBond = assertions[a].bond
  /\ \A q \in Submitted : SameTerms(q)
  /\ \A q \in Submitted \ {r} : reports'[q] = reports[q] /\ reports[q].assertionId # a
  /\ reports'[r].status = outcome

\* A settlement decides the report behind its assertion.
LEMMA Deciding ==
  ASSUME Core, NEW a \in AssertionId, Settle(a)
  PROVE  /\ SettleTruthful(a) => Decides(assertionToReport[a], a, SETTLED_TRUE)
         /\ SettleFalse(a)    => Decides(assertionToReport[a], a, SETTLED_FALSE)
<1> DEFINE r == assertionToReport[a]
<1>1. r # 0 /\ Submitted' = Submitted /\ reports[r].status \in {PENDING, DISPUTED}
  BY DEF Settle, SettleTruthful, SettleFalse, Submitted
<1>2. /\ r \in Submitted /\ r \in ReportId /\ Submitted \subseteq ReportId
      /\ reports[r].assertionId = a /\ reports[r].bond = ProtocolBond
      /\ reports[r].umaBond = assertions[a].bond
      /\ \A q \in Submitted \ {r} : reports[q].assertionId # a
  BY <1>1, ReportBehind, SubmittedIds
<1>3. ASSUME NEW outcome \in {SETTLED_TRUE, SETTLED_FALSE},
             reports' = [reports EXCEPT ![r].status = outcome]
      PROVE  Decides(r, a, outcome)
  <2>1. outcome \in PENDING..SETTLED_FALSE
    BY DEF PENDING, SETTLED_TRUE, SETTLED_FALSE
  <2> HIDE DEF r
  <2>2. /\ \A q \in ReportId : SameTerms(q)
        /\ \A q \in ReportId \ {r} : reports'[q] = reports[q]
        /\ reports'[r].status = outcome
    BY <1>2, <1>3, <2>1, NewStatusKeepsTerms
  <2> QED BY <1>1, <1>2, <2>2 DEF Decides
<1>4. /\ SettleTruthful(a) => reports' = [reports EXCEPT ![r].status = SETTLED_TRUE]
      /\ SettleFalse(a)    => reports' = [reports EXCEPT ![r].status = SETTLED_FALSE]
  BY DEF SettleTruthful, SettleFalse
<1> QED BY <1>3, <1>4

(***************************************************************************)
(* A reporter's account.                                                   *)
(***************************************************************************)

\* The reports a reporter has bonds in are finitely many, and so are the bonds.
LEMMA UnreturnedIsFinite ==
  ASSUME Core, NEW p
  PROVE  /\ Unreturned(p) \subseteq Submitted /\ Submitted \subseteq ReportId
         /\ IsFiniteSet(Unreturned(p))
         /\ \A r \in ReportId : ReportBonds[r] \in Nat
<1>1. IsFiniteSet(ReportId)
  BY RegistryAssumption, FS_Interval DEF ReportId
<1>2. Unreturned(p) \subseteq Submitted /\ Submitted \subseteq ReportId
  BY SubmittedIds DEF Unreturned
<1>3. IsFiniteSet(Unreturned(p))
  BY <1>1, <1>2, FS_Subset
<1>4. \A r \in ReportId : reports[r].bond \in Nat /\ reports[r].umaBond \in Nat
  BY DEF Core, TypeOK, Report
<1>5. \A r \in ReportId : ReportBonds[r] \in Nat
  BY <1>4 DEF ReportBonds
<1> QED BY <1>2, <1>3, <1>5

\* Nothing happens to a reporter's account unless a report of its is filed or decided.
LEMMA ReporterUnmoved ==
  ASSUME Core, NEW p, SameReports, balance'[p] = balance[p], ReporterExplained(p)
  PROVE  ReporterExplained(p)'
<1>1. Unreturned(p)' = Unreturned(p)
  BY DEF SameReports, SameTerms, SameOutcome, Unreturned
<1>2. \A r \in Unreturned(p) : ReportBonds[r] = ReportBonds'[r]
  BY UnreturnedIsFinite DEF SameReports, SameTerms, ReportBonds
<1>3. Total(ReportBonds', Unreturned(p)) = Total(ReportBonds, Unreturned(p))
  BY <1>2, TotalAgrees
<1> QED BY <1>1, <1>3 DEF ReporterExplained

\* Filing a report moves its bonds from the reporter's balance to its claims.
LEMMA ReporterFiles ==
  ASSUME Core, NEW p \in Reporters, NEW imo, NEW meta, NEW a \in AssertionId,
         Submit(p, imo, meta, a), ReporterExplained(p)
  PROVE  ReporterExplained(p)'
<1>1. PICK id \in ReportId : Files(id, p, minimumBond, a)
  BY Filing
<1> DEFINE U == Unreturned(p)
           g == ReportBonds'
           cost == ProtocolBond + minimumBond
<1>2. /\ U \subseteq Submitted /\ Submitted \subseteq ReportId /\ IsFiniteSet(U)
      /\ \A r \in ReportId : ReportBonds[r] \in Nat
  BY UnreturnedIsFinite
<1>3. Unreturned(p)' = U \cup {id} /\ id \notin U
  BY <1>1, <1>2 DEF Files, Unreturned, PENDING, SETTLED_TRUE
<1>4. g[id] = cost /\ \A r \in U : ReportBonds[r] = g[r]
  BY <1>1, <1>2 DEF Files, ReportBonds
<1>5. balance'[p] = balance[p] - cost
  BY SubmitPays
<1>6. balance[p] \in Nat /\ cost \in Nat /\ InitialBalance \in Nat
  BY Parties, RegistryAssumption DEF Core, TypeOK
<1>7. balance[p] + Total(ReportBonds, U) = InitialBalance
  BY DEF ReporterExplained
<1> HIDE DEF U, g, cost
<1>8. Total(g, U) = Total(ReportBonds, U) /\ Total(ReportBonds, U) \in Nat
  BY <1>2, <1>4, TotalAgrees, TotalType
<1>9. Total(g, U \cup {id}) = Total(g, U) + cost
  <2>1. \A r \in U : g[r] \in Nat
    BY <1>2, <1>4
  <2> QED BY <1>2, <1>3, <1>4, <1>6, <2>1, TotalAdds
<1>10. balance'[p] + Total(g, U \cup {id}) = InitialBalance
  BY <1>5, <1>6, <1>7, <1>8, <1>9
<1> QED BY <1>3, <1>10 DEF ReporterExplained, g

\* Upholding a report returns its bonds.
LEMMA ReporterUpheld ==
  ASSUME Core, NEW a \in AssertionId, SettleTruthful(a),
         NEW p, p = reports[assertionToReport[a]].reporter, ReporterExplained(p)
  PROVE  ReporterExplained(p)'
<1> DEFINE r == assertionToReport[a]
           U == Unreturned(p)
           g == ReportBonds'
           back == ProtocolBond + assertions[a].bond
<1>1. Decides(r, a, SETTLED_TRUE)
  BY Deciding DEF Settle
<1>2. /\ U \subseteq Submitted /\ Submitted \subseteq ReportId /\ IsFiniteSet(U)
      /\ \A q \in ReportId : ReportBonds[q] \in Nat
  BY UnreturnedIsFinite
<1>3. Exists(a) /\ p \in Reporters
      /\ balance'[p] = balance[p] + ProtocolBond + assertions[a].bond
  BY TruthfulPays DEF SettleTruthful, ResolvesTrue
<1>4. assertions[a].bond \in UmaBonds
  BY <1>3 DEF Core, WellFormed
<1>5. balance[p] \in Nat /\ back \in Nat /\ InitialBalance \in Nat /\ balance'[p] = balance[p] + back
  <2>1. balance \in [Account -> Nat] /\ p \in Account /\ InitialBalance \in Nat
    BY <1>3, Parties, RegistryAssumption DEF Core, TypeOK
  <2>2. balance[p] \in Nat
    BY <2>1
  <2>3. assertions[a].bond \in Nat /\ ProtocolBond \in Nat
    BY <1>4, Parties
  <2> HIDE DEF r
  <2> QED BY <1>3, <2>1, <2>2, <2>3
<1>6. balance[p] + Total(ReportBonds, U) = InitialBalance
  BY DEF ReporterExplained
<1>7. r \in U /\ ReportBonds[r] = back
  BY <1>1, <1>2 DEF Decides, Unreturned, ReportBonds, PENDING, DISPUTED, SETTLED_TRUE
<1> HIDE DEF r
<1>8. Unreturned(p)' = U \ {r}
  BY <1>1, <1>2 DEF Decides, SameTerms, Unreturned
<1>9. \A q \in U \ {r} : ReportBonds[q] = g[q]
  BY <1>1, <1>2 DEF Decides, SameTerms, ReportBonds
<1> HIDE DEF U, g, back
<1>10. /\ Total(ReportBonds, U \ {r}) = Total(ReportBonds, U) - back
       /\ Total(ReportBonds, U \ {r}) \in Nat /\ Total(ReportBonds, U) \in Nat
  BY <1>2, <1>7, TotalRemoves, TotalType
<1>11. Total(g, U \ {r}) = Total(ReportBonds, U \ {r})
  BY <1>9, TotalAgrees
<1>12. balance'[p] + Total(g, U \ {r}) = InitialBalance
  BY <1>5, <1>6, <1>10, <1>11
<1> QED BY <1>8, <1>12 DEF ReporterExplained, g

\* Somebody else's report is filed or decided, or p's own is slashed: nothing changes.
LEMMA ReporterElsewhere ==
  ASSUME Core, NEW p, ReporterExplained(p), balance'[p] = balance[p],
         \/ \E id \in ReportId, q \in Reporters \ {p}, a \in AssertionId :
              Files(id, q, minimumBond, a)
         \/ \E r \in Submitted, a \in AssertionId :
              /\ reports[r].reporter # p
              /\ Decides(r, a, SETTLED_TRUE)
         \/ \E r \in Submitted, a \in AssertionId : Decides(r, a, SETTLED_FALSE)
  PROVE  ReporterExplained(p)'
<1>1. Unreturned(p) \subseteq Submitted /\ Submitted \subseteq ReportId
  BY UnreturnedIsFinite
<1> DEFINE Kept ==
      /\ Unreturned(p)' = Unreturned(p)
      /\ \A r \in Unreturned(p) : ReportBonds[r] = ReportBonds'[r]
<1>2. Kept
  <2>1. ASSUME NEW id \in ReportId, NEW q \in Reporters \ {p}, NEW a \in AssertionId,
               Files(id, q, minimumBond, a)
        PROVE  Kept
    BY <1>1, <2>1 DEF Files, Unreturned, ReportBonds
  <2>2. ASSUME NEW r \in Submitted, NEW a \in AssertionId, NEW outcome,
               Decides(r, a, outcome),
               \/ reports[r].reporter # p
               \/ outcome = SETTLED_FALSE
        PROVE  Kept
    <3>1. \A q \in Submitted :
            /\ SameTerms(q)
            /\ reports[q].reporter = p =>
                 (reports'[q].status = SETTLED_TRUE <=> reports[q].status = SETTLED_TRUE)
      BY <2>2 DEF Decides, PENDING, DISPUTED, SETTLED_TRUE, SETTLED_FALSE
    <3>2. Submitted' = Submitted
      BY <2>2 DEF Decides
    <3> QED BY <1>1, <3>1, <3>2 DEF SameTerms, Unreturned, ReportBonds
  <2> QED BY <2>1, <2>2
<1>3. Total(ReportBonds', Unreturned(p)) = Total(ReportBonds, Unreturned(p))
  BY <1>2, TotalAgrees
<1> QED BY <1>2, <1>3 DEF ReporterExplained

\* Every step keeps the account of a reporter that plays no other part.
LEMMA StepReporter ==
  ASSUME Core, Books, [Next]_vars,
         NEW p \in Reporters \ (Verifiers \cup {Treasury}), ReporterExplained(p)
  PROVE  ReporterExplained(p)'
<1>1. p \in Account /\ p \notin {Registry, Pool, Oracle, Store, Treasury} /\ p \notin Verifiers
  BY Parties, RegistryAssumption
<1>2. ASSUME NEW q \in Reporters, NEW i \in Imo \cup {NoImo}, NEW m \in Meta \cup {EmptyMeta},
             NEW a \in AssertionId, Submit(q, i, m, a)
      PROVE  ReporterExplained(p)'
  <2>1. CASE q = p
    BY <1>2, <2>1, ReporterFiles
  <2>2. CASE q # p
    <3>1. balance'[p] = balance[p]
      BY <1>1, <1>2, <2>2, SubmitPays
    <3>2. \E id \in ReportId : Files(id, q, minimumBond, a)
      BY <1>2, Filing
    <3> QED BY <2>2, <3>1, <3>2, ReporterElsewhere
  <2> QED BY <2>1, <2>2
<1>3. ASSUME NEW v \in Verifiers, NEW a \in AssertionId, AssertElsewhere(v, a)
      PROVE  ReporterExplained(p)'
  <2>1. balance'[p] = balance[p]
    BY <1>1, <1>3, AssertElsewherePays
  <2>2. SameReports
    BY <1>3 DEF AssertElsewhere, registryVars, SameReports, SameTerms, SameOutcome, Submitted
  <2> QED BY <2>1, <2>2, ReporterUnmoved
<1>4. ASSUME NEW v \in Verifiers, NEW a \in AssertionId, DisputeAssertion(v, a)
      PROVE  ReporterExplained(p)'
  <2>1. balance'[p] = balance[p]
    BY <1>1, <1>4, DisputePays
  <2> QED BY <1>4, <2>1, DisputeKeepsReports, ReporterUnmoved
<1>5. ASSUME NEW a \in AssertionId, SettleTruthful(a)
      PROVE  ReporterExplained(p)'
  <2> DEFINE q == reports[assertionToReport[a]].reporter
  <2>1. CASE q = p
    BY <1>5, <2>1, ReporterUpheld
  <2>2. CASE q # p
    <3>1. balance'[p] = balance[p]
      BY <1>1, <1>5, <2>2, TruthfulPays
    <3>2. Decides(assertionToReport[a], a, SETTLED_TRUE)
      BY <1>5, Deciding DEF Settle
    <3> QED BY <2>2, <3>1, <3>2, ReporterElsewhere DEF Decides
  <2> QED BY <2>1, <2>2
<1>6. ASSUME NEW a \in AssertionId, SettleFalse(a)
      PROVE  ReporterExplained(p)'
  <2>1. balance'[p] = balance[p]
    BY <1>1, <1>6, FalsePays
  <2>2. Decides(assertionToReport[a], a, SETTLED_FALSE)
    BY <1>6, Deciding DEF Settle
  <2> QED BY <2>1, <2>2, ReporterElsewhere DEF Decides
<1>7. CASE OutsideDeposit
  <2>1. balance'[p] = balance[p]
    BY <1>1, <1>7, DepositPays DEF OutsideDeposit
  <2>2. SameReports
    BY <1>7 DEF OutsideDeposit, registryVars, SameReports, SameTerms, SameOutcome, Submitted
  <2> QED BY <2>1, <2>2, ReporterUnmoved
<1>8. CASE Quiet
  BY <1>8, ReporterUnmoved DEF Quiet
<1> QED BY <1>2, <1>3, <1>4, <1>5, <1>6, <1>7, <1>8, QuietSteps DEF Settle

(***************************************************************************)
(* A verifier's account.                                                   *)
(***************************************************************************)

\* A verifier's assertions and disputes are finitely many, and so are the bonds.
LEMMA HoldingsAreFinite ==
  ASSUME Core, Books, NEW v \in Verifiers
  PROVE  /\ IsFiniteSet(AssertedBy(v)) /\ IsFiniteSet(DisputedBy(v)) /\ IsFiniteSet(WonBy(v))
         /\ IsFiniteSet(DisputedBy(v) \ WonBy(v))
         /\ AssertedBy(v) \subseteq AssertionId /\ DisputedBy(v) \subseteq AssertionId
         /\ WonBy(v) \subseteq DisputedBy(v)
         /\ \A a \in AssertionId : AssertionBonds[a] \in Nat
         /\ \A a \in DisputedBy(v) : Winnings[a] \in Nat
<1>1. v # Nobody
  BY Parties
<1>2. AssertedBy(v) \subseteq Asserted
  BY <1>1 DEF AssertedBy, Asserted, Exists
<1>3. DisputedBy(v) \subseteq Asserted
  BY <1>1 DEF DisputedBy, Asserted, Exists, Core, WellFormed, NoAssertion
<1>4. WonBy(v) \subseteq DisputedBy(v)
  BY DEF WonBy
<1>5. IsFiniteSet(AssertedBy(v)) /\ IsFiniteSet(DisputedBy(v))
  BY <1>2, <1>3, FS_Subset DEF Books
<1>6. IsFiniteSet(WonBy(v)) /\ IsFiniteSet(DisputedBy(v) \ WonBy(v))
  BY <1>4, <1>5, FS_Subset
<1>7. \A a \in AssertionId : assertions[a].bond \in Nat
  BY DEF Core, TypeOK, Assertion
<1>8. \A a \in DisputedBy(v) : Winnings[a] \in Nat
  <2> SUFFICES ASSUME NEW a \in DisputedBy(v)
               PROVE  Winnings[a] \in Nat
    OBVIOUS
  <2>1. a \in AssertionId /\ Exists(a)
    BY <1>3 DEF Asserted
  <2>2. assertions[a].bond \in UmaBonds /\ assertions[a].bond \in Nat
    BY <1>7, <2>1 DEF Core, WellFormed
  <2>3. OracleFee(assertions[a].bond) \in 0..assertions[a].bond
    BY <2>2, OracleAssumption
  <2>4. DisputerShare(ProtocolBond) \in Nat
    BY Parties, SplitIsExact
  <2> QED BY <2>1, <2>2, <2>3, <2>4 DEF Winnings
<1> QED BY <1>2, <1>3, <1>4, <1>5, <1>6, <1>7, <1>8 DEF Asserted, AssertionBonds

\* Nothing happens to a verifier's account when assertions keep their parties and their
\* outcome, or are somebody else's, or are settled without v winning a dispute.
LEMMA VerifierUnmoved ==
  ASSUME Core, Books, NEW v \in Verifiers, VerifierExplained(v), balance'[v] = balance[v],
         \A a \in AssertionId :
           \/ SameAssertion(a)
           \/ /\ v \notin {assertions[a].asserter, assertions[a].disputer}
              /\ v \notin {assertions'[a].asserter, assertions'[a].disputer}
           \/ /\ assertions'[a].asserter = assertions[a].asserter
              /\ assertions'[a].bond = assertions[a].bond
              /\ assertions'[a].disputer = assertions[a].disputer
              /\ ~assertions[a].settled
              /\ assertions[a].disputer = v => assertions'[a].verdict # "false"
  PROVE  VerifierExplained(v)'
<1>1. /\ AssertedBy(v) \subseteq AssertionId /\ DisputedBy(v) \subseteq AssertionId
      /\ WonBy(v) \subseteq DisputedBy(v)
  BY HoldingsAreFinite
<1>2. AssertedBy(v)' = AssertedBy(v)
  BY DEF AssertedBy, SameAssertion
<1>3. DisputedBy(v)' = DisputedBy(v)
  BY DEF DisputedBy, SameAssertion
<1>4. WonBy(v)' = WonBy(v)
  BY DEF WonBy, DisputedBy, SameAssertion
<1>5. \A a \in AssertedBy(v) \cup DisputedBy(v) : assertions'[a].bond = assertions[a].bond
  BY DEF AssertedBy, DisputedBy, SameAssertion
<1>6. \A a \in AssertedBy(v) \cup DisputedBy(v) :
        AssertionBonds'[a] = AssertionBonds[a] /\ Winnings'[a] = Winnings[a]
  BY <1>1, <1>5 DEF AssertionBonds, Winnings
<1>7. /\ Total(AssertionBonds', AssertedBy(v)) = Total(AssertionBonds, AssertedBy(v))
      /\ Total(AssertionBonds', DisputedBy(v) \ WonBy(v))
           = Total(AssertionBonds, DisputedBy(v) \ WonBy(v))
      /\ Total(Winnings', WonBy(v)) = Total(Winnings, WonBy(v))
  BY <1>1, <1>6, TotalAgrees
<1> QED BY <1>2, <1>3, <1>4, <1>7 DEF VerifierExplained

\* An assertion of a verifier's own costs it its bond.
LEMMA VerifierAsserts ==
  ASSUME Core, Books, NEW v \in Verifiers, VerifierExplained(v),
         NEW a \in AssertionId, AssertElsewhere(v, a)
  PROVE  VerifierExplained(v)'
<1> DEFINE A == AssertedBy(v)
           L == DisputedBy(v) \ WonBy(v)
           W == WonBy(v)
           f == AssertionBonds
           g == AssertionBonds'
<1>1. /\ assertions[a] = NoAssertion
      /\ \A b \in AssertionId \ {a} : assertions'[b] = assertions[b]
      /\ assertions'[a].asserter = v /\ assertions'[a].bond = minimumBond
      /\ assertions'[a].disputer = Nobody /\ ~assertions'[a].settled
  BY Opening DEF AssertElsewhere
<1>2. v # Nobody /\ balance[v] \in Nat /\ minimumBond \in Nat /\ InitialBalance \in Nat
  BY Parties, RegistryAssumption DEF Core, TypeOK
<1>3. /\ IsFiniteSet(A) /\ IsFiniteSet(L) /\ IsFiniteSet(W)
      /\ A \subseteq AssertionId /\ DisputedBy(v) \subseteq AssertionId /\ W \subseteq DisputedBy(v)
      /\ \A b \in AssertionId : f[b] \in Nat
      /\ \A b \in W : Winnings[b] \in Nat
  BY HoldingsAreFinite
<1>4. a \notin A /\ a \notin DisputedBy(v) /\ AssertedBy(v)' = A \cup {a}
  BY <1>1, <1>2 DEF AssertedBy, DisputedBy, NoAssertion
<1>5. DisputedBy(v)' = DisputedBy(v)
  BY <1>1, <1>2, <1>4 DEF DisputedBy
<1>6. WonBy(v)' = W
  BY <1>1, <1>4, <1>5 DEF WonBy, DisputedBy
<1>7. g[a] = minimumBond /\ \A b \in AssertionId \ {a} : g[b] = f[b] /\ Winnings'[b] = Winnings[b]
  BY <1>1 DEF AssertionBonds, Winnings
<1>8. balance'[v] = balance[v] - minimumBond
  BY AssertElsewherePays
<1>9. balance[v] + Total(f, A) + Total(f, L) = InitialBalance + Total(Winnings, W)
  BY DEF VerifierExplained
<1> HIDE DEF A, L, W, f, g
<1>10. Total(g, A) = Total(f, A) /\ \A b \in A : g[b] \in Nat
  BY <1>3, <1>4, <1>7, TotalAgrees
<1>11. Total(g, A \cup {a}) = Total(g, A) + minimumBond
  BY <1>2, <1>3, <1>4, <1>7, <1>10, TotalAdds
<1>12. Total(g, L) = Total(f, L) /\ Total(Winnings', W) = Total(Winnings, W)
  BY <1>3, <1>4, <1>7, TotalAgrees DEF L
<1>13. Total(f, A) \in Nat /\ Total(f, L) \in Nat /\ Total(Winnings, W) \in Nat
  BY <1>3, TotalType DEF L
<1>14. balance'[v] + Total(g, A \cup {a}) + Total(g, L) = InitialBalance + Total(Winnings', W)
  BY <1>2, <1>8, <1>9, <1>10, <1>11, <1>12, <1>13
<1> QED BY <1>4, <1>5, <1>6, <1>14 DEF VerifierExplained, L, W, g

\* A dispute costs the disputer a bond equal to the asserter's.
LEMMA VerifierDisputes ==
  ASSUME Core, Books, NEW v \in Verifiers, VerifierExplained(v),
         NEW a \in AssertionId, DisputeAssertion(v, a)
  PROVE  VerifierExplained(v)'
<1> DEFINE A == AssertedBy(v)
           L == DisputedBy(v) \ WonBy(v)
           W == WonBy(v)
           f == AssertionBonds
           g == AssertionBonds'
           bond == assertions[a].bond
<1>1. /\ Exists(a) /\ ~Disputed(a) /\ ~assertions[a].settled
      /\ \A b \in AssertionId \ {a} : assertions'[b] = assertions[b]
      /\ assertions'[a].asserter = assertions[a].asserter
      /\ assertions'[a].bond = bond
      /\ assertions'[a].disputer = v /\ ~assertions'[a].settled
  BY Disputing
<1>2. v # Nobody /\ balance[v] \in Nat /\ InitialBalance \in Nat
  BY Parties, RegistryAssumption DEF Core, TypeOK
<1>3. /\ IsFiniteSet(A) /\ IsFiniteSet(L) /\ IsFiniteSet(W)
      /\ A \subseteq AssertionId /\ DisputedBy(v) \subseteq AssertionId /\ W \subseteq DisputedBy(v)
      /\ \A b \in AssertionId : f[b] \in Nat
      /\ \A b \in W : Winnings[b] \in Nat
  BY HoldingsAreFinite
<1>4. a \notin DisputedBy(v) /\ AssertedBy(v)' = A /\ DisputedBy(v)' = DisputedBy(v) \cup {a}
  BY <1>1, <1>2 DEF AssertedBy, DisputedBy, Disputed
<1>5. WonBy(v)' = W
  BY <1>1, <1>4 DEF WonBy, DisputedBy
<1>6. \A b \in AssertionId : g[b] = f[b] /\ Winnings'[b] = Winnings[b]
  BY <1>1 DEF AssertionBonds, Winnings
<1>7. f[a] = bond /\ bond \in Nat
  BY <1>3 DEF AssertionBonds
<1>8. balance'[v] = balance[v] - bond
  BY DisputePays
<1>9. balance[v] + Total(f, A) + Total(f, L) = InitialBalance + Total(Winnings, W)
  BY DEF VerifierExplained
<1>10. (DisputedBy(v) \cup {a}) \ W = L \cup {a} /\ a \notin L /\ L \subseteq AssertionId
  BY <1>3, <1>4
<1> HIDE DEF A, L, W, f, g, bond
<1>11. /\ Total(g, A) = Total(f, A) /\ Total(g, L \cup {a}) = Total(f, L \cup {a})
       /\ Total(Winnings', W) = Total(Winnings, W)
  <2>1. L \cup {a} \subseteq AssertionId /\ W \subseteq AssertionId
    BY <1>3, <1>10
  <2> QED BY <1>3, <1>6, <2>1, TotalAgrees
<1>12. Total(f, L \cup {a}) = Total(f, L) + bond
  <2>1. \A b \in L : f[b] \in Nat
    BY <1>3, <1>10
  <2> QED BY <1>3, <1>7, <1>10, <2>1, TotalAdds
<1>13. Total(f, A) \in Nat /\ Total(f, L) \in Nat /\ Total(Winnings, W) \in Nat
  BY <1>3, <1>10, TotalType
<1>14. balance'[v] + Total(g, A) + Total(g, L \cup {a}) = InitialBalance + Total(Winnings', W)
  BY <1>2, <1>7, <1>8, <1>9, <1>11, <1>12, <1>13
<1> QED BY <1>4, <1>5, <1>10, <1>14 DEF VerifierExplained, A, W, g

\* A dispute won returns the bond with the winnings.
LEMMA VerifierWins ==
  ASSUME Core, Books, NEW a \in AssertionId, SettleFalse(a),
         NEW v \in Verifiers, v = assertions[a].disputer, v # Treasury, VerifierExplained(v)
  PROVE  VerifierExplained(v)'
<1> DEFINE A == AssertedBy(v)
           D == DisputedBy(v)
           W == WonBy(v)
           f == AssertionBonds
           g == AssertionBonds'
           bond == assertions[a].bond
           gain == bond - OracleFee(bond) + DisputerShare(ProtocolBond)
<1>1. /\ Exists(a) /\ ~assertions[a].settled
      /\ \A b \in AssertionId \ {a} : assertions'[b] = assertions[b]
      /\ assertions'[a].asserter = assertions[a].asserter
      /\ assertions'[a].bond = bond
      /\ assertions'[a].disputer = assertions[a].disputer
      /\ assertions'[a].verdict = assertions[a].verdict
      /\ assertions'[a].settled
  BY Settling DEF Settle
<1>2. v # Nobody /\ balance[v] \in Nat /\ InitialBalance \in Nat
  BY Parties, RegistryAssumption DEF Core, TypeOK
<1>3. /\ IsFiniteSet(A) /\ IsFiniteSet(D \ W) /\ IsFiniteSet(W)
      /\ A \subseteq AssertionId /\ D \subseteq AssertionId /\ W \subseteq D
      /\ \A b \in AssertionId : f[b] \in Nat
      /\ \A b \in D : Winnings[b] \in Nat
  BY HoldingsAreFinite
<1>4. assertions[a].verdict = "false"
  BY DEF SettleFalse, ResolvesFalse
<1>5. a \in D /\ a \notin W /\ AssertedBy(v)' = A /\ DisputedBy(v)' = D
  BY <1>1 DEF AssertedBy, DisputedBy, WonBy
<1>6. WonBy(v)' = W \cup {a}
  BY <1>1, <1>4, <1>5 DEF WonBy, DisputedBy
<1>7. \A b \in AssertionId : g[b] = f[b] /\ Winnings'[b] = Winnings[b]
  BY <1>1 DEF AssertionBonds, Winnings
<1>8. f[a] = bond /\ bond \in Nat /\ Winnings[a] = gain /\ gain \in Nat
  <2>1. Winnings[a] = gain /\ f[a] = bond
    BY DEF Winnings, AssertionBonds
  <2> HIDE DEF gain, bond, D, f
  <2> QED BY <1>3, <1>5, <2>1
<1>9. balance'[v] = balance[v] + bond + gain
  <2>1. balance'[v] = balance[v] + WinnersShare(a) + DisputerShare(ProtocolBond)
    BY FalsePays
  <2>2. WinnersShare(a) = 2 * bond - OracleFee(bond)
    BY <1>2 DEF WinnersShare, Disputed
  <2>3. bond \in UmaBonds
    BY <1>1 DEF Core, WellFormed
  <2>4. OracleFee(bond) \in Nat
    BY <1>8, <2>3, OracleAssumption
  <2>5. DisputerShare(ProtocolBond) \in Nat
    BY Parties, SplitIsExact
  <2> HIDE DEF bond
  <2> QED BY <1>2, <1>8, <2>1, <2>2, <2>4, <2>5
<1>10. balance[v] + Total(f, A) + Total(f, D \ W) = InitialBalance + Total(Winnings, W)
  BY DEF VerifierExplained
<1> HIDE DEF A, D, W, f, g, bond, gain
<1>11. D \ (W \cup {a}) = (D \ W) \ {a} /\ a \in D \ W /\ W \cup {a} \subseteq AssertionId
       /\ (D \ W) \ {a} \subseteq AssertionId
  BY <1>3, <1>5
<1>12. /\ Total(g, A) = Total(f, A)
       /\ Total(g, (D \ W) \ {a}) = Total(f, (D \ W) \ {a})
       /\ Total(Winnings', W \cup {a}) = Total(Winnings, W \cup {a})
  BY <1>3, <1>7, <1>11, TotalAgrees
<1>13. Total(f, (D \ W) \ {a}) = Total(f, D \ W) - bond
  <2>1. \A b \in D \ W : f[b] \in Nat
    BY <1>3
  <2> QED BY <1>3, <1>8, <1>11, <2>1, TotalRemoves
<1>14. Total(Winnings, W \cup {a}) = Total(Winnings, W) + gain
  <2>1. \A b \in W : Winnings[b] \in Nat
    BY <1>3
  <2> QED BY <1>3, <1>5, <1>8, <2>1, TotalAdds
<1>15. Total(f, A) \in Nat /\ Total(f, D \ W) \in Nat /\ Total(Winnings, W) \in Nat
  BY <1>3, TotalType
<1>16. balance'[v] + Total(g, A) + Total(g, (D \ W) \ {a})
         = InitialBalance + Total(Winnings', W \cup {a})
  BY <1>2, <1>8, <1>9, <1>10, <1>12, <1>13, <1>14, <1>15
<1> QED BY <1>5, <1>6, <1>11, <1>16 DEF VerifierExplained, g

\* Every step keeps the account of a verifier that plays no other part.
LEMMA StepVerifier ==
  ASSUME Core, Books, [Next]_vars, OutsideDeposits = {},
         NEW v \in Verifiers \ (Reporters \cup {Treasury}), VerifierExplained(v)
  PROVE  VerifierExplained(v)'
<1> DEFINE Others(a) == /\ v \notin {assertions[a].asserter, assertions[a].disputer}
                        /\ v \notin {assertions'[a].asserter, assertions'[a].disputer}
<1>1. v \in Verifiers /\ v \in Account /\ v \notin {Registry, Pool, Oracle, Store, Treasury, Nobody}
      /\ v \notin Reporters
  BY Parties, RegistryAssumption
<1>2. ASSUME NEW a \in AssertionId, balance'[v] = balance[v], Others(a),
             \A b \in AssertionId \ {a} : assertions'[b] = assertions[b]
      PROVE  VerifierExplained(v)'
  <2>1. \A b \in AssertionId : SameAssertion(b) \/ Others(b)
    BY <1>2 DEF SameAssertion
  <2> QED BY <1>1, <1>2, <2>1, VerifierUnmoved
<1>3. ASSUME NEW p \in Reporters, NEW i \in Imo \cup {NoImo}, NEW m \in Meta \cup {EmptyMeta},
             NEW a \in AssertionId, Submit(p, i, m, a)
      PROVE  VerifierExplained(v)'
  <2>1. balance'[v] = balance[v]
    BY <1>1, <1>3, SubmitPays
  <2>2. Others(a) /\ \A b \in AssertionId \ {a} : assertions'[b] = assertions[b]
    BY <1>1, <1>3, Opening DEF Submit, NoAssertion
  <2> QED BY <1>2, <2>1, <2>2
<1>4. ASSUME NEW p \in Verifiers, NEW a \in AssertionId, AssertElsewhere(p, a)
      PROVE  VerifierExplained(v)'
  <2>1. CASE p = v
    BY <1>4, <2>1, VerifierAsserts
  <2>2. CASE p # v
    <3>1. balance'[v] = balance[v]
      BY <1>1, <1>4, <2>2, AssertElsewherePays
    <3>2. Others(a) /\ \A b \in AssertionId \ {a} : assertions'[b] = assertions[b]
      BY <1>1, <1>4, <2>2, Opening DEF AssertElsewhere, NoAssertion
    <3> QED BY <1>2, <3>1, <3>2
  <2> QED BY <2>1, <2>2
<1>5. ASSUME NEW p \in Verifiers, NEW a \in AssertionId, DisputeAssertion(p, a)
      PROVE  VerifierExplained(v)'
  <2>1. CASE p = v
    BY <1>5, <2>1, VerifierDisputes
  <2>2. CASE p # v
    <3>1. balance'[v] = balance[v]
      BY <1>1, <1>5, <2>2, DisputePays
    <3>2. Others(a) /\ \A b \in AssertionId \ {a} : assertions'[b] = assertions[b]
      BY <1>1, <1>5, <2>2, Disputing DEF Disputed
    <3> QED BY <1>2, <3>1, <3>2
  <2> QED BY <2>1, <2>2
<1>6. ASSUME NEW a \in AssertionId, SettleTruthful(a)
      PROVE  VerifierExplained(v)'
  <2>1. balance'[v] = balance[v]
    BY <1>1, <1>6, TruthfulPays
  <2>2. /\ ~assertions[a].settled
        /\ \A b \in AssertionId \ {a} : assertions'[b] = assertions[b]
        /\ assertions'[a].asserter = assertions[a].asserter
        /\ assertions'[a].bond = assertions[a].bond
        /\ assertions'[a].disputer = assertions[a].disputer
        /\ assertions'[a].verdict = assertions[a].verdict
    BY <1>6, Settling DEF Settle
  <2>3. assertions[a].disputer = v => assertions[a].verdict # "false"
    BY <1>1, <1>6 DEF SettleTruthful, ResolvesTrue, Disputed
  <2>4. \A b \in AssertionId \ {a} : SameAssertion(b)
    BY <2>2 DEF SameAssertion
  <2> QED BY <1>1, <2>1, <2>2, <2>3, <2>4, VerifierUnmoved
<1>7. ASSUME NEW a \in AssertionId, SettleFalse(a)
      PROVE  VerifierExplained(v)'
  <2>1. CASE assertions[a].disputer = v
    BY <1>1, <1>7, <2>1, VerifierWins
  <2>2. CASE assertions[a].disputer # v
    <3>1. balance'[v] = balance[v]
      BY <1>1, <1>7, <2>2, FalsePays
    <3>2. Others(a) /\ \A b \in AssertionId \ {a} : assertions'[b] = assertions[b]
      BY <1>1, <1>7, <2>2, Settling DEF Settle
    <3> QED BY <1>2, <3>1, <3>2
  <2> QED BY <2>1, <2>2
<1>8. ~OutsideDeposit
  BY DEF OutsideDeposit
<1>9. CASE Quiet
  BY <1>1, <1>9, VerifierUnmoved DEF Quiet
<1> QED BY <1>3, <1>4, <1>5, <1>6, <1>7, <1>8, <1>9, QuietSteps DEF Settle

(***************************************************************************)
(* The treasury, the registry and the pool.                                *)
(***************************************************************************)

TreasuryExplained ==
  Treasury \notin Reporters \cup Verifiers \cup {Pool, Oracle, Store} =>
    balance[Treasury] = TreasuryShare(ProtocolBond) * Cardinality(Slashed)

\* A step that slashes nobody leaves the slashed reports as they are.
LEMMA SlashedStays ==
  ASSUME Core,
         \/ SameReports
         \/ \E id \in ReportId, p \in Reporters, a \in AssertionId : Files(id, p, minimumBond, a)
         \/ \E r \in Submitted, a \in AssertionId : Decides(r, a, SETTLED_TRUE)
  PROVE  Slashed' = Slashed
<1> USE DEF PENDING, DISPUTED, SETTLED_TRUE, SETTLED_FALSE
<1>1. CASE SameReports
  BY <1>1 DEF SameReports, SameOutcome, Slashed
<1>2. ASSUME NEW id \in ReportId, NEW p \in Reporters, NEW a \in AssertionId,
             Files(id, p, minimumBond, a)
      PROVE  Slashed' = Slashed
  BY <1>2 DEF Files, Slashed
<1>3. ASSUME NEW r \in Submitted, NEW a \in AssertionId, Decides(r, a, SETTLED_TRUE)
      PROVE  Slashed' = Slashed
  BY <1>3 DEF Decides, Slashed
<1> QED BY <1>1, <1>2, <1>3

\* The treasury is paid once per slashed report.
LEMMA StepTreasury ==
  ASSUME Core, Books, [Next]_vars, TreasuryExplained
  PROVE  TreasuryExplained'
<1> SUFFICES ASSUME Treasury \notin Reporters \cup Verifiers \cup {Pool, Oracle, Store}
             PROVE  balance'[Treasury] = TreasuryShare(ProtocolBond) * Cardinality(Slashed')
  BY DEF TreasuryExplained
<1> DEFINE Goal == balance'[Treasury] = TreasuryShare(ProtocolBond) * Cardinality(Slashed')
<1>1. Treasury \in Account /\ Treasury # Registry
      /\ balance[Treasury] = TreasuryShare(ProtocolBond) * Cardinality(Slashed)
  BY Parties DEF TreasuryExplained
<1>2. ASSUME balance'[Treasury] = balance[Treasury], Slashed' = Slashed
      PROVE  Goal
  BY <1>1, <1>2
<1>3. ASSUME NEW p \in Reporters, NEW i \in Imo \cup {NoImo}, NEW m \in Meta \cup {EmptyMeta},
             NEW a \in AssertionId, Submit(p, i, m, a)
      PROVE  Goal
  <2>1. balance'[Treasury] = balance[Treasury]
    BY <1>1, <1>3, SubmitPays
  <2> QED BY <1>2, <1>3, <2>1, Filing, SlashedStays
<1>4. ASSUME NEW p \in Verifiers, NEW a \in AssertionId, AssertElsewhere(p, a)
      PROVE  Goal
  <2>1. balance'[Treasury] = balance[Treasury]
    BY <1>1, <1>4, AssertElsewherePays
  <2>2. Slashed' = Slashed
    BY <1>4 DEF AssertElsewhere, registryVars, Slashed, Submitted
  <2> QED BY <1>2, <2>1, <2>2
<1>5. ASSUME NEW p \in Verifiers, NEW a \in AssertionId, DisputeAssertion(p, a)
      PROVE  Goal
  <2>1. balance'[Treasury] = balance[Treasury]
    BY <1>1, <1>5, DisputePays
  <2> QED BY <1>2, <1>5, <2>1, DisputeKeepsReports, SlashedStays
<1>6. ASSUME NEW a \in AssertionId, SettleTruthful(a)
      PROVE  Goal
  <2>1. balance'[Treasury] = balance[Treasury]
    BY <1>1, <1>6, TruthfulPays
  <2>2. Decides(assertionToReport[a], a, SETTLED_TRUE)
    BY <1>6, Deciding DEF Settle
  <2>3. Slashed' = Slashed
    BY <2>2, SlashedStays DEF Decides
  <2> QED BY <1>2, <2>1, <2>3
<1>7. ASSUME NEW a \in AssertionId, SettleFalse(a)
      PROVE  Goal
  <2> DEFINE r == assertionToReport[a]
             n == Cardinality(Slashed)
             t == TreasuryShare(ProtocolBond)
  <2>1. assertions[a].disputer \in Verifiers /\ balance'[Treasury] = balance[Treasury] + t
    BY <1>1, <1>7, FalsePays
  <2>2. Decides(r, a, SETTLED_FALSE)
    BY <1>7, Deciding DEF Settle
  <2>3. Slashed' = Slashed \cup {r} /\ r \notin Slashed
    BY <2>2 DEF Decides, Slashed, PENDING, DISPUTED, SETTLED_FALSE
  <2>4. IsFiniteSet(Slashed) /\ n \in Nat
    <3>1. IsFiniteSet(ReportId)
      BY RegistryAssumption, FS_Interval DEF ReportId
    <3>2. Slashed \subseteq ReportId
      BY SubmittedIds DEF Slashed
    <3> QED BY <3>1, <3>2, FS_Subset, FS_CardinalityType
  <2>5. Cardinality(Slashed') = n + 1
    BY <2>3, <2>4, FS_AddElement
  <2>6. t \in Nat
    BY Parties, SplitIsExact
  <2> HIDE DEF n, t
  <2>7. t * (n + 1) = t * n + t
    BY <2>4, <2>6, Distribute
  <2> QED BY <1>1, <2>1, <2>5, <2>7 DEF n, t
<1>8. CASE OutsideDeposit
  <2>1. balance'[Treasury] = balance[Treasury]
    BY <1>1, <1>8, DepositPays DEF OutsideDeposit
  <2>2. Slashed' = Slashed
    BY <1>8 DEF OutsideDeposit, registryVars, Slashed, Submitted
  <2> QED BY <1>2, <2>1, <2>2
<1>9. CASE Quiet
  BY <1>2, <1>9, SlashedStays DEF Quiet
<1> QED BY <1>3, <1>4, <1>5, <1>6, <1>7, <1>8, <1>9, QuietSteps DEF Settle

RegistryExplained == balance[Registry] = ProtocolBond * Cardinality(Open) + Total(Surplus, WonDisputes)

\* The disputes the reporters have won are finitely many, and each left a surplus.
LEMMA WonIsFinite ==
  ASSUME Core
  PROVE  /\ IsFiniteSet(WonDisputes) /\ WonDisputes \subseteq Submitted
         /\ Submitted \subseteq ReportId
         /\ \A r \in Submitted : Surplus[r] \in Nat
<1>1. IsFiniteSet(ReportId) /\ WonDisputes \subseteq Submitted /\ Submitted \subseteq ReportId
  BY RegistryAssumption, FS_Interval, SubmittedIds DEF ReportId, WonDisputes
<1>2. IsFiniteSet(WonDisputes)
  <2>1. WonDisputes \subseteq ReportId
    BY <1>1
  <2> QED BY <1>1, <2>1, FS_Subset
<1>3. ASSUME NEW r \in Submitted
      PROVE  Surplus[r] \in Nat
  <2>1. reports[r].assertionId \in AssertionId
        /\ assertions[reports[r].assertionId].bond = reports[r].umaBond
        /\ assertions[reports[r].assertionId].asserter = Registry
    BY DEF Core, OneAssertionPerReport, StatusAgreesWithOracle
  <2>2. Exists(reports[r].assertionId)
    BY <2>1, Parties DEF Exists
  <2>3. reports[r].umaBond \in UmaBonds /\ reports[r].umaBond \in Nat
    BY <2>1, <2>2, Parties DEF Core, WellFormed
  <2>4. OracleFee(reports[r].umaBond) \in 0..reports[r].umaBond
    BY <2>3, OracleAssumption
  <2>5. Surplus[r] = reports[r].umaBond - OracleFee(reports[r].umaBond)
    BY <1>1 DEF Surplus
  <2> QED BY <2>3, <2>4, <2>5
<1> QED BY <1>1, <1>2, <1>3

\* The assertion of an upheld report is settled, and its disputer stays.
LEMMA UpheldDisputerStays ==
  ASSUME Core, [Next]_vars, NEW r \in Submitted, reports[r].status = SETTLED_TRUE
  PROVE  assertions'[reports[r].assertionId].disputer = assertions[reports[r].assertionId].disputer
<1>1. reports[r].assertionId \in AssertionId
      /\ assertions[reports[r].assertionId].asserter = Registry
      /\ assertions[reports[r].assertionId].settled
  BY DEF Core, OneAssertionPerReport, StatusAgreesWithOracle
<1>2. Exists(reports[r].assertionId)
  BY <1>1, Parties DEF Exists
<1> QED BY <1>1, <1>2, DisputerStays

\* Unless a disputed report is upheld, the disputes won stay the same.
LEMMA WonStays ==
  ASSUME Core, [Next]_vars,
         \/ SameReports
         \/ \E id \in ReportId, p \in Reporters, a \in AssertionId : Files(id, p, minimumBond, a)
         \/ \E r \in Submitted, a \in AssertionId : Decides(r, a, SETTLED_FALSE)
         \/ \E r \in Submitted, a \in AssertionId :
              Decides(r, a, SETTLED_TRUE) /\ assertions'[a].disputer = Nobody
  PROVE  Total(Surplus', WonDisputes') = Total(Surplus, WonDisputes)
<1> USE DEF PENDING, DISPUTED, SETTLED_TRUE, SETTLED_FALSE
<1> DEFINE Won == {r \in Submitted : reports[r].status = SETTLED_TRUE}
           Kept ==
             /\ Submitted \subseteq Submitted'
             /\ \A r \in Won : reports'[r].status = SETTLED_TRUE /\ SameTerms(r)
             /\ \A r \in Submitted' \ Won :
                  reports'[r].status = SETTLED_TRUE =>
                    assertions'[reports'[r].assertionId].disputer = Nobody
<1>1. Kept
  <2>1. CASE SameReports
    BY <2>1 DEF SameReports, SameOutcome
  <2>2. ASSUME NEW id \in ReportId, NEW p \in Reporters, NEW a \in AssertionId,
               Files(id, p, minimumBond, a)
        PROVE  Kept
    BY <2>2 DEF Files, SameTerms
  <2>3. ASSUME NEW r \in Submitted, NEW a \in AssertionId, Decides(r, a, SETTLED_FALSE)
        PROVE  Kept
    BY <2>3 DEF Decides
  <2>4. ASSUME NEW r \in Submitted, NEW a \in AssertionId,
               Decides(r, a, SETTLED_TRUE), assertions'[a].disputer = Nobody
        PROVE  Kept
    BY <2>4 DEF Decides, SameTerms
  <2> QED BY <2>1, <2>2, <2>3, <2>4
<1>2. \A r \in Won : assertions'[reports'[r].assertionId].disputer
                       = assertions[reports[r].assertionId].disputer
  BY <1>1, UpheldDisputerStays DEF SameTerms
<1>3. WonDisputes' = WonDisputes
  BY <1>1, <1>2 DEF WonDisputes, Disputed
<1>4. \A r \in WonDisputes : Surplus'[r] = Surplus[r]
  <2>1. WonDisputes \subseteq Won /\ WonDisputes \subseteq ReportId
    BY WonIsFinite DEF WonDisputes
  <2>2. \A r \in Won : reports'[r].umaBond = reports[r].umaBond
    BY <1>1 DEF SameTerms
  <2> HIDE DEF Won
  <2> QED BY <2>1, <2>2 DEF Surplus
<1>5. Total(Surplus', WonDisputes) = Total(Surplus, WonDisputes)
  BY <1>4, TotalAgrees
<1> QED BY <1>3, <1>5

\* The open reports: as they were, one more, one less.
LEMMA OpenMoves ==
  ASSUME Core, Core'
  PROVE  /\ SameReports => Open' = Open
         /\ \A id \in ReportId, p \in Reporters, a \in AssertionId :
              Files(id, p, minimumBond, a) => Cardinality(Open') = Cardinality(Open) + 1
         /\ \A r \in Submitted, a \in AssertionId, outcome \in {SETTLED_TRUE, SETTLED_FALSE} :
              Decides(r, a, outcome) => /\ Cardinality(Open) > 0
                                        /\ Cardinality(Open') = Cardinality(Open) - 1
<1> USE DEF PENDING, DISPUTED, SETTLED_TRUE, SETTLED_FALSE
<1>1. IsFiniteSet(Open) /\ Cardinality(Open) \in Nat /\ Submitted \subseteq ReportId
      /\ \A r \in ReportId : reports[r].status \in 0..3 /\ reports'[r].status \in 0..3
  BY OpenIsFinite, SubmittedIds DEF Core, TypeOK, Report
<1>2. ASSUME SameReports
      PROVE  Open' = Open
  BY <1>1, <1>2 DEF SameReports, SameOutcome, Open
<1>3. ASSUME NEW id \in ReportId, NEW p \in Reporters, NEW a \in AssertionId,
             Files(id, p, minimumBond, a)
      PROVE  Cardinality(Open') = Cardinality(Open) + 1
  <2>1. Open' = Open \cup {id} /\ id \notin Open
    BY <1>3 DEF Files, Open
  <2> QED BY <1>1, <2>1, FS_AddElement
<1>4. ASSUME NEW r \in Submitted, NEW a \in AssertionId,
             NEW outcome \in {SETTLED_TRUE, SETTLED_FALSE}, Decides(r, a, outcome)
      PROVE  Cardinality(Open) > 0 /\ Cardinality(Open') = Cardinality(Open) - 1
  <2>1. Open' = Open \ {r} /\ r \in Open
    BY <1>4 DEF Decides, Open
  <2> QED BY <1>1, <2>1, FS_RemoveElement, FS_EmptySet
<1> QED BY <1>2, <1>3, <1>4

\* The registry gains and gives up one bond per report, and keeps the surplus of disputes won.
LEMMA StepRegistry ==
  ASSUME Core, Core', Books, [Next]_vars, RegistryExplained
  PROVE  RegistryExplained'
<1> DEFINE n == Cardinality(Open)
           T == Total(Surplus, WonDisputes)
           m == Cardinality(Open')
           U == Total(Surplus', WonDisputes')
           now == balance[Registry]
           then == balance'[Registry]
<1>1. now \in Nat /\ then \in Nat /\ ProtocolBond \in Nat /\ n \in Nat
      /\ now = ProtocolBond * n + T
  BY Parties, OpenIsFinite DEF Core, TypeOK, RegistryExplained
<1>2. T \in Nat /\ IsFiniteSet(WonDisputes)
  BY WonIsFinite, TotalType
<1>3. SUFFICES then = ProtocolBond * m + U
  BY DEF RegistryExplained
<1> HIDE DEF n, T, m, U, now, then
<1>4. ASSUME SameReports, balance'[Registry] = balance[Registry]
      PROVE  then = ProtocolBond * m + U
  <2>1. m = n /\ U = T
    BY <1>4, OpenMoves, WonStays DEF n, m, T, U
  <2> QED BY <1>1, <1>4, <2>1 DEF now, then
<1>5. ASSUME NEW p \in Reporters, NEW i \in Imo \cup {NoImo}, NEW meta \in Meta \cup {EmptyMeta},
             NEW a \in AssertionId, Submit(p, i, meta, a)
      PROVE  then = ProtocolBond * m + U
  <2>1. PICK id \in ReportId : Files(id, p, minimumBond, a)
    BY <1>5, Filing
  <2>2. m = n + 1 /\ U = T /\ then = now + ProtocolBond
    BY <1>5, <2>1, OpenMoves, WonStays, SubmitMoney DEF n, m, T, U, now, then
  <2>3. ProtocolBond * (n + 1) = ProtocolBond * n + ProtocolBond /\ ProtocolBond * n \in Nat
    BY <1>1, Distribute
  <2> QED BY <1>1, <1>2, <2>2, <2>3
<1>6. ASSUME NEW p \in Verifiers, NEW a \in AssertionId, AssertElsewhere(p, a)
      PROVE  then = ProtocolBond * m + U
  <2>1. SameReports
    BY <1>6 DEF AssertElsewhere, registryVars, SameReports, SameTerms, SameOutcome, Submitted
  <2> QED BY <1>4, <1>6, <2>1, AssertElsewhereMoney
<1>7. ASSUME NEW p \in Verifiers, NEW a \in AssertionId, DisputeAssertion(p, a)
      PROVE  then = ProtocolBond * m + U
  BY <1>4, <1>7, DisputeKeepsReports, DisputeMoney
<1>8. ProtocolBond * n \in Nat
      /\ (n > 0 => ProtocolBond * (n - 1) = ProtocolBond * n - ProtocolBond)
  BY <1>1, Distribute
<1>9. ASSUME NEW a \in AssertionId, SettleTruthful(a)
      PROVE  then = ProtocolBond * m + U
  <2> DEFINE r    == assertionToReport[a]
             bond == assertions[a].bond
             won  == WinnersShare(a)
  <2>1. Decides(r, a, SETTLED_TRUE)
    BY <1>9, Deciding DEF Settle
  <2>2. n > 0 /\ m = n - 1 /\ r \in Submitted
    BY <2>1, OpenMoves DEF Decides, n, m
  <2>3. then = now + won - (ProtocolBond + bond)
    BY <1>9, TruthfulPays DEF now, then
  <2>4. /\ Exists(a) /\ assertions'[a].disputer = assertions[a].disputer
        /\ \A b \in AssertionId \ {a} : assertions'[b] = assertions[b]
    BY <1>9, Settling DEF Settle
  <2>5. bond \in Nat /\ OracleFee(bond) \in 0..bond /\ bond \in UmaBonds
    BY <2>4, OracleAssumption DEF Core, WellFormed
  <2> HIDE DEF r, bond
  <2>6. CASE assertions[a].disputer = Nobody
    <3>1. won = bond
      BY <2>6 DEF WinnersShare, Disputed, bond
    <3>2. U = T
      BY <2>1, <2>2, <2>4, <2>6, WonStays DEF T, U
    <3> HIDE DEF won
    <3> QED BY <1>1, <1>2, <1>8, <2>2, <2>3, <2>5, <3>1, <3>2
  <2>7. CASE assertions[a].disputer # Nobody
    <3>1. won = 2 * bond - OracleFee(bond)
      BY <2>7 DEF WinnersShare, Disputed, bond
    <3>2. /\ \A q \in Submitted \ {r} : reports'[q] = reports[q] /\ reports[q].assertionId # a
          /\ SameTerms(r) /\ Submitted' = Submitted
          /\ reports[r].assertionId = a /\ reports[r].umaBond = bond
          /\ reports[r].status # SETTLED_TRUE /\ reports'[r].status = SETTLED_TRUE
      BY <2>1, <2>2 DEF Decides, bond, PENDING, DISPUTED, SETTLED_TRUE
    <3>3. WonDisputes' = WonDisputes \cup {r} /\ r \notin WonDisputes
      <4>1. r \notin WonDisputes /\ r \in WonDisputes'
        BY <2>2, <2>4, <2>7, <3>2 DEF WonDisputes, Disputed, SameTerms
      <4>2. ASSUME NEW q \in Submitted \ {r}
            PROVE  q \in WonDisputes' <=> q \in WonDisputes
        <5>1. reports[q].assertionId \in AssertionId \ {a}
          BY <3>2, <4>2 DEF Core, OneAssertionPerReport
        <5> QED BY <2>4, <3>2, <4>2, <5>1 DEF WonDisputes, Disputed
      <4>3. WonDisputes' \subseteq Submitted /\ WonDisputes \subseteq Submitted
        BY <3>2 DEF WonDisputes
      <4> QED BY <2>2, <4>1, <4>2, <4>3
    <3>4. /\ \A q \in Submitted : Surplus'[q] = Surplus[q]
          /\ Surplus[r] = bond - OracleFee(bond)
      <4>1. Submitted \subseteq ReportId
        BY SubmittedIds
      <4>2. \A q \in Submitted : reports'[q].umaBond = reports[q].umaBond
        BY <3>2 DEF SameTerms
      <4> QED BY <2>2, <3>2, <4>1, <4>2 DEF Surplus
    <3>5. /\ WonDisputes \cup {r} \subseteq Submitted
          /\ \A q \in WonDisputes \cup {r} : Surplus[q] \in Nat
      BY <2>2, WonIsFinite
    <3>6. Total(Surplus', WonDisputes \cup {r}) = Total(Surplus, WonDisputes \cup {r})
      BY <3>4, <3>5, TotalAgrees
    <3>7. Total(Surplus, WonDisputes \cup {r}) = T + Surplus[r]
      BY <1>2, <3>3, <3>5, TotalAdds DEF T
    <3>8. U = T + (bond - OracleFee(bond))
      BY <3>3, <3>4, <3>6, <3>7 DEF U
    <3> HIDE DEF won
    <3> QED BY <1>1, <1>2, <1>8, <2>2, <2>3, <2>5, <3>1, <3>8
  <2> QED BY <2>6, <2>7
<1>10. ASSUME NEW a \in AssertionId, SettleFalse(a)
       PROVE  then = ProtocolBond * m + U
  <2>1. Decides(assertionToReport[a], a, SETTLED_FALSE)
    BY <1>10, Deciding DEF Settle
  <2>2. n > 0 /\ m = n - 1 /\ assertionToReport[a] \in Submitted
    BY <2>1, OpenMoves DEF Decides, n, m
  <2>3. U = T
    BY <2>1, <2>2, WonStays DEF T, U
  <2>4. then = now - ProtocolBond
    BY <1>10, SettleFalseMoney DEF now, then
  <2> QED BY <1>1, <1>2, <1>8, <2>2, <2>3, <2>4
<1>11. CASE OutsideDeposit
  <2>1. SameReports
    BY <1>11 DEF OutsideDeposit, registryVars, SameReports, SameTerms, SameOutcome, Submitted
  <2> QED BY <1>4, <1>11, <2>1, OutsideDepositMoney
<1>12. CASE Quiet
  BY <1>4, <1>12 DEF Quiet
<1> QED BY <1>5, <1>6, <1>7, <1>9, <1>10, <1>11, <1>12, QuietSteps DEF Settle

\* What the pool is booked to hold grows by every amount it books.
LEMMA BookingAdds ==
  ASSUME Core, PoolAccounted, NEW r \in ReportId, NEW amount \in Nat, BookDeposit(r, amount)
  PROVE  totalDeposited' = totalDeposited + amount /\ totalDeposited' = Total(depositOf', ReportId)
<1>1. IsFiniteSet(ReportId)
  BY RegistryAssumption, FS_Interval DEF ReportId
<1>2. /\ depositOf \in [ReportId -> Nat] /\ totalDeposited \in Nat
      /\ depositOf' = [depositOf EXCEPT ![r] = @ + amount]
      /\ totalDeposited' = totalDeposited + amount
      /\ totalDeposited = Total(depositOf, ReportId)
  BY DEF Core, TypeOK, BookDeposit, PoolAccounted
<1> DEFINE f == depositOf
           g == depositOf'
<1>3. /\ \A q \in ReportId : f[q] \in Nat /\ g[q] \in Nat
      /\ \A q \in ReportId \ {r} : g[q] = f[q]
      /\ g[r] = f[r] + amount
  BY <1>2
<1>4. f[r] \in Nat
  BY <1>2
<1> HIDE DEF f, g
<1>5. Total(g, ReportId) = Total(f, ReportId) - f[r] + g[r]
  BY <1>1, <1>3, TotalChanges
<1>6. Total(f, ReportId) \in Nat
  BY <1>1, <1>3, TotalType
<1>7. Total(g, ReportId) = Total(f, ReportId) + amount
  BY <1>3, <1>4, <1>5, <1>6
<1> QED BY <1>2, <1>7 DEF f, g

\* Every step keeps the pool's books.
LEMMA StepPool ==
  ASSUME Core, Books, [Next]_vars, PoolAccounted
  PROVE  PoolAccounted'
<1>1. Pool \in Account /\ Pool \notin {Registry, Oracle, Store} /\ Pool \notin Reporters \cup Verifiers
  BY Parties, RegistryAssumption
<1>2. ASSUME balance'[Pool] = balance[Pool], UNCHANGED poolVars
      PROVE  PoolAccounted'
  BY <1>2 DEF PoolAccounted, poolVars
<1>3. ASSUME NEW p \in Reporters, NEW i \in Imo \cup {NoImo}, NEW m \in Meta \cup {EmptyMeta},
             NEW a \in AssertionId, Submit(p, i, m, a)
      PROVE  PoolAccounted'
  <2>1. balance'[Pool] = balance[Pool]
    BY <1>1, <1>3, SubmitPays
  <2> QED BY <1>2, <1>3, <2>1 DEF Submit
<1>4. ASSUME NEW p \in Verifiers, NEW a \in AssertionId, AssertElsewhere(p, a)
      PROVE  PoolAccounted'
  <2>1. balance'[Pool] = balance[Pool]
    BY <1>1, <1>4, AssertElsewherePays
  <2> QED BY <1>2, <1>4, <2>1 DEF AssertElsewhere
<1>5. ASSUME NEW p \in Verifiers, NEW a \in AssertionId, DisputeAssertion(p, a)
      PROVE  PoolAccounted'
  <2>1. balance'[Pool] = balance[Pool]
    BY <1>1, <1>5, DisputePays
  <2> QED BY <1>2, <1>5, <2>1 DEF DisputeAssertion
<1>6. ASSUME NEW a \in AssertionId, SettleTruthful(a)
      PROVE  PoolAccounted'
  <2>1. balance'[Pool] = balance[Pool]
    BY <1>1, <1>6, TruthfulPays
  <2> QED BY <1>2, <1>6, <2>1 DEF SettleTruthful
<1>7. ASSUME NEW a \in AssertionId, SettleFalse(a)
      PROVE  PoolAccounted'
  <2> DEFINE share == PoolShare(ProtocolBond)
  <2>1. /\ assertionToReport[a] # 0
        /\ BookDeposit(assertionToReport[a], PoolShare(reports[assertionToReport[a]].bond))
    BY <1>7 DEF SettleFalse
  <2>2. assertionToReport[a] \in ReportId /\ reports[assertionToReport[a]].bond = ProtocolBond
    BY <2>1, ReportBehind
  <2>3. share \in Nat
    BY Parties, SplitIsExact
  <2>4. Treasury # Pool => balance'[Pool] = balance[Pool] + share
    BY <1>7, FalsePays
  <2> HIDE DEF share
  <2>5. totalDeposited' = totalDeposited + share /\ totalDeposited' = Total(depositOf', ReportId)
    BY <2>1, <2>2, <2>3, BookingAdds DEF share
  <2> QED BY <2>4, <2>5 DEF PoolAccounted
<1>8. CASE OutsideDeposit
  <2>1. PICK p \in Verifiers, r \in ReportId, amount \in OutsideDeposits : DepositSlash(p, r, amount)
    BY <1>8 DEF OutsideDeposit
  <2>2. balance'[Pool] = balance[Pool] + amount /\ amount \in Nat
    BY <2>1, DepositPays, RegistryAssumption
  <2>3. totalDeposited' = totalDeposited + amount /\ totalDeposited' = Total(depositOf', ReportId)
    BY <2>1, <2>2, BookingAdds DEF DepositSlash
  <2> QED BY <2>2, <2>3 DEF PoolAccounted
<1>9. CASE Quiet
  BY <1>2, <1>9 DEF Quiet
<1> QED BY <1>3, <1>4, <1>5, <1>6, <1>7, <1>8, <1>9, QuietSteps DEF Settle

(***************************************************************************)
(* The inductive invariant of the accounts.                                *)
(***************************************************************************)
Accounts == Books /\ PoolAccounted /\ BalancesExplained

\* BalancesExplained, party by party.
LEMMA PartByPart ==
  BalancesExplained <=>
    /\ \A p \in Reporters \ (Verifiers \cup {Treasury}) : ReporterExplained(p)
    /\ OutsideDeposits = {} =>
         \A v \in Verifiers \ (Reporters \cup {Treasury}) : VerifierExplained(v)
    /\ TreasuryExplained
    /\ RegistryExplained
BY DEF BalancesExplained, TreasuryExplained, RegistryExplained

\* A total of noughts.
LEMMA TotalOfZeros ==
  ASSUME NEW S, NEW f, \A x \in S : f[x] = 0
  PROVE  Total(f, S) = 0
<1>1. Units(f, S) = {}
  BY DEF Units
<1> QED BY <1>1, FS_EmptySet DEF Total

\* To begin with nothing is owed.
LEMMA InitAccounts == Init => Accounts
<1> SUFFICES ASSUME Init PROVE Accounts
  OBVIOUS
<1>1. Submitted = {} /\ (\A a \in AssertionId : assertions[a] = NoAssertion)
      /\ depositOf = [r \in ReportId |-> 0] /\ totalDeposited = 0
      /\ balance = [x \in Account |-> IF x \in Reporters \cup Verifiers THEN InitialBalance ELSE 0]
  BY DEF Init, OracleInit, PoolInit, Submitted
<1>2. Books
  <2>1. Asserted = {} /\ OwnDisputes
    BY <1>1 DEF Asserted, Exists, OwnDisputes, Disputed, NoAssertion
  <2> QED BY <2>1, FS_EmptySet DEF Books
<1>3. PoolAccounted
  <2>1. Total(depositOf, ReportId) = 0
    BY <1>1, TotalOfZeros
  <2>2. balance[Pool] = 0
    BY <1>1, Parties, RegistryAssumption
  <2> QED BY <1>1, <2>1, <2>2 DEF PoolAccounted
<1>4. ASSUME NEW p \in Reporters \ (Verifiers \cup {Treasury})
      PROVE  ReporterExplained(p)
  <2>1. Unreturned(p) = {} /\ balance[p] = InitialBalance /\ InitialBalance \in Nat
    BY <1>1, Parties, RegistryAssumption DEF Unreturned
  <2> QED BY <2>1, TotalOfNothing DEF ReporterExplained
<1>5. ASSUME NEW v \in Verifiers
      PROVE  VerifierExplained(v)
  <2>1. balance[v] = InitialBalance /\ InitialBalance \in Nat /\ v # Nobody
    BY <1>1, Parties, RegistryAssumption
  <2>2. AssertedBy(v) = {} /\ DisputedBy(v) = {} /\ WonBy(v) = {} /\ DisputedBy(v) \ WonBy(v) = {}
    BY <1>1, <2>1 DEF AssertedBy, DisputedBy, WonBy, NoAssertion
  <2> QED BY <2>1, <2>2, TotalOfNothing DEF VerifierExplained
<1>6. TreasuryExplained
  <2>1. Slashed = {} /\ TreasuryShare(ProtocolBond) \in Nat
    BY <1>1, Parties, SplitIsExact DEF Slashed
  <2>2. Treasury \notin Reporters \cup Verifiers => balance[Treasury] = 0
    BY <1>1, Parties
  <2> QED BY <2>1, <2>2, FS_EmptySet DEF TreasuryExplained
<1>7. RegistryExplained
  <2>1. Open = {} /\ WonDisputes = {} /\ balance[Registry] = 0
    BY <1>1, Parties DEF Open, WonDisputes
  <2> QED BY <2>1, Parties, FS_EmptySet, TotalOfNothing DEF RegistryExplained
<1> QED BY <1>2, <1>3, <1>4, <1>5, <1>6, <1>7, PartByPart DEF Accounts

\* Every step keeps every account.
LEMMA StepAccounts == Core /\ Core' /\ Accounts /\ [Next]_vars => Accounts'
<1> SUFFICES ASSUME Core, Core', Accounts, [Next]_vars
             PROVE  Accounts'
  OBVIOUS
<1>1. /\ Books /\ PoolAccounted
      /\ \A p \in Reporters \ (Verifiers \cup {Treasury}) : ReporterExplained(p)
      /\ OutsideDeposits = {} =>
           \A v \in Verifiers \ (Reporters \cup {Treasury}) : VerifierExplained(v)
      /\ TreasuryExplained /\ RegistryExplained
  BY PartByPart DEF Accounts
<1>2. Books' /\ PoolAccounted'
  BY <1>1, StepBooks, StepPool
<1>3. ASSUME NEW p \in Reporters \ (Verifiers \cup {Treasury})
      PROVE  ReporterExplained(p)'
  BY <1>1, <1>3, StepReporter
<1>4. ASSUME OutsideDeposits = {}, NEW v \in Verifiers \ (Reporters \cup {Treasury})
      PROVE  VerifierExplained(v)'
  BY <1>1, <1>4, StepVerifier
<1>5. TreasuryExplained' /\ RegistryExplained'
  BY <1>1, StepTreasury, StepRegistry
<1>6. BalancesExplained'
  BY <1>3, <1>4, <1>5 DEF BalancesExplained, TreasuryExplained, RegistryExplained
<1> QED BY <1>2, <1>6 DEF Accounts

\* The accounts are in order in every reachable state.
LEMMA AccountsInvariant == Spec => []Accounts
BY InitAccounts, StepAccounts, Correspondence, PTL DEF Spec

\* Every token in the slash pool is booked under a report, whether slashed or deposited
\* by others, for every bond and any number of reports.
THEOREM PoolIsAccounted == Spec => []PoolAccounted
<1>1. Accounts => PoolAccounted
  BY DEF Accounts
<1> QED BY <1>1, AccountsInvariant, PTL

\* Whatever is submitted, disputed, decided and settled, and in whatever order, what each
\* party holds follows from the outcome of the reports: no bond is returned twice, kept
\* back or paid to another.
THEOREM BalancesAreExplained == Spec => []BalancesExplained
<1>1. Accounts => BalancesExplained
  BY DEF Accounts
<1> QED BY <1>1, AccountsInvariant, PTL
===============================================================================
