--------------------------- MODULE MCReportRegistry ---------------------------
(***************************************************************************)
(* ReportRegistry on small instances.                                      *)
(***************************************************************************)
EXTENDS ReportRegistry, TLC

CONSTANTS alice, vera, registry, oracle, pool, treasury, store, a1, a2

\* UMA keeps half of a lost bond.
HalfKept(bond) == bond \div 2

AllAccounts == Reporters \cup Verifiers \cup {registry, oracle, pool, treasury, store}

TwoIds == {a1, a2}

SymmetricIds == Permutations(AssertionId)
-----------------------------------------------------------------------------
(***************************************************************************)
(* What the documents promise and the contracts do not keep.               *)
(***************************************************************************)

\* A report the voters found false is slashed (the 50/30/20 split of
\* DESIGN_DOCUMENT.md section 5.2, and of the callback's own comment).
FalseVerdictSlashes ==
  \A r \in ReportId :
    (/\ r \in Submitted
     /\ assertions[reports[r].assertionId].verdict = "false")
    ~> reports[r].status = SETTLED_FALSE

\* Vessel names cannot collide (LIGHTHOUSE_SPEC.md section 10), so nothing
\* keeps a report that nobody disputed from being upheld.
UndisputedIsUpheld ==
  \A r \in ReportId :
    (/\ r \in Submitted
     /\ assertions[reports[r].assertionId].expired
     /\ ~Disputed(reports[r].assertionId))
    ~> reports[r].status = SETTLED_TRUE

\* A reporter whose only closed reports were disputed and upheld has been
\* compensated from the loser's counter-bond (section 5.3).
CounterBondCompensates ==
  \A p \in Reporters :
    LET mine == {r \in Submitted : reports[r].reporter = p}
    IN  (/\ \A r \in mine : reports[r].status = SETTLED_TRUE
         /\ \E r \in mine : Disputed(reports[r].assertionId))
        => balance[p] > InitialBalance
=============================================================================
