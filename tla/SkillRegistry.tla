---------------------------- MODULE SkillRegistry ----------------------------
(***************************************************************************)
(* skill/src/registry.js, and the one-shot tools that call it: a tool that *)
(* publishes a vessel (submitReport, settleAfterTimestamp, settleReport),  *)
(* a verifier's disputeReport, and the orbital tool (attestOrbital).  A    *)
(* run of a tool is cut at every await.  A transaction is estimated when   *)
(* it is sent, and refused there if it would revert, but it is mined later *)
(* and no tool reads the status of its receipt.                            *)
(***************************************************************************)
EXTENDS Integers, SequencesExt

CONSTANTS
    Publisher, Disputer, Attestor,   \* runs of the three tools
    Account, AccountOf,   \* the wallets, and the wallet of each run
    ProtocolBond,
    MinBonds,             \* the values getMinimumBond may return
    Liveness,             \* of the challenge window
    Buffer,               \* what the publishing tool waits beyond it
    Drift,                \* how far the tools' clock is ahead of block time
    InitialWeth, InitialEths,   \* what every account has, and may have, to begin with
    MaxTime, MaxFaults,   \* bounds on block time, on failing requests and moves of the bond
    None

Run == Publisher \cup Disputer \cup Attestor

ASSUME SkillAssumption ==
    /\ AccountOf \in [Run -> Account] /\ None \notin Run \cup Nat \cup {"true", "false"}
    /\ Publisher \cap (Disputer \cup Attestor) = {} /\ Disputer \cap Attestor = {}
    /\ MinBonds \subseteq Nat \ {0} /\ InitialEths \subseteq Nat
    /\ {ProtocolBond, Liveness, Buffer, Drift, InitialWeth, MaxTime, MaxFaults} \subseteq Nat

\* The buffer of the publishing tool is there for the clocks' difference.
ASSUME ClockAssumption == Drift <= Buffer

VARIABLES
    now,        \* block time
    minBond,    \* getMinimumBond
    weth, eth,  \* account -> what it holds
    approved,   \* account -> allowance of the registry and of the oracle
    report,     \* the registry's reports, all about one vessel
    log,        \* the reports that wrote vessel.swarm.log, in order
    run,        \* run -> where it is and what it has read
    moved,      \* history: runs whose bond changed between its read and its use
    shared,     \* history: runs that paid bonds from one account at once
    overtaken,  \* history: runs whose dispute or attestation was overtaken on its way
    faults

chain     == <<now, minBond, weth, eth, approved, report, log>>
skillVars == <<chain, run, moved, shared, overtaken, faults>>

\* REPORT_STATUS; a dispute of an open report makes it DISPUTED.
PENDING       == 0
DISPUTED      == 1
SETTLED_TRUE  == 2
SETTLED_FALSE == 3
Spender == {"registry", "oracle"}
ReportId == 1 .. Len(report)

SkillInit ==
    /\ now = 0 /\ minBond \in MinBonds
    /\ weth = [a \in Account |-> InitialWeth]
    /\ eth \in {[a \in Account |-> e] : e \in InitialEths}
    /\ approved = [a \in Account |-> [s \in Spender |-> 0]]
    /\ report = <<>> /\ log = <<>>
    /\ run = [p \in Run |-> [at |-> "ready", sent |-> FALSE, total |-> 0, short |-> 0,
                             id |-> None, log |-> None, why |-> None]]
    /\ moved = {} /\ shared = {} /\ overtaken = {} /\ faults = 0

\* The stages in which a run holds an amount that it has yet to pay.
Paying(p)  == run[p].at \in {"bonds", "balance", "wrap", "approve", "submit", "counter", "dispute"}
\* Those that pay, or are about to; what an attestation costs is not a bond.
Spends(p)  == Paying(p) \/ (p \in Disputer /\ run[p].at = "look")
Resting    == {"ready", "ok", "refused", "broken"}
Payer(p)   == AccountOf[p]
Becomes(p, r)   == run' = [run EXCEPT ![p] = r]
Goes(p, place)  == Becomes(p, [run[p] EXCEPT !.at = place, !.sent = FALSE])
\* The run ends in an exception; where it ended is kept for the properties.
Lacks(p)        == run[p].at = "dispute" /\ weth[Payer(p)] < report[run[p].id].umaBond
Refused(p)      == Becomes(p, [run[p] EXCEPT !.at = "refused", !.sent = FALSE,
                                             !.why = IF Lacks(p) THEN "funds" ELSE run[p].at])

(***************************************************************************)
(* A run begins.                                                           *)
(***************************************************************************)
Begins(p, place, id) ==
    /\ run[p].at = "ready"
    /\ Becomes(p, [run[p] EXCEPT !.at = place, !.id = id])
    /\ LET others == {q \in Run \ {p} : Payer(q) = Payer(p) /\ Spends(q)}
       IN  shared' = IF p \in Attestor \/ others = {} THEN shared ELSE shared \cup others \cup {p}
    /\ UNCHANGED <<chain, moved, faults>>

\* The photo and the metadata are pinned, and submitReport is called.
Publish(p)     == p \in Publisher /\ Begins(p, "bonds", None)
Dispute(p, i)  == p \in Disputer /\ Begins(p, "look", i)
Attest(p, i)   == p \in Attestor /\ Begins(p, "look", i)

(***************************************************************************)
(* Reads.                                                                  *)
(***************************************************************************)
getTotalBond(p) ==
    /\ run[p].at = "bonds"
    /\ Becomes(p, [run[p] EXCEPT !.at = "balance", !.total = ProtocolBond + minBond])
    /\ UNCHANGED <<chain, moved, shared, faults>>

ensureWeth(p) ==
    /\ run[p].at = "balance"
    /\ LET held == weth[Payer(p)] IN
       IF held >= run[p].total THEN Goes(p, "approve")
       ELSE Becomes(p, [run[p] EXCEPT !.at = "wrap", !.short = run[p].total - held])
    /\ UNCHANGED <<chain, moved, shared, faults>>

\* What it reads of a report never changes.
settleAfterTimestamp(i) == report[i].submittedAt + Liveness

\* Faulty variant of Wakes: the buffer is forgotten.
WakesAtOnce(p) ==
    /\ run[p].at = "wait" /\ now + Drift >= settleAfterTimestamp(run[p].id)
    /\ Goes(p, "look")
    /\ UNCHANGED <<chain, moved, shared, faults>>

Wakes(p) ==
    /\ run[p].at = "wait" /\ now + Drift >= settleAfterTimestamp(run[p].id) + Buffer
    /\ Goes(p, "look")
    /\ UNCHANGED <<chain, moved, shared, faults>>

\* What a tool reads of its report before it acts on it.
Looks(p) == run[p].at = "look" /\ UNCHANGED <<chain, moved, shared, faults>>

\* Only a settled report is refused: one that is open, disputed or not due is tried.
settleReport(p) ==
    /\ p \in Publisher /\ Looks(p)
    /\ IF report[run[p].id].status < SETTLED_TRUE THEN Goes(p, "settle") ELSE Refused(p)

\* The report's status and bond are not looked at; the amount to approve is the
\* oracle's present minimum.
disputeReport(p) ==
    /\ p \in Disputer /\ Looks(p)
    /\ Becomes(p, [run[p] EXCEPT !.at = "counter", !.total = minBond])

\* The image and the prediction are pinned and signed for a report that is settled true
\* and not attested.
attestOrbital(p) ==
    /\ p \in Attestor /\ Looks(p)
    /\ LET r == report[run[p].id]
       IN  IF r.status = SETTLED_TRUE /\ r.attestedBy = None
           THEN Goes(p, "attest") ELSE Refused(p)

\* The publishing tool reads the vessel's record and the report, and is done.
ReadBack(p) ==
    /\ run[p].at = "readback"
    /\ Becomes(p, [run[p] EXCEPT !.at = "ok", !.log = IF log = <<>> THEN None ELSE Last(log)])
    /\ UNCHANGED <<chain, moved, shared, faults>>

\* A request fails.  A transaction that was sent is mined all the same, so that to fail
\* before it is mined is to fail right after.
RequestFails(p) ==
    /\ run[p].at \notin Resting /\ ~run[p].sent
    /\ faults < MaxFaults /\ faults' = faults + 1
    /\ Becomes(p, [run[p] EXCEPT !.at = "broken", !.total = 0, !.short = 0])
    /\ UNCHANGED <<chain, moved, shared>>

(***************************************************************************)
(* Transactions: what makes one revert, and what it does.                  *)
(***************************************************************************)
Pull    == ProtocolBond + minBond
Open(i) == report[i].status = PENDING /\ now < settleAfterTimestamp(i)
CanSettle(i) ==
    \/ report[i].status = PENDING  /\ now >= settleAfterTimestamp(i)
    \/ report[i].status = DISPUTED /\ report[i].verdict # None
CanPay(p, spender, amount) ==
    approved[Payer(p)][spender] >= amount /\ weth[Payer(p)] >= amount

Succeeds(p) ==
    CASE run[p].at = "wrap"    -> eth[Payer(p)] >= run[p].short
      [] run[p].at = "submit"  -> CanPay(p, "registry", Pull)
      [] run[p].at = "settle"  -> CanSettle(run[p].id)
      [] run[p].at = "dispute" -> Open(run[p].id) /\ CanPay(p, "oracle", report[run[p].id].umaBond)
      [] run[p].at = "attest"  -> report[run[p].id].attestedBy = None

\* Faulty variant of writeContract: nothing is estimated.
SendUnestimated(p) ==
    /\ run[p].at \in {"wrap", "submit", "settle", "dispute", "attest"}
    /\ ~run[p].sent
    /\ Becomes(p, [run[p] EXCEPT !.sent = TRUE])
    /\ UNCHANGED <<chain, moved, shared, faults>>

\* writeContract: an estimate that fails throws; otherwise the transaction is out.
\* An approval cannot fail: that it is sent before it is mined makes no difference.
writeContract(p) ==
    /\ run[p].at \in {"wrap", "submit", "settle", "dispute", "attest"}
    /\ ~run[p].sent
    /\ IF Succeeds(p) THEN Becomes(p, [run[p] EXCEPT !.sent = TRUE]) ELSE Refused(p)
    /\ UNCHANGED <<chain, moved, shared, faults>>

Mined(p, place) == run[p].at = place /\ run[p].sent /\ Succeeds(p)

MineWrap(p) ==
    /\ Mined(p, "wrap")
    /\ weth' = [weth EXCEPT ![Payer(p)] = @ + run[p].short]
    /\ eth' = [eth EXCEPT ![Payer(p)] = @ - run[p].short]
    /\ Becomes(p, [run[p] EXCEPT !.at = "approve", !.sent = FALSE, !.short = 0])
    /\ UNCHANGED <<now, minBond, approved, report, log, moved, shared, faults>>

\* Faulty variant of MineApprove: more is approved than is pulled.
ApproveFreely(p, place, spender, next) ==
    /\ run[p].at = place
    /\ approved' = [approved EXCEPT ![Payer(p)][spender] = run[p].total + 1]
    /\ Goes(p, next)
    /\ UNCHANGED <<now, minBond, weth, eth, report, log, moved, shared, faults>>

\* approve sets the allowance, whatever it was, to exactly what was read.
MineApprove(p, place, spender, next) ==
    /\ run[p].at = place
    /\ approved' = [approved EXCEPT ![Payer(p)][spender] = run[p].total]
    /\ Goes(p, next)
    /\ UNCHANGED <<now, minBond, weth, eth, report, log, moved, shared, faults>>

Pays(p, spender, amount) ==
    /\ weth' = [weth EXCEPT ![Payer(p)] = @ - amount]
    /\ approved' = [approved EXCEPT ![Payer(p)][spender] = @ - amount]

\* The registry pulls what UMA's minimum bond makes it now; the tool takes the id
\* from the Submitted event of its own receipt.
MineSubmit(p) ==
    /\ Mined(p, "submit")
    /\ Pays(p, "registry", Pull)
    /\ report' = Append(report, [by |-> p, umaBond |-> minBond, submittedAt |-> now,
                                 status |-> PENDING, verdict |-> None,
                                 disputedBy |-> None, attestedBy |-> None])
    /\ Becomes(p, [run[p] EXCEPT !.at = "wait", !.sent = FALSE, !.total = 0,
                               !.id = Len(report) + 1])
    /\ UNCHANGED <<now, minBond, eth, log, moved, shared, faults>>

\* UMA pulls the bond of the assertion, not today's minimum.
MineDispute(p) ==
    /\ Mined(p, "dispute")
    /\ Pays(p, "oracle", report[run[p].id].umaBond)
    /\ report' = [report EXCEPT ![run[p].id] = [@ EXCEPT !.status = DISPUTED, !.disputedBy = p]]
    /\ Goes(p, "ok")
    /\ UNCHANGED <<now, minBond, eth, log, moved, shared, faults>>

MineAttest(p) ==
    /\ Mined(p, "attest")
    /\ report' = [report EXCEPT ![run[p].id].attestedBy = p]
    /\ Goes(p, "ok")
    /\ UNCHANGED <<now, minBond, weth, eth, approved, log, moved, shared, faults>>

\* settleAssertion and the registry's callback.  An upheld report gets its bonds back
\* and writes the vessel's record; what a lost one pays is left out.
Settled(i) ==
    /\ CanSettle(i)
    /\ IF report[i].status = PENDING \/ report[i].verdict = "true"
       THEN /\ report' = [report EXCEPT ![i].status = SETTLED_TRUE]
            /\ weth' = [weth EXCEPT ![Payer(report[i].by)] = @ + ProtocolBond + report[i].umaBond]
            /\ log' = Append(log, i)
       ELSE report' = [report EXCEPT ![i].status = SETTLED_FALSE] /\ UNCHANGED <<weth, log>>
    /\ UNCHANGED <<now, minBond, eth, approved, moved, shared, faults>>

MineSettle(p) == Mined(p, "settle") /\ Settled(run[p].id) /\ Goes(p, "readback")

\* A transaction reverts when it is mined, and the tool goes on as if it had not;
\* only without a report id settleAfterTimestamp does not encode, and throws.
Reverts(p) ==
    /\ run[p].sent /\ ~Succeeds(p)
    /\ \/ run[p].at = "wrap"   /\ Goes(p, "approve")
       \/ run[p].at = "submit" /\ Refused(p)
       \/ run[p].at = "settle" /\ Goes(p, "readback")
       \/ run[p].at \in {"dispute", "attest"} /\ Goes(p, "ok")
    /\ UNCHANGED <<chain, moved, shared, faults>>

(***************************************************************************)
(* Everyone else.                                                          *)
(***************************************************************************)
Tick ==
    /\ now < MaxTime /\ now' = now + 1
    /\ UNCHANGED <<minBond, weth, eth, approved, report, log, run, moved, shared, faults>>

\* UMA sets another minimum bond.
BondChanges ==
    /\ faults < MaxFaults /\ faults' = faults + 1
    /\ minBond' \in MinBonds \ {minBond}
    /\ moved' = moved \cup {p \in Run : Paying(p) /\ run[p].at # "bonds"}
    /\ UNCHANGED <<now, weth, eth, approved, report, log, run, shared>>

Vote(i, v) ==
    /\ report[i].status = DISPUTED /\ report[i].verdict = None
    /\ report' = [report EXCEPT ![i].verdict = v]
    /\ UNCHANGED <<now, minBond, weth, eth, approved, log, run, moved, shared, faults>>

SettledByAnother(i) == Settled(i) /\ UNCHANGED run

RunStep(p) ==
    \/ Publish(p) \/ \E i \in ReportId : Dispute(p, i) \/ Attest(p, i)
    \/ getTotalBond(p) \/ ensureWeth(p) \/ Wakes(p)
    \/ settleReport(p) \/ disputeReport(p) \/ attestOrbital(p)
    \/ ReadBack(p) \/ RequestFails(p) \/ writeContract(p)
    \/ MineWrap(p) \/ MineSubmit(p) \/ MineDispute(p) \/ MineAttest(p) \/ MineSettle(p)
    \/ MineApprove(p, "approve", "registry", "submit")
    \/ MineApprove(p, "counter", "oracle", "dispute")
    \/ Reverts(p)

SkillStep ==
    \/ \E p \in Run : RunStep(p)
    \/ Tick \/ BondChanges
    \/ \E i \in ReportId : SettledByAnother(i) \/ \E v \in {"true", "false"} : Vote(i, v)

\* Whose transaction was out before the step and is still, and would revert after it.
Overtakes ==
    LET out == {p \in Disputer \cup Attestor : run[p].sent /\ run'[p].sent}
    IN  overtaken' = overtaken \cup {p \in out : ~Succeeds(p)'}

SkillNext == SkillStep /\ Overtakes

SkillSpec == SkillInit /\ [][SkillNext]_skillVars

(***************************************************************************)
(* Properties.                                                             *)
(***************************************************************************)
\* A tool is refused, or loses its submission to a revert, only for a cause: the
\* account is out of funds, the minimum bond moved between its read and its use
\* (registry.js:48, 103), another run paid from the same account (64-81, 105-115), the
\* report was settled or disputed first, or, for a dispute, the approval is the minimum
\* of today and not the bond of the assertion (211-217).  It never wakes too early
\* (publish-vessel-fixture.mjs:117-124).
RefusalIsExplained ==
    \A p \in Run : run[p].at = "refused" =>
        \/ p \in shared
        \/ run[p].why = "wrap" /\ eth[Payer(p)] < run[p].short
        \/ p \in Publisher /\ IF run[p].id = None THEN p \in moved
                              ELSE report[run[p].id].status # PENDING
        \/ p \in Disputer  /\ \/ ~Open(run[p].id) \/ run[p].why = "funds"
                              \/ run[p].total < report[run[p].id].umaBond
        \/ p \in Attestor  /\ (run[p].why = "look" \/ report[run[p].id].attestedBy # None)

\* What an answer `ok` says, no receipt's status being read (registry.js:117-133, 184,
\* 221, 251).  Of a published report: it is the tool's own and settled, and the record
\* read back is of it, if it was upheld, or of a later one.  Of a dispute or an
\* attestation: the tool's own is on the chain; or its transaction was overtaken on the
\* way, the report being open no more (the account being spent by another run) or
\* attested by another, and then the answer is ok all the same.  And once an account's
\* runs are through without a disturbance, none of the registry's allowance is left; of
\* the oracle's, the excess of today's minimum over the bond of the assertion is.
OkIsDoneOrOvertaken ==
    /\ \A p \in Run : run[p].at = "ok" =>
        LET r == report[run[p].id] IN
        /\ p \in Publisher =>
             /\ r.by = p /\ r.status >= SETTLED_TRUE
             /\ r.status = SETTLED_TRUE =>
                  \E m, n \in DOMAIN log : m <= n /\ log[m] = run[p].id /\ log[n] = run[p].log
        /\ p \in Disputer =>
             \/ r.disputedBy = p
             \/ p \in overtaken /\ (~Open(run[p].id) \/ p \in shared)
        /\ p \in Attestor =>
             \/ r.attestedBy = p
             \/ p \in overtaken /\ r.attestedBy \in Run \ {p}
    /\ \A a \in Account :
        (\A p \in Run : AccountOf[p] = a =>
            run[p].at = "ready" \/ (run[p].id # None /\ ~Paying(p) /\ p \notin moved \cup shared))
        => approved[a]["registry"] = 0
=============================================================================
