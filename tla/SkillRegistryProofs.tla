------------------------- MODULE SkillRegistryProofs -------------------------
(***************************************************************************)
(* For any number of tools, accounts, bonds and reports: why a tool is     *)
(* refused, and what its success says.                                     *)
(***************************************************************************)
EXTENDS SkillRegistry, SequenceTheorems, TLAPS

(***************************************************************************)
(* The inductive invariant.                                                *)
(***************************************************************************)
\* The stages of each tool; the ones before its report has an id, and after.
Unnumbered == {"ready", "bonds", "balance", "wrap", "approve", "submit"}
Publishing == Unnumbered \cup {"wait", "look", "settle", "readback", "ok", "refused", "broken"}
Disputing  == {"ready", "look", "counter", "dispute", "ok", "refused", "broken"}
Attesting  == {"ready", "look", "attest", "ok", "refused", "broken"}
Place      == Publishing \cup Disputing \cup Attesting
Sending    == {"wrap", "submit", "settle", "dispute", "attest"}

Status  == {PENDING, DISPUTED, SETTLED_TRUE, SETTLED_FALSE}
Report  == [by : Publisher, umaBond : MinBonds, submittedAt : Nat, status : Status,
            verdict : {None, "true", "false"},
            disputedBy : Run \cup {None}, attestedBy : Run \cup {None}]
RunRecord == [at : Place, sent : BOOLEAN, total : Nat, short : Nat, id : Nat \cup {None},
              log : Nat \cup {None}, why : Place \cup {"funds", None}]

SkillTypes ==
    /\ now \in Nat /\ minBond \in MinBonds
    /\ weth \in [Account -> Nat] /\ eth \in [Account -> Nat]
    /\ approved \in [Account -> [Spender -> Nat]]
    /\ report \in Seq(Report) /\ log \in Seq(Nat)
    /\ run \in [Run -> RunRecord]
    /\ moved \subseteq Run /\ shared \subseteq Run

StatusOf(i)  == report[i].status
Over(i)      == StatusOf(i) \in {SETTLED_TRUE, SETTLED_FALSE}
InLog(i, n)  == \E m \in DOMAIN log : m <= n /\ log[m] = i

\* Where run p may be with record r, and what it knows there of its report.
Placed(p, r) ==
    /\ p \in Publisher => r.at \in Publishing
    /\ p \in Disputer  => r.at \in Disputing
    /\ p \in Attestor  => r.at \in Attesting
    /\ r.sent => r.at \in Sending
    /\ r.at \in Unnumbered => r.id = None
    /\ r.at \notin Unnumbered \cup {"refused", "broken"} => r.id # None
    /\ p \notin Publisher /\ r.at # "ready" => r.id # None
    /\ r.id # None => r.id \in ReportId /\ (p \in Publisher => report[r.id].by = p)

\* A publishing tool is woken after the window, and what it finds then can be settled,
\* or will be settled by others first.
Timely(p, r) ==
    /\ p \in Publisher /\ r.at \in {"look", "settle"} /\ StatusOf(r.id) = PENDING =>
         now >= settleAfterTimestamp(r.id)
    /\ r.at = "settle" /\ r.sent => CanSettle(r.id) \/ Over(r.id)
    /\ r.at = "readback" => Over(r.id)

\* What is so when a tool is done: parts of OkIsDoneOrOvertaken.
Done(p, r) ==
    r.at = "ok" =>
        /\ p \in Publisher =>
             /\ Over(r.id)
             /\ StatusOf(r.id) = SETTLED_TRUE =>
                  \E n \in DOMAIN log : InLog(r.id, n) /\ log[n] = r.log
        /\ p \in Attestor => report[r.id].attestedBy # None
        /\ p \in Disputer => ~Open(r.id) \/ p \in shared

\* Why it was refused: the parts of RefusalIsExplained.
Explained(p, r) ==
    r.at = "refused" =>
        \/ p \in shared
        \/ r.why = "wrap" /\ eth[Payer(p)] < r.short
        \/ p \in Publisher /\ IF r.id = None THEN p \in moved ELSE StatusOf(r.id) # PENDING
        \/ p \in Disputer  /\ \/ ~Open(r.id) \/ r.why = "funds"
                              \/ r.total < report[r.id].umaBond
        \/ p \in Attestor  /\ (r.why = "look" \/ report[r.id].attestedBy # None)

\* A run that pays alone from its account has what it counts on.
Funded(p, r) ==
    /\ r.at \in {"balance", "wrap", "approve", "submit"} /\ p \notin moved => r.total = Pull
    /\ r.at = "wrap" => /\ weth[Payer(p)] + r.short >= r.total
                        /\ r.sent => eth[Payer(p)] >= r.short
    /\ r.at \in {"approve", "submit"} => weth[Payer(p)] >= r.total
    /\ r.at = "submit" => approved[Payer(p)]["registry"] = r.total
    /\ r.at = "dispute" => approved[Payer(p)]["oracle"] = r.total
    /\ r.at = "dispute" /\ r.sent => LET bond == report[r.id].umaBond
                                     IN  r.total >= bond /\ weth[Payer(p)] >= bond

\* Spends, of a run that has record r.
Spending(p, r) ==
    \/ r.at \in {"bonds", "balance", "wrap", "approve", "submit", "counter", "dispute"}
    \/ p \in Disputer /\ r.at = "look"

Sharing == \A p, q \in Run :
    p # q /\ Payer(p) = Payer(q) /\ Spending(p, run[p]) /\ Spending(q, run[q]) => p \in shared

\* A run that leaves no approval of the registry behind.
Clean(p, r) ==
    \/ r.at = "ready"
    \/ /\ p \notin moved \cup shared
       /\ r.id # None \/ r.at \in {"bonds", "balance", "wrap", "approve"}

NothingApproved == \A a \in Account :
    (\A p \in Run : AccountOf[p] = a => Clean(p, run[p])) => approved[a]["registry"] = 0

UpheldAreLogged == \A i \in ReportId : StatusOf(i) = SETTLED_TRUE => InLog(i, Len(log))

SkillInvariant ==
    /\ SkillTypes
    /\ \A p \in Run : /\ Placed(p, run[p]) /\ Timely(p, run[p])
                      /\ Done(p, run[p]) /\ Explained(p, run[p])
                      /\ p \notin shared => Funded(p, run[p])
    /\ Sharing /\ NothingApproved /\ UpheldAreLogged

(***************************************************************************)
(* What every step leaves as it is, or moves in one direction only.        *)
(***************************************************************************)
SameReport(i) ==
    /\ report'[i].by = report[i].by
    /\ report'[i].umaBond = report[i].umaBond
    /\ report'[i].submittedAt = report[i].submittedAt

\* Time passes, a report leaves PENDING for good, a settled one stays as it is, records are
\* only added to.
Progress ==
    /\ now' >= now
    /\ moved \subseteq moved' /\ shared \subseteq shared'
    /\ \A a \in Account : eth'[a] <= eth[a]
    /\ Len(report') >= Len(report)
    /\ \A i \in ReportId :
         /\ SameReport(i)
         /\ StatusOf(i) # PENDING => StatusOf(i)' # PENDING
         /\ CanSettle(i) => (CanSettle(i) \/ Over(i))'
         /\ Over(i) => StatusOf(i)' = StatusOf(i)
         /\ report[i].attestedBy # None => report'[i].attestedBy # None
    /\ Len(log') >= Len(log) /\ \A n \in DOMAIN log : log'[n] = log[n]

\* An account that no run pays from.
Untouched(a) ==
    /\ weth'[a] >= weth[a] /\ eth'[a] = eth[a]
    /\ \A s \in Spender : approved'[a][s] = approved[a][s]

\* The constants are numbers, and the sentinel is none.
LEMMA SkillConstants ==
    /\ MinBonds \subseteq Nat /\ \A b \in MinBonds : b > 0
    /\ ProtocolBond \in Nat /\ Liveness \in Nat /\ Buffer \in Nat /\ Drift \in Nat
    /\ None \notin Run /\ None \notin Nat /\ None # "true" /\ None # "false"
    /\ \A p \in Run : Payer(p) \in Account
    /\ \A p \in Run : p \in Publisher \/ p \in Disputer \/ p \in Attestor
    /\ \A p \in Publisher : p \in Run /\ p \notin Disputer /\ p \notin Attestor
    /\ \A p \in Disputer : p \in Run /\ p \notin Attestor
    /\ \A p \in Attestor : p \in Run
BY SkillAssumption DEF Payer, Run

\* The report that a record names, and what it is made of.
LEMMA ReportTypes ==
    ASSUME SkillTypes
    PROVE  /\ Len(report) \in Nat /\ DOMAIN report = ReportId
           /\ Len(log) \in Nat /\ DOMAIN log = 1 .. Len(log)
           /\ \A i \in ReportId : i \in Nat /\ report[i] \in Report
           /\ \A n \in DOMAIN log : log[n] \in Nat
           /\ \A i \in ReportId :
                /\ report[i].submittedAt \in Nat /\ settleAfterTimestamp(i) \in Nat
                /\ report[i].umaBond \in MinBonds /\ report[i].umaBond \in Nat
                /\ report[i].umaBond > 0
<1>1. /\ Len(report) \in Nat /\ DOMAIN report = ReportId
      /\ Len(log) \in Nat /\ DOMAIN log = 1 .. Len(log)
      /\ \A i \in ReportId : i \in Nat /\ report[i] \in Report
      /\ \A n \in DOMAIN log : log[n] \in Nat
  BY DEF SkillTypes, ReportId
<1>2. ASSUME NEW i \in ReportId
      PROVE  /\ report[i].submittedAt \in Nat /\ settleAfterTimestamp(i) \in Nat
             /\ report[i].umaBond \in MinBonds /\ report[i].umaBond \in Nat
             /\ report[i].umaBond > 0
  <2>1. report[i].submittedAt \in Nat /\ report[i].umaBond \in MinBonds
    BY <1>1 DEF Report
  <2>2. settleAfterTimestamp(i) \in Nat
    BY <2>1, SkillConstants DEF settleAfterTimestamp
  <2>3. QED
    BY <2>1, <2>2, SkillConstants
<1>3. QED
  BY <1>1, <1>2

\* Spends, as the invariant has it.
LEMMA SpendsIs == \A p \in Run : Spends(p) <=> Spending(p, run[p])
BY DEF Spends, Paying, Spending

\* What is known of a run that does not move outlives every step.
LEMMA Carried ==
    ASSUME SkillTypes, SkillTypes', Progress, NEW p \in Run, NEW r \in RunRecord, Placed(p, r)
    PROVE  /\ Placed(p, r)'
           /\ Timely(p, r) => Timely(p, r)'
           /\ Done(p, r) => Done(p, r)'
           /\ Explained(p, r) => Explained(p, r)'
<1> DEFINE i == r.id
<1>1. /\ \A j \in ReportId : j \in Nat /\ report[j] \in Report
      /\ Len(report) \in Nat /\ Len(report') \in Nat /\ Len(report') >= Len(report)
      /\ DOMAIN log = 1 .. Len(log) /\ DOMAIN log' = 1 .. Len(log')
      /\ Len(log) \in Nat /\ Len(log') \in Nat /\ Len(log') >= Len(log)
  BY ReportTypes DEF SkillTypes, Progress
<1>2. i # None => /\ i \in ReportId /\ i \in ReportId' /\ SameReport(i)
                  /\ StatusOf(i) # PENDING => StatusOf(i)' # PENDING
                  /\ CanSettle(i) => (CanSettle(i) \/ Over(i))'
                  /\ Over(i) => StatusOf(i)' = StatusOf(i)
                  /\ report[i].attestedBy # None => report'[i].attestedBy # None
  BY <1>1 DEF Placed, Progress, ReportId
<1>3. now \in Nat /\ now' \in Nat /\ now' >= now
  BY DEF SkillTypes, Progress
<1>4. i # None => /\ report[i].submittedAt \in Nat /\ report[i].umaBond \in Nat
                  /\ settleAfterTimestamp(i)' = settleAfterTimestamp(i)
                  /\ settleAfterTimestamp(i) \in Nat
  BY <1>2, ReportTypes DEF settleAfterTimestamp, SameReport
<1>5. Placed(p, r)'
  BY <1>2 DEF Placed, SameReport
<1>6. i # None => (Over(i) => Over(i)') /\ (~Open(i) => ~Open(i)')
  BY <1>2, <1>3, <1>4 DEF Over, Open, StatusOf
<1>7. Timely(p, r) => Timely(p, r)'
  <2> SUFFICES ASSUME Timely(p, r)
               PROVE  Timely(p, r)'
    OBVIOUS
  <2>1. r.at \in {"look", "settle", "readback"} => i # None
    BY DEF Placed, Unnumbered
  <2>2. p \in Publisher /\ r.at \in {"look", "settle"} /\ StatusOf(r.id)' = PENDING =>
          now' >= settleAfterTimestamp(r.id)'
    BY <1>2, <1>3, <1>4, <2>1 DEF Timely
  <2>3. r.at = "settle" /\ r.sent => (CanSettle(r.id) \/ Over(r.id))'
    BY <1>2, <1>6, <2>1 DEF Timely
  <2>4. r.at = "readback" => Over(r.id)'
    BY <1>6, <2>1 DEF Timely
  <2>5. QED
    BY <2>2, <2>3, <2>4 DEF Timely
<1>8. Done(p, r) => Done(p, r)'
  <2> SUFFICES ASSUME Done(p, r), r.at = "ok"
               PROVE  Done(p, r)'
    BY DEF Done
  <2>1. i # None
    BY DEF Placed, Unnumbered
  <2>2. p \in Publisher => Over(i)'
    BY <1>6, <2>1 DEF Done
  <2>3. p \in Publisher /\ StatusOf(i)' = SETTLED_TRUE =>
          \E n \in DOMAIN log' : InLog(i, n)' /\ log'[n] = r.log
    <3> SUFFICES ASSUME p \in Publisher, StatusOf(i)' = SETTLED_TRUE
                 PROVE  \E n \in DOMAIN log' : InLog(i, n)' /\ log'[n] = r.log
      OBVIOUS
    <3>1. PICK n \in DOMAIN log : InLog(i, n) /\ log[n] = r.log
      BY <1>2, <2>1 DEF Done
    <3>2. PICK m \in DOMAIN log : m <= n /\ log[m] = i
      BY <3>1 DEF InLog
    <3>3. n \in DOMAIN log' /\ m \in DOMAIN log' /\ log'[n] = r.log /\ log'[m] = i
      BY <1>1, <3>1, <3>2 DEF Progress
    <3>4. QED
      BY <3>2, <3>3 DEF InLog
  <2>4. p \in Attestor => report'[i].attestedBy # None
    BY <1>2, <2>1 DEF Done
  <2>5. p \in Disputer => ~Open(i)' \/ p \in shared'
    BY <1>6, <2>1 DEF Done, Progress
  <2>6. QED
    BY <2>2, <2>3, <2>4, <2>5 DEF Done
<1>9. Explained(p, r) => Explained(p, r)'
  <2> SUFFICES ASSUME Explained(p, r), r.at = "refused"
               PROVE  Explained(p, r)'
    BY DEF Explained
  <2>1. p \in shared \/ p \in moved => p \in shared' \/ p \in moved'
    BY DEF Progress
  <2>2. eth[Payer(p)] < r.short => eth'[Payer(p)] < r.short
    BY SkillConstants DEF SkillTypes, Progress, RunRecord
  <2>3. i # None => (r.total < report[i].umaBond => r.total < report'[i].umaBond)
    BY <1>2 DEF SameReport
  <2>4. p \in Disputer \/ p \in Attestor => i # None
    BY SkillConstants DEF Placed
  <2>5. QED
    BY <1>2, <1>6, <2>1, <2>2, <2>3, <2>4 DEF Explained, Progress
<1>10. QED
  BY <1>5, <1>7, <1>8, <1>9

\* A run that pays alone keeps what it counts on, as long as nobody else pays from its
\* account and the bond stays what it read.
LEMMA FundedKept ==
    ASSUME SkillTypes, SkillTypes', Progress, NEW q \in Run, NEW r \in RunRecord,
           Placed(q, r), Funded(q, r),
           Spending(q, r) => Untouched(Payer(q)),
           q \in moved' \/ Pull' = Pull \/ r.at \notin {"balance", "wrap", "approve", "submit"}
    PROVE  Funded(q, r)'
<1>1. CASE ~Spending(q, r)
  BY <1>1 DEF Spending, Funded
<1>2. CASE Spending(q, r)
  <2> DEFINE a == Payer(q)
  <2>1. a \in Account /\ "registry" \in Spender /\ "oracle" \in Spender
    BY SkillConstants DEF Spender
  <2>2. /\ weth'[a] >= weth[a] /\ eth'[a] = eth[a]
        /\ approved'[a]["registry"] = approved[a]["registry"]
        /\ approved'[a]["oracle"] = approved[a]["oracle"]
    BY <1>2, <2>1 DEF Untouched
  <2>3. weth[a] \in Nat /\ weth'[a] \in Nat /\ r.total \in Nat /\ r.short \in Nat
    BY <2>1 DEF SkillTypes, RunRecord
  <2> HIDE DEF a
  <2>4. r.at \in {"balance", "wrap", "approve", "submit"} /\ q \notin moved' => r.total = Pull'
    BY DEF Funded, Progress
  <2>5. r.at = "wrap" => /\ weth'[a] + r.short >= r.total
                         /\ r.sent => eth'[a] >= r.short
    BY <2>2, <2>3 DEF Funded, a
  <2>6. r.at \in {"approve", "submit"} => weth'[a] >= r.total
    BY <2>2, <2>3 DEF Funded, a
  <2>7. /\ r.at = "submit" => approved'[a]["registry"] = r.total
        /\ r.at = "dispute" => approved'[a]["oracle"] = r.total
    BY <2>2 DEF Funded, a
  <2>8. r.at = "dispute" /\ r.sent =>
          r.total >= report'[r.id].umaBond /\ weth'[a] >= report'[r.id].umaBond
    <3> SUFFICES ASSUME r.at = "dispute", r.sent
                 PROVE  r.total >= report'[r.id].umaBond /\ weth'[a] >= report'[r.id].umaBond
      OBVIOUS
    <3>1. r.id \in ReportId
      BY DEF Placed, Unnumbered
    <3>2. report'[r.id].umaBond = report[r.id].umaBond /\ report[r.id].umaBond \in Nat
      BY <3>1, ReportTypes DEF Progress, SameReport
    <3>3. r.total >= report[r.id].umaBond /\ weth[a] >= report[r.id].umaBond
      BY DEF Funded, a
    <3>4. QED
      BY <2>2, <2>3, <3>2, <3>3
  <2>9. QED
    BY <2>4, <2>5, <2>6, <2>7, <2>8 DEF Funded, a, Payer
<1>3. QED
  BY <1>1, <1>2

\* Runs of the same account do not pay at once, unless they are marked.
LEMMA NobodyElsePays ==
    ASSUME SkillInvariant, NEW p \in Run, Spending(p, run[p]), NEW q \in Run \ {p},
           Spending(q, run[q]), q \notin shared
    PROVE  Payer(q) # Payer(p)
BY DEF SkillInvariant, Sharing

\* A step of run p, once it is shown what becomes of p itself.
LEMMA StepOfOne ==
    ASSUME SkillInvariant, NEW p \in Run, NEW r \in RunRecord, Becomes(p, r),
           SkillTypes', Progress, shared' = shared, moved' = moved, minBond' = minBond,
           \A q \in Run \ {p} : Spending(q, run[q]) /\ q \notin shared => Untouched(Payer(q)),
           Placed(p, r)', Timely(p, r)', Done(p, r)', Explained(p, r)',
           p \notin shared => Funded(p, r)',
           Spending(p, r) => Spending(p, run[p]),
           NothingApproved', UpheldAreLogged'
    PROVE  SkillInvariant'
<1>1. /\ SkillTypes /\ Sharing
      /\ \A q \in Run : /\ Placed(q, run[q]) /\ Timely(q, run[q])
                        /\ Done(q, run[q]) /\ Explained(q, run[q])
                        /\ q \notin shared => Funded(q, run[q])
  BY DEF SkillInvariant
<1>2. run'[p] = r /\ \A q \in Run \ {p} : run'[q] = run[q] /\ run[q] \in RunRecord
  BY <1>1 DEF SkillTypes, Becomes
<1>3. Pull' = Pull
  BY DEF Pull
<1>4. ASSUME NEW q \in Run
      PROVE  /\ Placed(q, run[q])' /\ Timely(q, run[q])'
             /\ Done(q, run[q])' /\ Explained(q, run[q])'
             /\ q \notin shared' => Funded(q, run[q])'
  <2>1. CASE q = p
    BY <1>2, <2>1
  <2>2. CASE q # p
    <3>1. PICK x \in RunRecord : x = run[q] /\ x = run'[q]
      BY <1>2, <2>2
    <3>2. /\ Placed(q, x) /\ Timely(q, x) /\ Done(q, x) /\ Explained(q, x)
          /\ q \notin shared => Funded(q, x)
          /\ Spending(q, x) /\ q \notin shared => Untouched(Payer(q))
      BY <1>1, <2>2, <3>1
    <3>3. Placed(q, x)' /\ Timely(q, x)' /\ Done(q, x)' /\ Explained(q, x)'
      BY <1>1, <3>2, Carried
    <3>4. q \notin shared' => Funded(q, x)'
      BY <1>1, <1>3, <3>2, FundedKept
    <3>5. QED
      BY <3>1, <3>3, <3>4
  <2>3. QED
    BY <2>1, <2>2
<1>5. Sharing'
  <2>1. \A q \in Run : Spending(q, run'[q]) => Spending(q, run[q])
    BY <1>2
  <2>2. QED
    BY <1>1, <2>1 DEF Sharing, Spending
<1>6. QED
  BY <1>4, <1>5 DEF SkillInvariant

\* What a run must not do for the approvals of the registry to stay accounted for.
LEMMA NothingApprovedKept ==
    ASSUME SkillInvariant, NEW p \in Run, NEW r \in RunRecord, Becomes(p, r),
           shared' = shared, moved' = moved, Clean(p, r) => Clean(p, run[p]),
           \A a \in Account : approved'[a]["registry"] = approved[a]["registry"]
    PROVE  NothingApproved'
<1>1. run'[p] = r /\ \A q \in Run \ {p} : run'[q] = run[q]
  BY DEF SkillInvariant, SkillTypes, Becomes
<1>2. \A q \in Run : Clean(q, run[q])' => Clean(q, run[q])
  BY <1>1 DEF Clean
<1>3. QED
  BY <1>2 DEF SkillInvariant, NothingApproved

\* A step that reads, or sends: it changes its own record only.
LEMMA RunMoves ==
    ASSUME SkillInvariant, NEW p \in Run, NEW r \in RunRecord, Becomes(p, r),
           UNCHANGED <<chain, moved, shared>>,
           Placed(p, r), Timely(p, r), Done(p, r), Explained(p, r),
           p \notin shared => Funded(p, r),
           Spending(p, r) => Spending(p, run[p]), Clean(p, r) => Clean(p, run[p])
    PROVE  SkillInvariant'
<1>1. /\ now' = now /\ minBond' = minBond /\ weth' = weth /\ eth' = eth
      /\ approved' = approved /\ report' = report /\ log' = log
      /\ moved' = moved /\ shared' = shared
  BY DEF chain
<1>2. SkillTypes'
  BY <1>1 DEF SkillInvariant, SkillTypes, Becomes
<1>3. Progress
  BY <1>1, ReportTypes
  DEF SkillInvariant, SkillTypes, Progress, SameReport, StatusOf, CanSettle, Over,
      settleAfterTimestamp
<1>4. \A q \in Run : Untouched(Payer(q))
  BY <1>1, SkillConstants DEF SkillInvariant, SkillTypes, Untouched
<1>5. Placed(p, r)' /\ Timely(p, r)' /\ Done(p, r)' /\ Explained(p, r)'
  BY <1>1 DEF Placed, Timely, Done, Explained, ReportId, StatusOf, Over, CanSettle, Open,
              settleAfterTimestamp, InLog, Payer
<1>6. p \notin shared => Funded(p, r)'
  BY <1>1 DEF Funded, Pull, Payer
<1>7. NothingApproved'
  BY <1>1, NothingApprovedKept
<1>8. UpheldAreLogged'
  BY <1>1 DEF SkillInvariant, UpheldAreLogged, ReportId, StatusOf, InLog
<1>9. QED
  BY <1>1, <1>2, <1>3, <1>4, <1>5, <1>6, <1>7, <1>8, StepOfOne

(***************************************************************************)
(* The steps of a run that leave the chain alone.                          *)
(***************************************************************************)
\* What the invariant says of one run, and the tool that its stage makes it.
LEMMA OneRun ==
    ASSUME SkillInvariant, NEW p \in Run
    PROVE  /\ SkillTypes /\ run[p] \in RunRecord
           /\ Placed(p, run[p]) /\ Timely(p, run[p]) /\ Done(p, run[p]) /\ Explained(p, run[p])
           /\ p \notin shared => Funded(p, run[p])
           /\ run[p].at \in {"bonds", "balance", "wrap", "approve", "submit", "wait", "settle",
                             "readback"} => p \in Publisher
           /\ run[p].at \in {"counter", "dispute"} => p \in Disputer
           /\ run[p].at = "attest" => p \in Attestor
           /\ run[p].id # None => run[p].id \in ReportId
           /\ run[p].at \in {"wait", "look", "settle", "readback", "counter", "dispute",
                             "attest", "ok"} => run[p].id # None
<1>1. /\ SkillTypes /\ run[p] \in RunRecord
      /\ Placed(p, run[p]) /\ Timely(p, run[p]) /\ Done(p, run[p]) /\ Explained(p, run[p])
      /\ p \notin shared => Funded(p, run[p])
  BY DEF SkillInvariant, SkillTypes
<1>2. QED
  BY <1>1, SkillConstants DEF Placed, Publishing, Disputing, Attesting, Unnumbered

LEMMA BondTypes ==
    ASSUME SkillTypes
    PROVE  minBond \in Nat /\ minBond > 0 /\ Pull \in Nat
<1>1. minBond \in Nat /\ minBond > 0
  BY SkillConstants DEF SkillTypes
<1>2. QED
  BY <1>1, SkillConstants DEF Pull

LEMMA TotalBondKeeps ==
    ASSUME SkillInvariant, NEW p \in Run, getTotalBond(p)
    PROVE  SkillInvariant'
<1> DEFINE r == [run[p] EXCEPT !.at = "balance", !.total = Pull]
<1>1. /\ run[p].at = "bonds" /\ Becomes(p, r) /\ UNCHANGED <<chain, moved, shared>>
  BY DEF getTotalBond, Pull
<1>2. p \in Publisher /\ run[p] \in RunRecord /\ Placed(p, run[p]) /\ SkillTypes
  BY <1>1, OneRun
<1>3. Pull \in Nat
  BY <1>2, BondTypes
<1>4. /\ r \in RunRecord /\ r.at = "balance" /\ r.total = Pull /\ r.id = run[p].id
      /\ r.sent = run[p].sent
  BY <1>2, <1>3 DEF RunRecord, Place, Publishing, Unnumbered
<1> HIDE DEF r
<1>5. Placed(p, r)
  BY <1>1, <1>2, <1>4, SkillConstants DEF Placed, Publishing, Unnumbered, Sending
<1>6. Timely(p, r) /\ Done(p, r) /\ Explained(p, r) /\ Funded(p, r)
  BY <1>4 DEF Timely, Done, Explained, Funded
<1>7. /\ Spending(p, r) => Spending(p, run[p])
      /\ Clean(p, r) => Clean(p, run[p])
  BY <1>1, <1>4 DEF Spending, Clean
<1>8. QED
  BY <1>1, <1>4, <1>5, <1>6, <1>7, RunMoves

LEMMA EnsureWethKeeps ==
    ASSUME SkillInvariant, NEW p \in Run, ensureWeth(p)
    PROVE  SkillInvariant'
<1> DEFINE held == weth[Payer(p)]
           a == [run[p] EXCEPT !.at = "approve", !.sent = FALSE]
           w == [run[p] EXCEPT !.at = "wrap", !.short = run[p].total - held]
<1>1. /\ run[p].at = "balance" /\ UNCHANGED <<chain, moved, shared>>
      /\ \/ held >= run[p].total /\ Becomes(p, a)
         \/ ~(held >= run[p].total) /\ Becomes(p, w)
  BY DEF ensureWeth, Goes
<1>2. /\ p \in Publisher /\ run[p] \in RunRecord /\ Placed(p, run[p])
      /\ p \notin shared => Funded(p, run[p])
  BY <1>1, OneRun
<1>3. held \in Nat /\ run[p].total \in Nat
  BY <1>2, OneRun, SkillConstants DEF SkillTypes, RunRecord
<1>4. ~run[p].sent
  BY <1>1, <1>2 DEF Placed, Sending
<1> HIDE DEF held
<1>5. CASE held >= run[p].total /\ Becomes(p, a)
  <2>1. /\ a \in RunRecord /\ a.at = "approve" /\ a.total = run[p].total /\ a.id = run[p].id
        /\ ~a.sent
    BY <1>2 DEF RunRecord, Place, Publishing, Unnumbered
  <2> HIDE DEF a
  <2>2. Placed(p, a)
    BY <1>1, <1>2, <2>1, SkillConstants DEF Placed, Publishing, Unnumbered
  <2>3. Timely(p, a) /\ Done(p, a) /\ Explained(p, a)
    BY <2>1 DEF Timely, Done, Explained
  <2>4. p \notin shared => Funded(p, a)
    BY <1>1, <1>2, <1>5, <2>1 DEF Funded, held
  <2>5. /\ Spending(p, a) => Spending(p, run[p])
        /\ Clean(p, a) => Clean(p, run[p])
    BY <1>1, <2>1 DEF Spending, Clean
  <2>6. QED
    BY <1>1, <1>5, <2>1, <2>2, <2>3, <2>4, <2>5, RunMoves
<1>6. CASE ~(held >= run[p].total) /\ Becomes(p, w)
  <2>1. run[p].total - held \in Nat /\ held + (run[p].total - held) >= run[p].total
    BY <1>3, <1>6
  <2>2. /\ w \in RunRecord /\ w.at = "wrap" /\ w.total = run[p].total /\ w.id = run[p].id
        /\ ~w.sent /\ w.short = run[p].total - held
    BY <1>2, <1>4, <2>1 DEF RunRecord, Place, Publishing, Unnumbered
  <2> HIDE DEF w
  <2>3. Placed(p, w)
    BY <1>1, <1>2, <2>2, SkillConstants DEF Placed, Publishing, Unnumbered
  <2>4. Timely(p, w) /\ Done(p, w) /\ Explained(p, w)
    BY <2>2 DEF Timely, Done, Explained
  <2>5. p \notin shared => Funded(p, w)
    BY <1>1, <1>2, <2>1, <2>2 DEF Funded, held
  <2>6. /\ Spending(p, w) => Spending(p, run[p])
        /\ Clean(p, w) => Clean(p, run[p])
    BY <1>1, <2>2 DEF Spending, Clean
  <2>7. QED
    BY <1>1, <1>6, <2>2, <2>3, <2>4, <2>5, <2>6, RunMoves
<1>7. QED
  BY <1>1, <1>5, <1>6

\* The buffer covers what the tool's clock is ahead of the chain's.
LEMMA WakesKeeps ==
    ASSUME SkillInvariant, NEW p \in Run, Wakes(p)
    PROVE  SkillInvariant'
<1> DEFINE r == [run[p] EXCEPT !.at = "look", !.sent = FALSE]
<1>1. /\ run[p].at = "wait" /\ Becomes(p, r) /\ UNCHANGED <<chain, moved, shared>>
      /\ now + Drift >= settleAfterTimestamp(run[p].id) + Buffer
  BY DEF Wakes, Goes
<1>2. /\ p \in Publisher /\ run[p] \in RunRecord /\ Placed(p, run[p])
      /\ run[p].id \in ReportId
  BY <1>1, OneRun
<1>3. now >= settleAfterTimestamp(run[p].id)
  <2>1. now \in Nat /\ settleAfterTimestamp(run[p].id) \in Nat
    BY <1>2, OneRun, ReportTypes DEF SkillTypes
  <2>2. QED
    BY <1>1, <2>1, SkillConstants, ClockAssumption
<1>4. /\ r \in RunRecord /\ r.at = "look" /\ r.id = run[p].id /\ ~r.sent
  BY <1>2 DEF RunRecord, Place, Publishing
<1> HIDE DEF r
<1>5. Placed(p, r)
  BY <1>1, <1>2, <1>4, SkillConstants DEF Placed, Publishing, Unnumbered
<1>6. Timely(p, r) /\ Done(p, r) /\ Explained(p, r) /\ Funded(p, r)
  BY <1>3, <1>4 DEF Timely, Done, Explained, Funded
<1>7. /\ Spending(p, r) => Spending(p, run[p])
      /\ Clean(p, r) => Clean(p, run[p])
  <2>1. run[p].id # None /\ p \notin Disputer
    BY <1>1, <1>2, OneRun, SkillConstants
  <2>2. QED
    BY <1>4, <2>1 DEF Spending, Clean
<1>8. QED
  BY <1>1, <1>4, <1>5, <1>6, <1>7, RunMoves

\* A publishing tool settles a report of its own that is due, or is refused because
\* somebody settled it.
LEMMA SettleReportKeeps ==
    ASSUME SkillInvariant, NEW p \in Run, settleReport(p)
    PROVE  SkillInvariant'
<1> DEFINE g == [run[p] EXCEPT !.at = "settle", !.sent = FALSE]
           f == [run[p] EXCEPT !.at = "refused", !.sent = FALSE, !.why = "look"]
           i == run[p].id
<1>1. /\ p \in Publisher /\ run[p].at = "look" /\ UNCHANGED <<chain, moved, shared>>
      /\ \/ StatusOf(i) < SETTLED_TRUE /\ Becomes(p, g)
         \/ ~(StatusOf(i) < SETTLED_TRUE) /\ Becomes(p, f)
  BY DEF settleReport, Looks, Goes, Refused, Lacks, StatusOf
<1>2. /\ run[p] \in RunRecord /\ Placed(p, run[p]) /\ Timely(p, run[p]) /\ i \in ReportId
      /\ i # None /\ SkillTypes
  BY <1>1, OneRun
<1>3. StatusOf(i) \in Status
  BY <1>2, ReportTypes DEF Report, StatusOf
<1> HIDE DEF i
<1>4. CASE StatusOf(i) < SETTLED_TRUE /\ Becomes(p, g)
  <2>1. g \in RunRecord /\ g.at = "settle" /\ g.id = i /\ ~g.sent
    BY <1>2 DEF RunRecord, Place, Publishing, i
  <2> HIDE DEF g
  <2>2. Placed(p, g)
    BY <1>1, <1>2, <2>1, SkillConstants DEF Placed, Publishing, Unnumbered, i
  <2>3. Timely(p, g) /\ Done(p, g) /\ Explained(p, g) /\ Funded(p, g)
    BY <1>1, <1>2, <2>1 DEF Timely, Done, Explained, Funded, i
  <2>4. /\ Spending(p, g) => Spending(p, run[p])
        /\ Clean(p, g) => Clean(p, run[p])
    BY <1>1, <1>2, <2>1, SkillConstants DEF Spending, Clean, i
  <2>5. QED
    BY <1>1, <1>4, <2>1, <2>2, <2>3, <2>4, RunMoves
<1>5. CASE ~(StatusOf(i) < SETTLED_TRUE) /\ Becomes(p, f)
  <2>1. f \in RunRecord /\ f.at = "refused" /\ f.id = i /\ ~f.sent
    BY <1>2 DEF RunRecord, Place, Publishing, i
  <2>2. StatusOf(i) # PENDING
    BY <1>5 DEF PENDING, SETTLED_TRUE
  <2> HIDE DEF f
  <2>3. Placed(p, f)
    BY <1>1, <1>2, <2>1, SkillConstants DEF Placed, Publishing, Unnumbered, i
  <2>4. Timely(p, f) /\ Done(p, f) /\ Explained(p, f) /\ Funded(p, f)
    BY <1>1, <1>2, <2>1, <2>2 DEF Timely, Done, Explained, Funded
  <2>5. /\ Spending(p, f) => Spending(p, run[p])
        /\ Clean(p, f) => Clean(p, run[p])
    BY <1>1, <1>2, <2>1, SkillConstants DEF Spending, Clean, i
  <2>6. QED
    BY <1>1, <1>5, <2>1, <2>3, <2>4, <2>5, RunMoves
<1>6. QED
  BY <1>1, <1>4, <1>5

LEMMA DisputeReportKeeps ==
    ASSUME SkillInvariant, NEW p \in Run, disputeReport(p)
    PROVE  SkillInvariant'
<1> DEFINE r == [run[p] EXCEPT !.at = "counter", !.total = minBond]
<1>1. /\ p \in Disputer /\ run[p].at = "look" /\ Becomes(p, r)
      /\ UNCHANGED <<chain, moved, shared>>
  BY DEF disputeReport, Looks
<1>2. /\ run[p] \in RunRecord /\ Placed(p, run[p]) /\ run[p].id # None /\ minBond \in Nat
  BY <1>1, OneRun, BondTypes
<1>3. /\ r \in RunRecord /\ r.at = "counter" /\ r.id = run[p].id /\ r.sent = run[p].sent
  BY <1>2 DEF RunRecord, Place, Disputing
<1> HIDE DEF r
<1>4. Placed(p, r)
  BY <1>1, <1>2, <1>3, SkillConstants DEF Placed, Disputing, Unnumbered, Sending
<1>5. Timely(p, r) /\ Done(p, r) /\ Explained(p, r) /\ Funded(p, r)
  BY <1>3 DEF Timely, Done, Explained, Funded
<1>6. /\ Spending(p, r) => Spending(p, run[p])
      /\ Clean(p, r) => Clean(p, run[p])
  BY <1>1, <1>2, <1>3 DEF Spending, Clean
<1>7. QED
  BY <1>1, <1>3, <1>4, <1>5, <1>6, RunMoves

LEMMA AttestOrbitalKeeps ==
    ASSUME SkillInvariant, NEW p \in Run, attestOrbital(p)
    PROVE  SkillInvariant'
<1> DEFINE g == [run[p] EXCEPT !.at = "attest", !.sent = FALSE]
           f == [run[p] EXCEPT !.at = "refused", !.sent = FALSE, !.why = "look"]
<1>1. /\ p \in Attestor /\ run[p].at = "look" /\ UNCHANGED <<chain, moved, shared>>
      /\ Becomes(p, g) \/ Becomes(p, f)
  BY DEF attestOrbital, Looks, Goes, Refused, Lacks
<1>2. run[p] \in RunRecord /\ Placed(p, run[p]) /\ run[p].id # None
  BY <1>1, OneRun
<1>3. ASSUME NEW r \in {g, f}
      PROVE  /\ r \in RunRecord /\ r.at \in {"attest", "refused"} /\ r.id = run[p].id /\ ~r.sent
             /\ r.at = "refused" => r.why = "look"
  BY <1>2 DEF RunRecord, Place, Attesting
<1> HIDE DEF g, f
<1>4. ASSUME NEW r \in {g, f}
      PROVE  /\ Placed(p, r) /\ Timely(p, r) /\ Done(p, r) /\ Explained(p, r) /\ Funded(p, r)
             /\ Spending(p, r) => Spending(p, run[p])
             /\ Clean(p, r) => Clean(p, run[p])
  <2>1. Placed(p, r)
    BY <1>1, <1>2, <1>3, SkillConstants DEF Placed, Attesting, Unnumbered
  <2>2. Timely(p, r) /\ Done(p, r) /\ Explained(p, r) /\ Funded(p, r)
    BY <1>1, <1>3, SkillConstants DEF Timely, Done, Explained, Funded
  <2>3. /\ Spending(p, r) => Spending(p, run[p])
        /\ Clean(p, r) => Clean(p, run[p])
    BY <1>1, <1>2, <1>3, SkillConstants DEF Spending, Clean
  <2>4. QED
    BY <2>1, <2>2, <2>3
<1>5. PICK r \in {g, f} : Becomes(p, r)
  BY <1>1
<1>6. QED
  BY <1>1, <1>3, <1>4, <1>5, RunMoves

\* The last record of the log is of the tool's own report, or came after it.
LEMMA ReadBackKeeps ==
    ASSUME SkillInvariant, NEW p \in Run, ReadBack(p)
    PROVE  SkillInvariant'
<1> DEFINE seen == IF log = <<>> THEN None ELSE Last(log)
           r == [run[p] EXCEPT !.at = "ok", !.log = seen]
           i == run[p].id
<1>1. /\ run[p].at = "readback" /\ Becomes(p, r) /\ UNCHANGED <<chain, moved, shared>>
  BY DEF ReadBack
<1>2. /\ p \in Publisher /\ run[p] \in RunRecord /\ Placed(p, run[p]) /\ Timely(p, run[p])
      /\ i \in ReportId /\ i # None /\ SkillTypes
  BY <1>1, OneRun
<1>3. seen \in Nat \cup {None} /\ (log # <<>> => seen = log[Len(log)] /\ Len(log) \in DOMAIN log)
  BY <1>2, ReportTypes DEF Last, SkillTypes
<1> HIDE DEF seen
<1>4. r \in RunRecord /\ r.at = "ok" /\ r.id = i /\ r.log = seen /\ r.sent = run[p].sent
  BY <1>2, <1>3 DEF RunRecord, Place, Publishing
<1> HIDE DEF r, i
<1>5. Placed(p, r)
  BY <1>1, <1>2, <1>4, SkillConstants DEF Placed, Publishing, Unnumbered, Sending, i
<1>6. Over(i)
  BY <1>1, <1>2 DEF Timely, i
<1>7. StatusOf(i) = SETTLED_TRUE => \E n \in DOMAIN log : InLog(i, n) /\ log[n] = seen
  <2> SUFFICES ASSUME StatusOf(i) = SETTLED_TRUE
               PROVE  \E n \in DOMAIN log : InLog(i, n) /\ log[n] = seen
    OBVIOUS
  <2>1. InLog(i, Len(log))
    BY <1>2 DEF SkillInvariant, UpheldAreLogged
  <2>2. log # <<>>
    BY <2>1 DEF InLog
  <2>3. QED
    BY <1>3, <2>1, <2>2
<1>8. Done(p, r)
  BY <1>2, <1>4, <1>6, <1>7, SkillConstants DEF Done
<1>9. Timely(p, r) /\ Explained(p, r) /\ Funded(p, r)
  BY <1>4 DEF Timely, Explained, Funded
<1>10. /\ Spending(p, r) => Spending(p, run[p])
       /\ Clean(p, r) => Clean(p, run[p])
  BY <1>1, <1>2, <1>4 DEF Spending, Clean, i
<1>11. QED
  BY <1>1, <1>4, <1>5, <1>8, <1>9, <1>10, RunMoves

LEMMA RequestFailsKeeps ==
    ASSUME SkillInvariant, NEW p \in Run, RequestFails(p)
    PROVE  SkillInvariant'
<1> DEFINE r == [run[p] EXCEPT !.at = "broken", !.total = 0, !.short = 0]
<1>1. /\ run[p].at \notin Resting /\ ~run[p].sent /\ Becomes(p, r)
      /\ UNCHANGED <<chain, moved, shared>>
  BY DEF RequestFails
<1>2. run[p] \in RunRecord /\ Placed(p, run[p])
  BY OneRun
<1>3. r \in RunRecord /\ r.at = "broken" /\ r.id = run[p].id /\ ~r.sent
  BY <1>1, <1>2 DEF RunRecord, Place, Publishing
<1> HIDE DEF r
<1>4. Placed(p, r)
  BY <1>1, <1>2, <1>3 DEF Placed, Publishing, Disputing, Attesting, Unnumbered, Resting
<1>5. Timely(p, r) /\ Done(p, r) /\ Explained(p, r) /\ Funded(p, r)
  BY <1>3 DEF Timely, Done, Explained, Funded
<1>6. /\ Spending(p, r) => Spending(p, run[p])
      /\ Clean(p, r) => Clean(p, run[p])
  BY <1>3 DEF Spending, Clean
<1>7. QED
  BY <1>1, <1>3, <1>4, <1>5, <1>6, RunMoves

\* What a run that is about to send, or has sent, can count on.
LEMMA Succeeding ==
    ASSUME SkillInvariant, NEW p \in Run
    PROVE  /\ run[p].at = "wrap" => (Succeeds(p) <=> eth[Payer(p)] >= run[p].short)
           /\ run[p].at = "submit" =>
                /\ Succeeds(p) <=> CanPay(p, "registry", Pull)
                /\ p \notin shared \cup moved => Succeeds(p)
           /\ run[p].at = "settle" => (Succeeds(p) <=> CanSettle(run[p].id))
           /\ run[p].at = "dispute" =>
                /\ Succeeds(p) <=> /\ Open(run[p].id)
                                   /\ CanPay(p, "oracle", report[run[p].id].umaBond)
                /\ p \notin shared =>
                     approved[Payer(p)]["oracle"] = run[p].total
           /\ run[p].at = "attest" => (Succeeds(p) <=> report[run[p].id].attestedBy = None)
<1>1. /\ run[p].at = "wrap" => (Succeeds(p) <=> eth[Payer(p)] >= run[p].short)
      /\ run[p].at = "submit" => (Succeeds(p) <=> CanPay(p, "registry", Pull))
      /\ run[p].at = "settle" => (Succeeds(p) <=> CanSettle(run[p].id))
      /\ run[p].at = "dispute" =>
           (Succeeds(p) <=> /\ Open(run[p].id)
                            /\ CanPay(p, "oracle", report[run[p].id].umaBond))
      /\ run[p].at = "attest" => (Succeeds(p) <=> report[run[p].id].attestedBy = None)
  BY DEF Succeeds
<1>2. /\ SkillTypes /\ run[p] \in RunRecord
      /\ p \notin shared => Funded(p, run[p])
  BY OneRun
<1>3. Pull \in Nat /\ run[p].total \in Nat /\ weth[Payer(p)] \in Nat
  BY <1>2, BondTypes, SkillConstants DEF SkillTypes, RunRecord
<1>4. run[p].at = "submit" /\ p \notin shared \cup moved => CanPay(p, "registry", Pull)
  BY <1>2, <1>3 DEF Funded, CanPay
<1>5. run[p].at = "dispute" /\ p \notin shared => approved[Payer(p)]["oracle"] = run[p].total
  BY <1>2 DEF Funded
<1>6. QED
  BY <1>1, <1>4, <1>5

\* A transaction is sent when it would succeed; otherwise there is a cause.
LEMMA WriteContractKeeps ==
    ASSUME SkillInvariant, NEW p \in Run, writeContract(p)
    PROVE  SkillInvariant'
<1> DEFINE i   == run[p].id
           why == IF Lacks(p) THEN "funds" ELSE run[p].at
           g   == [run[p] EXCEPT !.sent = TRUE]
           f   == [run[p] EXCEPT !.at = "refused", !.sent = FALSE, !.why = why]
<1>1. /\ run[p].at \in Sending /\ ~run[p].sent /\ UNCHANGED <<chain, moved, shared>>
      /\ \/ Succeeds(p) /\ Becomes(p, g)
         \/ ~Succeeds(p) /\ Becomes(p, f)
  BY DEF writeContract, Refused, Sending
<1>2. /\ SkillTypes /\ run[p] \in RunRecord /\ Placed(p, run[p]) /\ Timely(p, run[p])
      /\ p \notin shared => Funded(p, run[p])
      /\ i # None => i \in ReportId
      /\ run[p].at \in {"settle", "dispute", "attest"} => i # None
      /\ run[p].at \in {"wrap", "submit"} => i = None
      /\ run[p].at \in {"wrap", "submit", "settle"} => p \in Publisher
      /\ run[p].at = "dispute" => p \in Disputer
      /\ run[p].at = "attest" => p \in Attestor
  BY OneRun DEF Placed, Unnumbered
<1>3. /\ weth[Payer(p)] \in Nat /\ eth[Payer(p)] \in Nat /\ run[p].total \in Nat
      /\ run[p].short \in Nat
      /\ i # None => report[i].umaBond \in Nat
  BY <1>2, ReportTypes, SkillConstants DEF SkillTypes, RunRecord
<1> HIDE DEF i
<1>4. CASE Succeeds(p) /\ Becomes(p, g)
  <2>1. /\ g \in RunRecord /\ g.at = run[p].at /\ g.sent /\ g.id = i /\ g.total = run[p].total
        /\ g.short = run[p].short
    BY <1>2 DEF RunRecord, i
  <2> HIDE DEF g
  <2>2. Placed(p, g)
    BY <1>1, <1>2, <2>1 DEF Placed, i
  <2>3. Timely(p, g)
    BY <1>1, <1>2, <1>4, <2>1, Succeeding DEF Timely, i, Sending
  <2>4. Done(p, g) /\ Explained(p, g)
    BY <1>1, <2>1 DEF Done, Explained, Sending
  <2>5. p \notin shared => Funded(p, g)
    <3> SUFFICES ASSUME p \notin shared
                 PROVE  Funded(p, g)
      OBVIOUS
    <3>1. g.at = "wrap" => eth[Payer(p)] >= g.short
      BY <1>4, <2>1, Succeeding
    <3>2. g.at = "dispute" => g.total >= report[i].umaBond /\ weth[Payer(p)] >= report[i].umaBond
      BY <1>4, <2>1, Succeeding DEF CanPay, i
    <3>3. QED
      BY <1>2, <2>1, <3>1, <3>2 DEF Funded
  <2>6. /\ Spending(p, g) => Spending(p, run[p])
        /\ Clean(p, g) => Clean(p, run[p])
    BY <2>1 DEF Spending, Clean, i
  <2>7. QED
    BY <1>1, <1>4, <2>1, <2>2, <2>3, <2>4, <2>5, <2>6, RunMoves
<1>5. CASE ~Succeeds(p) /\ Becomes(p, f)
  <2>1. /\ f \in RunRecord /\ f.at = "refused" /\ ~f.sent /\ f.id = i /\ f.total = run[p].total
        /\ f.short = run[p].short /\ f.why = why
    <3>1. why \in Place \cup {"funds", None}
      BY <1>2 DEF RunRecord
    <3> HIDE DEF why
    <3>2. QED
      BY <1>2, <3>1 DEF RunRecord, Place, Publishing, i
  <2> HIDE DEF f
  <2>2. Placed(p, f)
    BY <1>1, <1>2, <2>1 DEF Placed, i, Sending, Publishing, Disputing, Attesting, Unnumbered
  <2>3. Explained(p, f)
    <3>1. CASE run[p].at = "wrap"
      <4>1. eth[Payer(p)] < f.short
        BY <1>3, <1>5, <2>1, <3>1, Succeeding
      <4>2. f.why = "wrap"
        BY <2>1, <3>1 DEF Lacks
      <4>3. QED
        BY <4>1, <4>2 DEF Explained
    <3>2. CASE run[p].at = "submit"
      <4>1. p \in shared \/ p \in moved
        BY <1>5, <3>2, Succeeding
      <4>2. QED
        BY <1>2, <2>1, <3>2, <4>1 DEF Explained
    <3>3. CASE run[p].at = "settle"
      <4>1. ~CanSettle(i)
        BY <1>5, <3>3, Succeeding DEF i
      <4>2. StatusOf(i) = PENDING => now >= settleAfterTimestamp(i)
        BY <1>2, <3>3 DEF Timely, i
      <4>3. StatusOf(i) # PENDING
        BY <4>1, <4>2 DEF CanSettle, StatusOf
      <4>4. QED
        BY <1>2, <2>1, <3>3, <4>3 DEF Explained
    <3>4. CASE run[p].at = "dispute"
      <4>1. ~Open(i) \/ ~CanPay(p, "oracle", report[i].umaBond)
        BY <1>5, <3>4, Succeeding DEF i
      <4>2. CASE ~Open(i) \/ p \in shared
        BY <1>2, <2>1, <3>4, <4>2 DEF Explained
      <4>3. CASE weth[Payer(p)] < report[i].umaBond
        <5>1. f.why = "funds"
          BY <2>1, <3>4, <4>3 DEF Lacks, i
        <5>2. QED
          BY <1>2, <3>4, <5>1 DEF Explained
      <4>4. CASE ~Open(i) \/ (p \notin shared /\ ~(weth[Payer(p)] < report[i].umaBond))
        <5>1. p \notin shared => approved[Payer(p)]["oracle"] = run[p].total
          BY <3>4, Succeeding
        <5>2. report[i].umaBond \in Nat
          BY <1>2, <1>3, <3>4
        <5>3. ~Open(i) \/ f.total < report[i].umaBond
          BY <1>3, <2>1, <4>1, <4>4, <5>1, <5>2 DEF CanPay
        <5>4. QED
          BY <1>2, <2>1, <3>4, <5>3 DEF Explained
      <4>5. QED
        BY <4>2, <4>3, <4>4
    <3>5. CASE run[p].at = "attest"
      <4>1. report[i].attestedBy # None
        BY <1>5, <3>5, Succeeding DEF i
      <4>2. QED
        BY <1>2, <2>1, <3>5, <4>1 DEF Explained
    <3>6. QED
      BY <1>1, <3>1, <3>2, <3>3, <3>4, <3>5 DEF Sending
  <2>4. Timely(p, f) /\ Done(p, f) /\ Funded(p, f)
    BY <2>1 DEF Timely, Done, Funded
  <2>5. /\ Spending(p, f) => Spending(p, run[p])
        /\ Clean(p, f) => Clean(p, run[p])
    BY <1>1, <2>1 DEF Spending, Clean, i
  <2>6. QED
    BY <1>1, <1>5, <2>1, <2>2, <2>3, <2>4, <2>5, RunMoves
<1>6. QED
  BY <1>1, <1>4, <1>5

\* No tool reads the status of a receipt: after a revert it goes on, and finds that what
\* it wanted done was done by another.
LEMMA RevertsKeeps ==
    ASSUME SkillInvariant, NEW p \in Run, Reverts(p)
    PROVE  SkillInvariant'
<1> DEFINE i     == run[p].id
           To(at) == [run[p] EXCEPT !.at = at, !.sent = FALSE]
           f     == [run[p] EXCEPT !.at = "refused", !.sent = FALSE, !.why = "submit"]
<1>1. /\ run[p].sent /\ ~Succeeds(p) /\ UNCHANGED <<chain, moved, shared>>
      /\ \/ run[p].at = "wrap" /\ Becomes(p, To("approve"))
         \/ run[p].at = "submit" /\ Becomes(p, f)
         \/ run[p].at = "settle" /\ Becomes(p, To("readback"))
         \/ run[p].at \in {"dispute", "attest"} /\ Becomes(p, To("ok"))
  BY DEF Reverts, Goes, Refused, Lacks
<1>2. /\ SkillTypes /\ run[p] \in RunRecord /\ Placed(p, run[p]) /\ Timely(p, run[p])
      /\ p \notin shared => Funded(p, run[p])
      /\ i # None => i \in ReportId
      /\ run[p].at \in {"settle", "dispute", "attest"} => i # None
      /\ run[p].at \in {"wrap", "submit"} => i = None
      /\ run[p].at \in {"wrap", "submit", "settle"} => p \in Publisher
      /\ run[p].at = "dispute" => p \in Disputer
      /\ run[p].at = "attest" => p \in Attestor
  BY OneRun DEF Placed, Unnumbered
<1>3. ASSUME NEW at \in Place
      PROVE  /\ To(at) \in RunRecord /\ To(at).at = at /\ To(at).id = i /\ ~To(at).sent
             /\ To(at).total = run[p].total
  BY <1>2 DEF RunRecord, i
<1>4. "approve" \in Place /\ "readback" \in Place /\ "ok" \in Place
  BY DEF Place, Publishing, Unnumbered
<1>5. /\ f \in RunRecord /\ f.at = "refused" /\ f.id = i /\ ~f.sent
  BY <1>2 DEF RunRecord, Place, Publishing, Unnumbered, i
<1> HIDE DEF i, To, f
<1>6. CASE run[p].at = "wrap" /\ Becomes(p, To("approve"))
  <2>1. p \in shared
    BY <1>1, <1>2, <1>6, Succeeding DEF Funded
  <2>2. PICK r \in RunRecord : r = To("approve")
    BY <1>3, <1>4
  <2>3. Becomes(p, r) /\ r.at = "approve" /\ r.id = i /\ ~r.sent
    BY <1>3, <1>4, <1>6, <2>2
  <2>4. Placed(p, r) /\ Timely(p, r) /\ Done(p, r) /\ Explained(p, r)
    BY <1>2, <1>6, <2>3, SkillConstants
    DEF Placed, Timely, Done, Explained, Publishing, Unnumbered
  <2>5. /\ Spending(p, r) => Spending(p, run[p])
        /\ Clean(p, r) => Clean(p, run[p])
    BY <1>6, <2>1, <2>3 DEF Spending, Clean
  <2>6. QED
    BY <1>1, <2>1, <2>3, <2>4, <2>5, RunMoves
<1>7. CASE run[p].at = "submit" /\ Becomes(p, f)
  <2>1. p \in shared \/ p \in moved
    BY <1>1, <1>7, Succeeding
  <2>2. Placed(p, f)
    BY <1>2, <1>5, <1>7, SkillConstants DEF Placed, Publishing, Unnumbered
  <2>3. Timely(p, f) /\ Done(p, f) /\ Explained(p, f) /\ Funded(p, f)
    BY <1>2, <1>5, <1>7, <2>1 DEF Timely, Done, Explained, Funded
  <2>4. /\ Spending(p, f) => Spending(p, run[p])
        /\ Clean(p, f) => Clean(p, run[p])
    BY <1>5, <2>1 DEF Spending, Clean
  <2>5. QED
    BY <1>1, <1>5, <1>7, <2>2, <2>3, <2>4, RunMoves
<1>8. CASE run[p].at = "settle" /\ Becomes(p, To("readback"))
  <2>1. Over(i)
    BY <1>1, <1>2, <1>8, Succeeding DEF Timely, i
  <2>2. PICK r \in RunRecord : r = To("readback")
    BY <1>3, <1>4
  <2>3. Becomes(p, r) /\ r.at = "readback" /\ r.id = i /\ ~r.sent
    BY <1>3, <1>4, <1>8, <2>2
  <2>4. Placed(p, r)
    BY <1>2, <1>8, <2>3, SkillConstants DEF Placed, Publishing, Unnumbered, i
  <2>5. Timely(p, r) /\ Done(p, r) /\ Explained(p, r) /\ Funded(p, r)
    BY <2>1, <2>3 DEF Timely, Done, Explained, Funded
  <2>6. /\ Spending(p, r) => Spending(p, run[p])
        /\ Clean(p, r) => Clean(p, run[p])
    BY <1>2, <1>8, <2>3, SkillConstants DEF Spending, Clean, i
  <2>7. QED
    BY <1>1, <2>3, <2>4, <2>5, <2>6, RunMoves
<1>9. CASE run[p].at \in {"dispute", "attest"} /\ Becomes(p, To("ok"))
  <2>1. PICK r \in RunRecord : r = To("ok")
    BY <1>3, <1>4
  <2>2. Becomes(p, r) /\ r.at = "ok" /\ r.id = i /\ ~r.sent
    BY <1>3, <1>4, <1>9, <2>1
  <2>3. run[p].at = "attest" => report[i].attestedBy # None
    BY <1>1, Succeeding DEF i
  <2>4. run[p].at = "dispute" => ~Open(i) \/ p \in shared
    <3> SUFFICES ASSUME run[p].at = "dispute", p \notin shared
                 PROVE  ~Open(i)
      OBVIOUS
    <3>1. CanPay(p, "oracle", report[i].umaBond)
      BY <1>1, <1>2, Succeeding DEF Funded, CanPay, i
    <3>2. QED
      BY <1>1, <3>1, Succeeding DEF i
  <2>5. Placed(p, r)
    BY <1>2, <1>9, <2>2, SkillConstants DEF Placed, Disputing, Attesting, Unnumbered, i
  <2>6. Done(p, r)
    BY <1>2, <1>9, <2>2, <2>3, <2>4, SkillConstants DEF Done
  <2>7. Timely(p, r) /\ Explained(p, r) /\ Funded(p, r)
    BY <2>2 DEF Timely, Explained, Funded
  <2>8. /\ Spending(p, r) => Spending(p, run[p])
        /\ Clean(p, r) => Clean(p, run[p])
    BY <1>2, <1>9, <2>2 DEF Spending, Clean, i
  <2>9. QED
    BY <1>1, <2>2, <2>5, <2>6, <2>7, <2>8, RunMoves
<1>10. QED
  BY <1>1, <1>6, <1>7, <1>8, <1>9

\* A run that begins is marked, with those it joins, when it is to pay from an account
\* that others pay from.
LEMMA BeginsKeeps ==
    ASSUME SkillInvariant, NEW p \in Run,
           Publish(p) \/ \E i \in ReportId : Dispute(p, i) \/ Attest(p, i)
    PROVE  SkillInvariant'
<1> DEFINE others == {q \in Run \ {p} : Payer(q) = Payer(p) /\ Spends(q)}
<1>1. PICK place \in {"bonds", "look"}, i \in ReportId \cup {None} :
        /\ Begins(p, place, i)
        /\ \/ p \in Publisher /\ place = "bonds" /\ i = None
           \/ p \in Disputer \cup Attestor /\ place = "look" /\ i \in ReportId
  BY DEF Publish, Dispute, Attest
<1>0. PICK r : r = [run[p] EXCEPT !.at = place, !.id = i]
  OBVIOUS
<1>2. /\ run[p].at = "ready" /\ Becomes(p, r)
      /\ shared' = IF p \in Attestor \/ others = {} THEN shared ELSE shared \cup others \cup {p}
      /\ now' = now /\ minBond' = minBond /\ weth' = weth /\ eth' = eth
      /\ approved' = approved /\ report' = report /\ log' = log /\ moved' = moved
  BY <1>0, <1>1 DEF Begins, chain
<1>3. /\ SkillTypes /\ Sharing /\ NothingApproved /\ UpheldAreLogged
      /\ \A q \in Run : /\ run[q] \in RunRecord
                        /\ Placed(q, run[q]) /\ Timely(q, run[q])
                        /\ Done(q, run[q]) /\ Explained(q, run[q])
                        /\ q \notin shared => Funded(q, run[q])
  BY OneRun DEF SkillInvariant
<1>4. i \in Nat \cup {None} /\ (i \in ReportId => i # None)
  BY <1>3, ReportTypes, SkillConstants
<1>5. r \in RunRecord /\ r.at = place /\ r.id = i /\ ~r.sent
  <2>1. ~run[p].sent
    BY <1>2, <1>3 DEF Placed, Sending
  <2>2. QED
    BY <1>0, <1>3, <1>4, <2>1 DEF RunRecord, Place, Publishing, Unnumbered
<1>6. run'[p] = r /\ \A q \in Run \ {p} : run'[q] = run[q]
  BY <1>2, <1>3 DEF SkillTypes, Becomes
<1>7. shared \subseteq shared' /\ shared' \subseteq Run
  BY <1>2, <1>3 DEF SkillTypes
<1>8. SkillTypes'
  BY <1>2, <1>3, <1>5, <1>7 DEF SkillTypes, Becomes
<1>9. Progress
  BY <1>2, <1>3, <1>7, ReportTypes
  DEF SkillTypes, Progress, SameReport, StatusOf, CanSettle, Over, settleAfterTimestamp
<1>10. Placed(p, r)'
  BY <1>1, <1>2, <1>4, <1>5, SkillConstants
  DEF Placed, Publishing, Disputing, Attesting, Unnumbered, ReportId
<1>11. Timely(p, r)' /\ Done(p, r)' /\ Explained(p, r)' /\ Funded(p, r)'
  BY <1>1, <1>5, SkillConstants DEF Timely, Done, Explained, Funded
<1>12. ASSUME NEW q \in Run
       PROVE  /\ Placed(q, run[q])' /\ Timely(q, run[q])'
              /\ Done(q, run[q])' /\ Explained(q, run[q])'
              /\ q \notin shared' => Funded(q, run[q])'
  <2>1. CASE q = p
    BY <1>6, <1>10, <1>11, <2>1
  <2>2. CASE q # p
    <3>1. PICK x \in RunRecord : x = run[q] /\ x = run'[q]
      BY <1>3, <1>6, <2>2
    <3>2. /\ Placed(q, x) /\ Timely(q, x) /\ Done(q, x) /\ Explained(q, x)
          /\ q \notin shared => Funded(q, x)
      BY <1>3, <3>1
    <3>3. Placed(q, x)' /\ Timely(q, x)' /\ Done(q, x)' /\ Explained(q, x)'
      BY <1>3, <1>8, <1>9, <3>2, Carried
    <3>4. q \notin shared' => Funded(q, x)'
      BY <1>2, <1>7, <3>2 DEF Funded, Pull, Payer
    <3>5. QED
      BY <3>1, <3>3, <3>4
  <2>3. QED
    BY <2>1, <2>2
<1>13. Sharing'
  <2> SUFFICES ASSUME NEW x \in Run, NEW y \in Run, x # y, Payer(x) = Payer(y),
                      Spending(x, run'[x]), Spending(y, run'[y])
               PROVE  x \in shared'
    BY DEF Sharing, Payer, Spending
  <2>1. CASE x # p /\ y # p
    BY <1>3, <1>6, <1>7, <2>1 DEF Sharing
  <2>2. CASE x = p
    <3>1. p \notin Attestor
      BY <1>1, <1>5, <1>6, <2>2, SkillConstants DEF Spending
    <3>2. y \in others
      BY <1>6, <2>2, SpendsIs
    <3>3. QED
      BY <1>2, <2>2, <3>1, <3>2
  <2>3. CASE y = p
    <3>1. p \notin Attestor
      BY <1>1, <1>5, <1>6, <2>3, SkillConstants DEF Spending
    <3>2. x \in others
      BY <1>6, <2>3, SpendsIs
    <3>3. QED
      BY <1>2, <3>1, <3>2
  <2>4. QED
    BY <2>1, <2>2, <2>3
<1>14. NothingApproved'
  <2>1. \A q \in Run : Clean(q, run[q])' => Clean(q, run[q])
    BY <1>2, <1>6, <1>7 DEF Clean
  <2>2. QED
    BY <1>2, <1>3, <2>1 DEF NothingApproved
<1>15. UpheldAreLogged'
  BY <1>2, <1>3 DEF UpheldAreLogged, ReportId, StatusOf, InLog
<1>16. QED
  BY <1>8, <1>12, <1>13, <1>14, <1>15 DEF SkillInvariant

(***************************************************************************)
(* Transactions that are mined.                                            *)
(***************************************************************************)
\* What a step does to one report.
LEMMA OneReport ==
    ASSUME SkillTypes, NEW i \in ReportId, NEW e \in Report,
           report' = [report EXCEPT ![i] = e]
    PROVE  /\ report' \in Seq(Report) /\ Len(report') = Len(report) /\ ReportId' = ReportId
           /\ report'[i] = e
           /\ \A j \in ReportId \ {i} : report'[j] = report[j]
<1>1. report \in Seq(Report) /\ i \in 1 .. Len(report)
  BY DEF SkillTypes, ReportId
<1>2. /\ [report EXCEPT ![i] = e] \in Seq(Report)
      /\ Len([report EXCEPT ![i] = e]) = Len(report)
      /\ \A j \in 1 .. Len(report) : [report EXCEPT ![i] = e][j] = IF j = i THEN e ELSE report[j]
  BY <1>1, ExceptSeq
<1>3. QED
  BY <1>1, <1>2 DEF ReportId

\* A change of one report that only goes forward, at a given time, is progress.
LEMMA ReportProgress ==
    ASSUME SkillTypes, NEW i \in ReportId, NEW e \in Report,
           report' = [report EXCEPT ![i] = e], now' = now,
           moved \subseteq moved', shared \subseteq shared',
           \A a \in Account : eth'[a] <= eth[a],
           Len(log') >= Len(log), \A n \in DOMAIN log : log'[n] = log[n],
           e.by = report[i].by, e.umaBond = report[i].umaBond,
           e.submittedAt = report[i].submittedAt,
           StatusOf(i) # PENDING => e.status # PENDING,
           CanSettle(i) => \/ e.status \in {SETTLED_TRUE, SETTLED_FALSE}
                           \/ e.status = StatusOf(i) /\ e.verdict = report[i].verdict,
           Over(i) => e.status = StatusOf(i),
           report[i].attestedBy # None => e.attestedBy # None
    PROVE  Progress
<1>1. /\ Len(report') = Len(report) /\ report'[i] = e
      /\ \A j \in ReportId \ {i} : report'[j] = report[j]
  BY OneReport
<1>2. Len(report) \in Nat /\ now \in Nat
  BY ReportTypes DEF SkillTypes
<1>3. ASSUME NEW j \in ReportId
      PROVE  /\ SameReport(j)
             /\ StatusOf(j) # PENDING => StatusOf(j)' # PENDING
             /\ CanSettle(j) => (CanSettle(j) \/ Over(j))'
             /\ Over(j) => StatusOf(j)' = StatusOf(j)
             /\ report[j].attestedBy # None => report'[j].attestedBy # None
  <2>1. CASE j = i
    BY <1>1, <2>1 DEF SameReport, StatusOf, CanSettle, Over, settleAfterTimestamp
  <2>2. CASE j # i
    BY <1>1, <2>2 DEF SameReport, StatusOf, CanSettle, Over, settleAfterTimestamp
  <2>3. QED
    BY <2>1, <2>2
<1>4. QED
  BY <1>1, <1>2, <1>3 DEF Progress

\* An approval of one account to one spender.
LEMMA OneApproval ==
    ASSUME SkillTypes, NEW a \in Account, NEW s \in Spender, NEW v \in Nat,
           approved' = [approved EXCEPT ![a][s] = v]
    PROVE  /\ approved' \in [Account -> [Spender -> Nat]]
           /\ approved'[a][s] = v
           /\ \A b \in Account, t \in Spender :
                b # a \/ t # s => approved'[b][t] = approved[b][t]
<1> DEFINE e == [approved[a] EXCEPT ![s] = v]
<1>1. approved \in [Account -> [Spender -> Nat]] /\ approved[a] \in [Spender -> Nat]
  BY DEF SkillTypes
<1>2. /\ e \in [Spender -> Nat] /\ e[s] = v
      /\ \A t \in Spender : t # s => e[t] = approved[a][t]
  BY <1>1
<1>3. approved' = [approved EXCEPT ![a] = e]
  OBVIOUS
<1> HIDE DEF e
<1>4. /\ approved' \in [Account -> [Spender -> Nat]] /\ approved'[a] = e
      /\ \A b \in Account : b # a => approved'[b] = approved[b]
  BY <1>1, <1>2, <1>3
<1>5. QED
  BY <1>2, <1>4

\* What one account holds.
LEMMA OneBalance ==
    ASSUME NEW f \in [Account -> Nat], NEW a \in Account, NEW v \in Nat
    PROVE  /\ [f EXCEPT ![a] = v] \in [Account -> Nat]
           /\ [f EXCEPT ![a] = v][a] = v
           /\ \A b \in Account : b # a => [f EXCEPT ![a] = v][b] = f[b]
OBVIOUS

LEMMA MineWrapKeeps ==
    ASSUME SkillInvariant, NEW p \in Run, MineWrap(p)
    PROVE  SkillInvariant'
<1>0. PICK r : r = [run[p] EXCEPT !.at = "approve", !.sent = FALSE, !.short = 0]
  OBVIOUS
<1>1. PICK a \in Account : a = Payer(p)
  BY SkillConstants
<1>2. /\ run[p].at = "wrap" /\ Succeeds(p) /\ Becomes(p, r)
      /\ weth' = [weth EXCEPT ![a] = weth[a] + run[p].short]
      /\ eth' = [eth EXCEPT ![a] = eth[a] - run[p].short]
      /\ now' = now /\ minBond' = minBond /\ approved' = approved /\ report' = report
      /\ log' = log /\ moved' = moved /\ shared' = shared
  BY <1>0, <1>1 DEF MineWrap, Mined
<1>3. /\ SkillTypes /\ run[p] \in RunRecord /\ Placed(p, run[p]) /\ p \in Publisher
      /\ p \notin shared => Funded(p, run[p])
  BY <1>2, OneRun
<1>4. /\ r \in RunRecord /\ r.at = "approve" /\ ~r.sent /\ r.id = run[p].id
      /\ r.total = run[p].total
  BY <1>0, <1>3 DEF RunRecord, Place, Publishing, Unnumbered
<1>5. /\ weth[a] \in Nat /\ eth[a] \in Nat /\ run[p].short \in Nat /\ eth[a] >= run[p].short
      /\ weth[a] + run[p].short \in Nat /\ eth[a] - run[p].short \in Nat
  <2>1. weth[a] \in Nat /\ eth[a] \in Nat /\ run[p].short \in Nat
    BY <1>3 DEF SkillTypes, RunRecord
  <2>2. eth[a] >= run[p].short
    BY <1>1, <1>2, Succeeding
  <2>3. QED
    BY <2>1, <2>2
<1>6. /\ weth' \in [Account -> Nat] /\ weth'[a] = weth[a] + run[p].short
      /\ eth' \in [Account -> Nat] /\ eth'[a] = eth[a] - run[p].short
      /\ \A b \in Account : b # a => weth'[b] = weth[b] /\ eth'[b] = eth[b]
  BY <1>2, <1>3, <1>5, OneBalance DEF SkillTypes
<1>7. SkillTypes'
  BY <1>2, <1>3, <1>4, <1>6 DEF SkillTypes, Becomes
<1>8. Progress
  <2>1. ASSUME NEW b \in Account
        PROVE  eth'[b] <= eth[b]
    <3>1. eth[b] \in Nat
      BY <1>3 DEF SkillTypes
    <3>2. CASE b = a
      BY <1>5, <1>6, <3>2
    <3>3. CASE b # a
      BY <1>6, <3>1, <3>3
    <3>4. QED
      BY <3>2, <3>3
  <2>2. QED
    BY <1>2, <1>3, <2>1, ReportTypes
    DEF Progress, SkillTypes, SameReport, StatusOf, CanSettle, Over, settleAfterTimestamp
<1>9. ASSUME NEW q \in Run \ {p}, Spending(q, run[q]), q \notin shared
      PROVE  Untouched(Payer(q))
  <2>1. Payer(q) # a /\ Payer(q) \in Account
    BY <1>1, <1>2, <1>9, NobodyElsePays, SkillConstants DEF Spending
  <2>2. QED
    BY <1>2, <1>3, <1>6, <2>1 DEF Untouched, SkillTypes
<1>10. Placed(p, r)'
  BY <1>2, <1>3, <1>4, SkillConstants DEF Placed, Publishing, Unnumbered
<1>11. Timely(p, r)' /\ Done(p, r)' /\ Explained(p, r)'
  BY <1>4 DEF Timely, Done, Explained
<1>12. p \notin shared => Funded(p, r)'
  <2>1. p \notin shared => weth'[a] >= r.total
    BY <1>1, <1>2, <1>3, <1>4, <1>6 DEF Funded
  <2>2. Payer(p)' = a
    BY <1>1 DEF Payer
  <2>3. p \notin shared => r.total = Pull' \/ p \in moved
    BY <1>2, <1>3, <1>4 DEF Funded, Pull
  <2>4. QED
    BY <1>2, <1>4, <2>1, <2>2, <2>3 DEF Funded
<1>13. /\ Spending(p, r) => Spending(p, run[p])
       /\ Clean(p, r) => Clean(p, run[p])
  BY <1>2, <1>4 DEF Spending, Clean
<1>14. NothingApproved'
  BY <1>2, <1>4, <1>13, NothingApprovedKept
<1>15. UpheldAreLogged'
  BY <1>2 DEF SkillInvariant, UpheldAreLogged, ReportId, StatusOf, InLog
<1>16. QED
  BY <1>2, <1>4, <1>7, <1>8, <1>9, <1>10, <1>11, <1>12, <1>13, <1>14, <1>15, StepOfOne

\* The allowance becomes what the run read, whatever it was.
LEMMA MineApproveKeeps ==
    ASSUME SkillInvariant, NEW p \in Run, NEW place, NEW spender, NEW next,
           MineApprove(p, place, spender, next),
           \/ place = "approve" /\ spender = "registry" /\ next = "submit"
           \/ place = "counter" /\ spender = "oracle" /\ next = "dispute"
    PROVE  SkillInvariant'
<1>0. PICK r : r = [run[p] EXCEPT !.at = next, !.sent = FALSE]
  OBVIOUS
<1>1. PICK a \in Account : a = Payer(p)
  BY SkillConstants
<1>2. /\ run[p].at = place /\ Becomes(p, r)
      /\ approved' = [approved EXCEPT ![a][spender] = run[p].total]
      /\ now' = now /\ minBond' = minBond /\ weth' = weth /\ eth' = eth /\ report' = report
      /\ log' = log /\ moved' = moved /\ shared' = shared
  BY <1>0, <1>1 DEF MineApprove, Goes
<1>3. /\ SkillTypes /\ run[p] \in RunRecord /\ Placed(p, run[p])
      /\ p \notin shared => Funded(p, run[p])
      /\ place = "approve" => p \in Publisher
      /\ place = "counter" => p \in Disputer
  BY <1>2, OneRun
<1>4. /\ r \in RunRecord /\ r.at = next /\ ~r.sent /\ r.id = run[p].id
      /\ r.total = run[p].total
  BY <1>0, <1>3 DEF RunRecord, Place, Publishing, Disputing, Unnumbered
<1>5. spender \in Spender /\ run[p].total \in Nat
  BY <1>3 DEF Spender, RunRecord
<1>6. /\ approved' \in [Account -> [Spender -> Nat]]
      /\ approved'[a][spender] = run[p].total
      /\ \A b \in Account, t \in Spender : b # a \/ t # spender => approved'[b][t] = approved[b][t]
  <2>1. PICK s \in Spender, v \in Nat : s = spender /\ v = run[p].total
    BY <1>5
  <2>2. approved' = [approved EXCEPT ![a][s] = v]
    BY <1>2, <2>1
  <2>3. /\ approved' \in [Account -> [Spender -> Nat]] /\ approved'[a][s] = v
        /\ \A b \in Account, t \in Spender : b # a \/ t # s => approved'[b][t] = approved[b][t]
    BY <1>3, <2>2, OneApproval
  <2>4. QED
    BY <2>1, <2>3
<1>7. SkillTypes'
  BY <1>2, <1>3, <1>4, <1>6 DEF SkillTypes, Becomes
<1>8. Progress
  BY <1>2, <1>3, ReportTypes
  DEF Progress, SkillTypes, SameReport, StatusOf, CanSettle, Over, settleAfterTimestamp
<1>9. ASSUME NEW q \in Run \ {p}, Spending(q, run[q]), q \notin shared
      PROVE  Untouched(Payer(q))
  <2>1. Payer(q) # a /\ Payer(q) \in Account
    BY <1>1, <1>2, <1>9, NobodyElsePays, SkillConstants DEF Spending
  <2>2. QED
    BY <1>2, <1>3, <1>6, <2>1 DEF Untouched, SkillTypes
<1>10. Placed(p, r)'
  BY <1>2, <1>3, <1>4, SkillConstants DEF Placed, Publishing, Disputing, Unnumbered, ReportId
<1>11. Timely(p, r)' /\ Done(p, r)' /\ Explained(p, r)'
  BY <1>4 DEF Timely, Done, Explained
<1>12. p \notin shared => Funded(p, r)'
  <2>1. Payer(p)' = a
    BY <1>1 DEF Payer
  <2>2. place = "approve" /\ p \notin shared =>
          weth'[a] >= r.total /\ (r.total = Pull' \/ p \in moved)
    BY <1>1, <1>2, <1>3, <1>4 DEF Funded, Pull
  <2>3. QED
    BY <1>2, <1>4, <1>6, <2>1, <2>2 DEF Funded
<1>13. Spending(p, r) => Spending(p, run[p])
  BY <1>2 DEF Spending
<1>14. NothingApproved'
  <2>1. CASE place = "counter"
    <3>1. \A b \in Account : approved'[b]["registry"] = approved[b]["registry"]
      BY <1>6, <2>1 DEF Spender
    <3>2. Clean(p, r) => Clean(p, run[p])
      BY <1>2, <1>4, <2>1 DEF Clean
    <3>3. QED
      BY <1>2, <1>4, <3>1, <3>2, NothingApprovedKept
  <2>2. CASE place = "approve"
    <3>1. run'[p] = r /\ \A q \in Run \ {p} : run'[q] = run[q]
      BY <1>2, <1>3 DEF SkillTypes, Becomes
    <3>2. ~Clean(p, run[p])'
      BY <1>2, <1>3, <1>4, <2>2, <3>1 DEF Clean, Placed, Unnumbered
    <3>3. ASSUME NEW b \in Account, \A q \in Run : AccountOf[q] = b => Clean(q, run[q])'
          PROVE  approved'[b]["registry"] = 0
      <4>1. b # a
        BY <1>1, <3>2, <3>3 DEF Payer
      <4>2. \A q \in Run : AccountOf[q] = b => Clean(q, run[q])
        BY <1>1, <1>2, <3>1, <3>3, <4>1 DEF Clean, Payer
      <4>3. approved[b]["registry"] = 0
        BY <4>2 DEF SkillInvariant, NothingApproved
      <4>4. QED
        BY <1>6, <4>1, <4>3 DEF Spender
    <3>4. QED
      BY <3>3 DEF NothingApproved
  <2>3. QED
    BY <2>1, <2>2
<1>15. UpheldAreLogged'
  BY <1>2 DEF SkillInvariant, UpheldAreLogged, ReportId, StatusOf, InLog
<1>16. QED
  BY <1>2, <1>4, <1>7, <1>8, <1>9, <1>10, <1>11, <1>12, <1>13, <1>14, <1>15, StepOfOne

\* The new report is the run's own, and what was approved for it is gone.
LEMMA MineSubmitKeeps ==
    ASSUME SkillInvariant, NEW p \in Run, MineSubmit(p)
    PROVE  SkillInvariant'
<1>0. PICK r, e, n :
        /\ r = [run[p] EXCEPT !.at = "wait", !.sent = FALSE, !.total = 0, !.id = n]
        /\ e = [by |-> p, umaBond |-> minBond, submittedAt |-> now,
                status |-> PENDING, verdict |-> None,
                disputedBy |-> None, attestedBy |-> None]
        /\ n = Len(report) + 1
  OBVIOUS
<1>1. PICK a \in Account : a = Payer(p)
  BY SkillConstants
<1>2. /\ run[p].at = "submit" /\ Succeeds(p) /\ Becomes(p, r)
      /\ Pays(p, "registry", Pull) /\ report' = Append(report, e)
      /\ now' = now /\ minBond' = minBond /\ eth' = eth
      /\ log' = log /\ moved' = moved /\ shared' = shared
  BY <1>0 DEF MineSubmit, Mined
<1>3. /\ SkillTypes /\ run[p] \in RunRecord /\ Placed(p, run[p]) /\ p \in Publisher
      /\ p \notin shared => Funded(p, run[p])
  BY <1>2, OneRun
<1>4. Len(report) \in Nat /\ n \in Nat /\ n # None
  BY <1>0, <1>3, ReportTypes, SkillConstants
<1>5. r \in RunRecord /\ r.at = "wait" /\ ~r.sent /\ r.id = n
  BY <1>0, <1>3, <1>4 DEF RunRecord, Place, Publishing
<1>6. e \in Report /\ e.by = p /\ e.status = PENDING
  BY <1>0, <1>3 DEF Report, Status, SkillTypes
<1>7. /\ report' \in Seq(Report) /\ Len(report') = n
      /\ \A i \in ReportId : report'[i] = report[i]
      /\ report'[n] = e
  BY <1>0, <1>2, <1>3, <1>6, AppendProperties DEF SkillTypes, ReportId
<1>8. /\ weth' \in [Account -> Nat] /\ approved' \in [Account -> [Spender -> Nat]]
      /\ approved[a]["registry"] \in Nat
      /\ approved'[a]["registry"] = approved[a]["registry"] - Pull
      /\ \A b \in Account : b # a => weth'[b] = weth[b]
      /\ \A b \in Account, t \in Spender :
           b # a \/ t # "registry" => approved'[b][t] = approved[b][t]
  <2>1. Pull \in Nat /\ CanPay(p, "registry", Pull) /\ weth[a] \in Nat
    BY <1>2, <1>3, BondTypes, Succeeding DEF SkillTypes
  <2>2. PICK s \in Spender : s = "registry"
    BY DEF Spender
  <2>3. approved[a][s] \in Nat
    BY <1>3 DEF SkillTypes
  <2>4. PICK v \in Nat : v = approved[a][s] - Pull
    BY <1>1, <2>1, <2>2, <2>3 DEF CanPay
  <2>5. approved' = [approved EXCEPT ![a][s] = v]
    BY <1>1, <1>2, <2>2, <2>4 DEF Pays
  <2>6. /\ approved' \in [Account -> [Spender -> Nat]] /\ approved'[a][s] = v
        /\ \A b \in Account, t \in Spender : b # a \/ t # s => approved'[b][t] = approved[b][t]
    BY <1>3, <2>5, OneApproval
  <2>7. PICK x \in Nat : x = weth[a] - Pull
    BY <1>1, <2>1 DEF CanPay
  <2>8. weth' \in [Account -> Nat] /\ \A b \in Account : b # a => weth'[b] = weth[b]
    BY <1>1, <1>2, <1>3, <2>7 DEF SkillTypes, Pays
  <2>9. QED
    BY <2>2, <2>3, <2>4, <2>6, <2>8
<1>9. SkillTypes'
  BY <1>2, <1>3, <1>5, <1>7, <1>8 DEF SkillTypes, Becomes
<1>10. Progress
  BY <1>0, <1>2, <1>3, <1>4, <1>7, ReportTypes
  DEF Progress, SkillTypes, SameReport, StatusOf, CanSettle, Over, settleAfterTimestamp
<1>11. ASSUME NEW q \in Run \ {p}, Spending(q, run[q]), q \notin shared
       PROVE  Untouched(Payer(q))
  <2>1. Payer(q) # a /\ Payer(q) \in Account
    BY <1>1, <1>2, <1>11, NobodyElsePays, SkillConstants DEF Spending
  <2>2. QED
    BY <1>2, <1>3, <1>8, <2>1 DEF Untouched, SkillTypes
<1>12. Placed(p, r)'
  <2>1. n \in ReportId' /\ report'[n].by = p
    <3>1. n >= 1
      BY <1>0, <1>4
    <3>2. QED
      BY <1>4, <1>6, <1>7, <3>1 DEF ReportId
  <2>2. QED
    BY <1>3, <1>4, <1>5, <2>1, SkillConstants DEF Placed, Publishing, Unnumbered
<1>13. Timely(p, r)' /\ Done(p, r)' /\ Explained(p, r)' /\ Funded(p, r)'
  BY <1>5 DEF Timely, Done, Explained, Funded
<1>14. ~Spending(p, r)
  BY <1>3, <1>5, SkillConstants DEF Spending
<1>15. NothingApproved'
  <2>1. run'[p] = r /\ \A q \in Run \ {p} : run'[q] = run[q]
    BY <1>2, <1>3 DEF SkillTypes, Becomes
  <2>2. ASSUME NEW b \in Account, \A q \in Run : AccountOf[q] = b => Clean(q, run[q])'
        PROVE  approved'[b]["registry"] = 0
    <3>1. CASE b # a
      <4>1. \A q \in Run : AccountOf[q] = b => Clean(q, run[q])
        BY <1>1, <1>2, <2>1, <2>2, <3>1 DEF Clean, Payer
      <4>2. approved[b]["registry"] = 0
        BY <4>1 DEF SkillInvariant, NothingApproved
      <4>3. QED
        BY <1>8, <3>1, <4>2 DEF Spender
    <3>2. CASE b = a
      <4>1. Clean(p, r)'
        BY <1>1, <2>1, <2>2, <3>2 DEF Payer
      <4>2. p \notin moved /\ p \notin shared
        BY <1>2, <1>5, <4>1 DEF Clean
      <4>3. approved[a]["registry"] = Pull
        BY <1>1, <1>2, <1>3, <4>2 DEF Funded
      <4>4. QED
        BY <1>8, <3>2, <4>3
    <3>3. QED
      BY <3>1, <3>2
  <2>3. QED
    BY <2>2 DEF NothingApproved
<1>16. UpheldAreLogged'
  <2>1. ASSUME NEW i \in ReportId', StatusOf(i)' = SETTLED_TRUE
        PROVE  InLog(i, Len(log))'
    <3>1. i \in ReportId /\ StatusOf(i) = SETTLED_TRUE
      BY <1>0, <1>4, <1>6, <1>7, <2>1 DEF ReportId, StatusOf, PENDING, SETTLED_TRUE
    <3>2. QED
      BY <1>2, <3>1 DEF SkillInvariant, UpheldAreLogged, InLog
  <2>2. QED
    BY <2>1 DEF UpheldAreLogged
<1>17. QED
  BY <1>2, <1>5, <1>9, <1>10, <1>11, <1>12, <1>13, <1>14, <1>15, <1>16, StepOfOne

\* A dispute that is mined stops the settlement without a vote.
LEMMA MineDisputeKeeps ==
    ASSUME SkillInvariant, NEW p \in Run, MineDispute(p)
    PROVE  SkillInvariant'
<1>1. PICK a \in Account : a = Payer(p)
  BY SkillConstants
<1>2. /\ run[p].at = "dispute" /\ Succeeds(p)
      /\ run[p].id # None /\ run[p].id \in ReportId /\ p \in Disputer
      /\ SkillTypes /\ run[p] \in RunRecord /\ Placed(p, run[p])
  BY OneRun DEF MineDispute, Mined
<1>3. PICK i \in ReportId : i = run[p].id
  BY <1>2
<1>4. PICK r, e : /\ r = [run[p] EXCEPT !.at = "ok", !.sent = FALSE]
                  /\ e = [report[i] EXCEPT !.status = DISPUTED, !.disputedBy = p]
  OBVIOUS
<1>5. /\ Becomes(p, r) /\ Pays(p, "oracle", report[i].umaBond)
      /\ report' = [report EXCEPT ![i] = e]
      /\ now' = now /\ minBond' = minBond /\ eth' = eth
      /\ log' = log /\ moved' = moved /\ shared' = shared
  BY <1>3, <1>4 DEF MineDispute, Goes
<1>6. /\ r \in RunRecord /\ r.at = "ok" /\ ~r.sent /\ r.id = i /\ i # None
  BY <1>2, <1>3, <1>4 DEF RunRecord, Place, Disputing
<1>7. /\ report[i] \in Report /\ report[i].umaBond \in Nat
      /\ settleAfterTimestamp(i) \in Nat /\ now \in Nat
  BY <1>2, ReportTypes DEF SkillTypes
<1>8. /\ e \in Report /\ e.status = DISPUTED /\ e.by = report[i].by
      /\ e.umaBond = report[i].umaBond /\ e.submittedAt = report[i].submittedAt
      /\ e.attestedBy = report[i].attestedBy
  BY <1>2, <1>4, <1>7 DEF Report, Status
<1>9. Open(i) /\ CanPay(p, "oracle", report[i].umaBond)
  BY <1>2, <1>3, Succeeding
<1>10. StatusOf(i) = PENDING /\ ~CanSettle(i) /\ ~Over(i)
  BY <1>7, <1>9 DEF Open, StatusOf, CanSettle, Over, PENDING, DISPUTED, SETTLED_TRUE, SETTLED_FALSE
<1>11. report' = [report EXCEPT ![i] = e]
  BY <1>5
<1>12. /\ report' \in Seq(Report) /\ Len(report') = Len(report) /\ ReportId' = ReportId
       /\ report'[i] = e /\ \A j \in ReportId \ {i} : report'[j] = report[j]
  BY <1>2, <1>8, <1>11, OneReport
<1>13. PICK s \in Spender : s = "oracle"
  BY DEF Spender
<1>14. weth[a] \in Nat /\ approved[a][s] \in Nat
  BY <1>2 DEF SkillTypes
<1>15. PICK v \in Nat : v = approved[a][s] - report[i].umaBond
  BY <1>1, <1>7, <1>9, <1>13, <1>14 DEF CanPay
<1>16. approved' = [approved EXCEPT ![a][s] = v]
  BY <1>1, <1>5, <1>13, <1>15 DEF Pays
<1>17. /\ approved' \in [Account -> [Spender -> Nat]] /\ approved'[a][s] = v
       /\ \A b \in Account, t \in Spender : b # a \/ t # s => approved'[b][t] = approved[b][t]
  <2>1. SkillTypes
    BY <1>2
  <2>2. QED
    BY <1>16, <2>1, OneApproval
<1>18. PICK x \in Nat : x = weth[a] - report[i].umaBond
  BY <1>1, <1>7, <1>9, <1>14 DEF CanPay
<1>19. weth' \in [Account -> Nat] /\ \A b \in Account : b # a => weth'[b] = weth[b]
  BY <1>1, <1>2, <1>5, <1>18 DEF SkillTypes, Pays
<1>20. SkillTypes'
  BY <1>2, <1>5, <1>6, <1>12, <1>17, <1>19 DEF SkillTypes, Becomes
<1>21. Progress
  <2>1. \A b \in Account : eth'[b] <= eth[b]
    BY <1>2, <1>5 DEF SkillTypes
  <2>2. Len(log') >= Len(log) /\ \A n \in DOMAIN log : log'[n] = log[n]
    BY <1>2, <1>5, ReportTypes
  <2>3. e.status # PENDING
    BY <1>8 DEF PENDING, DISPUTED
  <2>4. moved \subseteq moved' /\ shared \subseteq shared'
    BY <1>5
  <2>5. QED
    BY <1>2, <1>5, <1>8, <1>10, <1>11, <2>1, <2>2, <2>3, <2>4, ReportProgress
<1>22. ASSUME NEW q \in Run \ {p}, Spending(q, run[q]), q \notin shared
       PROVE  Untouched(Payer(q))
  <2>1. Payer(q) # a /\ Payer(q) \in Account
    BY <1>1, <1>2, <1>22, NobodyElsePays, SkillConstants DEF Spending
  <2>2. QED
    BY <1>2, <1>5, <1>17, <1>19, <2>1 DEF Untouched, SkillTypes
<1>23. Placed(p, r)'
  BY <1>2, <1>6, <1>12, SkillConstants DEF Placed, Disputing, Unnumbered
<1>24. Timely(p, r)' /\ Explained(p, r)' /\ Funded(p, r)'
  BY <1>6 DEF Timely, Explained, Funded
<1>25. Done(p, r)'
  <2>1. ~Open(i)'
    BY <1>8, <1>12 DEF Open, PENDING, DISPUTED
  <2>2. QED
    BY <1>2, <1>6, <2>1, SkillConstants DEF Done
<1>26. /\ ~Spending(p, r)
       /\ Clean(p, r) => Clean(p, run[p])
  BY <1>2, <1>3, <1>6 DEF Spending, Clean
<1>27. NothingApproved'
  <2>1. \A b \in Account : approved'[b]["registry"] = approved[b]["registry"]
    BY <1>13, <1>17 DEF Spender
  <2>2. QED
    BY <1>5, <1>6, <1>26, <2>1, NothingApprovedKept
<1>28. UpheldAreLogged'
  <2>1. ASSUME NEW j \in ReportId', StatusOf(j)' = SETTLED_TRUE
        PROVE  InLog(j, Len(log))'
    <3>1. j \in ReportId /\ StatusOf(j) = SETTLED_TRUE
      BY <1>8, <1>12, <2>1 DEF StatusOf, DISPUTED, SETTLED_TRUE
    <3>2. QED
      BY <1>5, <3>1 DEF SkillInvariant, UpheldAreLogged, InLog
  <2>2. QED
    BY <2>1 DEF UpheldAreLogged
<1>29. QED
  BY <1>5, <1>6, <1>20, <1>21, <1>22, <1>23, <1>24, <1>25, <1>26, <1>27, <1>28, StepOfOne

LEMMA MineAttestKeeps ==
    ASSUME SkillInvariant, NEW p \in Run, MineAttest(p)
    PROVE  SkillInvariant'
<1>1. /\ run[p].at = "attest" /\ run[p].id # None /\ run[p].id \in ReportId
      /\ SkillTypes /\ run[p] \in RunRecord /\ Placed(p, run[p]) /\ p \in Attestor
  BY OneRun DEF MineAttest, Mined
<1>2. PICK i \in ReportId : i = run[p].id
  BY <1>1
<1>3. PICK r, e : /\ r = [run[p] EXCEPT !.at = "ok", !.sent = FALSE]
                  /\ e = [report[i] EXCEPT !.attestedBy = p]
  OBVIOUS
<1>4. /\ Becomes(p, r) /\ report' = [report EXCEPT ![i].attestedBy = p]
      /\ now' = now /\ minBond' = minBond /\ weth' = weth /\ eth' = eth /\ approved' = approved
      /\ log' = log /\ moved' = moved /\ shared' = shared
  BY <1>2, <1>3 DEF MineAttest, Goes
<1>5. /\ r \in RunRecord /\ r.at = "ok" /\ ~r.sent /\ r.id = i /\ i # None
  BY <1>1, <1>2, <1>3 DEF RunRecord, Place, Attesting
<1>6. report[i] \in Report
  BY <1>1, ReportTypes
<1>7. /\ e \in Report /\ e.status = StatusOf(i) /\ e.by = report[i].by
      /\ e.umaBond = report[i].umaBond /\ e.submittedAt = report[i].submittedAt
      /\ e.attestedBy = p /\ e.verdict = report[i].verdict
  BY <1>3, <1>6 DEF Report, StatusOf
<1>8. report' = [report EXCEPT ![i] = e]
  BY <1>3, <1>4
<1>9. /\ report' \in Seq(Report) /\ Len(report') = Len(report) /\ ReportId' = ReportId
      /\ report'[i] = e /\ \A j \in ReportId \ {i} : report'[j] = report[j]
  BY <1>1, <1>7, <1>8, OneReport
<1>10. SkillTypes'
  BY <1>1, <1>4, <1>5, <1>9 DEF SkillTypes, Becomes
<1>11. p # None
  BY SkillConstants
<1>12. Progress
  <2>1. \A b \in Account : eth'[b] <= eth[b]
    BY <1>1, <1>4 DEF SkillTypes
  <2>2. Len(log') >= Len(log) /\ \A n \in DOMAIN log : log'[n] = log[n]
    BY <1>1, <1>4, ReportTypes
  <2>3. moved \subseteq moved' /\ shared \subseteq shared'
    BY <1>4
  <2>4. SkillTypes /\ now' = now /\ e \in Report /\ (Over(i) => e.status = StatusOf(i))
    BY <1>1, <1>4, <1>7
  <2>5. /\ StatusOf(i) # PENDING => e.status # PENDING
        /\ e.status = StatusOf(i) /\ e.verdict = report[i].verdict
        /\ e.by = report[i].by /\ e.umaBond = report[i].umaBond
        /\ e.submittedAt = report[i].submittedAt /\ e.attestedBy # None
    BY <1>7, <1>11
  <2>6. QED
    BY <1>8, <2>1, <2>2, <2>3, <2>4, <2>5, ReportProgress
<1>13. ASSUME NEW q \in Run
       PROVE  Untouched(Payer(q))
  BY <1>1, <1>4, SkillConstants DEF Untouched, SkillTypes
<1>14. Placed(p, r)'
  BY <1>1, <1>5, <1>9, SkillConstants DEF Placed, Attesting, Unnumbered
<1>15. Timely(p, r)' /\ Explained(p, r)' /\ Funded(p, r)'
  BY <1>5 DEF Timely, Explained, Funded
<1>16. Done(p, r)'
  BY <1>1, <1>5, <1>7, <1>9, <1>11, SkillConstants DEF Done
<1>17. /\ ~Spending(p, r)
       /\ Clean(p, r) => Clean(p, run[p])
  BY <1>1, <1>2, <1>5, SkillConstants DEF Spending, Clean
<1>18. NothingApproved'
  BY <1>4, <1>5, <1>17, NothingApprovedKept
<1>19. UpheldAreLogged'
  <2>1. ASSUME NEW j \in ReportId', StatusOf(j)' = SETTLED_TRUE
        PROVE  InLog(j, Len(log))'
    <3>1. j \in ReportId /\ StatusOf(j) = SETTLED_TRUE
      BY <1>7, <1>9, <2>1 DEF StatusOf
    <3>2. QED
      BY <1>4, <3>1 DEF SkillInvariant, UpheldAreLogged, InLog
  <2>2. QED
    BY <2>1 DEF UpheldAreLogged
<1>20. QED
  BY <1>4, <1>5, <1>10, <1>12, <1>13, <1>14, <1>15, <1>16, <1>17, <1>18, <1>19, StepOfOne

\* Whoever settles a report: it is over, what it held is paid back, and an upheld one is
\* logged.
LEMMA SettledDoes ==
    ASSUME SkillInvariant, NEW i \in ReportId, Settled(i)
    PROVE  /\ report' \in Seq(Report) /\ ReportId' = ReportId
           /\ weth' \in [Account -> Nat] /\ log' \in Seq(Nat)
           /\ report'[i].by = report[i].by
           /\ Over(i)' /\ Progress /\ UpheldAreLogged'
           /\ \A q \in Run : Untouched(Payer(q))
           /\ now' = now /\ minBond' = minBond /\ eth' = eth /\ approved' = approved
           /\ moved' = moved /\ shared' = shared
<1>1. SkillTypes /\ CanSettle(i) /\ UpheldAreLogged
  BY DEF SkillInvariant, Settled
<1>2. /\ now' = now /\ minBond' = minBond /\ eth' = eth /\ approved' = approved
      /\ moved' = moved /\ shared' = shared
  BY DEF Settled
<1>3. PICK t \in {SETTLED_TRUE, SETTLED_FALSE} :
        report' = [report EXCEPT ![i].status = t]
  BY DEF Settled
<1>4. PICK e : e = [report[i] EXCEPT !.status = t]
  OBVIOUS
<1>5. report[i] \in Report /\ report[i].umaBond \in Nat /\ i \in Nat
  BY <1>1, ReportTypes
<1>6. /\ e \in Report /\ e.status = t /\ e.by = report[i].by
      /\ e.umaBond = report[i].umaBond /\ e.submittedAt = report[i].submittedAt
      /\ e.attestedBy = report[i].attestedBy
  BY <1>4, <1>5 DEF Report, Status
<1>7. report' = [report EXCEPT ![i] = e]
  BY <1>3, <1>4
<1>8. /\ report' \in Seq(Report) /\ Len(report') = Len(report) /\ ReportId' = ReportId
      /\ report'[i] = e /\ \A j \in ReportId \ {i} : report'[j] = report[j]
  BY <1>1, <1>6, <1>7, OneReport
<1>9. StatusOf(i) \in {PENDING, DISPUTED}
  BY <1>1 DEF CanSettle, StatusOf
<1>10. PICK a \in Account : a = Payer(report[i].by)
  BY <1>5, SkillConstants DEF Report
<1>11. PICK v \in Nat : v = weth[a] + ProtocolBond + report[i].umaBond /\ v >= weth[a]
  <2>1. weth[a] \in Nat
    BY <1>1 DEF SkillTypes
  <2>2. QED
    BY <1>5, <2>1, SkillConstants
<1>12. \/ weth' = weth
       \/ weth' = [weth EXCEPT ![a] = v]
  BY <1>10, <1>11 DEF Settled
<1>13. weth \in [Account -> Nat]
  BY <1>1 DEF SkillTypes
<1>14. weth' \in [Account -> Nat]
  BY <1>12, <1>13
<1>15. ASSUME NEW b \in Account
       PROVE  weth'[b] >= weth[b]
  <2>1. weth[b] \in Nat
    BY <1>13
  <2>2. CASE weth' = weth
    BY <2>1, <2>2
  <2>3. CASE weth' = [weth EXCEPT ![a] = v]
    <3>1. CASE b = a
      BY <1>11, <1>13, <2>3, <3>1
    <3>2. CASE b # a
      BY <1>13, <2>1, <2>3, <3>2
    <3>3. QED
      BY <3>1, <3>2
  <2>4. QED
    BY <1>12, <2>2, <2>3
<1>16. \/ t = SETTLED_FALSE /\ log' = log
       \/ log' = Append(log, i)
  <2>1. CASE report[i].status = PENDING \/ report[i].verdict = "true"
    BY <2>1 DEF Settled
  <2>2. CASE ~(report[i].status = PENDING \/ report[i].verdict = "true")
    <3>1. /\ log' = log
          /\ report' = [report EXCEPT ![i].status = SETTLED_FALSE]
      BY <2>2 DEF Settled
    <3>2. PICK x : x = [report[i] EXCEPT !.status = SETTLED_FALSE]
      OBVIOUS
    <3>3. report' = [report EXCEPT ![i] = x] /\ x.status = SETTLED_FALSE
      BY <1>5, <3>1, <3>2 DEF Report
    <3>4. i \in DOMAIN report
      BY <1>1, ReportTypes
    <3>5. report'[i] = x
      BY <3>3, <3>4
    <3>6. QED
      BY <1>6, <1>8, <3>1, <3>3, <3>5
  <2>3. QED
    BY <2>1, <2>2
<1>17. /\ log' \in Seq(Nat) /\ Len(log') \in Nat /\ Len(log) \in Nat /\ Len(log') >= Len(log)
       /\ DOMAIN log = 1 .. Len(log) /\ DOMAIN log' = 1 .. Len(log')
       /\ \A n \in DOMAIN log : log'[n] = log[n]
       /\ log' = Append(log, i) => Len(log') \in DOMAIN log' /\ log'[Len(log')] = i
  <2>1. log \in Seq(Nat)
    BY <1>1 DEF SkillTypes
  <2>2. CASE log' = log
    BY <2>1, <2>2
  <2>3. CASE log' = Append(log, i)
    BY <1>5, <2>1, <2>3, AppendProperties
  <2>4. Append(log, i) # log
    BY <1>5, <2>1, AppendProperties
  <2>5. QED
    BY <1>16, <2>2, <2>3, <2>4
<1>18. Over(i)'
  BY <1>6, <1>8 DEF Over, StatusOf
<1>19. Progress
  <2>1. \A b \in Account : eth'[b] <= eth[b]
    BY <1>1, <1>2 DEF SkillTypes
  <2>2. ~Over(i) /\ e.status \in {SETTLED_TRUE, SETTLED_FALSE} /\ e.status # PENDING
    BY <1>6, <1>9 DEF Over, PENDING, DISPUTED, SETTLED_TRUE, SETTLED_FALSE
  <2>3. moved \subseteq moved' /\ shared \subseteq shared' /\ now' = now
    BY <1>2
  <2>4. Len(log') >= Len(log) /\ \A n \in DOMAIN log : log'[n] = log[n]
    BY <1>17
  <2>5. report[i].attestedBy # None => e.attestedBy # None
    BY <1>6
  <2>6. QED
    BY <1>1, <1>6, <1>7, <2>1, <2>2, <2>3, <2>4, <2>5, ReportProgress
<1>20. UpheldAreLogged'
  <2>1. ASSUME NEW j \in ReportId', StatusOf(j)' = SETTLED_TRUE
        PROVE  InLog(j, Len(log))'
    <3>1. CASE j = i
      <4>1. log' = Append(log, i)
        BY <1>6, <1>8, <1>16, <2>1, <3>1 DEF StatusOf, SETTLED_TRUE, SETTLED_FALSE
      <4>2. QED
        BY <1>17, <3>1, <4>1 DEF InLog
    <3>2. CASE j # i
      <4>1. j \in ReportId /\ StatusOf(j) = SETTLED_TRUE
        BY <1>8, <2>1, <3>2 DEF StatusOf
      <4>2. PICK m \in DOMAIN log : log[m] = j
        BY <1>1, <4>1 DEF UpheldAreLogged, InLog
      <4>3. log'[m] = j /\ m \in 1 .. Len(log)
        BY <1>17, <4>2
      <4>4. Len(log) \in Nat /\ Len(log') \in Nat /\ Len(log') >= Len(log)
        BY <1>17
      <4>5. m \in 1 .. Len(log') /\ m <= Len(log')
        BY <4>3, <4>4
      <4>6. QED
        BY <1>17, <4>3, <4>5 DEF InLog
    <3>3. QED
      BY <3>1, <3>2
  <2>2. QED
    BY <2>1 DEF UpheldAreLogged
<1>21. ASSUME NEW q \in Run
       PROVE  Untouched(Payer(q))
  BY <1>2, <1>15, SkillConstants DEF Untouched
<1>22. QED
  BY <1>2, <1>6, <1>8, <1>14, <1>17, <1>18, <1>19, <1>20, <1>21

LEMMA MineSettleKeeps ==
    ASSUME SkillInvariant, NEW p \in Run, MineSettle(p)
    PROVE  SkillInvariant'
<1>1. /\ run[p].at = "settle" /\ run[p].id # None /\ run[p].id \in ReportId
      /\ SkillTypes /\ run[p] \in RunRecord /\ Placed(p, run[p]) /\ p \in Publisher
  BY OneRun DEF MineSettle, Mined
<1>2. PICK i \in ReportId : i = run[p].id
  BY <1>1
<1>3. PICK r : r = [run[p] EXCEPT !.at = "readback", !.sent = FALSE]
  OBVIOUS
<1>4. Becomes(p, r) /\ Settled(i)
  BY <1>2, <1>3 DEF MineSettle, Goes
<1>5. /\ r \in RunRecord /\ r.at = "readback" /\ ~r.sent /\ r.id = i /\ i # None
  BY <1>1, <1>2, <1>3 DEF RunRecord, Place, Publishing
<1>6. /\ report' \in Seq(Report) /\ ReportId' = ReportId
      /\ weth' \in [Account -> Nat] /\ log' \in Seq(Nat)
      /\ report'[i].by = report[i].by
      /\ Over(i)' /\ Progress /\ UpheldAreLogged'
      /\ \A q \in Run : Untouched(Payer(q))
      /\ now' = now /\ minBond' = minBond /\ eth' = eth /\ approved' = approved
      /\ moved' = moved /\ shared' = shared
  BY <1>4, SettledDoes
<1>7. SkillTypes'
  BY <1>1, <1>4, <1>5, <1>6 DEF SkillTypes, Becomes
<1>8. Placed(p, r)'
  BY <1>1, <1>2, <1>5, <1>6, SkillConstants DEF Placed, Publishing, Unnumbered
<1>9. Timely(p, r)' /\ Done(p, r)' /\ Explained(p, r)' /\ Funded(p, r)'
  BY <1>5, <1>6 DEF Timely, Done, Explained, Funded
<1>10. /\ ~Spending(p, r)
       /\ Clean(p, r) => Clean(p, run[p])
  BY <1>1, <1>2, <1>5, SkillConstants DEF Spending, Clean
<1>11. NothingApproved'
  BY <1>4, <1>5, <1>6, <1>10, NothingApprovedKept
<1>12. QED
  BY <1>4, <1>5, <1>6, <1>7, <1>8, <1>9, <1>10, <1>11, StepOfOne

(***************************************************************************)
(* Everyone else.                                                          *)
(***************************************************************************)
\* A step of no run.
LEMMA NobodyMoves ==
    ASSUME SkillInvariant, run' = run, SkillTypes', Progress, shared' = shared,
           approved' = approved, UpheldAreLogged',
           \A q \in Run : Untouched(Payer(q)),
           \A q \in Run : \/ q \in moved' \/ Pull' = Pull
                          \/ run[q].at \notin {"balance", "wrap", "approve", "submit"}
    PROVE  SkillInvariant'
<1>1. ASSUME NEW q \in Run
      PROVE  /\ Placed(q, run[q])' /\ Timely(q, run[q])'
             /\ Done(q, run[q])' /\ Explained(q, run[q])'
             /\ q \notin shared' => Funded(q, run[q])'
  <2>1. SkillTypes /\ run[q] \in RunRecord
    BY OneRun
  <2>2. PICK x \in RunRecord : x = run[q] /\ x = run'[q]
    BY <2>1
  <2>3. /\ Placed(q, x) /\ Timely(q, x) /\ Done(q, x) /\ Explained(q, x)
        /\ q \notin shared => Funded(q, x)
    BY <2>2, OneRun
  <2>4. Placed(q, x)' /\ Timely(q, x)' /\ Done(q, x)' /\ Explained(q, x)'
    BY <2>1, <2>3, Carried
  <2>5. q \in moved' \/ Pull' = Pull \/ x.at \notin {"balance", "wrap", "approve", "submit"}
    BY <2>2
  <2>6. q \notin shared' => Funded(q, x)'
    BY <2>1, <2>3, <2>5, FundedKept
  <2>7. QED
    BY <2>2, <2>4, <2>6
<1>2. Sharing'
  BY DEF SkillInvariant, Sharing, Spending, Payer
<1>3. NothingApproved'
  <2>1. \A q \in Run : Clean(q, run[q])' => Clean(q, run[q])
    BY DEF Clean, Progress
  <2>2. QED
    BY <2>1 DEF SkillInvariant, NothingApproved
<1>4. QED
  BY <1>1, <1>2, <1>3 DEF SkillInvariant

LEMMA TickKeeps ==
    ASSUME SkillInvariant, Tick
    PROVE  SkillInvariant'
<1>1. /\ SkillTypes /\ UpheldAreLogged /\ now' = now + 1
      /\ minBond' = minBond /\ weth' = weth /\ eth' = eth /\ approved' = approved
      /\ report' = report /\ log' = log /\ run' = run /\ moved' = moved /\ shared' = shared
  BY DEF SkillInvariant, Tick
<1>2. now \in Nat /\ now' \in Nat /\ now' >= now
  BY <1>1 DEF SkillTypes
<1>3. SkillTypes'
  BY <1>1, <1>2 DEF SkillTypes
<1>4. Progress
  <2>1. ASSUME NEW i \in ReportId
        PROVE  CanSettle(i) => CanSettle(i)'
    <3>1. settleAfterTimestamp(i) \in Nat
      BY <1>1, ReportTypes
    <3>2. settleAfterTimestamp(i)' = settleAfterTimestamp(i)
      BY <1>1 DEF settleAfterTimestamp
    <3>3. QED
      BY <1>1, <1>2, <3>1, <3>2 DEF CanSettle
  <2>2. Len(report) \in Nat /\ Len(log) \in Nat
    BY <1>1, ReportTypes
  <2>3. \A a \in Account : eth'[a] <= eth[a]
    BY <1>1 DEF SkillTypes
  <2>4. QED
    BY <1>1, <1>2, <2>1, <2>2, <2>3 DEF Progress, SameReport, StatusOf
<1>5. \A q \in Run : Untouched(Payer(q))
  BY <1>1, SkillConstants DEF Untouched, SkillTypes
<1>6. UpheldAreLogged' /\ Pull' = Pull
  BY <1>1 DEF UpheldAreLogged, ReportId, StatusOf, InLog, Pull
<1>7. QED
  BY <1>1, <1>3, <1>4, <1>5, <1>6, NobodyMoves

\* Whoever counts on the old minimum is marked.
LEMMA BondChangesKeeps ==
    ASSUME SkillInvariant, BondChanges
    PROVE  SkillInvariant'
<1>1. /\ SkillTypes /\ UpheldAreLogged /\ minBond' \in MinBonds
      /\ now' = now /\ weth' = weth /\ eth' = eth /\ approved' = approved
      /\ report' = report /\ log' = log /\ run' = run /\ shared' = shared
      /\ moved' = moved \cup {p \in Run : Paying(p) /\ run[p].at # "bonds"}
  BY DEF SkillInvariant, BondChanges
<1>2. SkillTypes'
  BY <1>1 DEF SkillTypes
<1>3. Progress
  BY <1>1, ReportTypes
  DEF SkillTypes, Progress, SameReport, StatusOf, CanSettle, Over, settleAfterTimestamp
<1>4. \A q \in Run : Untouched(Payer(q))
  BY <1>1, SkillConstants DEF Untouched, SkillTypes
<1>5. UpheldAreLogged'
  BY <1>1 DEF UpheldAreLogged, ReportId, StatusOf, InLog
<1>6. \A q \in Run : q \in moved' \/ run[q].at \notin {"balance", "wrap", "approve", "submit"}
  BY <1>1 DEF Paying
<1>7. QED
  BY <1>1, <1>2, <1>3, <1>4, <1>5, <1>6, NobodyMoves

LEMMA VoteKeeps ==
    ASSUME SkillInvariant, NEW i \in ReportId, NEW v \in {"true", "false"}, Vote(i, v)
    PROVE  SkillInvariant'
<1>1. /\ SkillTypes /\ UpheldAreLogged
      /\ report[i].status = DISPUTED /\ report[i].verdict = None
      /\ report' = [report EXCEPT ![i].verdict = v]
      /\ now' = now /\ minBond' = minBond /\ weth' = weth /\ eth' = eth /\ approved' = approved
      /\ log' = log /\ run' = run /\ moved' = moved /\ shared' = shared
  BY DEF SkillInvariant, Vote
<1>2. PICK e : e = [report[i] EXCEPT !.verdict = v]
  OBVIOUS
<1>3. report[i] \in Report
  BY <1>1, ReportTypes
<1>4. /\ e \in Report /\ e.status = StatusOf(i) /\ e.by = report[i].by
      /\ e.umaBond = report[i].umaBond /\ e.submittedAt = report[i].submittedAt
      /\ e.attestedBy = report[i].attestedBy
  BY <1>2, <1>3 DEF Report, StatusOf
<1>5. report' = [report EXCEPT ![i] = e]
  BY <1>1, <1>2
<1>6. /\ report' \in Seq(Report) /\ Len(report') = Len(report) /\ ReportId' = ReportId
      /\ report'[i] = e /\ \A j \in ReportId \ {i} : report'[j] = report[j]
  BY <1>1, <1>4, <1>5, OneReport
<1>7. SkillTypes'
  BY <1>1, <1>6 DEF SkillTypes
<1>8. Progress
  <2>1. \A a \in Account : eth'[a] <= eth[a]
    BY <1>1 DEF SkillTypes
  <2>2. Len(log') >= Len(log) /\ \A n \in DOMAIN log : log'[n] = log[n]
    BY <1>1, ReportTypes
  <2>3. ~CanSettle(i) /\ ~Over(i)
    BY <1>1 DEF CanSettle, Over, StatusOf, PENDING, DISPUTED, SETTLED_TRUE, SETTLED_FALSE
  <2>4. SkillTypes /\ now' = now /\ moved \subseteq moved' /\ shared \subseteq shared'
    BY <1>1
  <2>5. /\ StatusOf(i) # PENDING => e.status # PENDING
        /\ report[i].attestedBy # None => e.attestedBy # None
    BY <1>4
  <2>6. QED
    BY <1>4, <1>5, <2>1, <2>2, <2>3, <2>4, <2>5, ReportProgress
<1>9. \A q \in Run : Untouched(Payer(q))
  BY <1>1, SkillConstants DEF Untouched, SkillTypes
<1>10. UpheldAreLogged' /\ Pull' = Pull
  <2>1. ASSUME NEW j \in ReportId', StatusOf(j)' = SETTLED_TRUE
        PROVE  InLog(j, Len(log))'
    <3>1. j \in ReportId /\ StatusOf(j) = SETTLED_TRUE
      BY <1>4, <1>6, <2>1 DEF StatusOf
    <3>2. QED
      BY <1>1, <3>1 DEF UpheldAreLogged, InLog
  <2>2. QED
    BY <1>1, <2>1 DEF UpheldAreLogged, Pull
<1>11. QED
  BY <1>1, <1>7, <1>8, <1>9, <1>10, NobodyMoves

LEMMA SettledByAnotherKeeps ==
    ASSUME SkillInvariant, NEW i \in ReportId, SettledByAnother(i)
    PROVE  SkillInvariant'
<1>1. Settled(i) /\ run' = run /\ SkillTypes
  BY DEF SkillInvariant, SettledByAnother
<1>2. /\ report' \in Seq(Report) /\ ReportId' = ReportId
      /\ weth' \in [Account -> Nat] /\ log' \in Seq(Nat)
      /\ Progress /\ UpheldAreLogged'
      /\ \A q \in Run : Untouched(Payer(q))
      /\ now' = now /\ minBond' = minBond /\ eth' = eth /\ approved' = approved
      /\ moved' = moved /\ shared' = shared
  BY <1>1, SettledDoes
<1>3. SkillTypes'
  BY <1>1, <1>2 DEF SkillTypes
<1>4. Pull' = Pull
  BY <1>2 DEF Pull
<1>5. QED
  BY <1>1, <1>2, <1>3, <1>4, NobodyMoves

(***************************************************************************)
(* The theorems.                                                           *)
(***************************************************************************)
LEMMA SkillInvariantInit ==
    ASSUME SkillInit
    PROVE  SkillInvariant
<1>1. \A p \in Run : run[p] = [at |-> "ready", sent |-> FALSE, total |-> 0, short |-> 0,
                               id |-> None, log |-> None, why |-> None]
  BY DEF SkillInit
<1>2. SkillTypes
  <2>1. weth \in [Account -> Nat] /\ eth \in [Account -> Nat]
    BY SkillAssumption DEF SkillInit
  <2>2. approved \in [Account -> [Spender -> Nat]]
    BY DEF SkillInit
  <2>3. run \in [Run -> RunRecord]
    BY DEF SkillInit, RunRecord, Place, Publishing, Unnumbered
  <2>4. report \in Seq(Report) /\ log \in Seq(Nat)
    BY DEF SkillInit
  <2>5. now \in Nat /\ minBond \in MinBonds /\ moved \subseteq Run /\ shared \subseteq Run
    BY DEF SkillInit
  <2>6. QED
    BY <2>1, <2>2, <2>3, <2>4, <2>5 DEF SkillTypes
<1>3. ASSUME NEW p \in Run
      PROVE  /\ Placed(p, run[p]) /\ Timely(p, run[p])
             /\ Done(p, run[p]) /\ Explained(p, run[p]) /\ Funded(p, run[p])
             /\ ~Spending(p, run[p])
  <2>1. run[p].at = "ready" /\ ~run[p].sent /\ run[p].id = None
    BY <1>1
  <2>2. QED
    BY <2>1 DEF Placed, Timely, Done, Explained, Funded, Spending,
                Publishing, Disputing, Attesting, Unnumbered
<1>4. Sharing
  BY <1>3 DEF Sharing
<1>5. NothingApproved
  BY DEF SkillInit, NothingApproved, Spender
<1>6. UpheldAreLogged
  BY DEF SkillInit, UpheldAreLogged, ReportId
<1>7. QED
  BY <1>2, <1>3, <1>4, <1>5, <1>6 DEF SkillInvariant

\* One step of any tool, of the chain or of anyone else.
LEMMA SkillInvariantStep ==
    ASSUME SkillInvariant, SkillStep \/ UNCHANGED skillVars
    PROVE  SkillInvariant'
<1>1. CASE UNCHANGED skillVars
  BY <1>1 DEF skillVars, chain, SkillInvariant, SkillTypes, Placed, Timely, Done, Explained,
              Funded, Sharing, NothingApproved, UpheldAreLogged, ReportId, StatusOf, Over,
              InLog, Open, CanSettle, settleAfterTimestamp, Pull, Payer, Spending, Clean
<1>2. ASSUME NEW p \in Run, RunStep(p)
      PROVE  SkillInvariant'
  <2>1. CASE Publish(p) \/ \E i \in ReportId : Dispute(p, i) \/ Attest(p, i)
    BY <2>1, BeginsKeeps
  <2>2. CASE getTotalBond(p)
    BY <2>2, TotalBondKeeps
  <2>3. CASE ensureWeth(p)
    BY <2>3, EnsureWethKeeps
  <2>4. CASE Wakes(p)
    BY <2>4, WakesKeeps
  <2>5. CASE settleReport(p)
    BY <2>5, SettleReportKeeps
  <2>6. CASE disputeReport(p)
    BY <2>6, DisputeReportKeeps
  <2>7. CASE attestOrbital(p)
    BY <2>7, AttestOrbitalKeeps
  <2>8. CASE ReadBack(p)
    BY <2>8, ReadBackKeeps
  <2>9. CASE RequestFails(p)
    BY <2>9, RequestFailsKeeps
  <2>10. CASE writeContract(p)
    BY <2>10, WriteContractKeeps
  <2>11. CASE MineWrap(p)
    BY <2>11, MineWrapKeeps
  <2>12. CASE MineSubmit(p)
    BY <2>12, MineSubmitKeeps
  <2>13. CASE MineDispute(p)
    BY <2>13, MineDisputeKeeps
  <2>14. CASE MineAttest(p)
    BY <2>14, MineAttestKeeps
  <2>15. CASE MineSettle(p)
    BY <2>15, MineSettleKeeps
  <2>16. CASE MineApprove(p, "approve", "registry", "submit")
    BY <2>16, MineApproveKeeps
  <2>17. CASE MineApprove(p, "counter", "oracle", "dispute")
    BY <2>17, MineApproveKeeps
  <2>18. CASE Reverts(p)
    BY <2>18, RevertsKeeps
  <2>19. QED
    BY <1>2, <2>1, <2>2, <2>3, <2>4, <2>5, <2>6, <2>7, <2>8, <2>9, <2>10, <2>11, <2>12,
       <2>13, <2>14, <2>15, <2>16, <2>17, <2>18 DEF RunStep
<1>3. CASE Tick
  BY <1>3, TickKeeps
<1>4. CASE BondChanges
  BY <1>4, BondChangesKeeps
<1>5. ASSUME NEW i \in ReportId,
             SettledByAnother(i) \/ \E v \in {"true", "false"} : Vote(i, v)
      PROVE  SkillInvariant'
  BY <1>5, SettledByAnotherKeeps, VoteKeeps
<1>6. QED
  BY <1>1, <1>2, <1>3, <1>4, <1>5 DEF SkillStep

\* For any number of runs, accounts and reports, every run is where its tool can be, and
\* one that pays alone from its account has read, wrapped and approved what it needs.
THEOREM ToolsAreTracked == SkillSpec => []SkillInvariant
<1>1. SkillInit => SkillInvariant
  BY SkillInvariantInit
<1>2. SkillInvariant /\ [SkillNext]_skillVars => SkillInvariant'
  BY SkillInvariantStep DEF SkillNext
<1>3. QED
  BY <1>1, <1>2, PTL DEF SkillSpec

\* A tool is refused, or loses its submission to a revert, only for a cause
\* (registry.js:36-232, publish-vessel-fixture.mjs:117-124).
THEOREM RefusalsHaveACause == SkillSpec => []RefusalIsExplained
<1>1. SkillInvariant => RefusalIsExplained
  BY DEF SkillInvariant, RefusalIsExplained, Explained, StatusOf
<1>2. QED
  BY <1>1, ToolsAreTracked, PTL

(***************************************************************************)
(* Transactions that are overtaken on their way.                           *)
(***************************************************************************)
\* What is out would still go through, unless it was overtaken.
Outstanding(p) ==
    p \in Disputer \cup Attestor /\ run[p].sent => Succeeds(p) \/ p \in overtaken

\* Whoever answers ok has done it, unless it was overtaken.
Acted(p) ==
    run[p].at = "ok" =>
        /\ p \in Disputer => report[run[p].id].disputedBy = p \/ p \in overtaken
        /\ p \in Attestor => report[run[p].id].attestedBy = p \/ p \in overtaken

Undisputed == \A i \in ReportId : StatusOf(i) = PENDING => report[i].disputedBy = None

RaceInvariant ==
    /\ SkillInvariant /\ Undisputed
    /\ \A p \in Run : Outstanding(p) /\ Acted(p)

\* Who disputed and who attested stays.
Marks ==
    \A i \in ReportId :
        /\ i \in ReportId'
        /\ report[i].disputedBy # None => report'[i].disputedBy = report[i].disputedBy
        /\ report[i].attestedBy # None => report'[i].attestedBy = report[i].attestedBy

\* A change of one report that keeps its marks.
LEMMA OneMarked ==
    ASSUME SkillInvariant, Undisputed, NEW i \in ReportId, NEW e \in Report,
           report' = [report EXCEPT ![i] = e],
           report[i].disputedBy # None => e.disputedBy = report[i].disputedBy,
           report[i].attestedBy # None => e.attestedBy = report[i].attestedBy,
           e.status = PENDING => e.disputedBy = None
    PROVE  Marks /\ Undisputed'
<1>1. /\ ReportId' = ReportId /\ report'[i] = e
      /\ \A j \in ReportId \ {i} : report'[j] = report[j]
  BY OneReport DEF SkillInvariant
<1>2. QED
  BY <1>1 DEF Marks, Undisputed, StatusOf

LEMMA MarksStay ==
    ASSUME SkillInvariant, Undisputed, SkillStep
    PROVE  Marks /\ Undisputed'
<1>1. SkillTypes /\ \A i \in ReportId : report[i] \in Report
  BY ReportTypes DEF SkillInvariant
<1>2. CASE report' = report
  BY <1>2 DEF Marks, Undisputed, ReportId, StatusOf
<1>3. ASSUME NEW p \in Run, MineSubmit(p)
      PROVE  Marks /\ Undisputed'
  <2>1. PICK e : /\ report' = Append(report, e)
                 /\ e = [by |-> p, umaBond |-> minBond, submittedAt |-> now,
                         status |-> PENDING, verdict |-> None,
                         disputedBy |-> None, attestedBy |-> None]
    BY <1>3 DEF MineSubmit
  <2>2. /\ Len(report) \in Nat /\ Len(report') = Len(report) + 1
        /\ \A i \in 1 .. Len(report) : report'[i] = report[i]
        /\ report'[Len(report) + 1] = e
    <3>1. e \in Report
      <4>1. p \in Publisher
        BY <1>3, OneRun DEF MineSubmit, Mined
      <4>2. QED
        BY <1>1, <2>1, <4>1 DEF Report, Status, SkillTypes
    <3>2. report \in Seq(Report)
      BY <1>1 DEF SkillTypes
    <3>3. QED
      BY <2>1, <3>1, <3>2, AppendProperties
  <2>3. QED
    BY <2>1, <2>2 DEF Marks, Undisputed, ReportId, StatusOf
<1>4. ASSUME NEW p \in Run, MineDispute(p)
      PROVE  Marks /\ Undisputed'
  <2>0. PICK i \in ReportId : i = run[p].id
    BY <1>4, OneRun DEF MineDispute, Mined
  <2>1. PICK e : e = [report[i] EXCEPT !.status = DISPUTED, !.disputedBy = p]
    OBVIOUS
  <2>2. /\ e \in Report /\ e.status = DISPUTED /\ e.attestedBy = report[i].attestedBy
    BY <1>1, <2>1 DEF Report, Status
  <2>3. report[i].disputedBy = None
    <3>1. Open(i)
      BY <1>4, <2>0, Succeeding DEF MineDispute, Mined
    <3>2. QED
      BY <3>1 DEF Open, Undisputed, StatusOf
  <2>4. report' = [report EXCEPT ![i] = e]
    BY <1>4, <2>0, <2>1 DEF MineDispute
  <2>5. QED
    <3>1. e.status # PENDING
      BY <2>2 DEF PENDING, DISPUTED
    <3>2. QED
      BY <2>2, <2>3, <2>4, <3>1, OneMarked
<1>5. ASSUME NEW p \in Run, MineAttest(p)
      PROVE  Marks /\ Undisputed'
  <2>0. PICK i \in ReportId : i = run[p].id
    BY <1>5, OneRun DEF MineAttest, Mined
  <2>1. PICK e : e = [report[i] EXCEPT !.attestedBy = p]
    OBVIOUS
  <2>2. /\ e \in Report /\ e.status = report[i].status /\ e.disputedBy = report[i].disputedBy
    BY <1>1, <2>1 DEF Report
  <2>3. report[i].attestedBy = None
    BY <1>5, <2>0, Succeeding DEF MineAttest, Mined
  <2>4. report' = [report EXCEPT ![i] = e]
    BY <1>5, <2>0, <2>1 DEF MineAttest
  <2>5. QED
    BY <2>2, <2>3, <2>4, OneMarked DEF Undisputed, StatusOf
<1>6. ASSUME NEW i \in ReportId, Settled(i)
      PROVE  Marks /\ Undisputed'
  <2>1. PICK t \in {SETTLED_TRUE, SETTLED_FALSE} : report' = [report EXCEPT ![i].status = t]
    BY <1>6 DEF Settled
  <2>2. PICK e : e = [report[i] EXCEPT !.status = t]
    OBVIOUS
  <2>3. /\ e \in Report /\ e.status = t
        /\ e.disputedBy = report[i].disputedBy /\ e.attestedBy = report[i].attestedBy
    BY <1>1, <2>2 DEF Report, Status
  <2>4. report' = [report EXCEPT ![i] = e]
    BY <2>1, <2>2
  <2>5. t # PENDING
    BY DEF PENDING, SETTLED_TRUE, SETTLED_FALSE
  <2>6. QED
    BY <2>3, <2>4, <2>5, OneMarked
<1>7. ASSUME NEW i \in ReportId, NEW v \in {"true", "false"}, Vote(i, v)
      PROVE  Marks /\ Undisputed'
  <2>1. PICK e : e = [report[i] EXCEPT !.verdict = v]
    OBVIOUS
  <2>2. /\ e \in Report /\ e.status = report[i].status
        /\ e.disputedBy = report[i].disputedBy /\ e.attestedBy = report[i].attestedBy
    BY <1>1, <2>1 DEF Report
  <2>3. report' = [report EXCEPT ![i] = e]
    BY <1>7, <2>1 DEF Vote
  <2>4. QED
    BY <2>2, <2>3, OneMarked DEF Undisputed, StatusOf
<1>8. ASSUME NEW p \in Run, RunStep(p)
      PROVE  \/ report' = report \/ MineSubmit(p) \/ MineDispute(p) \/ MineAttest(p)
             \/ Settled(run[p].id) /\ run[p].id \in ReportId
  <2>1. MineSettle(p) => Settled(run[p].id) /\ run[p].id \in ReportId
    BY <1>8, OneRun DEF MineSettle, Mined
  <2>2. QED
    BY <1>8, <2>1 DEF RunStep, Publish, Dispute, Attest, Begins, getTotalBond, ensureWeth, Wakes,
       settleReport, disputeReport, attestOrbital, Looks, ReadBack, RequestFails, writeContract,
       MineWrap, MineApprove, Reverts, chain
<1>9. CASE Tick \/ BondChanges
  BY <1>2, <1>9 DEF Tick, BondChanges
<1>10. QED
  BY <1>2, <1>3, <1>4, <1>5, <1>6, <1>7, <1>8, <1>9 DEF SkillStep, SettledByAnother

\* A step of a run moves no other.
LEMMA OnlyOneMoves ==
    ASSUME SkillInvariant, NEW p \in Run, RunStep(p), NEW q \in Run \ {p}
    PROVE  run'[q] = run[q]
<1>1. PICK r : Becomes(p, r)
  BY DEF RunStep, Publish, Dispute, Attest, Begins, getTotalBond, ensureWeth, Wakes, Goes, Refused,
     settleReport, disputeReport, attestOrbital, Looks, ReadBack, RequestFails, writeContract,
     MineWrap, MineApprove, MineSubmit, MineDispute, MineAttest, MineSettle, Reverts
<1>2. QED
  BY <1>1 DEF SkillInvariant, SkillTypes, Becomes

\* What becomes of the run that moves: a disputer or attestor answers ok only after its
\* transaction was mined, and sends it only when it would go through.
LEMMA ActsOrIsOvertaken ==
    ASSUME RaceInvariant, NEW p \in Run, RunStep(p), p \notin Publisher
    PROVE  \/ ~run'[p].sent /\ run'[p].at # "ok"
           \/ run'[p].sent /\ Succeeds(p)' /\ run'[p].at # "ok"
           \/ /\ ~run'[p].sent /\ run'[p].id = run[p].id
              /\ \/ p \in overtaken
                 \/ p \in Disputer /\ report'[run[p].id].disputedBy = p
                 \/ p \in Attestor /\ report'[run[p].id].attestedBy = p
<1>1. /\ SkillInvariant /\ Outstanding(p)
      /\ SkillTypes /\ run[p] \in RunRecord /\ Placed(p, run[p])
      /\ run[p].at \notin {"bonds", "balance", "wrap", "approve", "submit", "wait", "settle", "readback"}
      /\ run[p].at \in {"counter", "dispute"} => p \in Disputer
      /\ run[p].at = "attest" => p \in Attestor
      /\ p \in Disputer \cup Attestor
  BY OneRun, SkillConstants DEF RaceInvariant
<1>2. run[p].sent => run[p].at \in Sending
  BY <1>1 DEF Placed
<1>3. ASSUME \/ Publish(p) \/ \E i \in ReportId : Dispute(p, i) \/ Attest(p, i)
             \/ disputeReport(p) \/ RequestFails(p)
      PROVE  ~run'[p].sent /\ run'[p].at # "ok"
  <2>1. ~run[p].sent
    <3>1. CASE RequestFails(p)
      BY <3>1 DEF RequestFails
    <3>2. CASE ~RequestFails(p)
      <4>1. run[p].at \in {"ready", "look"}
        BY <1>3, <3>2 DEF Publish, Dispute, Attest, Begins, disputeReport, Looks
      <4>2. QED
        BY <1>2, <4>1 DEF Sending
    <3>3. QED
      BY <3>1, <3>2
  <2>2. \E r : \E a \in {"bonds", "look", "counter", "broken"} :
          /\ Becomes(p, r) /\ r.at = a /\ r.sent = run[p].sent
    <3>1. CASE Publish(p) \/ \E i \in ReportId : Dispute(p, i) \/ Attest(p, i)
      <4>1. PICK a \in {"bonds", "look"} : \E x : Becomes(p, [run[p] EXCEPT !.at = a, !.id = x])
        BY <3>1 DEF Publish, Dispute, Attest, Begins
      <4>2. PICK x : Becomes(p, [run[p] EXCEPT !.at = a, !.id = x])
        BY <4>1
      <4>3. PICK r : r = [run[p] EXCEPT !.at = a, !.id = x]
        OBVIOUS
      <4>4. Becomes(p, r) /\ r.at = a /\ r.sent = run[p].sent
        BY <1>1, <4>2, <4>3 DEF RunRecord
      <4>5. QED
        BY <4>4
    <3>2. CASE disputeReport(p)
      <4>1. PICK r : r = [run[p] EXCEPT !.at = "counter", !.total = minBond]
        OBVIOUS
      <4>2. Becomes(p, r) /\ r.at = "counter" /\ r.sent = run[p].sent
        BY <1>1, <3>2, <4>1 DEF disputeReport, RunRecord
      <4>3. QED
        BY <4>2
    <3>3. CASE RequestFails(p)
      <4>1. PICK r : r = [run[p] EXCEPT !.at = "broken", !.total = 0, !.short = 0]
        OBVIOUS
      <4>2. Becomes(p, r) /\ r.at = "broken" /\ r.sent = run[p].sent
        BY <1>1, <3>3, <4>1 DEF RequestFails, RunRecord
      <4>3. QED
        BY <4>2
    <3>4. QED
      BY <1>3, <3>1, <3>2, <3>3
  <2>3. QED
    BY <1>1, <2>1, <2>2 DEF Becomes, SkillTypes
<1>4. ASSUME attestOrbital(p) \/ MineApprove(p, "counter", "oracle", "dispute")
      PROVE  ~run'[p].sent /\ run'[p].at # "ok"
  <2>1. Goes(p, "attest") \/ Goes(p, "dispute") \/ Refused(p)
    BY <1>4 DEF attestOrbital, MineApprove
  <2>2. CASE Goes(p, "attest") \/ Goes(p, "dispute")
    BY <1>1, <2>2 DEF Goes, Becomes, SkillTypes, RunRecord
  <2>3. CASE Refused(p)
    BY <1>1, <2>3 DEF Refused, Becomes, SkillTypes, RunRecord
  <2>4. QED
    BY <2>1, <2>2, <2>3
<1>5. ASSUME settleReport(p)
      PROVE  FALSE
  BY <1>5 DEF settleReport
<1>6. CASE writeContract(p)
  <2>1. CASE Refused(p)
    <3>1. ~run'[p].sent /\ run'[p].at # "ok"
      BY <1>1, <2>1 DEF Refused, Becomes, SkillTypes, RunRecord
    <3>2. QED
      BY <3>1
  <2>2. CASE Succeeds(p) /\ Becomes(p, [run[p] EXCEPT !.sent = TRUE])
    <3>1. /\ run'[p].sent /\ run'[p].at = run[p].at /\ run'[p].id = run[p].id
          /\ run[p].at \in {"dispute", "attest"}
      BY <1>1, <1>6, <2>2 DEF writeContract, Becomes, SkillTypes, RunRecord
    <3>2. UNCHANGED chain
      BY <1>6 DEF writeContract
    <3>3. CASE run[p].at = "dispute"
      <4>1. Open(run[p].id) /\ CanPay(p, "oracle", report[run[p].id].umaBond)
        BY <1>1, <2>2, <3>3, Succeeding
      <4>2. Open(run[p].id)' /\ CanPay(p, "oracle", report[run[p].id].umaBond)'
        BY <3>1, <3>2, <4>1 DEF chain, Open, CanPay, settleAfterTimestamp, Payer
      <4>3. Succeeds(p)'
        BY <3>1, <3>3, <4>2 DEF Succeeds
      <4>4. QED
        BY <3>1, <3>3, <4>3
    <3>4. CASE run[p].at = "attest"
      <4>1. report'[run'[p].id].attestedBy = None
        BY <1>1, <2>2, <3>1, <3>2, <3>4, Succeeding DEF chain
      <4>2. Succeeds(p)'
        BY <3>1, <3>4, <4>1 DEF Succeeds
      <4>3. QED
        BY <3>1, <3>4, <4>2
    <3>5. QED
      BY <3>1, <3>3, <3>4
  <2>3. QED
    BY <1>6, <2>1, <2>2 DEF writeContract
<1>7. CASE MineDispute(p)
  <2>1. ~run'[p].sent /\ run'[p].id = run[p].id /\ run[p].id \in ReportId
    BY <1>1, <1>7, OneRun DEF MineDispute, Mined, Goes, Becomes, SkillTypes, RunRecord
  <2>2. p \in Disputer
    BY <1>1, <1>7 DEF MineDispute, Mined
  <2>3. report'[run[p].id].disputedBy = p
    <3>1. report[run[p].id] \in Report /\ DOMAIN report = ReportId
      BY <1>1, <2>1, ReportTypes
    <3>2. QED
      BY <1>7, <2>1, <3>1 DEF MineDispute, Report
  <2>4. QED
    BY <2>1, <2>2, <2>3
<1>8. CASE MineAttest(p)
  <2>1. ~run'[p].sent /\ run'[p].id = run[p].id /\ run[p].id \in ReportId
    BY <1>1, <1>8, OneRun DEF MineAttest, Mined, Goes, Becomes, SkillTypes, RunRecord
  <2>2. p \in Attestor
    BY <1>1, <1>8 DEF MineAttest, Mined
  <2>3. report'[run[p].id].attestedBy = p
    <3>1. report[run[p].id] \in Report /\ DOMAIN report = ReportId
      BY <1>1, <2>1, ReportTypes
    <3>2. QED
      BY <1>8, <2>1, <3>1 DEF MineAttest, Report
  <2>4. QED
    BY <2>1, <2>2, <2>3
<1>9. CASE Reverts(p)
  <2>1. p \in overtaken
    BY <1>1, <1>9 DEF Reverts, Outstanding
  <2>2. Goes(p, "ok")
    BY <1>1, <1>9 DEF Reverts
  <2>3. ~run'[p].sent /\ run'[p].id = run[p].id
    BY <1>1, <2>2 DEF Goes, Becomes, SkillTypes, RunRecord
  <2>4. QED
    BY <2>1, <2>3
<1>10. ASSUME \/ getTotalBond(p) \/ ensureWeth(p) \/ Wakes(p) \/ ReadBack(p)
              \/ MineWrap(p) \/ MineSubmit(p) \/ MineSettle(p)
              \/ MineApprove(p, "approve", "registry", "submit")
       PROVE  FALSE
  BY <1>1, <1>10 DEF getTotalBond, ensureWeth, Wakes, ReadBack, MineWrap, MineSubmit, MineSettle,
     MineApprove, Mined
<1>11. QED
  BY <1>3, <1>4, <1>5, <1>6, <1>7, <1>8, <1>9, <1>10 DEF RunStep

\* A run that does not move keeps what it has done, and is marked when it is overtaken.
LEMMA StaysActed ==
    ASSUME RaceInvariant, Marks, Overtakes, NEW q \in Run, run'[q] = run[q]
    PROVE  Outstanding(q)' /\ Acted(q)'
<1>1. overtaken \subseteq overtaken'
  BY DEF Overtakes
<1>2. Outstanding(q)'
  <2>1. q \in Disputer \cup Attestor /\ run[q].sent /\ ~Succeeds(q)' => q \in overtaken'
    BY DEF Overtakes
  <2>2. QED
    BY <2>1 DEF Outstanding
<1>3. Acted(q)'
  <2>1. run[q].at = "ok" => run[q].id \in ReportId
    BY OneRun DEF RaceInvariant
  <2>2. q # None
    BY SkillConstants
  <2>3. QED
    BY <1>1, <2>1, <2>2 DEF RaceInvariant, Acted, Marks
<1>4. QED
  BY <1>2, <1>3

LEMMA RaceStep ==
    ASSUME RaceInvariant, [SkillNext]_skillVars
    PROVE  RaceInvariant'
<1>1. CASE UNCHANGED skillVars
  <2>1. SkillInvariant'
    BY <1>1, SkillInvariantStep DEF RaceInvariant
  <2>2. QED
    BY <1>1, <2>1 DEF RaceInvariant, skillVars, chain, Undisputed, Outstanding, Acted, Succeeds,
       ReportId, StatusOf, Open, CanSettle, CanPay, Pull, Payer, settleAfterTimestamp
<1>2. CASE SkillStep /\ Overtakes
  <2>1. SkillInvariant' /\ Marks /\ Undisputed'
    BY <1>2, SkillInvariantStep, MarksStay DEF RaceInvariant
  <2>2. ASSUME NEW p \in Run, RunStep(p), NEW q \in Run
        PROVE  Outstanding(q)' /\ Acted(q)'
    <3>1. CASE q # p
      <4>1. run'[q] = run[q]
        BY <2>2, <3>1, OnlyOneMoves DEF RaceInvariant
      <4>2. QED
        BY <1>2, <2>1, <4>1, StaysActed
    <3>2. CASE q = p /\ p \in Publisher
      BY <3>2, SkillConstants DEF Outstanding, Acted
    <3>3. CASE q = p /\ p \notin Publisher
      <4>1. \/ ~run'[p].sent /\ run'[p].at # "ok"
            \/ run'[p].sent /\ Succeeds(p)' /\ run'[p].at # "ok"
            \/ /\ ~run'[p].sent /\ run'[p].id = run[p].id
               /\ \/ p \in overtaken
                  \/ p \in Disputer /\ report'[run[p].id].disputedBy = p
                  \/ p \in Attestor /\ report'[run[p].id].attestedBy = p
        BY <2>2, <3>3, ActsOrIsOvertaken
      <4>2. overtaken \subseteq overtaken' /\ (p \in Disputer => p \notin Attestor)
        BY <1>2, SkillConstants DEF Overtakes
      <4>3. QED
        BY <3>3, <4>1, <4>2 DEF Outstanding, Acted
    <3>4. QED
      BY <3>1, <3>2, <3>3
  <2>3. ASSUME run' = run, NEW q \in Run
        PROVE  Outstanding(q)' /\ Acted(q)'
    BY <1>2, <2>1, <2>3, StaysActed
  <2>4. run' = run \/ \E p \in Run : RunStep(p)
    BY <1>2 DEF SkillStep, Tick, BondChanges, SettledByAnother, Vote
  <2>5. QED
    BY <2>1, <2>2, <2>3, <2>4 DEF RaceInvariant
<1>3. QED
  BY <1>1, <1>2 DEF SkillNext

\* An answer ok, although no receipt's status is read (registry.js:117, 184, 221, 251): a
\* published report is the tool's own and settled, a dispute or attestation is its own
\* unless the transaction was overtaken on its way.  And once an account's runs are through
\* without a disturbance, no approval of the registry is left.
THEOREM ToolsActOrAreOvertaken == SkillSpec => []OkIsDoneOrOvertaken
<1>1. ASSUME RaceInvariant
      PROVE  OkIsDoneOrOvertaken
  <2>0. SkillInvariant
    BY <1>1 DEF RaceInvariant
  <2>1. ASSUME NEW p \in Run, run[p].at = "ok"
        PROVE  LET r == report[run[p].id] IN
               /\ p \in Publisher =>
                    /\ r.by = p /\ r.status >= SETTLED_TRUE
                    /\ r.status = SETTLED_TRUE =>
                         \E m, n \in DOMAIN log : m <= n /\ log[m] = run[p].id /\ log[n] = run[p].log
               /\ p \in Disputer =>
                    \/ r.disputedBy = p
                    \/ p \in overtaken /\ (~Open(run[p].id) \/ p \in shared)
               /\ p \in Attestor =>
                    \/ r.attestedBy = p
                    \/ p \in overtaken /\ r.attestedBy \in Run \ {p}
    <3> DEFINE i == run[p].id
    <3>1. i # None /\ Placed(p, run[p]) /\ Done(p, run[p])
      BY <2>0, <2>1, OneRun
    <3>2. ASSUME p \in Publisher
          PROVE  /\ report[i].by = p /\ report[i].status >= SETTLED_TRUE
                 /\ report[i].status = SETTLED_TRUE =>
                      \E m, n \in DOMAIN log : m <= n /\ log[m] = i /\ log[n] = run[p].log
      <4>1. report[i].by = p
        BY <3>1, <3>2 DEF Placed
      <4>2. report[i].status >= SETTLED_TRUE
        BY <2>1, <3>1, <3>2 DEF Done, Over, StatusOf, SETTLED_TRUE, SETTLED_FALSE
      <4>3. report[i].status = SETTLED_TRUE =>
              \E m, n \in DOMAIN log : m <= n /\ log[m] = i /\ log[n] = run[p].log
        BY <2>1, <3>1, <3>2 DEF Done, StatusOf, InLog
      <4>4. QED
        BY <4>1, <4>2, <4>3
    <3>3. /\ p \in Disputer =>
               \/ report[i].disputedBy = p
               \/ p \in overtaken /\ (~Open(i) \/ p \in shared)
          /\ p \in Attestor =>
               \/ report[i].attestedBy = p
               \/ p \in overtaken /\ report[i].attestedBy \in Run \ {p}
      <4>1. Acted(p)
        BY <1>1 DEF RaceInvariant
      <4>2. /\ p \in Attestor => report[i].attestedBy # None
            /\ p \in Disputer => ~Open(i) \/ p \in shared
        BY <2>1, <3>1 DEF Done
      <4>3. report[i].attestedBy \in Run \cup {None}
        BY <2>0, <3>1, ReportTypes DEF SkillInvariant, Placed, Report
      <4>4. QED
        BY <2>1, <4>1, <4>2, <4>3 DEF Acted
    <3>4. QED
      BY <3>2, <3>3
  <2>2. ASSUME NEW a \in Account,
               \A p \in Run : AccountOf[p] = a =>
                 \/ run[p].at = "ready"
                 \/ run[p].id # None /\ ~Paying(p) /\ p \notin moved \cup shared
        PROVE  approved[a]["registry"] = 0
    <3>1. \A p \in Run : AccountOf[p] = a => Clean(p, run[p])
      BY <2>2 DEF Clean
    <3>2. QED
      BY <2>0, <3>1 DEF SkillInvariant, NothingApproved
  <2>3. QED
    BY <2>1, <2>2 DEF OkIsDoneOrOvertaken
<1>2. SkillInit => RaceInvariant
  <2>1. ASSUME SkillInit
        PROVE  RaceInvariant
    <3>1. SkillInvariant
      BY <2>1, SkillInvariantInit
    <3>2. \A p \in Run : ~run[p].sent /\ run[p].at = "ready"
      BY <2>1 DEF SkillInit
    <3>3. Undisputed
      BY <2>1 DEF SkillInit, Undisputed, ReportId
    <3>4. QED
      BY <3>1, <3>2, <3>3 DEF RaceInvariant, Outstanding, Acted
  <2>2. QED
    BY <2>1
<1>3. RaceInvariant /\ [SkillNext]_skillVars => RaceInvariant'
  BY RaceStep
<1>4. QED
  BY <1>1, <1>2, <1>3, PTL DEF SkillSpec
=============================================================================
