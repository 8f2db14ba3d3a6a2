------------------------- MODULE VerifierAgentProofs -------------------------
(***************************************************************************)
(* Proofs about VerifierAgent, for any reports, any number of bonds, and   *)
(* tools that are cut short anywhere.                                      *)
(***************************************************************************)
EXTENDS VerifierAgent, SequenceTheorems, TLAPS

(***************************************************************************)
(* The inductive invariant.                                                *)
(***************************************************************************)

\* What a tool under way has seen to before: its report, the files it found readable, the
\* edition it pinned, and what it has had mined, uploaded or written in an earlier step.
UnderWay ==
    /\ tool.at = "idle" => tool = Idle
    /\ tool.at \in {"send", "confirm", "saveDecision"} => tool.of \in hand
    /\ tool.at \in {"saveDispute", "upload", "savePin"} => tool.of \in Report
    /\ tool.at = "setDecision" => tool.of \in Report \cup {None}
    /\ tool.at \in {"scan", "putStats", "putPolicy", "putSoul", "putDecision"} => Readable
    /\ tool.at = "scan" => tool.of \in stateFile.cursor .. head /\ hand = {}
    /\ tool.at = "saveWallet" => wallet = "none"
    /\ tool.at = "saveEnrolled" => nameOwner # Nobody
    /\ tool.at \in {"enrollVerifier", "confirmEnrolment"}
         => tool.of.policy \in 0 .. edition /\ tool.of.soul \in 0 .. edition
    /\ tool.at \in {"setPolicy", "setSoul", "saveIdentity"}
         => tool.of \in 1 .. edition /\ records.policy <= tool.of /\ records.soul <= tool.of
    /\ tool.at \in {"setSoul", "saveIdentity"} => records.policy = tool.of
    /\ tool.at = "saveIdentity" => records.soul = tool.of
    /\ tool.at = "saveDispute" => decision[tool.of] = "written"
    /\ tool.at = "savePin" => tool.of \in uploads
    /\ tool.at \in {"putPolicy", "putSoul", "putDecision"}
         => published.disputes = stateFile.disputes
    /\ tool.at = "putSoul" => published.policy = stateFile.identity

\* A report lies at or below the head; what was interrupted is on record.
Blocks ==
    /\ \A r \in Report : block[r] \in 0 .. head
    /\ ~interrupted => Readable

\* The editions in order, in the KV, in state.json and on the name, from any moment of a
\* publish-identity; the policy's record is ahead of state.json while it runs, and after it
\* was cut short.
Identity ==
    /\ Enrolled => nameOwner # Nobody
    /\ records.policy <= edition /\ records.soul <= edition
    /\ nameOwner # Me => records.policy = 0 /\ records.soul = 0
    /\ published.soul <= published.policy
    /\ published.policy <= records.soul /\ published.policy <= records.policy
    /\ Readable =>
          /\ published.policy <= stateFile.identity
          /\ stateFile.identity # 0 =>
                stateFile.identity <= records.soul /\ records.soul <= records.policy
    /\ ~interrupted /\ stateFile.identity # 0 /\ tool.at \notin {"setSoul", "saveIdentity"}
         => records.policy = stateFile.identity

\* What is pinned was uploaded, and no report is disputed, so its decision written, again.
Reasoning ==
    /\ SeenHasReasoning
    /\ \A r \in Report : decision[r] = "pinned" => r \in uploads
    /\ Readable => hand \cap Seen = {}

\* The counters never fall behind the list, nor the published ones get ahead.
Counters ==
    Readable => /\ Len(stateFile.seen) <= stateFile.disputes
                /\ published.disputes <= stateFile.disputes

\* A dispute of the agent's own is counted, or is being saved.
OwnDisputes ==
    ~interrupted => \A r \in Report :
        disputer[r] = Me =>
            \/ r \in Seen
            \/ tool.at \in {"saveDecision", "saveDispute"} /\ tool.of = r

AgentTypes == TypeOK /\ UnderWay /\ Blocks
AgentInv ==
    /\ AgentTypes
    /\ Identity /\ Reasoning
    /\ Counters /\ PublishedDecisionIsCounted
    /\ OwnDisputes /\ NothingForgotten

-----------------------------------------------------------------------------
(***************************************************************************)
(* Sequences.                                                              *)
(***************************************************************************)
LEMMA AppendSet ==
    ASSUME NEW S, NEW s \in Seq(S), NEW r \in S
    PROVE  /\ Append(s, r) \in Seq(S)
           /\ Len(Append(s, r)) = Len(s) + 1
           /\ \A i \in 1 .. Len(s) : Append(s, r)[i] = s[i]
           /\ ToSet(Append(s, r)) = ToSet(s) \cup {r}
  <1>1. /\ Append(s, r) \in Seq(S)
        /\ Len(Append(s, r)) = Len(s) + 1
        /\ \A i \in 1 .. Len(s) : Append(s, r)[i] = s[i]
        /\ Append(s, r)[Len(s) + 1] = r
    OBVIOUS
  <1>2. DOMAIN s = 1 .. Len(s) /\ DOMAIN Append(s, r) = 1 .. Len(s) + 1 /\ Len(s) \in Nat
    BY <1>1
  <1>3. ASSUME NEW x \in ToSet(Append(s, r)) PROVE x \in ToSet(s) \cup {r}
    <2>1. PICK i \in 1 .. Len(s) + 1 : x = Append(s, r)[i]
      BY <1>2, <1>3 DEF ToSet
    <2>2. i \in 1 .. Len(s) \/ i = Len(s) + 1
      BY <1>2
    <2> QED
      BY <1>1, <1>2, <2>1, <2>2 DEF ToSet
  <1>4. ASSUME NEW x \in ToSet(s) PROVE x \in ToSet(Append(s, r))
    <2>1. PICK i \in 1 .. Len(s) : x = s[i]
      BY <1>2, <1>4 DEF ToSet
    <2>2. i \in 1 .. Len(s) + 1 /\ x = Append(s, r)[i]
      BY <1>1, <1>2, <2>1
    <2> QED
      BY <1>2, <2>2 DEF ToSet
  <1>5. r \in ToSet(Append(s, r))
    BY <1>1, <1>2 DEF ToSet
  <1> QED
    BY <1>1, <1>3, <1>4, <1>5

LEMMA SeenReports == TypeOK /\ Readable => Seen \subseteq Report
  <1> SUFFICES ASSUME TypeOK, Readable, NEW r \in Seen PROVE r \in Report
    OBVIOUS
  <1>1. stateFile.seen \in Seq(Report)
    BY DEF TypeOK, StateFiles
  <1>2. PICK i \in DOMAIN stateFile.seen : r = stateFile.seen[i]
    BY DEF Seen, ToSet
  <1> QED
    BY <1>1, <1>2

(***************************************************************************)
(* Steps that only move the tool.                                          *)
(***************************************************************************)
LEMMA ToolMoves ==
    ASSUME AgentInv, UnderWay', tool'.at \in Step,
           tool.at \notin {"saveDecision", "saveDispute", "setSoul", "saveIdentity"},
           UNCHANGED <<chainVars, accountVars, diskVars, hand, swarmVars, interrupted>>
    PROVE  AgentInv'
  <1> USE DEF swarmVars, chainVars, accountVars, diskVars, Readable, Enrolled, Seen
  <1>1. TypeOK'
    BY DEF AgentInv, AgentTypes, TypeOK
  <1>2. Blocks' /\ Identity' /\ Reasoning' /\ Counters'
    BY DEF AgentInv, AgentTypes, Blocks, Identity, Reasoning, SeenHasReasoning, Counters
  <1>3. PublishedDecisionIsCounted' /\ NothingForgotten'
    BY DEF AgentInv, PublishedDecisionIsCounted, NothingForgotten
  <1>4. OwnDisputes'
    BY DEF AgentInv, OwnDisputes
  <1> QED
    BY <1>1, <1>2, <1>3, <1>4 DEF AgentInv, AgentTypes

\* A tool starts, or sends its transaction.
Starts ==
    \/ GenWallet \/ CheckBalance \/ Enroll \/ SendEnrolment \/ PublishIdentity
    \/ Poll \/ Send \/ PublishStats
    \/ \E r \in Report : Dispute(r) \/ PinReasoning(r) \/ SetLastDecision(r)

LEMMA StartsStep == AgentInv /\ Starts => AgentInv'
  <1> SUFFICES ASSUME AgentInv, Starts PROVE AgentInv'
    OBVIOUS
  <1>1. UNCHANGED <<chainVars, accountVars, diskVars, hand, swarmVars, interrupted>>
    BY DEF Starts, GenWallet, CheckBalance, Enroll, SendEnrolment, PublishIdentity, Poll,
           Send, PublishStats, Dispute, PinReasoning, SetLastDecision
  <1>2. tool.at \notin {"saveDecision", "saveDispute", "setSoul", "saveIdentity"}
    BY DEF Starts, GenWallet, CheckBalance, Enroll, SendEnrolment, PublishIdentity, Poll,
           Send, PublishStats, Dispute, PinReasoning, SetLastDecision, Idle
  <1>3. tool'.at \in Step /\ UnderWay'
    <2> USE DEF swarmVars, AgentInv, AgentTypes, TypeOK, UnderWay, Readable, Enrolled, chainVars,
                accountVars, diskVars, Idle, Running, Step
    <2>1. CASE GenWallet
      BY <2>1, <1>1 DEF GenWallet
    <2>2. CASE CheckBalance
      BY <2>2, <1>1 DEF CheckBalance
    <2>3. CASE Enroll
      <3>1. edition \in Nat
        BY DEF AgentInv, AgentTypes, TypeOK
      <3>2. PICK p, q \in {edition, 0} :
                     tool' = [at |-> "enrollVerifier", of |-> [policy |-> p, soul |-> q]]
        BY <2>3 DEF Enroll, NoEdition, Running
      <3>3. /\ tool'.at = "enrollVerifier"
            /\ tool'.of.policy \in 0 .. edition /\ tool'.of.soul \in 0 .. edition
        BY <3>1, <3>2
      <3> QED
        BY <1>1, <3>3
    <2>4. CASE SendEnrolment
      BY <2>4, <1>1 DEF SendEnrolment
    <2>5. CASE PublishIdentity
      <3>1. edition \in 1 .. edition /\ records.policy <= edition /\ records.soul <= edition
        BY DEF Identity
      <3> QED
        BY <1>1, <2>5, <3>1 DEF PublishIdentity
    <2>6. CASE Poll
      BY <2>6, <1>1 DEF Poll
    <2>7. CASE Send
      BY <2>7, <1>1 DEF Send
    <2>8. CASE PublishStats
      BY <2>8, <1>1 DEF PublishStats
    <2>9. ASSUME NEW r \in Report, Dispute(r) \/ PinReasoning(r) \/ SetLastDecision(r)
          PROVE  tool'.at \in Step /\ UnderWay'
      BY <2>9, <1>1 DEF Dispute, PinReasoning, SetLastDecision
    <2> QED
      BY <2>1, <2>2, <2>3, <2>4, <2>5, <2>6, <2>7, <2>8, <2>9 DEF Starts
  <1> QED
    BY <1>1, <1>2, <1>3, ToolMoves

(***************************************************************************)
(* The chain, the rivals and the account.                                  *)
(***************************************************************************)
LEMMA ChainStepKeeps == AgentInv /\ ChainStep => AgentInv'
  <1> SUFFICES ASSUME AgentInv, ChainStep PROVE AgentInv'
    OBVIOUS
  <1> USE AgentAssumption
  <1> PICK r \in Report : Submit(r) \/ WindowCloses(r) \/ DisputedBy(r, Rival)
    BY DEF ChainStep
  <1>1. UNCHANGED <<accountVars, diskVars, tool, hand, swarmVars, interrupted>>
    BY DEF ChainStep
  <1>2. /\ head' \in Nat /\ head <= head'
        /\ status' \in [Report -> {"absent", "pending", "expired", "disputed"}]
        /\ block' \in [Report -> Nat]
        /\ \A q \in Report : block'[q] \in 0 .. head'
        /\ disputer' \in [Report -> {Nobody, Me, Rival}]
    <2>1. /\ head \in Nat
          /\ status \in [Report -> {"absent", "pending", "expired", "disputed"}]
          /\ block \in [Report -> Nat]
          /\ \A q \in Report : block[q] \in 0 .. head
          /\ disputer \in [Report -> {Nobody, Me, Rival}]
      BY DEF AgentInv, AgentTypes, TypeOK, Blocks
    <2>2. CASE Submit(r)
      BY <2>1, <2>2 DEF Submit
    <2>3. CASE WindowCloses(r)
      BY <2>1, <2>3 DEF WindowCloses
    <2>4. CASE DisputedBy(r, Rival)
      BY <2>1, <2>4 DEF DisputedBy
    <2> QED
      BY <2>2, <2>3, <2>4
  <1>3. /\ \A q \in Report : disputer'[q] = Me => disputer[q] = Me
        /\ \A q \in Report : status'[q] = "pending" =>
              \/ status[q] = "pending" /\ block'[q] = block[q]
              \/ block'[q] = head + 1
    BY DEF AgentInv, AgentTypes, TypeOK, Submit, WindowCloses, DisputedBy
  <1> USE DEF swarmVars, accountVars, diskVars, Readable, Enrolled, Seen
  <1>4. TypeOK'
    <2>1. Readable => stateFile.cursor <= head'
      BY <1>2 DEF AgentInv, AgentTypes, TypeOK, StateFiles
    <2> QED
      BY <1>1, <1>2, <2>1 DEF AgentInv, AgentTypes, TypeOK
  <1>5. UnderWay' /\ Blocks'
    <2>1. tool.at = "scan" => tool.of \in stateFile.cursor .. head'
      <3> SUFFICES ASSUME tool.at = "scan" PROVE tool.of \in stateFile.cursor .. head'
        OBVIOUS
      <3>1. Readable /\ tool.of \in stateFile.cursor .. head
        BY DEF AgentInv, AgentTypes, UnderWay
      <3>2. stateFile.cursor \in Nat /\ head \in Nat
        BY <3>1 DEF AgentInv, AgentTypes, TypeOK, StateFiles
      <3> QED
        BY <1>2, <3>1, <3>2
    <2> QED
      BY <1>1, <1>2, <2>1 DEF AgentInv, AgentTypes, UnderWay, Blocks, Idle
  <1>6. Identity' /\ Reasoning' /\ Counters' /\ PublishedDecisionIsCounted'
    BY <1>1 DEF AgentInv, Identity, Reasoning, SeenHasReasoning, Counters, PublishedDecisionIsCounted
  <1>7. OwnDisputes'
    BY <1>1, <1>3 DEF AgentInv, OwnDisputes
  <1>8. NothingForgotten'
    <2> SUFFICES ASSUME ~interrupted', NEW q \in Fake, status'[q] = "pending"
                 PROVE  q \in hand' \cup Seen' \/ block'[q] > stateFile'.cursor
      BY DEF NothingForgotten
    <2>1. Readable /\ stateFile.cursor \in 0 .. head /\ head \in Nat
      BY <1>1 DEF AgentInv, AgentTypes, Blocks, TypeOK, StateFiles
    <2>2. CASE status[q] = "pending" /\ block'[q] = block[q]
      BY <1>1, <2>2 DEF AgentInv, NothingForgotten
    <2>3. CASE block'[q] = head + 1
      BY <1>1, <2>1, <2>3
    <2> QED
      BY <1>3, <2>2, <2>3
  <1> QED
    BY <1>4, <1>5, <1>6, <1>7, <1>8 DEF AgentInv, AgentTypes

LEMMA RivalEnrolsKeeps == AgentInv /\ RivalEnrols => AgentInv'
  <1> SUFFICES ASSUME AgentInv, RivalEnrols PROVE AgentInv'
    OBVIOUS
  <1> USE AgentAssumption DEF swarmVars, chainVars, diskVars, Readable, Enrolled, Seen, RivalEnrols
  <1>1. TypeOK'
    BY DEF AgentInv, AgentTypes, TypeOK
  <1>2. UnderWay' /\ Blocks'
    BY DEF AgentInv, AgentTypes, UnderWay, Blocks, Idle
  <1>3. Identity' /\ Reasoning' /\ Counters'
    BY DEF AgentInv, Identity, Reasoning, SeenHasReasoning, Counters
  <1>4. PublishedDecisionIsCounted' /\ NothingForgotten' /\ OwnDisputes'
    BY DEF AgentInv, PublishedDecisionIsCounted, NothingForgotten, OwnDisputes
  <1> QED
    BY <1>1, <1>2, <1>3, <1>4 DEF AgentInv, AgentTypes

LEMMA FundKeeps == AgentInv /\ Fund => AgentInv'
  <1> SUFFICES ASSUME AgentInv, Fund PROVE AgentInv'
    OBVIOUS
  <1> USE DEF swarmVars, chainVars, diskVars, Readable, Enrolled, Seen, Fund
  <1>1. TypeOK'
    BY AgentAssumption DEF AgentInv, AgentTypes, TypeOK
  <1>2. UnderWay' /\ Blocks'
    BY DEF AgentInv, AgentTypes, UnderWay, Blocks, Idle
  <1>3. Identity' /\ Reasoning' /\ Counters'
    BY DEF AgentInv, Identity, Reasoning, SeenHasReasoning, Counters
  <1>4. PublishedDecisionIsCounted' /\ NothingForgotten' /\ OwnDisputes'
    BY DEF AgentInv, PublishedDecisionIsCounted, NothingForgotten, OwnDisputes
  <1> QED
    BY <1>1, <1>2, <1>3, <1>4 DEF AgentInv, AgentTypes

LEMMA EditIdentityKeeps == AgentInv /\ EditIdentity => AgentInv'
  <1> SUFFICES ASSUME AgentInv, EditIdentity PROVE AgentInv'
    OBVIOUS
  <1> USE AgentAssumption DEF swarmVars, chainVars, accountVars, Readable, Enrolled, Seen,
                              EditIdentity
  <1>1. /\ edition \in 1 .. Editions /\ edition' = edition + 1 /\ edition < Editions
        /\ records.policy \in Nat /\ records.soul \in Nat
    BY DEF AgentInv, AgentTypes, TypeOK
  <1>2. TypeOK'
    BY <1>1 DEF AgentInv, AgentTypes, TypeOK
  <1>3. UnderWay' /\ Blocks'
    <2>1. 0 .. edition \subseteq 0 .. edition' /\ 1 .. edition \subseteq 1 .. edition'
      BY <1>1
    <2> QED
      BY <2>1 DEF AgentInv, AgentTypes, UnderWay, Blocks, Idle
  <1>4. Identity'
    BY <1>1 DEF AgentInv, Identity
  <1>5. Reasoning' /\ Counters' /\ PublishedDecisionIsCounted'
    BY DEF AgentInv, Reasoning, SeenHasReasoning, Counters, PublishedDecisionIsCounted
  <1>6. NothingForgotten' /\ OwnDisputes'
    BY DEF AgentInv, NothingForgotten, OwnDisputes
  <1> QED
    BY <1>2, <1>3, <1>4, <1>5, <1>6 DEF AgentInv, AgentTypes

LEMMA ConfirmEnrolmentKeeps == AgentInv /\ ConfirmEnrolment => AgentInv'
  <1> SUFFICES ASSUME AgentInv, ConfirmEnrolment PROVE AgentInv'
    OBVIOUS
  <1> USE AgentAssumption DEF swarmVars, chainVars, diskVars, Readable, Enrolled, Seen
  <1>1. /\ UNCHANGED <<chainVars, funded, bonds, diskVars, hand, swarmVars, interrupted>>
        /\ tool.at = "confirmEnrolment" /\ tool' = Running("saveEnrolled", None)
        /\ nameOwner' \in {Me, Rival}
        /\ \/ UNCHANGED <<nameOwner, records>>
           \/ /\ nameOwner = Nobody /\ nameOwner' = Me
              /\ records' = [records EXCEPT !.policy = tool.of.policy, !.soul = tool.of.soul]
    BY DEF ConfirmEnrolment, Mint, AgentInv, AgentTypes, TypeOK
  <1>2. /\ records \in [policy : 0 .. Editions, soul : 0 .. Editions, last : Report \cup {None}]
        /\ edition \in 1 .. Editions
        /\ tool.of.policy \in 0 .. edition /\ tool.of.soul \in 0 .. edition
    BY <1>1 DEF AgentInv, AgentTypes, TypeOK, UnderWay
  <1>3. /\ records' \in [policy : 0 .. Editions, soul : 0 .. Editions, last : Report \cup {None}]
        /\ \/ UNCHANGED <<nameOwner, records>>
           \/ /\ nameOwner = Nobody /\ nameOwner' = Me
              /\ records'.policy \in 0 .. edition /\ records'.soul \in 0 .. edition
    <2>1. CASE UNCHANGED <<nameOwner, records>>
      BY <1>2, <2>1
    <2>2. CASE /\ nameOwner = Nobody /\ nameOwner' = Me
               /\ records' = [records EXCEPT !.policy = tool.of.policy, !.soul = tool.of.soul]
      <3> DEFINE half == [records EXCEPT !.policy = tool.of.policy]
      <3>1. /\ half \in [policy : 0 .. Editions, soul : 0 .. Editions, last : Report \cup {None}]
            /\ half.policy \in 0 .. edition
        BY <1>2
      <3>2. records' = [half EXCEPT !.soul = tool.of.soul]
        BY <1>2, <2>2
      <3> HIDE DEF half
      <3>3. /\ records' \in [policy : 0 .. Editions, soul : 0 .. Editions,
                              last : Report \cup {None}]
            /\ records'.policy = half.policy /\ records'.soul = tool.of.soul
        BY <1>2, <3>1, <3>2
      <3> QED
        BY <1>2, <2>2, <3>1, <3>3
    <2> QED
      BY <1>1, <2>1, <2>2
  <1>4. TypeOK'
    BY <1>1, <1>3 DEF AgentInv, AgentTypes, TypeOK, Step, Running
  <1>5. UnderWay' /\ Blocks'
    BY <1>1 DEF AgentInv, AgentTypes, UnderWay, Blocks, Running
  <1>6. Identity'
    <2>1. CASE UNCHANGED <<nameOwner, records>>
      BY <1>1, <2>1 DEF AgentInv, Identity
    <2>2. CASE /\ nameOwner = Nobody /\ nameOwner' = Me
               /\ records'.policy \in 0 .. edition /\ records'.soul \in 0 .. edition
      <3>1. /\ published.policy \in Nat /\ published.soul \in Nat
            /\ records'.policy \in Nat /\ records'.soul \in Nat /\ edition \in Nat
            /\ Readable => stateFile.identity \in Nat
            /\ ~interrupted => Readable
        BY <1>2, <2>2 DEF AgentInv, AgentTypes, TypeOK, StateFiles, Blocks
      <3>2. published.policy = 0 /\ (Readable => stateFile.identity = 0)
        BY <2>2, <3>1 DEF AgentInv, Identity
      <3> QED
        BY <1>1, <2>2, <3>1, <3>2 DEF AgentInv, Identity
    <2> QED
      BY <1>3, <2>1, <2>2
  <1>7. Reasoning' /\ Counters' /\ PublishedDecisionIsCounted'
    BY <1>1 DEF AgentInv, Reasoning, SeenHasReasoning, Counters, PublishedDecisionIsCounted
  <1>8. NothingForgotten' /\ OwnDisputes'
    BY <1>1 DEF AgentInv, NothingForgotten, OwnDisputes, Running
  <1> QED
    BY <1>4, <1>5, <1>6, <1>7, <1>8 DEF AgentInv, AgentTypes

\* The owner of the name writes its records: the policy's first, then the soul's.
LEMMA RecordsKeep == AgentInv /\ (SetPolicy \/ SetSoul \/ DecisionSet) => AgentInv'
  <1> SUFFICES ASSUME AgentInv, SetPolicy \/ SetSoul \/ DecisionSet PROVE AgentInv'
    OBVIOUS
  <1> USE AgentAssumption DEF swarmVars, chainVars, diskVars, Readable, Enrolled, Seen
  <1>1. /\ UNCHANGED <<chainVars, funded, bonds, nameOwner, diskVars, hand, swarmVars, interrupted>>
        /\ nameOwner = Me
    BY DEF SetPolicy, SetSoul, DecisionSet, SetText
  <1>2. /\ records \in [policy : 0 .. Editions, soul : 0 .. Editions, last : Report \cup {None}]
        /\ edition \in 1 .. Editions
        /\ records.policy \in Nat /\ records.soul \in Nat /\ edition \in Nat
    BY DEF AgentInv, AgentTypes, TypeOK
  <1>3. \/ /\ tool.at = "setPolicy" /\ tool' = Running("setSoul", tool.of)
           /\ tool.of \in 1 .. edition /\ records.policy <= tool.of /\ records.soul <= tool.of
           /\ records' = [records EXCEPT !.policy = tool.of]
        \/ /\ tool.at = "setSoul" /\ tool' = Running("saveIdentity", tool.of)
           /\ tool.of \in 1 .. edition /\ records.policy = tool.of /\ records.soul <= tool.of
           /\ records' = [records EXCEPT !.soul = tool.of]
        \/ /\ tool.at = "setDecision" /\ tool' = Idle
           /\ tool.of \in Report \cup {None}
           /\ records' = [records EXCEPT !.last = tool.of]
    BY DEF SetPolicy, SetSoul, DecisionSet, SetText, AgentInv, AgentTypes, UnderWay
  <1>4. records' \in [policy : 0 .. Editions, soul : 0 .. Editions, last : Report \cup {None}]
    BY <1>2, <1>3
  <1>5. /\ tool.at = "setPolicy" => records'.policy = tool.of /\ records'.soul = records.soul
        /\ tool.at = "setSoul" => records'.policy = tool.of /\ records'.soul = tool.of
        /\ tool.at = "setDecision"
             => records'.policy = records.policy /\ records'.soul = records.soul
    BY <1>2, <1>3
  <1>6. TypeOK'
    BY <1>1, <1>3, <1>4 DEF AgentInv, AgentTypes, TypeOK, Step, Running, Idle
  <1>7. UnderWay' /\ Blocks'
    BY <1>1, <1>2, <1>3, <1>5 DEF AgentInv, AgentTypes, UnderWay, Blocks, Idle, Running
  <1>8. Identity'
    <2>1. Readable => stateFile.identity \in Nat
      BY DEF AgentInv, AgentTypes, TypeOK, StateFiles
    <2>2. published.policy \in Nat /\ published.soul \in Nat
      BY DEF AgentInv, AgentTypes, TypeOK
    <2>3. ~interrupted => Readable
      BY DEF AgentInv, AgentTypes, Blocks
    <2>4. CASE tool.at = "setPolicy"
      BY <1>1, <1>2, <1>3, <1>5, <2>1, <2>2, <2>3, <2>4 DEF AgentInv, Identity, Running
    <2>5. CASE tool.at = "setSoul"
      BY <1>1, <1>2, <1>3, <1>5, <2>1, <2>2, <2>3, <2>5 DEF AgentInv, Identity, Running
    <2>6. CASE tool.at = "setDecision"
      BY <1>1, <1>2, <1>3, <1>5, <2>6 DEF AgentInv, Identity, Idle
    <2> QED
      BY <1>3, <2>4, <2>5, <2>6
  <1>9. Reasoning' /\ Counters' /\ PublishedDecisionIsCounted'
    BY <1>1 DEF AgentInv, Reasoning, SeenHasReasoning, Counters, PublishedDecisionIsCounted
  <1>10. NothingForgotten' /\ OwnDisputes'
    BY <1>1, <1>3 DEF AgentInv, NothingForgotten, OwnDisputes
  <1> QED
    BY <1>6, <1>7, <1>8, <1>9, <1>10 DEF AgentInv, AgentTypes

(***************************************************************************)
(* The agent's files.                                                      *)
(***************************************************************************)
LEMMA SaveWalletKeeps == AgentInv /\ SaveWallet => AgentInv'
  <1> SUFFICES ASSUME AgentInv, SaveWallet PROVE AgentInv'
    OBVIOUS
  <1> USE DEF swarmVars, chainVars, accountVars, Readable, Enrolled, Seen, SaveWallet
  <1>1. TypeOK'
    BY DEF AgentInv, AgentTypes, TypeOK, Step, Running
  <1>2. UnderWay' /\ Blocks'
    BY DEF AgentInv, AgentTypes, UnderWay, Blocks, Idle, Running
  <1>3. Identity' /\ Reasoning' /\ Counters'
    BY DEF AgentInv, Identity, Reasoning, SeenHasReasoning, Counters
  <1>4. PublishedDecisionIsCounted' /\ NothingForgotten' /\ OwnDisputes'
    BY DEF AgentInv, PublishedDecisionIsCounted, NothingForgotten, OwnDisputes, Running
  <1> QED
    BY <1>1, <1>2, <1>3, <1>4 DEF AgentInv, AgentTypes

\* A change of state.json that leaves the cursor, the list and the counter alone.
LEMMA SavesKeep ==
    AgentInv /\ (SaveAddress \/ SaveReady \/ SaveEnrolled \/ SaveIdentity) => AgentInv'
  <1> SUFFICES ASSUME AgentInv, SaveAddress \/ SaveReady \/ SaveEnrolled \/ SaveIdentity
               PROVE  AgentInv'
    OBVIOUS
  <1> USE DEF swarmVars, Enrolled, Seen
  <1>1. /\ Readable
        /\ UNCHANGED <<chainVars, accountVars, wallet, decision, edition, swarmVars, interrupted, hand>>
        /\ tool' = Idle
        /\ tool.at \notin {"saveDecision", "saveDispute", "setSoul"}
    BY DEF SaveAddress, SaveReady, SaveEnrolled, SaveIdentity, UpdateState
  <1>2. stateFile \in StateFiles /\ stateFile.cursor <= head
    BY <1>1 DEF AgentInv, AgentTypes, TypeOK
  <1>3. /\ stateFile' \in StateFiles
        /\ stateFile'.cursor = stateFile.cursor
        /\ stateFile'.seen = stateFile.seen
        /\ stateFile'.disputes = stateFile.disputes
    <2>1. CASE SaveAddress
      BY <1>2, <2>1 DEF StateFiles, SaveAddress, UpdateState
    <2>2. CASE SaveReady
      BY <1>2, <2>2 DEF StateFiles, SaveReady, UpdateState
    <2>3. CASE SaveEnrolled
      BY <1>2, <2>3 DEF StateFiles, SaveEnrolled, UpdateState
    <2>4. CASE SaveIdentity
      <3>1. tool.of \in 0 .. Editions
        BY <2>4, AgentAssumption DEF SaveIdentity, AgentInv, AgentTypes, TypeOK, UnderWay
      <3> QED
        BY <1>2, <2>4, <3>1 DEF StateFiles, SaveIdentity, UpdateState
    <2> QED
      BY <2>1, <2>2, <2>3, <2>4
  <1>4. /\ stateFile'.phase = "running" => stateFile.phase = "running" \/ tool.at = "saveEnrolled"
        /\ \/ stateFile'.identity = stateFile.identity /\ tool.at # "saveIdentity"
           \/ stateFile'.identity = tool.of /\ tool.at = "saveIdentity"
    BY <1>2 DEF StateFiles, SaveAddress, SaveReady, SaveEnrolled, SaveIdentity, UpdateState
  <1> USE AgentAssumption DEF swarmVars, chainVars, accountVars, Readable
  <1>5. TypeOK'
    BY <1>1, <1>2, <1>3 DEF AgentInv, AgentTypes, TypeOK, Step, Idle
  <1>6. UnderWay' /\ Blocks'
    BY <1>1, <1>3 DEF AgentInv, AgentTypes, UnderWay, Blocks, Idle
  <1>7. Identity'
    <2>1. /\ stateFile.identity \in Nat /\ published.policy \in Nat /\ published.soul \in Nat
          /\ records.policy \in Nat /\ records.soul \in Nat
      BY <1>2 DEF AgentInv, AgentTypes, TypeOK, StateFiles
    <2>2. Enrolled' => nameOwner # Nobody
      BY <1>1, <1>4 DEF AgentInv, AgentTypes, UnderWay, Identity
    <2>3. CASE stateFile'.identity = stateFile.identity /\ tool.at # "saveIdentity"
      BY <1>1, <2>2, <2>3 DEF AgentInv, Identity
    <2>4. CASE stateFile'.identity = tool.of /\ tool.at = "saveIdentity"
      <3>1. records.policy = tool.of /\ records.soul = tool.of
        BY <2>4 DEF AgentInv, AgentTypes, UnderWay
      <3> QED
        BY <1>1, <2>1, <2>2, <2>4, <3>1 DEF AgentInv, Identity
    <2> QED
      BY <1>4, <2>3, <2>4
  <1>8. Reasoning' /\ Counters'
    BY <1>1, <1>3 DEF AgentInv, Reasoning, SeenHasReasoning, Counters
  <1>9. PublishedDecisionIsCounted' /\ NothingForgotten' /\ OwnDisputes'
    BY <1>1, <1>3 DEF AgentInv, PublishedDecisionIsCounted, NothingForgotten, OwnDisputes
  <1> QED
    BY <1>5, <1>6, <1>7, <1>8, <1>9 DEF AgentInv, AgentTypes

\* The decision file is written once, before its report is listed; it is written again
\* with its reference after the upload.
LEMMA DecisionsKeep == AgentInv /\ (SaveDecision \/ SavePin) => AgentInv'
  <1> SUFFICES ASSUME AgentInv, SaveDecision \/ SavePin PROVE AgentInv'
    OBVIOUS
  <1> USE DEF swarmVars, chainVars, accountVars, Readable, Enrolled, Seen
  <1>1. /\ UNCHANGED <<chainVars, accountVars, wallet, stateFile, edition, hand, swarmVars,
                       interrupted>>
        /\ tool.of \in Report
        /\ \/ /\ tool.at = "saveDecision" /\ tool' = Running("saveDispute", tool.of)
              /\ decision' = [decision EXCEPT ![tool.of] = "written"]
           \/ /\ tool.at = "savePin" /\ tool' = Idle /\ tool.of \in uploads
              /\ decision' = [decision EXCEPT ![tool.of] = "pinned"]
    BY DEF SaveDecision, SavePin, AgentInv, AgentTypes, TypeOK, UnderWay
  <1>2. decision \in [Report -> {"none", "torn", "written", "pinned"}]
    BY DEF AgentInv, AgentTypes, TypeOK
  <1>3. /\ decision' \in [Report -> {"none", "torn", "written", "pinned"}]
        /\ \A r \in Report : decision'[r] = decision[r] \/ decision'[r] \in {"written", "pinned"}
        /\ \A r \in Report : decision'[r] = "pinned" => decision[r] = "pinned" \/ r \in uploads
        /\ tool'.at = "saveDispute" => decision'[tool'.of] = "written"
    BY <1>1, <1>2 DEF Running, Idle
  <1>4. TypeOK'
    BY <1>1, <1>3 DEF AgentInv, AgentTypes, TypeOK, Step, Idle, Running
  <1>5. UnderWay' /\ Blocks'
    BY <1>1, <1>3 DEF AgentInv, AgentTypes, UnderWay, Blocks, Idle, Running
  <1>6. Identity' /\ Counters' /\ PublishedDecisionIsCounted' /\ NothingForgotten'
    <2>1. tool.at \notin {"setSoul", "saveIdentity"}
      BY <1>1
    <2> QED
      BY <1>1, <2>1 DEF AgentInv, Identity, Counters, PublishedDecisionIsCounted, NothingForgotten
  <1>7. Reasoning'
    <2>1. ASSUME Readable', NEW r \in Seen'
          PROVE  decision'[r] \in {"written", "pinned"} \/ r \in uploads'
      <3>1. r \in Seen /\ (decision[r] \in {"written", "pinned"} \/ r \in uploads)
        BY <1>1, <2>1 DEF AgentInv, Reasoning, SeenHasReasoning
      <3>2. r \in Report
        BY <1>1, <2>1, <3>1, SeenReports DEF AgentInv, AgentTypes
      <3> QED
        BY <1>1, <1>3, <3>1, <3>2
    <2>2. (Readable => hand \cap Seen = {})' /\ (published.last # None => published.last \in uploads)'
      BY <1>1 DEF AgentInv, Reasoning, SeenHasReasoning
    <2>3. \A r \in Report : decision'[r] = "pinned" => r \in uploads'
      BY <1>1, <1>3 DEF AgentInv, Reasoning
    <2> QED
      BY <2>1, <2>2, <2>3 DEF Reasoning, SeenHasReasoning
  <1>8. OwnDisputes'
    BY <1>1 DEF AgentInv, OwnDisputes, Running
  <1> QED
    BY <1>4, <1>5, <1>6, <1>7, <1>8 DEF AgentInv, AgentTypes

LEMMA UploadKeeps == AgentInv /\ Upload => AgentInv'
  <1> SUFFICES ASSUME AgentInv, Upload PROVE AgentInv'
    OBVIOUS
  <1> USE DEF chainVars, accountVars, diskVars, Readable, Enrolled, Seen
  <1>1. /\ UNCHANGED <<chainVars, accountVars, diskVars, hand, published, interrupted>>
        /\ tool.at = "upload" /\ tool' = Running("savePin", tool.of)
        /\ uploads' = uploads \cup {tool.of} /\ tool.of \in Report
    BY DEF Upload, AgentInv, AgentTypes, UnderWay
  <1>2. TypeOK'
    BY <1>1 DEF AgentInv, AgentTypes, TypeOK, Step, Running
  <1>3. UnderWay' /\ Blocks'
    BY <1>1 DEF AgentInv, AgentTypes, UnderWay, Blocks, Running
  <1>4. Identity' /\ Counters' /\ PublishedDecisionIsCounted'
    BY <1>1 DEF AgentInv, Identity, Counters, PublishedDecisionIsCounted
  <1>5. Reasoning' /\ NothingForgotten' /\ OwnDisputes'
    BY <1>1 DEF AgentInv, Reasoning, SeenHasReasoning, NothingForgotten, OwnDisputes
  <1> QED
    BY <1>2, <1>3, <1>4, <1>5 DEF AgentInv, AgentTypes

(***************************************************************************)
(* The tick.                                                               *)
(***************************************************************************)

\* The cursor moves past no report that could be disputed: it is in hand now.
LEMMA ScanKeeps == AgentInv /\ Scan => AgentInv'
  <1> SUFFICES ASSUME AgentInv, Scan PROVE AgentInv'
    OBVIOUS
  <1>1. /\ Readable /\ tool.at = "scan" /\ tool' = Idle
        /\ UNCHANGED <<chainVars, accountVars, wallet, decision, edition, swarmVars, interrupted>>
        /\ hand' = Candidates(stateFile.cursor + 1, tool.of)
        /\ stateFile' = [stateFile EXCEPT !.cursor = tool.of]
    BY DEF Scan, UpdateState
  <1>2. /\ stateFile \in StateFiles
        /\ stateFile.cursor \in Nat /\ head \in Nat
        /\ tool.of \in stateFile.cursor .. head /\ hand = {}
    BY <1>1 DEF AgentInv, AgentTypes, TypeOK, UnderWay, StateFiles
  <1>3. /\ stateFile' \in StateFiles
        /\ stateFile'.cursor = tool.of
        /\ stateFile'.phase = stateFile.phase
        /\ stateFile'.seen = stateFile.seen
        /\ stateFile'.disputes = stateFile.disputes
        /\ stateFile'.identity = stateFile.identity
    BY <1>1, <1>2 DEF StateFiles
  <1>4. hand' \subseteq Report
    BY <1>1 DEF Candidates
  <1>5. Reasoning'
    <2>1. hand' \cap Seen' = {}
      BY <1>1, <1>3 DEF Candidates, Seen
    <2> QED
      BY <1>1, <1>3, <2>1 DEF AgentInv, Reasoning, SeenHasReasoning, Seen, Readable, swarmVars
  <1> USE AgentAssumption DEF swarmVars, chainVars, accountVars, Readable, Enrolled, Seen
  <1>6. TypeOK'
    BY <1>1, <1>2, <1>3, <1>4 DEF AgentInv, AgentTypes, TypeOK, Step, Idle
  <1>7. UnderWay' /\ Blocks'
    BY <1>1, <1>3 DEF AgentInv, AgentTypes, UnderWay, Blocks, Idle
  <1>8. Identity' /\ Counters'
    BY <1>1, <1>3 DEF AgentInv, Identity, Counters
  <1>9. PublishedDecisionIsCounted' /\ OwnDisputes'
    BY <1>1, <1>3 DEF AgentInv, PublishedDecisionIsCounted, OwnDisputes
  <1>10. NothingForgotten'
    <2> SUFFICES ASSUME ~interrupted', NEW r \in Fake, status'[r] = "pending",
                        r \notin Seen', ~(block'[r] > stateFile'.cursor)
                 PROVE  r \in hand'
      BY DEF NothingForgotten
    <2>1. r \in Report /\ block[r] \in 0 .. head
      BY DEF AgentInv, AgentTypes, Blocks
    <2>2. block[r] > stateFile.cursor
      BY <1>1, <1>2, <1>3 DEF AgentInv, NothingForgotten
    <2>3. block[r] \in stateFile.cursor + 1 .. tool.of
      BY <1>1, <1>2, <1>3, <2>1, <2>2
    <2> QED
      BY <1>1, <1>3, <2>1, <2>3 DEF Candidates
  <1> QED
    BY <1>5, <1>6, <1>7, <1>8, <1>9, <1>10 DEF AgentInv, AgentTypes

LEMMA TickKeeps == AgentInv /\ (\E r \in Report : Dismiss(r) \/ Skip(r)) => AgentInv'
  <1> SUFFICES ASSUME AgentInv, NEW r \in Report, Dismiss(r) \/ Skip(r) PROVE AgentInv'
    OBVIOUS
  <1> USE DEF swarmVars, chainVars, accountVars, diskVars, Readable, Enrolled, Seen
  <1>1. /\ UNCHANGED <<chainVars, accountVars, diskVars, tool, swarmVars>>
        /\ hand' = hand \ {r} /\ tool = Idle
        /\ r \notin Fake \/ interrupted'
        /\ interrupted' \in BOOLEAN
        /\ interrupted => interrupted'
    BY DEF Dismiss, Skip, AgentInv, AgentTypes, TypeOK
  <1>2. TypeOK'
    BY <1>1 DEF AgentInv, AgentTypes, TypeOK
  <1>3. UnderWay' /\ Blocks'
    BY <1>1 DEF AgentInv, AgentTypes, UnderWay, Blocks, Idle
  <1>4. Identity' /\ Reasoning' /\ Counters' /\ PublishedDecisionIsCounted'
    BY <1>1 DEF AgentInv, Identity, Reasoning, SeenHasReasoning, Counters, PublishedDecisionIsCounted
  <1>5. OwnDisputes' /\ NothingForgotten'
    BY <1>1 DEF AgentInv, OwnDisputes, NothingForgotten
  <1> QED
    BY <1>2, <1>3, <1>4, <1>5 DEF AgentInv, AgentTypes

\* The bond is posted; from here to SaveDispute the dispute is known to the tool alone.
LEMMA ConfirmKeeps == AgentInv /\ Confirm => AgentInv'
  <1> SUFFICES ASSUME AgentInv, Confirm PROVE AgentInv'
    OBVIOUS
  <1> USE AgentAssumption
  <1>1. /\ tool.at = "confirm" /\ tool.of \in Report
        /\ tool' = Running("saveDecision", tool.of)
        /\ UNCHANGED <<head, block, funded, nameOwner, records, diskVars, hand, swarmVars, interrupted>>
    BY DEF Confirm, AgentInv, AgentTypes, TypeOK, UnderWay, DisputedBy, chainVars
  <1>2. /\ status' \in [Report -> {"absent", "pending", "expired", "disputed"}]
        /\ disputer' \in [Report -> {Nobody, Me, Rival}]
        /\ bonds' \in 0 .. Bonds
        /\ \A r \in Report : status'[r] = "pending" => status[r] = "pending"
        /\ \A r \in Report : disputer'[r] = Me => disputer[r] = Me \/ r = tool.of
    <2>1. /\ status \in [Report -> {"absent", "pending", "expired", "disputed"}]
          /\ disputer \in [Report -> {Nobody, Me, Rival}]
          /\ bonds \in 0 .. Bonds
      BY DEF AgentInv, AgentTypes, TypeOK
    <2>2. CASE CanDispute(tool.of)
      BY <1>1, <2>1, <2>2 DEF Confirm, CanDispute, DisputedBy
    <2>3. CASE ~CanDispute(tool.of)
      BY <1>1, <2>1, <2>3 DEF Confirm, chainVars
    <2> QED
      BY <2>2, <2>3
  <1> USE DEF swarmVars, diskVars, Readable, Enrolled, Seen
  <1>3. TypeOK'
    BY <1>1, <1>2 DEF AgentInv, AgentTypes, TypeOK, Step, Running
  <1>4. UnderWay' /\ Blocks'
    BY <1>1 DEF AgentInv, AgentTypes, UnderWay, Blocks, Running
  <1>5. Identity' /\ Reasoning' /\ Counters' /\ PublishedDecisionIsCounted'
    BY <1>1 DEF AgentInv, Identity, Reasoning, SeenHasReasoning, Counters, PublishedDecisionIsCounted
  <1>6. NothingForgotten'
    BY <1>1, <1>2 DEF AgentInv, NothingForgotten
  <1>7. OwnDisputes'
    BY <1>1, <1>2 DEF AgentInv, OwnDisputes, Running
  <1> QED
    BY <1>3, <1>4, <1>5, <1>6, <1>7 DEF AgentInv, AgentTypes

\* The dispute is counted with its report listed: the list grows at its end only.
LEMMA SaveDisputeKeeps == AgentInv /\ SaveDispute => AgentInv'
  <1> SUFFICES ASSUME AgentInv, SaveDispute PROVE AgentInv'
    OBVIOUS
  <1> DEFINE seen == stateFile.seen
             new == IF tool.of \in Seen THEN seen ELSE Append(seen, tool.of)
  <1>1. /\ Readable /\ tool.at = "saveDispute" /\ tool' = Idle
        /\ UNCHANGED <<chainVars, accountVars, wallet, decision, edition, swarmVars, interrupted>>
        /\ hand' = hand \ {tool.of}
        /\ stateFile' = [stateFile EXCEPT !.seen = new, !.disputes = @ + 1]
    BY DEF SaveDispute, UpdateState
  <1>2. /\ stateFile \in StateFiles /\ seen \in Seq(Report) /\ Len(seen) \in Nat
        /\ stateFile.disputes \in Nat /\ published.disputes \in Nat
        /\ tool.of \in Report /\ decision[tool.of] = "written"
        /\ Len(seen) <= stateFile.disputes /\ published.disputes <= stateFile.disputes
    BY <1>1 DEF AgentInv, AgentTypes, TypeOK, UnderWay, Counters, StateFiles
  <1>3. /\ new \in Seq(Report)
        /\ Len(new) \in Len(seen) .. Len(seen) + 1
        /\ \A i \in 1 .. Len(seen) : new[i] = seen[i]
        /\ ToSet(new) = ToSet(seen) \cup {tool.of}
    <2>1. CASE tool.of \in Seen
      BY <1>2, <2>1 DEF Seen
    <2>2. CASE tool.of \notin Seen
      BY <1>2, <2>2, AppendSet
    <2> QED
      BY <2>1, <2>2
  <1> HIDE DEF new
  <1>4. /\ stateFile' \in StateFiles
        /\ stateFile'.cursor = stateFile.cursor
        /\ stateFile'.phase = stateFile.phase
        /\ stateFile'.seen = new
        /\ stateFile'.disputes = stateFile.disputes + 1
        /\ stateFile'.identity = stateFile.identity
    <2> DEFINE listed == [stateFile EXCEPT !.seen = new]
    <2>1. /\ listed \in StateFiles
          /\ listed.cursor = stateFile.cursor
          /\ listed.phase = stateFile.phase
          /\ listed.seen = new
          /\ listed.disputes = stateFile.disputes
          /\ listed.identity = stateFile.identity
      BY <1>2, <1>3 DEF StateFiles
    <2>2. stateFile' = [listed EXCEPT !.disputes = stateFile.disputes + 1]
      BY <1>1, <1>2, <1>3 DEF StateFiles
    <2> HIDE DEF listed
    <2> QED
      BY <1>2, <2>1, <2>2 DEF StateFiles
  <1>5. Seen' = Seen \cup {tool.of}
    BY <1>3, <1>4 DEF Seen
  <1> USE AgentAssumption DEF swarmVars, chainVars, accountVars, Readable, Enrolled
  <1>6. TypeOK'
    BY <1>1, <1>2, <1>4 DEF AgentInv, AgentTypes, TypeOK, Step, Idle
  <1>7. UnderWay' /\ Blocks'
    BY <1>1, <1>4 DEF AgentInv, AgentTypes, UnderWay, Blocks, Idle
  <1>8. Identity' /\ Reasoning'
    BY <1>1, <1>2, <1>4, <1>5 DEF AgentInv, Identity, Reasoning, SeenHasReasoning
  <1>9. Counters'
    BY <1>1, <1>2, <1>3, <1>4 DEF Counters
  <1>10. PublishedDecisionIsCounted'
    <2> SUFFICES ASSUME published.last # None
                 PROVE  \E i \in 1 .. published.disputes : i <= Len(new) /\ new[i] = published.last
      BY <1>1, <1>4 DEF PublishedDecisionIsCounted
    <2>1. PICK i \in 1 .. published.disputes : i <= Len(seen) /\ seen[i] = published.last
      BY <1>1 DEF AgentInv, PublishedDecisionIsCounted
    <2> QED
      BY <1>2, <1>3, <2>1
  <1>11. NothingForgotten' /\ OwnDisputes'
    BY <1>1, <1>4, <1>5 DEF AgentInv, NothingForgotten, OwnDisputes
  <1> QED
    BY <1>6, <1>7, <1>8, <1>9, <1>10, <1>11 DEF AgentInv, AgentTypes

\* publish-stats puts the counters first, then the edition in state.json, which the records
\* have, and the last of the list when the counters are there.
LEMMA PutsKeep == AgentInv /\ (PutStats \/ PutPolicy \/ PutSoul \/ PutDecision) => AgentInv'
  <1> SUFFICES ASSUME AgentInv, PutStats \/ PutPolicy \/ PutSoul \/ PutDecision PROVE AgentInv'
    OBVIOUS
  <1>1. /\ tool.at \in {"putStats", "putPolicy", "putSoul", "putDecision"} /\ Readable
        /\ UNCHANGED <<chainVars, accountVars, diskVars, hand, uploads, interrupted>>
    BY DEF PutStats, PutPolicy, PutSoul, PutDecision, AgentInv, AgentTypes, UnderWay
  <1>2. /\ stateFile.seen \in Seq(Report) /\ Len(stateFile.seen) \in Nat
        /\ stateFile.disputes \in Nat /\ published.disputes \in Nat
        /\ stateFile.identity \in 0 .. Editions
        /\ published \in [disputes : Nat, policy : 0 .. Editions, soul : 0 .. Editions,
                          last : Report \cup {None}]
        /\ Len(stateFile.seen) <= stateFile.disputes
        /\ published.disputes <= stateFile.disputes
    BY <1>1 DEF AgentInv, AgentTypes, TypeOK, Counters, StateFiles
  <1>3. /\ published' \in [disputes : Nat, policy : 0 .. Editions, soul : 0 .. Editions,
                           last : Report \cup {None}]
        /\ published'.disputes = IF tool.at = "putStats" THEN stateFile.disputes
                                                         ELSE published.disputes
        /\ published'.policy = IF tool.at = "putPolicy" THEN stateFile.identity
                                                        ELSE published.policy
        /\ published'.soul = IF tool.at = "putSoul" THEN stateFile.identity ELSE published.soul
        /\ published'.last # published.last =>
              /\ tool.at = "putDecision"
              /\ Len(stateFile.seen) > 0
              /\ published'.last = stateFile.seen[Len(stateFile.seen)]
              /\ decision[published'.last] = "pinned"
    <2>1. CASE PutStats
      BY <1>2, <2>1 DEF PutStats
    <2>2. CASE PutPolicy
      BY <1>2, <2>2 DEF PutPolicy
    <2>3. CASE PutSoul
      BY <1>2, <2>3 DEF PutSoul
    <2>4. CASE PutDecision
      BY <1>2, <2>4 DEF PutDecision, Last
    <2> QED
      BY <2>1, <2>2, <2>3, <2>4
  <1>4. /\ tool'.at \in {"putPolicy", "putSoul", "putDecision", "idle"}
        /\ tool'.at = "idle" => tool' = Idle
        /\ tool'.at \in {"putPolicy", "putSoul", "putDecision"}
             => published'.disputes = stateFile.disputes
        /\ tool'.at = "putSoul" => tool.at = "putPolicy"
    <2>1. CASE PutStats
      BY <1>3, <2>1 DEF PutStats, Running
    <2>2. CASE PutPolicy \/ PutSoul
      BY <1>3, <2>2 DEF PutPolicy, PutSoul, Running, AgentInv, AgentTypes, UnderWay
    <2>3. CASE PutDecision
      BY <2>3 DEF PutDecision, Idle
    <2> QED
      BY <2>1, <2>2, <2>3
  <1> USE DEF chainVars, accountVars, diskVars, Readable, Enrolled, Seen
  <1>5. TypeOK'
    BY <1>1, <1>3, <1>4 DEF AgentInv, AgentTypes, TypeOK, Step
  <1>6. UnderWay' /\ Blocks'
    BY <1>1, <1>3, <1>4 DEF AgentInv, AgentTypes, UnderWay, Blocks, Idle
  <1>7. Identity'
    <2>1. /\ stateFile.identity \in Nat /\ published.policy \in Nat /\ published.soul \in Nat
          /\ records.policy \in Nat /\ records.soul \in Nat
      BY <1>2, AgentAssumption DEF AgentInv, AgentTypes, TypeOK
    <2>2. /\ published.policy <= stateFile.identity
          /\ tool.at = "putSoul" => published.policy = stateFile.identity
      BY <1>1 DEF AgentInv, AgentTypes, UnderWay, Identity
    <2>3. stateFile.identity <= records.soul /\ stateFile.identity <= records.policy
      BY <1>1, <2>1 DEF AgentInv, Identity
    <2>4. /\ published'.soul <= published'.policy
          /\ published'.policy <= stateFile.identity
      BY <1>3, <2>1, <2>2 DEF AgentInv, Identity
    <2>5. published'.policy \in Nat
      BY <1>3, <2>1
    <2>6. published'.policy <= records.soul /\ published'.policy <= records.policy
      BY <2>1, <2>3, <2>4, <2>5
    <2>7. tool.at \notin {"setSoul", "saveIdentity"}
      BY <1>1
    <2> QED
      BY <1>1, <2>4, <2>6, <2>7 DEF AgentInv, Identity
  <1>8. Reasoning'
    BY <1>1, <1>2, <1>3 DEF AgentInv, Reasoning, SeenHasReasoning
  <1>9. NothingForgotten' /\ Counters'
    BY <1>1, <1>2, <1>3 DEF AgentInv, NothingForgotten, Counters
  <1>10. PublishedDecisionIsCounted'
    <2> SUFFICES ASSUME published'.last # None
                 PROVE  \E i \in 1 .. published'.disputes :
                            i <= Len(stateFile.seen) /\ stateFile.seen[i] = published'.last
      BY <1>1 DEF PublishedDecisionIsCounted
    <2>1. published'.disputes \in Nat /\ published.disputes <= published'.disputes
      BY <1>2, <1>3
    <2>2. CASE published'.last = published.last
      <3>1. PICK i \in 1 .. published.disputes :
                     i <= Len(stateFile.seen) /\ stateFile.seen[i] = published.last
        BY <1>1, <2>2 DEF AgentInv, PublishedDecisionIsCounted
      <3> QED
        BY <1>2, <2>1, <2>2, <3>1
    <2>3. CASE published'.last # published.last
      <3>1. published'.disputes = stateFile.disputes
        BY <1>3, <2>3 DEF AgentInv, AgentTypes, UnderWay
      <3>2. Len(stateFile.seen) \in 1 .. published'.disputes
        BY <1>2, <1>3, <2>1, <2>3, <3>1
      <3> QED
        BY <1>2, <1>3, <2>3, <3>2
    <2> QED
      BY <2>2, <2>3
  <1>11. OwnDisputes'
    BY <1>1 DEF AgentInv, OwnDisputes
  <1> QED
    BY <1>5, <1>6, <1>7, <1>8, <1>9, <1>10, <1>11 DEF AgentInv, AgentTypes

\* What is cut short is on record, and no file is torn unless something is cut short.  A
\* decision file is torn before its report is listed, or after its upload.
LEMMA StopKeeps == AgentInv /\ (Interrupt \/ Tear) => AgentInv'
  <1> SUFFICES ASSUME AgentInv, Interrupt \/ Tear PROVE AgentInv'
    OBVIOUS
  <1>1. /\ tool' = Idle /\ hand' = {} /\ interrupted'
        /\ interrupted' \in BOOLEAN
        /\ UNCHANGED <<chainVars, accountVars, edition, swarmVars>>
    BY DEF Interrupt, Tear, Stop
  <1>2. /\ wallet' \in {wallet, Torn}
        /\ stateFile' \in {stateFile, Torn}
        /\ \/ decision' = decision
           \/ /\ decision' = [decision EXCEPT ![tool.of] = "torn"]
              /\ tool.at \in {"saveDecision", "savePin"}
    BY DEF Interrupt, Tear
  <1>3. /\ decision' \in [Report -> {"none", "torn", "written", "pinned"}]
        /\ \A r \in Report :
              decision'[r] = decision[r]
              \/ /\ decision'[r] = "torn" /\ tool.of = r
                 /\ tool.at \in {"saveDecision", "savePin"}
    BY <1>2 DEF AgentInv, AgentTypes, TypeOK
  <1> USE DEF swarmVars, chainVars, accountVars, Readable, Enrolled
  <1>4. TypeOK'
    BY <1>1, <1>2, <1>3 DEF AgentInv, AgentTypes, TypeOK, Step, Idle
  <1>5. UnderWay' /\ Blocks'
    BY <1>1 DEF AgentInv, AgentTypes, UnderWay, Blocks, Idle
  <1>6. Identity' /\ Counters' /\ PublishedDecisionIsCounted'
    BY <1>1, <1>2 DEF AgentInv, Identity, Counters, PublishedDecisionIsCounted
  <1>7. Reasoning'
    <2>1. ASSUME Readable', NEW r \in Seen'
          PROVE  decision'[r] \in {"written", "pinned"} \/ r \in uploads'
      <3>1. /\ Readable /\ r \in Seen
            /\ decision[r] \in {"written", "pinned"} \/ r \in uploads
        BY <1>2, <2>1 DEF Seen, AgentInv, Reasoning, SeenHasReasoning
      <3>2. r \in Report
        BY <3>1, SeenReports DEF AgentInv, AgentTypes
      <3>3. CASE decision'[r] = decision[r]
        BY <1>1, <3>1, <3>3
      <3>4. CASE tool.of = r /\ tool.at = "saveDecision"
        BY <3>1, <3>4 DEF AgentInv, AgentTypes, UnderWay, Reasoning
      <3>5. CASE tool.of = r /\ tool.at = "savePin"
        BY <1>1, <3>5 DEF AgentInv, AgentTypes, UnderWay
      <3> QED
        BY <1>3, <3>2, <3>3, <3>4, <3>5
    <2>2. \A r \in Report : decision'[r] = "pinned" => r \in uploads'
      BY <1>1, <1>3 DEF AgentInv, Reasoning
    <2>3. published'.last # None => published'.last \in uploads'
      BY <1>1 DEF AgentInv, Reasoning, SeenHasReasoning
    <2> QED
      BY <1>1, <2>1, <2>2, <2>3 DEF Reasoning, SeenHasReasoning
  <1>8. OwnDisputes' /\ NothingForgotten'
    BY <1>1 DEF OwnDisputes, NothingForgotten
  <1> QED
    BY <1>4, <1>5, <1>6, <1>7, <1>8 DEF AgentInv, AgentTypes

-----------------------------------------------------------------------------
(***************************************************************************)
(* The theorems.                                                           *)
(***************************************************************************)
LEMMA AgentInit == Init => AgentInv
  <1> SUFFICES ASSUME Init PROVE AgentInv
    OBVIOUS
  <1>1. /\ DefaultState \in StateFiles
        /\ DefaultState.cursor = 0 /\ DefaultState.phase = "init" /\ DefaultState.identity = 0
        /\ DefaultState.seen = <<>> /\ DefaultState.disputes = 0
        /\ ToSet(<<>>) = {} /\ Len(<<>>) = 0
    BY AgentAssumption DEF StateFiles, DefaultState, ToSet, NoEdition
  <1>2. stateFile = DefaultState /\ Readable
    BY <1>1, AgentAssumption DEF Init, Readable
  <1> USE AgentAssumption DEF swarmVars, Init, Enrolled, Idle
  <1>3. TypeOK
    <2>1. /\ status \in [Report -> {"absent", "pending", "expired", "disputed"}]
          /\ block \in [Report -> Nat] /\ head \in Nat
          /\ disputer \in [Report -> {Nobody, Me, Rival}]
          /\ bonds \in 0 .. Bonds
      OBVIOUS
    <2>2. /\ records \in [policy : 0 .. Editions, soul : 0 .. Editions,
                          last : Report \cup {None}]
          /\ published \in [disputes : Nat, policy : 0 .. Editions, soul : 0 .. Editions,
                            last : Report \cup {None}]
          /\ decision \in [Report -> {"none", "torn", "written", "pinned"}]
          /\ edition \in 1 .. Editions /\ uploads \subseteq Report
      BY DEF NoEdition
    <2>3. /\ nameOwner \in {Nobody, Me, Rival} /\ wallet \in {"none", "key"}
          /\ funded \in BOOLEAN /\ interrupted \in BOOLEAN
          /\ tool.at \in Step /\ hand \subseteq Report
      BY DEF Step
    <2>4. stateFile \in StateFiles /\ stateFile.cursor <= head
      BY <1>1, <1>2
    <2> QED
      BY <2>1, <2>2, <2>3, <2>4 DEF TypeOK
  <1>4. UnderWay /\ Blocks
    BY <1>1, <1>2 DEF UnderWay, Blocks
  <1>5. Identity /\ Reasoning /\ Counters /\ PublishedDecisionIsCounted
    BY <1>1, <1>2 DEF Identity, Reasoning, SeenHasReasoning, Counters, PublishedDecisionIsCounted,
                      Seen, NoEdition
  <1>6. OwnDisputes /\ NothingForgotten
    BY <1>1, <1>2 DEF OwnDisputes, NothingForgotten
  <1> QED
    BY <1>3, <1>4, <1>5, <1>6 DEF AgentInv, AgentTypes

LEMMA AgentStutters == AgentInv /\ UNCHANGED agentVars => AgentInv'
  <1> SUFFICES ASSUME AgentInv, UNCHANGED agentVars PROVE AgentInv'
    OBVIOUS
  <1> USE DEF swarmVars, agentVars, chainVars, accountVars, diskVars, Readable, Enrolled, Seen
  <1>1. AgentTypes'
    BY DEF AgentInv, AgentTypes, TypeOK, UnderWay, Blocks
  <1>2. Identity' /\ Reasoning' /\ Counters' /\ PublishedDecisionIsCounted'
    BY DEF AgentInv, Identity, Reasoning, SeenHasReasoning, Counters, PublishedDecisionIsCounted
  <1>3. OwnDisputes' /\ NothingForgotten'
    BY DEF AgentInv, OwnDisputes, NothingForgotten
  <1> QED
    BY <1>1, <1>2, <1>3 DEF AgentInv

LEMMA AgentStep == AgentInv /\ [Next]_agentVars => AgentInv'
  <1> SUFFICES ASSUME AgentInv, Next PROVE AgentInv'
    BY AgentStutters
  <1>1. CASE ChainStep \/ RivalEnrols \/ Fund \/ EditIdentity
    BY <1>1, ChainStepKeeps, RivalEnrolsKeeps, FundKeeps, EditIdentityKeeps
  <1>2. CASE Onboarding
    BY <1>2, StartsStep, SaveWalletKeeps, SavesKeep, ConfirmEnrolmentKeeps, RecordsKeep
       DEF Onboarding, Starts
  <1>3. CASE Tick
    BY <1>3, StartsStep, ScanKeeps, TickKeeps, ConfirmKeeps, DecisionsKeep, UploadKeeps,
       SaveDisputeKeeps, RecordsKeep, PutsKeep
       DEF Tick, Starts
  <1>4. CASE Interrupt \/ Tear
    BY <1>4, StopKeeps
  <1> QED
    BY <1>1, <1>2, <1>3, <1>4 DEF Next

\* The inductive invariant of the verifier agent, whatever is cut short and whatever the
\* rivals do.
THEOREM AgentInvariant == Spec => []AgentInv
  <1> QED
    BY AgentInit, AgentStep, PTL DEF Spec

\* Whatever is cut short, and however often the identity is edited and published again:
\* what state.json and the KV say was done on chain was done there (enroll.mjs:75,
\* publish-identity.mjs:63-86, publish-stats.mjs:117-124).
THEOREM SavedWasDone == Spec => []SavedIsOnChain
  <1>1. AgentInv => SavedIsOnChain
    BY DEF AgentInv, Identity, SavedIsOnChain, NoEdition, Idle
  <1> QED
    BY <1>1, AgentInvariant, PTL

\* The reasoning behind every report seen is in a whole file or was uploaded, also when a
\* file was torn; what the KV names was uploaded (dispute.mjs:59, pin-reasoning.mjs:34-45).
THEOREM ReasoningIsKept == Spec => []SeenHasReasoning
  <1>1. AgentInv => SeenHasReasoning
    BY DEF AgentInv, Reasoning
  <1> QED
    BY <1>1, AgentInvariant, PTL

\* The decision that publish-stats.mjs puts is among those its counters count.
THEOREM PublishedIsCounted == Spec => []PublishedDecisionIsCounted
  <1>1. AgentInv => PublishedDecisionIsCounted
    BY DEF AgentInv
  <1> QED
    BY <1>1, AgentInvariant, PTL

\* Between tools that were not interrupted, every dispute of the agent's own is counted.
THEOREM DisputesAreCounted == Spec => []OwnDisputesAreCounted
  <1>1. AgentInv => OwnDisputesAreCounted
    BY DEF AgentInv, OwnDisputes, OwnDisputesAreCounted, Idle
  <1> QED
    BY <1>1, AgentInvariant, PTL

\* The cursor of poll-uma.mjs passes no fake report that is neither in hand nor seen,
\* unless a tick was cut short.
THEOREM NothingIsForgotten == Spec => []NothingForgotten
  <1>1. AgentInv => NothingForgotten
    BY DEF AgentInv
  <1> QED
    BY <1>1, AgentInvariant, PTL

\* gen-wallet.mjs writes a wallet only where there is none, and nothing else writes one:
\* a saved key is never overwritten or torn.
THEOREM WalletIsNeverLost == Spec => WalletIsKept
  <1>1. AgentInv /\ [Next]_agentVars => (wallet = "key" => wallet' = "key")
    <2> SUFFICES ASSUME AgentInv, [Next]_agentVars, wallet = "key" PROVE wallet' = "key"
      OBVIOUS
    <2>1. tool.at # "saveWallet"
      BY DEF AgentInv, AgentTypes, UnderWay
    <2> USE DEF diskVars
    <2>2. CASE ChainStep \/ RivalEnrols \/ Fund \/ EditIdentity
      BY <2>2 DEF ChainStep, RivalEnrols, Fund, EditIdentity
    <2>3. CASE Onboarding
      BY <2>3 DEF Onboarding, GenWallet, SaveWallet, SaveAddress, CheckBalance, SaveReady, Enroll,
                  SendEnrolment, ConfirmEnrolment, SaveEnrolled, PublishIdentity, SetPolicy,
                  SetSoul, SaveIdentity, UpdateState, SetText
    <2>4. CASE Tick
      BY <2>4 DEF Tick, Poll, Scan, Dismiss, Skip, Dispute, PinReasoning, SetLastDecision, Send,
                  Confirm, SaveDecision, SaveDispute, Upload, SavePin, DecisionSet,
                  PublishStats, PutStats, PutPolicy, PutSoul, PutDecision, UpdateState, SetText
    <2>5. CASE Interrupt \/ Tear
      BY <2>1, <2>5 DEF Interrupt, Tear
    <2>6. CASE UNCHANGED agentVars
      BY <2>6 DEF agentVars
    <2> QED
      BY <2>2, <2>3, <2>4, <2>5, <2>6 DEF Next
  <1> QED
    BY <1>1, AgentInvariant, PTL DEF Spec, WalletIsKept
=============================================================================
