--------------------------- MODULE VerifierAgent ---------------------------
(***************************************************************************)
(* A verifier agent: the tools of agent/tools, run one at a time, over     *)
(* three files on disk and a chain on which rival verifiers act too.       *)
(* A tool is cut where it awaits the network and before each file it       *)
(* writes; between any two cuts it may fail or the machine may stop, and   *)
(* a file being rewritten in place may be left torn.                       *)
(*                                                                         *)
(* stateFile stands for state/state.json, with DEFAULT_STATE for a file    *)
(* that does not exist yet; hand for the candidates the last poll returned *)
(* and the tick has still to deal with.                                    *)
(***************************************************************************)
EXTENDS Integers, Sequences, SequencesExt

CONSTANTS
    Report,      \* reports that may be submitted
    Fake,        \* those that evaluate.mjs finds fake
    Bonds,       \* counter-bonds the wallet is funded with
    Nobody, Me, Rival,  \* who disputed a report, or owns the handle's name
    Torn,        \* a file whose writing was cut short
    None,        \* no report
    Editions     \* bound: data/policy.json and soul.md are edited so often at most

\* What state.json holds when it can be read.
StateFiles == [phase : {"init", "needs-funding", "needs-ens", "running"},
               handle : BOOLEAN, cursor : Nat, seen : Seq(Report), disputes : Nat,
               identity : 0 .. Editions]

ASSUME AgentAssumption ==
    /\ Fake \subseteq Report
    /\ Bonds \in Nat \ {0}
    /\ Editions \in Nat \ {0}
    /\ Nobody # Me /\ Nobody # Rival /\ Me # Rival
    /\ None \notin Report
    /\ Torn \notin StateFiles

VARIABLES
    status, block, head, disputer,  \* reports on the chain
    funded, bonds, nameOwner,       \* the agent's account on the chain
    wallet, stateFile, decision,    \* wallet.json, state.json, decisions/<id>.json
    edition,                        \* what data/policy.json and data/soul.md hold
    tool, hand,                     \* the tool that runs, the tick's candidates
    records,                        \* the text records of the agent's verifier name
    published,                      \* the agent's Swarm-KV namespace
    uploads,                        \* the decisions that were uploaded to Swarm
    interrupted                     \* history: a tick did not deal with all its candidates

chainVars == <<status, block, head, disputer>>
accountVars == <<funded, bonds, nameOwner, records>>
diskVars == <<wallet, stateFile, decision, edition>>
swarmVars == <<published, uploads>>
agentVars == <<chainVars, accountVars, diskVars, tool, hand, swarmVars, interrupted>>

Idle == [at |-> "idle", of |-> None]
Running(step, r) == [at |-> step, of |-> r]

\* In a record, a reference that is not to an edition of the agent's own files.
NoEdition == 0

DefaultState == [phase |-> "init", handle |-> FALSE, cursor |-> 0, seen |-> <<>>, disputes |-> 0,
                 identity |-> NoEdition]

Readable == stateFile # Torn
Enrolled == Readable /\ stateFile.phase = "running"

Init ==
    /\ status = [r \in Report |-> "absent"]
    /\ block = [r \in Report |-> 0]
    /\ head = 0
    /\ disputer = [r \in Report |-> Nobody]
    /\ funded = FALSE
    /\ bonds = 0
    /\ nameOwner = Nobody
    /\ records = [policy |-> NoEdition, soul |-> NoEdition, last |-> None]
    /\ wallet = "none"
    /\ stateFile = DefaultState
    /\ decision = [r \in Report |-> "none"]
    /\ edition = 1
    /\ tool = Idle
    /\ hand = {}
    /\ published = [disputes |-> 0, policy |-> NoEdition, soul |-> NoEdition, last |-> None]
    /\ uploads = {}
    /\ interrupted = FALSE

(***************************************************************************)
(* The chain, the user and the rivals.                                     *)
(***************************************************************************)
Submit(r) ==
    /\ status[r] = "absent"
    /\ status' = [status EXCEPT ![r] = "pending"]
    /\ head' = head + 1
    /\ block' = [block EXCEPT ![r] = head + 1]
    /\ UNCHANGED disputer

WindowCloses(r) ==
    /\ status[r] = "pending"
    /\ status' = [status EXCEPT ![r] = "expired"]
    /\ UNCHANGED <<block, head, disputer>>

DisputedBy(r, who) ==
    /\ status[r] = "pending"
    /\ status' = [status EXCEPT ![r] = "disputed"]
    /\ disputer' = [disputer EXCEPT ![r] = who]
    /\ UNCHANGED <<block, head>>

ChainStep ==
    /\ \E r \in Report : Submit(r) \/ WindowCloses(r) \/ DisputedBy(r, Rival)
    /\ UNCHANGED <<accountVars, diskVars, tool, hand, swarmVars, interrupted>>

\* Anyone may enrol any handle, this agent's included.
RivalEnrols ==
    /\ nameOwner = Nobody
    /\ nameOwner' = Rival
    /\ UNCHANGED <<chainVars, funded, bonds, records, diskVars, tool, hand, swarmVars, interrupted>>

Fund ==
    /\ wallet = "key" /\ ~funded
    /\ funded' = TRUE
    /\ bonds' = Bonds
    /\ UNCHANGED <<chainVars, nameOwner, records, diskVars, tool, hand, swarmVars, interrupted>>

\* The owner edits policy.json or soul.md.
EditIdentity ==
    /\ edition < Editions
    /\ edition' = edition + 1
    /\ UNCHANGED <<chainVars, accountVars, wallet, stateFile, decision, tool, hand, swarmVars,
                   interrupted>>

(***************************************************************************)
(* Onboarding: gen-wallet, check-balance, enroll.                          *)
(***************************************************************************)
\* Faulty variant of GenWallet: a wallet is written on every run.
GenWalletAnew ==
    /\ tool = Idle
    /\ wallet # Torn
    /\ tool' = Running("saveWallet", None)
    /\ UNCHANGED <<chainVars, accountVars, diskVars, hand, swarmVars, interrupted>>

GenWallet ==
    /\ tool = Idle
    /\ wallet # Torn
    /\ tool' = Running(IF wallet = "none" THEN "saveWallet" ELSE "saveAddress", None)
    /\ UNCHANGED <<chainVars, accountVars, diskVars, hand, swarmVars, interrupted>>

SaveWallet ==
    /\ tool.at = "saveWallet"
    /\ wallet' = "key"
    /\ tool' = Running("saveAddress", None)
    /\ UNCHANGED <<chainVars, accountVars, stateFile, decision, edition, hand, swarmVars, interrupted>>

\* updateState with the tool's last change; the tool ends.
UpdateState(new) ==
    /\ Readable
    /\ stateFile' = new
    /\ tool' = Idle
    /\ UNCHANGED <<chainVars, accountVars, wallet, decision, edition, swarmVars, interrupted>>

SaveAddress ==
    /\ tool.at = "saveAddress"
    /\ UpdateState([stateFile EXCEPT !.phase = IF @ = "init" THEN "needs-funding" ELSE @,
                                     !.handle = TRUE])
    /\ UNCHANGED hand

CheckBalance ==
    /\ tool = Idle
    /\ wallet = "key" /\ Readable
    /\ funded /\ stateFile.phase = "needs-funding"
    /\ tool' = Running("saveReady", None)
    /\ UNCHANGED <<chainVars, accountVars, diskVars, hand, swarmVars, interrupted>>

SaveReady ==
    /\ tool.at = "saveReady"
    /\ UpdateState([stateFile EXCEPT !.phase = "needs-ens"])
    /\ UNCHANGED hand

\* Faulty variant of Enroll: the phase is saved without a transaction.
EnrollUnsent ==
    /\ tool = Idle
    /\ Readable /\ stateFile.handle /\ stateFile.phase # "running"
    /\ wallet = "key"
    /\ tool' = Running("saveEnrolled", None)
    /\ UNCHANGED <<chainVars, accountVars, diskVars, hand, swarmVars, interrupted>>

\* enroll asks for a handle and a wallet, not for phase needs-ens.  It pins the two
\* files, unless POLICY_URI or SOUL_URI name something else.
Enroll ==
    /\ tool = Idle
    /\ Readable /\ stateFile.handle /\ stateFile.phase # "running"
    /\ wallet = "key"
    /\ \E policyURI, soulURI \in {edition, NoEdition} :
          tool' = Running("enrollVerifier", [policy |-> policyURI, soul |-> soulURI])
    /\ UNCHANGED <<chainVars, accountVars, diskVars, hand, swarmVars, interrupted>>

\* The transaction is sent if it would succeed now.
SendEnrolment ==
    /\ tool.at = "enrollVerifier"
    /\ funded
    /\ nameOwner = Nobody
    /\ tool' = Running("confirmEnrolment", tool.of)
    /\ UNCHANGED <<chainVars, accountVars, diskVars, hand, swarmVars, interrupted>>

\* Lighthouse.enrollVerifier mints a name with its two records, unless it has an owner.
Mint(refs) ==
    \/ /\ nameOwner = Nobody
       /\ nameOwner' = Me
       /\ records' = [records EXCEPT !.policy = refs.policy, !.soul = refs.soul]
    \/ nameOwner # Nobody /\ UNCHANGED <<nameOwner, records>>

\* It is mined; whether it succeeded is not looked at.
ConfirmEnrolment ==
    /\ tool.at = "confirmEnrolment"
    /\ Mint(tool.of)
    /\ tool' = Running("saveEnrolled", None)
    /\ UNCHANGED <<chainVars, funded, bonds, diskVars, hand, swarmVars, interrupted>>

SaveEnrolled ==
    /\ tool.at = "saveEnrolled"
    /\ UpdateState([stateFile EXCEPT !.phase = "running"])
    /\ UNCHANGED hand

\* setVerifierText: only the owner of a name may write its records.
SetText(key, value) ==
    /\ nameOwner = Me
    /\ records' = [records EXCEPT ![key] = value]
    /\ UNCHANGED <<chainVars, funded, bonds, nameOwner, diskVars, hand, swarmVars, interrupted>>

\* publish-identity pins the two files as they are now, sets the two records in two
\* transactions, and saves the references.
PublishIdentity ==
    /\ tool = Idle
    /\ Enrolled /\ wallet = "key"
    /\ tool' = Running("setPolicy", edition)
    /\ UNCHANGED <<chainVars, accountVars, diskVars, hand, swarmVars, interrupted>>

\* Faulty variant of SetPolicy: the second transaction is left out.
SetPolicyOnly ==
    /\ tool.at = "setPolicy"
    /\ SetText("policy", tool.of)
    /\ tool' = Running("saveIdentity", tool.of)

SetPolicy ==
    /\ tool.at = "setPolicy"
    /\ SetText("policy", tool.of)
    /\ tool' = Running("setSoul", tool.of)

SetSoul ==
    /\ tool.at = "setSoul"
    /\ SetText("soul", tool.of)
    /\ tool' = Running("saveIdentity", tool.of)

SaveIdentity ==
    /\ tool.at = "saveIdentity"
    /\ UpdateState([stateFile EXCEPT !.identity = tool.of])
    /\ UNCHANGED hand

(***************************************************************************)
(* A heartbeat tick.                                                       *)
(***************************************************************************)
Seen == ToSet(stateFile.seen)

\* poll-uma reads the head, later the reports up to it, and moves the cursor.
Poll ==
    /\ tool = Idle /\ hand = {}
    /\ Enrolled
    /\ tool' = Running("scan", head)
    /\ UNCHANGED <<chainVars, accountVars, diskVars, hand, swarmVars, interrupted>>

\* Faulty variant of Candidates: the first block is left out.
CandidatesOffByOne(from, to) ==
    {r \in Report \ Seen : block[r] \in from + 1 .. to /\ status[r] = "pending"}

Candidates(from, to) ==
    {r \in Report \ Seen : block[r] \in from .. to /\ status[r] = "pending"}

Scan ==
    /\ tool.at = "scan"
    /\ Readable
    /\ hand' = Candidates(stateFile.cursor + 1, tool.of)
    /\ UpdateState([stateFile EXCEPT !.cursor = tool.of])

\* evaluate finds nothing wrong.
Dismiss(r) ==
    /\ tool = Idle
    /\ r \in hand \ Fake
    /\ hand' = hand \ {r}
    /\ UNCHANGED <<chainVars, accountVars, diskVars, tool, swarmVars, interrupted>>

\* fetch-metadata fails, or little of the window is left: on to the next one.
Skip(r) ==
    /\ tool = Idle
    /\ r \in hand
    /\ hand' = hand \ {r}
    /\ interrupted' = TRUE
    /\ UNCHANGED <<chainVars, accountVars, diskVars, tool, swarmVars>>

CanDispute(r) == status[r] = "pending" /\ bonds > 0

\* dispute: approve the bond, and send the dispute if it would succeed now.
Dispute(r) ==
    /\ tool = Idle
    /\ r \in hand \cap Fake
    /\ Enrolled
    /\ tool' = Running("send", r)
    /\ UNCHANGED <<chainVars, accountVars, diskVars, hand, swarmVars, interrupted>>

Send ==
    /\ tool.at = "send"
    /\ CanDispute(tool.of)
    /\ tool' = Running("confirm", tool.of)
    /\ UNCHANGED <<chainVars, accountVars, diskVars, hand, swarmVars, interrupted>>

\* Faulty variant of Confirm: the state is saved without the decision.
ConfirmUndecided ==
    /\ tool.at = "confirm"
    /\ \/ /\ CanDispute(tool.of)
          /\ DisputedBy(tool.of, Me)
          /\ bonds' = bonds - 1
       \/ /\ ~CanDispute(tool.of)
          /\ UNCHANGED <<chainVars, bonds>>
    /\ tool' = Running("saveDispute", tool.of)
    /\ UNCHANGED <<funded, nameOwner, records, diskVars, hand, swarmVars, interrupted>>

\* The transaction is mined; whether it succeeded is not looked at.
Confirm ==
    /\ tool.at = "confirm"
    /\ \/ /\ CanDispute(tool.of)
          /\ DisputedBy(tool.of, Me)
          /\ bonds' = bonds - 1
       \/ /\ ~CanDispute(tool.of)
          /\ UNCHANGED <<chainVars, bonds>>
    /\ tool' = Running("saveDecision", tool.of)
    /\ UNCHANGED <<funded, nameOwner, records, diskVars, hand, swarmVars, interrupted>>

\* Faulty variant of SaveDecision: the tool ends before the state is saved.
SaveDecisionOnly ==
    /\ tool.at = "saveDecision"
    /\ decision' = [decision EXCEPT ![tool.of] = "written"]
    /\ tool' = Idle
    /\ UNCHANGED <<chainVars, accountVars, wallet, stateFile, edition, hand, swarmVars, interrupted>>

SaveDecision ==
    /\ tool.at = "saveDecision"
    /\ decision' = [decision EXCEPT ![tool.of] = "written"]
    /\ tool' = Running("saveDispute", tool.of)
    /\ UNCHANGED <<chainVars, accountVars, wallet, stateFile, edition, hand, swarmVars, interrupted>>

SaveDispute ==
    /\ tool.at = "saveDispute"
    /\ UpdateState([stateFile EXCEPT !.seen = IF tool.of \in Seen THEN @ ELSE Append(@, tool.of),
                                     !.disputes = @ + 1])
    /\ hand' = hand \ {tool.of}

\* pin-reasoning: read the decision file, upload it, and rewrite it with its reference.
PinReasoning(r) ==
    /\ tool = Idle
    /\ decision[r] \in {"written", "pinned"}
    /\ tool' = Running("upload", r)
    /\ UNCHANGED <<chainVars, accountVars, diskVars, hand, swarmVars, interrupted>>

\* Faulty variant of Upload: the file is rewritten without waiting for the upload.
UploadUnawaited ==
    /\ tool.at = "upload"
    /\ tool' = Running("savePin", tool.of)
    /\ UNCHANGED <<chainVars, accountVars, diskVars, hand, swarmVars, interrupted>>

Upload ==
    /\ tool.at = "upload"
    /\ uploads' = uploads \cup {tool.of}
    /\ tool' = Running("savePin", tool.of)
    /\ UNCHANGED <<chainVars, accountVars, diskVars, hand, published, interrupted>>

SavePin ==
    /\ tool.at = "savePin"
    /\ decision' = [decision EXCEPT ![tool.of] = "pinned"]
    /\ tool' = Idle
    /\ UNCHANGED <<chainVars, accountVars, wallet, stateFile, edition, hand, swarmVars, interrupted>>

\* set-last-decision, with the reference pin-reasoning printed, or else with a stub.
SetLastDecision(r) ==
    /\ tool = Idle
    /\ Enrolled /\ wallet = "key"
    /\ \E value \in {None} \cup ({r} \cap uploads) : tool' = Running("setDecision", value)
    /\ UNCHANGED <<chainVars, accountVars, diskVars, hand, swarmVars, interrupted>>

DecisionSet ==
    /\ tool.at = "setDecision"
    /\ SetText("last", tool.of)
    /\ tool' = Idle

\* Faulty variant of PublishStats: the counters are not published.
PublishDecisionOnly ==
    /\ tool = Idle
    /\ wallet = "key" /\ Enrolled
    /\ tool' = Running("putDecision", None)
    /\ UNCHANGED <<chainVars, accountVars, diskVars, hand, swarmVars, interrupted>>

\* publish-stats: the counters, the identity if it is saved, and the last decision if it
\* is pinned.
PublishStats ==
    /\ tool = Idle
    /\ wallet = "key" /\ Enrolled
    /\ tool' = Running("putStats", None)
    /\ UNCHANGED <<chainVars, accountVars, diskVars, hand, swarmVars, interrupted>>

PutStats ==
    /\ tool.at = "putStats"
    /\ published' = [published EXCEPT !.disputes = stateFile.disputes]
    /\ tool' = Running(IF stateFile.identity = NoEdition THEN "putDecision" ELSE "putPolicy", None)
    /\ UNCHANGED <<chainVars, accountVars, diskVars, hand, uploads, interrupted>>

PutPolicy ==
    /\ tool.at = "putPolicy"
    /\ published' = [published EXCEPT !.policy = stateFile.identity]
    /\ tool' = Running("putSoul", None)
    /\ UNCHANGED <<chainVars, accountVars, diskVars, hand, uploads, interrupted>>

PutSoul ==
    /\ tool.at = "putSoul"
    /\ published' = [published EXCEPT !.soul = stateFile.identity]
    /\ tool' = Running("putDecision", None)
    /\ UNCHANGED <<chainVars, accountVars, diskVars, hand, uploads, interrupted>>

PutDecision ==
    /\ tool.at = "putDecision"
    /\ published' = IF stateFile.seen # <<>> /\ decision[Last(stateFile.seen)] = "pinned"
                    THEN [published EXCEPT !.last = Last(stateFile.seen)]
                    ELSE published
    /\ tool' = Idle
    /\ UNCHANGED <<chainVars, accountVars, diskVars, hand, uploads, interrupted>>

(***************************************************************************)
(* A tool fails, which stops the tick, or the machine does.                *)
(***************************************************************************)
Stop ==
    /\ tool # Idle \/ hand # {}
    /\ tool' = Idle
    /\ hand' = {}
    /\ interrupted' = TRUE
    /\ UNCHANGED <<chainVars, accountVars, edition, swarmVars>>

Interrupt == Stop /\ UNCHANGED <<wallet, stateFile, decision>>

\* The machine stops while a file is rewritten.
Tear ==
    /\ Stop
    /\ \/ /\ tool.at = "saveWallet"
          /\ wallet' = Torn
          /\ UNCHANGED <<stateFile, decision>>
       \/ /\ tool.at \in {"saveAddress", "saveReady", "saveEnrolled", "saveIdentity", "scan",
                          "saveDispute"}
          /\ stateFile' = Torn
          /\ UNCHANGED <<wallet, decision>>
       \/ /\ tool.at \in {"saveDecision", "savePin"}
          /\ decision' = [decision EXCEPT ![tool.of] = "torn"]
          /\ UNCHANGED <<wallet, stateFile>>

Onboarding ==
    \/ GenWallet \/ SaveWallet \/ SaveAddress
    \/ CheckBalance \/ SaveReady
    \/ Enroll \/ SendEnrolment \/ ConfirmEnrolment \/ SaveEnrolled
    \/ PublishIdentity \/ SetPolicy \/ SetSoul \/ SaveIdentity

Tick ==
    \/ Poll \/ Scan
    \/ \E r \in Report : Dismiss(r) \/ Skip(r) \/ Dispute(r) \/ PinReasoning(r) \/ SetLastDecision(r)
    \/ Send \/ Confirm \/ SaveDecision \/ SaveDispute
    \/ Upload \/ SavePin \/ DecisionSet
    \/ PublishStats \/ PutStats \/ PutPolicy \/ PutSoul \/ PutDecision

Next ==
    \/ ChainStep
    \/ RivalEnrols
    \/ Fund
    \/ EditIdentity
    \/ Onboarding
    \/ Tick
    \/ Interrupt
    \/ Tear

Spec == Init /\ [][Next]_agentVars

-----------------------------------------------------------------------------
(***************************************************************************)
(* Properties.                                                             *)
(***************************************************************************)
Step == {"idle", "saveWallet", "saveAddress", "saveReady", "enrollVerifier",
         "confirmEnrolment", "saveEnrolled", "setPolicy", "setSoul", "saveIdentity",
         "scan", "send", "confirm", "saveDecision", "saveDispute", "upload", "savePin",
         "setDecision", "putStats", "putPolicy", "putSoul", "putDecision"}

\* Every variable has its type; the wallet never owes a bond.
TypeOK ==
    /\ status \in [Report -> {"absent", "pending", "expired", "disputed"}]
    /\ block \in [Report -> Nat]
    /\ head \in Nat
    /\ disputer \in [Report -> {Nobody, Me, Rival}]
    /\ funded \in BOOLEAN
    /\ bonds \in 0 .. Bonds
    /\ nameOwner \in {Nobody, Me, Rival}
    /\ records \in [policy : 0 .. Editions, soul : 0 .. Editions, last : Report \cup {None}]
    /\ wallet = Torn \/ wallet \in {"none", "key"}
    /\ Readable => stateFile \in StateFiles /\ stateFile.cursor <= head
    /\ decision \in [Report -> {"none", "torn", "written", "pinned"}]
    /\ tool.at \in Step
    /\ hand \subseteq Report
    /\ edition \in 1 .. Editions
    /\ published \in [disputes : Nat, policy : 0 .. Editions, soul : 0 .. Editions,
                      last : Report \cup {None}]
    /\ uploads \subseteq Report
    /\ interrupted \in BOOLEAN

\* What state.json and the KV say was done on chain was done there, however often the
\* identity is edited and published again, and whatever is interrupted (enroll.mjs:75,
\* publish-identity.mjs:63-86, publish-stats.mjs:117-124).  In phase running the handle
\* is enrolled, by the agent unless a rival was quicker.  Of the editions of the identity,
\* the KV's are not newer than the one in state.json, nor that one than the records of the
\* name; and they are the same once publish-identity has ended.
SavedIsOnChain ==
    /\ Enrolled => nameOwner # Nobody
    /\ published.soul <= published.policy
    /\ published.policy <= records.soul /\ published.policy <= records.policy
    /\ Readable /\ stateFile.identity # NoEdition =>
          /\ published.policy <= stateFile.identity
          /\ stateFile.identity <= records.soul /\ records.soul <= records.policy
          /\ ~interrupted /\ tool = Idle => records.policy = stateFile.identity

\* A key, once saved, stays readable: no later tool or crash touches
\* wallet.json, although gen-wallet may be run again at any time.
WalletIsKept == [][wallet = "key" => wallet' = "key"]_agentVars

\* The reasoning behind every report marked as seen can be shown after a crash: its
\* decision file is whole (dispute.mjs:59 writes it before the state), or was uploaded
\* before it was torn (pin-reasoning.mjs:34,45).  What the KV names was uploaded.
SeenHasReasoning ==
    /\ Readable => \A r \in Seen : decision[r] \in {"written", "pinned"} \/ r \in uploads
    /\ published.last # None => published.last \in uploads

\* Without interruptions no bond is posted that the agent does not count: in
\* between tools its own disputes are all among the reports it has seen.
OwnDisputesAreCounted ==
    ~interrupted /\ tool = Idle => {r \in Report : disputer[r] = Me} \subseteq Seen

\* The decision an agent publishes is one of those its published counter
\* counts, even when publish-stats stops half way.
PublishedDecisionIsCounted ==
    Readable /\ published.last # None =>
        \E i \in 1 .. published.disputes :
            i <= Len(stateFile.seen) /\ stateFile.seen[i] = published.last

\* Without interruptions no report is forgotten: a fake one that can still be
\* disputed is in hand, seen, or beyond the cursor, whenever it was submitted.
NothingForgotten ==
    ~interrupted => \A r \in Fake :
        status[r] = "pending" => r \in hand \cup Seen \/ block[r] > stateFile.cursor

\* agent/SKILL.md: "Skip and let poll-uma re-surface it next tick if it's still
\* in the window", that is, a report neither in hand nor seen is beyond the
\* cursor as long as it can be disputed.
SkippedIsResurfaced ==
    Readable => \A r \in Fake :
        status[r] = "pending" => r \in hand \cup Seen \/ block[r] > stateFile.cursor

\* dispute.mjs reports a dispute that reverts as a failure and does not count
\* it: the reports counted are those this agent disputed.
CountedDisputesAreOwn == Readable => \A r \in Seen : disputer[r] = Me
=============================================================================
