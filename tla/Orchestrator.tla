---------------------------- MODULE Orchestrator ----------------------------
(***************************************************************************)
(* orbital-orchestrator/src: one run of the pipeline per POST /process or  *)
(* command line.  Runs share the image's session directory (of             *)
(* ImagerDownload), the state file, the two ledgers rendered from it, and  *)
(* one verifier name on chain.  A run is cut at every await.               *)
(***************************************************************************)
EXTENDS ImagerDownload

CONSTANTS
    Imo,        \* vessels that are asked for
    MaxRuns     \* bound on runs; a run's number stands for its timestamp

ASSUME OrchestratorAssumption == MaxRuns \in Nat

VARIABLES
    run,            \* session -> the run in progress
    runs,           \* runs begun
    returned,       \* runs that answered 200, with their vessel and handle
    ledgers,        \* the files: state.json, ENS_VESSELS.md, ENS_VERIFIERS.md
    nameOwner,      \* owner of the orchestrator's verifier name
    lastDecision,   \* the run whose decision is in verifier.lastDecision
    concurrent,     \* history: two runs were in progress at once
    refused,        \* history: the chain or its endpoint failed a run
    cut             \* history: a run was killed between loading and its last ledger

Disk == INSTANCE FileSystem WITH files <- ledgers

chainVars == <<nameOwner, lastDecision>>
orchestratorVars == <<imagerVars, run, runs, returned, ledgers, chainVars, concurrent, refused, cut>>

LedgerFile == {"state", "vessels", "verifiers"}
Agent      == "agent"                \* the handle derived from the account
Fallback   == "agent-orchestrator"
Handle     == {Agent, Fallback}
Run        == 1 .. MaxRuns
NoRun      == 0

\* For each vessel and each handle the last run recorded under it.
Ledgers    == [vessels : [Imo -> Run \cup {NoRun}], verifiers : [Handle -> Run \cup {NoRun}]]
EmptyState == [vessels |-> [i \in Imo |-> NoRun], verifiers |-> [h \in Handle |-> NoRun]]
Text(f)    == ledgers[f].text

ASSUME LedgerSentinels == {NoFile, Torn} \cap Ledgers = {}

Ended == [at |-> "ended", id |-> NoRun, imo |-> Idle, handle |-> Fallback, enabled |-> FALSE,
          file |-> "state", mem |-> Idle]
Running(s) == run[s].at # "ended"

Init ==
    /\ ImagerInit
    /\ run = [s \in Session |-> Ended]
    /\ runs = 0 /\ returned = {}
    /\ ledgers = Blank(LedgerFile)
    /\ nameOwner = "nobody" /\ lastDecision = NoRun
    /\ concurrent = FALSE /\ refused = FALSE /\ cut = FALSE

Moves(s, r) == run' = [run EXCEPT ![s] = r]
Goes(s, at) == Moves(s, [run[s] EXCEPT !.at = at])

\* POST /process: pick the image and begin to download it.
Process(s, imo) ==
    /\ ~Running(s) /\ runs < MaxRuns
    /\ runs' = runs + 1
    /\ DownloadImage(s)
    /\ Moves(s, [Ended EXCEPT !.at = "download", !.id = runs + 1, !.imo = imo])
    /\ concurrent' = (concurrent \/ \E t \in Session \ {s} : Running(t))
    /\ UNCHANGED <<returned, ledgers, chainVars, refused, cut>>

Downloads(s) ==
    /\ Works(s)
    /\ UNCHANGED <<run, runs, returned, ledgers, chainVars, concurrent, refused, cut>>

\* The download returned or threw; the image is read, the port inferred, and the
\* upload is a stub: what follows is the enrolment.
Downloaded(s) ==
    /\ run[s].at = "download" /\ ~Busy(s)
    /\ Moves(s, IF dl[s].at = "returned" THEN [run[s] EXCEPT !.at = "enroll"] ELSE Ended)
    /\ UNCHANGED <<imagerVars, runs, returned, ledgers, chainVars, concurrent, refused, cut>>

(***************************************************************************)
(* On chain, best effort: an error is caught and the run goes on without.  *)
(***************************************************************************)
Enrolled(s) == Moves(s, [run[s] EXCEPT !.at = "load", !.handle = Agent, !.enabled = TRUE])

\* Faulty variant of EnsureEnrolled: every run mints.
AlwaysMint(s) ==
    /\ run[s].at = "enroll"
    /\ Goes(s, "mint")
    /\ UNCHANGED <<imagerVars, runs, returned, ledgers, chainVars, concurrent, refused, cut>>

\* ensureEnrolled looks for the runtime record first.
EnsureEnrolled(s) ==
    /\ run[s].at = "enroll"
    /\ \/ nameOwner # "nobody" /\ Enrolled(s)
       \/ nameOwner = "nobody" /\ Goes(s, "mint")
    /\ UNCHANGED <<imagerVars, runs, returned, ledgers, chainVars, concurrent, refused, cut>>

\* A mint that would revert is not sent.
SendMint(s) ==
    /\ run[s].at = "mint"
    /\ Goes(s, IF nameOwner = "nobody" THEN "minting" ELSE "load")
    /\ UNCHANGED <<imagerVars, runs, returned, ledgers, chainVars, concurrent, refused, cut>>

\* Mined; a mint that reverts after all is not told from one that succeeds.
Minted(s) ==
    /\ run[s].at = "minting"
    /\ nameOwner' = IF nameOwner = "nobody" THEN "orchestrator" ELSE nameOwner
    /\ Enrolled(s)
    /\ UNCHANGED <<imagerVars, runs, returned, ledgers, lastDecision, concurrent, refused, cut>>

\* The look-up fails, which counts as not enrolled.
LookUpFails(s) ==
    /\ run[s].at = "enroll"
    /\ Goes(s, "mint")
    /\ refused' = TRUE
    /\ UNCHANGED <<imagerVars, runs, returned, ledgers, chainVars, concurrent, cut>>

\* isOnChainAvailable: without a key or an endpoint the run goes on at once.
NotConfigured(s) ==
    /\ run[s].at = "enroll"
    /\ Goes(s, "load")
    /\ refused' = TRUE
    /\ UNCHANGED <<imagerVars, runs, returned, ledgers, chainVars, concurrent, cut>>

\* The endpoint fails; a mint that was sent may be mined all the same.
OnChainFails(s) ==
    /\ run[s].at \in {"mint", "minting"}
    /\ Goes(s, "load")
    /\ refused' = TRUE
    /\ nameOwner' \in {nameOwner} \cup (IF run[s].at = "minting" /\ nameOwner = "nobody"
                                       THEN {"orchestrator"} ELSE {})
    /\ UNCHANGED <<imagerVars, runs, returned, ledgers, lastDecision, concurrent, cut>>

\* Names are minted to whoever asks first.
RivalTakesName ==
    /\ nameOwner = "nobody" /\ nameOwner' = "rival"
    /\ UNCHANGED <<imagerVars, run, runs, returned, ledgers, lastDecision, concurrent, refused, cut>>

(***************************************************************************)
(* The ledgers.  A state file that does not parse counts as empty.         *)
(***************************************************************************)
\* Faulty variant of LoadState: the file is not read.
LoadNothing == EmptyState

LoadState == IF Text("state") \in {NoFile, Torn} THEN EmptyState ELSE Text("state")

\* The records of a run replace those of earlier runs for its vessel and its handle.
buildVesselRecord(vessels, r)       == [vessels EXCEPT ![r.imo] = r.id]
buildVerifierActivity(verifiers, r) == [verifiers EXCEPT ![r.handle] = r.id]

Load(s) ==
    /\ run[s].at = "load"
    /\ LET new == [vessels   |-> buildVesselRecord(LoadState.vessels, run[s]),
                   verifiers |-> buildVerifierActivity(LoadState.verifiers, run[s])]
       IN  Moves(s, [run[s] EXCEPT !.at = "open", !.file = "state", !.mem = new])
    /\ UNCHANGED <<imagerVars, runs, returned, ledgers, chainVars, concurrent, refused, cut>>

\* saveState and the two renderings write their file in place.
OpenLedger(s) ==
    /\ run[s].at = "open"
    /\ Disk!OpenTruncate(s, run[s].file)
    /\ Goes(s, "put")
    /\ UNCHANGED <<imagerVars, runs, returned, chainVars, concurrent, refused, cut>>

View(m, file) == CASE file = "state" -> m
                   [] file = "vessels" -> m.vessels
                   [] file = "verifiers" -> m.verifiers

\* Faulty variant of WriteLedger: the verifiers are not rendered.
WriteTwo(s) ==
    /\ run[s].at = "put"
    /\ Disk!Put(s, View(run[s].mem, run[s].file))
    /\ Moves(s, CASE run[s].file = "state" -> [run[s] EXCEPT !.at = "open", !.file = "vessels"]
                  [] OTHER                 -> [run[s] EXCEPT !.at = "decide"])
    /\ UNCHANGED <<imagerVars, runs, returned, chainVars, concurrent, refused, cut>>

WriteLedger(s) ==
    /\ run[s].at = "put"
    /\ Disk!Put(s, View(run[s].mem, run[s].file))
    /\ Moves(s, CASE run[s].file = "state"     -> [run[s] EXCEPT !.at = "open", !.file = "vessels"]
                  [] run[s].file = "vessels"   -> [run[s] EXCEPT !.at = "open", !.file = "verifiers"]
                  [] run[s].file = "verifiers" -> [run[s] EXCEPT !.at = "decide"])
    /\ UNCHANGED <<imagerVars, runs, returned, chainVars, concurrent, refused, cut>>

Returns(s) ==
    /\ returned' = returned \cup {[id |-> run[s].id, imo |-> run[s].imo, handle |-> run[s].handle]}
    /\ Moves(s, Ended)

\* verifier.lastDecision, when the run believes it is enrolled; only the owner of the
\* name may write it, and an error is only logged.
Decide(s) ==
    /\ run[s].at = "decide"
    /\ \/ run[s].enabled /\ nameOwner = "orchestrator" /\ Goes(s, "deciding") /\ UNCHANGED returned
       \/ ~(run[s].enabled /\ nameOwner = "orchestrator") /\ Returns(s)
    /\ UNCHANGED <<imagerVars, runs, ledgers, chainVars, concurrent, refused, cut>>

Decided(s) ==
    /\ run[s].at = "deciding"
    /\ lastDecision' = run[s].id
    /\ Returns(s)
    /\ UNCHANGED <<imagerVars, runs, ledgers, nameOwner, concurrent, refused, cut>>

DecisionFails(s) ==
    /\ run[s].at = "deciding"
    /\ Returns(s)
    /\ refused' = TRUE
    /\ lastDecision' \in {lastDecision, run[s].id}
    /\ UNCHANGED <<imagerVars, runs, ledgers, nameOwner, concurrent, cut>>

(***************************************************************************)
(* Failures.                                                               *)
(***************************************************************************)
DownloadFails(s) ==
    /\ GatewayFails(s)
    /\ UNCHANGED <<run, runs, returned, ledgers, chainVars, concurrent, refused, cut>>

\* The process of a run is killed, while it downloads or later.
Killed(s) ==
    /\ Running(s)
    /\ \/ Kill(s)
       \/ /\ ~Busy(s) /\ faults < MaxFaults /\ faults' = faults + 1
          /\ UNCHANGED <<files, served, dl, out, wiped, overlapped>>
    /\ ledgers' = Disk!Closed(s)
    /\ cut' = (cut \/ run[s].at \in {"open", "put"})
    /\ Moves(s, Ended)
    /\ UNCHANGED <<runs, returned, chainVars, concurrent, refused>>

FixtureChanges ==
    /\ NewFixture
    /\ UNCHANGED <<run, runs, returned, ledgers, chainVars, concurrent, refused, cut>>

Next ==
    \/ \E s \in Session :
        \/ \E imo \in Imo : Process(s, imo)
        \/ Downloads(s) \/ Downloaded(s)
        \/ EnsureEnrolled(s) \/ SendMint(s) \/ Minted(s) \/ LookUpFails(s)
        \/ NotConfigured(s) \/ OnChainFails(s)
        \/ Load(s) \/ OpenLedger(s) \/ WriteLedger(s)
        \/ Decide(s) \/ Decided(s) \/ DecisionFails(s)
        \/ DownloadFails(s) \/ Killed(s)
    \/ RivalTakesName
    \/ FixtureChanges

Spec == Init /\ [][Next]_orchestratorVars

(***************************************************************************)
(* Properties.                                                             *)
(***************************************************************************)
TypeOK ==
    /\ ImagerTypeOK
    /\ run \in [Session -> [at : {"ended", "download", "enroll", "mint", "minting", "load",
                                  "open", "put", "decide", "deciding"},
                            id : Run \cup {NoRun}, imo : Imo \cup {Idle}, handle : Handle,
                            enabled : BOOLEAN, file : LedgerFile, mem : Ledgers \cup {Idle}]]
    /\ runs \in Run \cup {NoRun}
    /\ returned \subseteq [id : Run, imo : Imo, handle : Handle]
    /\ \A f \in LedgerFile : ledgers[f].writers \subseteq Session
    /\ Text("state") \in Ledgers \cup {NoFile, Torn}
    /\ nameOwner \in {"nobody", "orchestrator", "rival"}
    /\ lastDecision \in Run \cup {NoRun}
    /\ concurrent \in BOOLEAN /\ refused \in BOOLEAN /\ cut \in BOOLEAN

Recorded == IF Text("state") \in {NoFile, Torn} THEN EmptyState ELSE Text("state")
Undisturbed == ~concurrent /\ ~cut

\* A run that answered is in the state file, or a later one for its vessel and handle
\* (pipeline.mjs:130-147); only while a run is saving is the file not there to read.
AnsweredRunsAreRecorded ==
    Undisturbed =>
        \A r \in returned :
            \/ Text("state") = Torn /\ \E s \in Session : s \in ledgers["state"].writers
            \/ /\ Recorded.vessels[r.imo] >= r.id
               /\ Recorded.verifiers[r.handle] >= r.id

\* Between runs the rendered ledgers show the state file, and the decision on chain is
\* in them: the chain is never ahead of the ledger.
MirrorsAgree ==
    Undisturbed /\ (\A s \in Session : ~Running(s)) /\ Text("state") # NoFile =>
        /\ Text("vessels") = Recorded.vessels
        /\ Text("verifiers") = Recorded.verifiers
        /\ lastDecision <= Recorded.verifiers[Agent]

\* A run is recorded under the fallback handle only when the chain failed it, or another
\* run or account took the name between its look-up and its mint (onchain.mjs:69-87).
FallbackIsExplained ==
    \A r \in returned :
        r.handle = Fallback => refused \/ concurrent \/ nameOwner = "rival"

\* state.mjs:1-2: a snapshot of every vessel and verifier seen.
EveryVesselSeenIsKept ==
    \A r \in returned :
        (\A s \in Session : ~Running(s)) => Recorded.vessels[r.imo] >= r.id
=============================================================================
