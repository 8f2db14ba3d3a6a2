---------------------------- MODULE ReportSubmit ----------------------------
(***************************************************************************)
(* web/app/hooks/useReportSubmit.ts and the ReportModal that drives it: the *)
(* submission of a report from the browser.  A click starts a pipeline     *)
(* that is cut where it awaits Swarm, the wallet, the chain or the timer;  *)
(* `cancelledRef` is written and never read, so a cancelled pipeline runs  *)
(* on beside the next one and both write the one state the modal shows.    *)
(* The chain is seen as far as the hook sees it: a balance, an allowance,  *)
(* what a submission costs, the transactions and what became of each       *)
(* report.                                                                 *)
(***************************************************************************)
EXTENDS Integers, FiniteSets

CONSTANTS
    Sighting,     \* what a filled form says: photo, imo, ais_dark
    NoPhoto,      \* the form without a photo
    BadImo,       \* a form whose imo is not a positive integer
    MaxPipes,     \* bound on the pipelines started
    MaxMoves,     \* bound on the changes of the bonds
    Bonds,        \* what protocolBond + getMinimumBond may come to, in units of WETH
    WrapAmount,   \* what one click wraps, in the same units
    InitialWeth   \* balances the account may start with

ASSUME SubmitAssumption ==
    /\ MaxPipes \in Nat /\ MaxMoves \in Nat /\ Bonds \subseteq Nat \ {0} 
    /\ WrapAmount \in Nat \ {0} /\ InitialWeth \subseteq Nat

VARIABLES
    form,       \* the compose form
    ui,         \* the state of the hook that the modal shows
    pipe,       \* pipeline -> where it is and what its closure captured
    weth, allowance,   \* of the reporter's account, towards the registry
    bond, moves,   \* what a submission mined now pulls, and how often that changed
    submitTx,   \* pipeline -> its submit transaction
    settleTx,   \* pipeline -> its settleAssertion transaction
    claim,      \* pipeline -> the assertion its submit made
    stake,      \* pipeline -> the bonds it paid
    abandoned,  \* history: a pipeline or its transaction was left behind
    spent       \* history: the account used its WETH elsewhere

hookVars   == <<form, ui, pipe>>
chainVars  == <<weth, allowance, bond, moves, submitTx, settleTx, claim, stake>>
submitVars == <<form, ui, pipe, weth, allowance, bond, moves, submitTx, settleTx, claim, stake,
                abandoned, spent>>

Pipe    == 1 .. MaxPipes
NoPipe  == 0    \* '' in `result`
NoEvent == -1   \* '0x': the receipt held no Submitted event
StepId  == 1 .. 5
Form    == Sighting \cup {NoPhoto, BadImo}

INITIAL_STEPS == [i \in StepId |-> "pending"]
Blank == [modal |-> "compose", steps |-> INITIAL_STEPS, error |-> FALSE, needsWrap |-> FALSE,
          result |-> [metadata |-> NoPipe, tx |-> NoPipe, report |-> NoPipe]]

Unused    == [at |-> "unused", wrap |-> FALSE, form |-> NoPhoto, total |-> 0]
Resting   == {"unused", "blocked", "failed", "stale", "over", "unsettled", "reloaded"}
InFlight(p) == pipe[p].at \notin Resting

SubmitInit ==
    /\ form = NoPhoto /\ ui = Blank
    /\ pipe = [p \in Pipe |-> Unused]
    /\ weth \in InitialWeth /\ allowance = 0 /\ bond \in Bonds /\ moves = 0
    /\ submitTx = [p \in Pipe |-> "none"] /\ settleTx = [p \in Pipe |-> "none"]
    /\ claim = [p \in Pipe |-> "none"] /\ stake = [p \in Pipe |-> 0]
    /\ abandoned = FALSE /\ spent = FALSE

SetStep(u, i, status) == [u EXCEPT !.steps[i] = status]

\* The catch blocks: whatever step is active turns to error.
Caught(u) ==
    [u EXCEPT !.error = TRUE,
              !.steps = [i \in StepId |-> IF u.steps[i] = "active" THEN "error" ELSE u.steps[i]]]

Goes(p, place) == pipe' = [pipe EXCEPT ![p].at = place]
\* The bonds just read are the ones it approves (`total`).
ReadsTotal(p)  == pipe' = [pipe EXCEPT ![p] = [@ EXCEPT !.at = "allowance", !.total = bond]]
Starts(p, r)   == p = Cardinality({q \in Pipe : pipe[q].at # "unused"}) + 1
                  /\ pipe' = [pipe EXCEPT ![p] = r]

(***************************************************************************)
(* What the user can click.                                                *)
(***************************************************************************)
FillForm ==
    /\ ui.modal = "compose"
    /\ form' \in Form \ {form, NoPhoto}
    /\ ui' = [ui EXCEPT !.error = FALSE]
    /\ UNCHANGED <<pipe, chainVars, abandoned, spent>>

SubmitRefused ==
    /\ ui.modal = "compose" /\ form = BadImo
    /\ ui' = [ui EXCEPT !.error = TRUE]
    /\ UNCHANGED <<form, pipe, chainVars, abandoned, spent>>

Submit(p) ==
    /\ ui.modal = "compose" /\ form \in Sighting
    /\ Starts(p, [at |-> "upload", wrap |-> FALSE, form |-> form, total |-> 0])
    /\ ui' = SetStep([Blank EXCEPT !.modal = "execute"], 1, "active")
    /\ UNCHANGED <<form, chainVars, abandoned, spent>>

\* The modal cannot be closed in `execute`, and cancel is offered until step 4.
Locked == ui.modal = "execute" /\ ui.steps[4] \in {"active", "done"}

Cancel ==
    /\ ui.modal = "execute" /\ ~Locked
    /\ ui' = Blank
    /\ abandoned' = (abandoned \/ \E p \in Pipe : InFlight(p))
    /\ UNCHANGED <<form, pipe, chainVars, spent>>

SubmitAnother ==
    /\ ui.modal = "done"
    /\ ui' = Blank
    /\ UNCHANGED <<form, pipe, chainVars, abandoned, spent>>

WrapEth(p) ==
    /\ ui.modal = "execute" /\ ui.needsWrap
    /\ Starts(p, [at |-> "wrapping", wrap |-> TRUE, form |-> NoPhoto, total |-> 0])
    /\ ui' = SetStep(ui, 3, "active")
    /\ UNCHANGED <<form, chainVars, abandoned, spent>>

\* The page is reloaded: every promise and all React state are gone.
Reload ==
    /\ form' = NoPhoto /\ ui' = Blank
    /\ pipe' = [p \in Pipe |-> IF InFlight(p) THEN [Unused EXCEPT !.at = "reloaded"]
                               ELSE pipe[p]]
    /\ abandoned' = (abandoned \/ \E p \in Pipe : InFlight(p) \/ submitTx[p] = "pending")
    /\ UNCHANGED <<chainVars, spent>>

(***************************************************************************)
(* A pipeline, from one await to the next.                                 *)
(***************************************************************************)
Uploaded(p) ==
    /\ pipe[p].at = "upload"
    /\ Goes(p, "wallet")
    /\ ui' = SetStep(SetStep([ui EXCEPT !.result.metadata = p], 1, "done"), 2, "active")
    /\ UNCHANGED <<form, chainVars, abandoned, spent>>

WalletConnected(p) ==
    /\ pipe[p].at = "wallet"
    /\ Goes(p, "bonds")
    /\ ui' = SetStep(SetStep(ui, 2, "done"), 3, "active")
    /\ UNCHANGED <<form, chainVars, abandoned, spent>>

\* Faulty variant of ReadBonds: the balance is not compared.
AssumeFunded(p) ==
    /\ pipe[p].at = "bonds" /\ ReadsTotal(p) /\ UNCHANGED ui
    /\ UNCHANGED <<form, chainVars, abandoned, spent>>

\* Faulty variant of ReadBonds: a short balance returns without a word.
QuietlyBlocked(p) ==
    /\ pipe[p].at = "bonds"
    /\ IF weth < bond THEN Goes(p, "blocked") ELSE ReadsTotal(p)
    /\ UNCHANGED ui
    /\ UNCHANGED <<form, chainVars, abandoned, spent>>

ReadBonds(p) ==
    /\ pipe[p].at = "bonds"
    /\ IF weth < bond
       THEN /\ Goes(p, "blocked")
            /\ ui' = SetStep([ui EXCEPT !.needsWrap = TRUE], 3, "blocked")
       ELSE ReadsTotal(p) /\ ui' = SetStep(ui, 3, "active")
    /\ UNCHANGED <<form, chainVars, abandoned, spent>>

\* From the allowance on: the continuation of a wrap holds the closure of the
\* first render, in which there is no photo, and throws in step 4.
Allowed(p) ==
    LET u == SetStep(SetStep(ui, 3, "done"), 4, "active")
    IN  IF pipe[p].wrap THEN Goes(p, "stale") /\ ui' = Caught(u)
        ELSE Goes(p, "sign") /\ ui' = u

ReadAllowance(p) ==
    /\ pipe[p].at = "allowance"
    /\ IF allowance < pipe[p].total THEN Goes(p, "approve") /\ ui' = SetStep(ui, 3, "active")
       ELSE Allowed(p)
    /\ UNCHANGED <<form, chainVars, abandoned, spent>>

Approve(p) ==
    /\ pipe[p].at = "approve"
    /\ allowance' = pipe[p].total
    /\ Allowed(p)
    /\ UNCHANGED <<form, weth, bond, moves, submitTx, settleTx, claim, stake, abandoned, spent>>

SendSubmit(p) ==
    /\ pipe[p].at = "sign"
    /\ Goes(p, "receipt")
    /\ submitTx' = [submitTx EXCEPT ![p] = "pending"]
    /\ ui' = SetStep(SetStep([ui EXCEPT !.result.tx = p], 4, "done"), 5, "active")
    /\ UNCHANGED <<form, weth, allowance, bond, moves, settleTx, claim, stake,
                   abandoned, spent>>

\* Faulty variant of ReadReceipt: the id is taken for granted.
AssumeSubmitted(p) ==
    /\ pipe[p].at = "receipt" /\ submitTx[p] \in {"ok", "reverted"}
    /\ Goes(p, "liveness")
    /\ ui' = [ui EXCEPT !.result.report = p]
    /\ UNCHANGED <<form, chainVars, abandoned, spent>>

\* The status of the receipt is not read, only its Submitted event.
ReadReceipt(p) ==
    /\ pipe[p].at = "receipt" /\ submitTx[p] \in {"ok", "reverted"}
    /\ Goes(p, "liveness")
    /\ ui' = [ui EXCEPT !.result.report = IF submitTx[p] = "ok" THEN p ELSE NoEvent]
    /\ UNCHANGED <<form, chainVars, abandoned, spent>>

\* Faulty variant of ReadLiveness: the settlement is left to others, as it is
\* where the oracle's address is not configured.
LeaveToOthers(p) ==
    /\ pipe[p].at = "liveness"
    /\ Goes(p, "over") /\ ui' = SetStep([ui EXCEPT !.modal = "done"], 5, "done")
    /\ UNCHANGED <<form, chainVars, abandoned, spent>>

ReadLiveness(p) ==
    /\ pipe[p].at = "liveness"
    /\ Goes(p, "timer") /\ ui' = SetStep(ui, 5, "active")
    /\ UNCHANGED <<form, chainVars, abandoned, spent>>

\* liveness + 7 s: the block that would settle may still be older than expiry.
TimerFires(p) ==
    /\ pipe[p].at = "timer"
    /\ Goes(p, "settle") /\ ui' = SetStep(ui, 5, "active")
    /\ UNCHANGED <<form, chainVars, abandoned, spent>>

SendSettle(p) ==
    /\ pipe[p].at = "settle" /\ claim[p] # "none"
    /\ Goes(p, "settling")
    /\ settleTx' = [settleTx EXCEPT ![p] = "pending"]
    /\ UNCHANGED <<form, ui, weth, allowance, bond, moves, submitTx, claim, stake,
                   abandoned, spent>>

\* Again no receipt status: a reverted settlement is shown as done.
ReadSettled(p) ==
    /\ pipe[p].at = "settling" /\ settleTx[p] \in {"ok", "reverted"}
    /\ Goes(p, "over")
    /\ ui' = SetStep([ui EXCEPT !.modal = "done"], 5, "done")
    /\ UNCHANGED <<form, chainVars, abandoned, spent>>

\* autoSettleAfterLiveness keeps a failure to settle to itself.
SettleFails(p) ==
    /\ pipe[p].at \in {"settle", "settling"}
    /\ Goes(p, "unsettled")
    /\ ui' = SetStep([ui EXCEPT !.modal = "done"], 5, "error")
    /\ UNCHANGED <<form, chainVars, abandoned, spent>>

\* Without a Submitted event there is no assertion id, and '0x' does not encode.
NoAssertion(p) ==
    /\ pipe[p].at = "settle" /\ claim[p] = "none"
    /\ SettleFails(p)

Wrapped(p) ==
    /\ pipe[p].at = "wrapping"
    /\ Goes(p, "bonds")
    /\ weth' = weth + WrapAmount
    /\ ui' = SetStep([ui EXCEPT !.needsWrap = FALSE], 3, "active")
    /\ UNCHANGED <<form, allowance, bond, moves, submitTx, settleTx, claim, stake,
                   abandoned, spent>>

WrapFails(p) ==
    /\ pipe[p].at = "wrapping"
    /\ Goes(p, "failed")
    /\ ui' = SetStep([ui EXCEPT !.error = TRUE], 3, "error")
    /\ UNCHANGED <<form, chainVars, abandoned, spent>>

\* A gateway, a node or the wallet throws at any other await; the modal stays.
PipelineFails(p) ==
    /\ pipe[p].at \in {"upload", "wallet", "bonds", "allowance", "approve", "sign",
                       "receipt", "liveness"}
    /\ Goes(p, "failed")
    /\ ui' = Caught(ui)
    /\ UNCHANGED <<form, chainVars, abandoned, spent>>

(***************************************************************************)
(* The chain, and everyone else on it.                                     *)
(***************************************************************************)
\* The registry pulls what the bonds are now, not what the pipeline read and approved.
MineSubmit(p) ==
    /\ submitTx[p] = "pending"
    /\ IF allowance >= bond /\ weth >= bond
       THEN /\ submitTx' = [submitTx EXCEPT ![p] = "ok"]
            /\ claim' = [claim EXCEPT ![p] = "open"] /\ stake' = [stake EXCEPT ![p] = bond]
            /\ weth' = weth - bond /\ allowance' = allowance - bond
       ELSE /\ submitTx' = [submitTx EXCEPT ![p] = "reverted"]
            /\ UNCHANGED <<claim, stake, weth, allowance>>
    /\ UNCHANGED <<hookVars, bond, moves, settleTx, abandoned, spent>>

Expires(p) ==
    /\ claim[p] = "open"
    /\ claim' = [claim EXCEPT ![p] = "expired"]
    /\ UNCHANGED <<hookVars, weth, allowance, bond, moves, submitTx, settleTx, stake,
                   abandoned, spent>>

\* A settlement that finds the assertion expired and undisputed returns the bonds.
MineSettle(p) ==
    /\ settleTx[p] = "pending"
    /\ IF claim[p] = "expired"
       THEN /\ settleTx' = [settleTx EXCEPT ![p] = "ok"]
            /\ claim' = [claim EXCEPT ![p] = "settled"]
            /\ weth' = weth + stake[p]
       ELSE settleTx' = [settleTx EXCEPT ![p] = "reverted"] /\ UNCHANGED <<claim, weth>>
    /\ UNCHANGED <<hookVars, allowance, bond, moves, submitTx, stake, abandoned, spent>>

SettledByAnother(p) ==
    /\ claim[p] = "expired"
    /\ claim' = [claim EXCEPT ![p] = "settled"] /\ weth' = weth + stake[p]
    /\ UNCHANGED <<hookVars, allowance, bond, moves, submitTx, settleTx, stake, abandoned, spent>>

Disputed(p) ==
    /\ claim[p] = "open"
    /\ claim' = [claim EXCEPT ![p] = "disputed"]
    /\ UNCHANGED <<hookVars, weth, allowance, bond, moves, submitTx, settleTx, stake,
                   abandoned, spent>>

Spend ==
    /\ weth > 0 /\ weth' = 0 /\ spent' = TRUE
    /\ UNCHANGED <<hookVars, allowance, bond, moves, submitTx, settleTx, claim, stake,
                   abandoned>>

\* UMA's minimum bond is set to another value.
BondMoves ==
    /\ moves < MaxMoves /\ moves' = moves + 1 /\ bond' \in Bonds \ {bond}
    /\ UNCHANGED <<hookVars, weth, allowance, submitTx, settleTx, claim, stake, abandoned, spent>>

PipelineStep(p) ==
    \/ Uploaded(p) \/ WalletConnected(p) \/ ReadBonds(p) \/ ReadAllowance(p) \/ Approve(p)
    \/ SendSubmit(p) \/ ReadReceipt(p) \/ ReadLiveness(p) \/ TimerFires(p)
    \/ SendSettle(p) \/ NoAssertion(p) \/ ReadSettled(p) \/ Wrapped(p)

ChainStep(p) == MineSubmit(p) \/ MineSettle(p) \/ Expires(p)

SubmitNext ==
    \/ FillForm \/ SubmitRefused \/ Cancel \/ SubmitAnother \/ Reload \/ Spend \/ BondMoves
    \/ \E p \in Pipe :
          \/ Submit(p) \/ WrapEth(p) \/ PipelineStep(p) \/ ChainStep(p)
          \/ SettleFails(p) \/ WrapFails(p) \/ PipelineFails(p)
          \/ SettledByAnother(p) \/ Disputed(p)

SubmitSpec == SubmitInit /\ [][SubmitNext]_submitVars

\* An await is answered, or throws; a transaction is mined; time passes.
SubmitFairness ==
    \A p \in Pipe : /\ WF_submitVars(PipelineStep(p))
                    /\ WF_submitVars(MineSubmit(p)) /\ WF_submitVars(MineSettle(p))
                    /\ WF_submitVars(Expires(p))
SubmitFairSpec == SubmitSpec /\ SubmitFairness

(***************************************************************************)
(* Properties.                                                             *)
(***************************************************************************)
\* Types of the hook's state and of the chain's, and every transaction belongs
\* to a pipeline that reached the step that sends it.
SubmitTypeOK ==
    /\ form \in Form
    /\ ui.modal \in {"compose", "execute", "done"}
    /\ ui.steps \in [StepId -> {"pending", "active", "done", "error", "blocked"}]
    /\ ui.error \in BOOLEAN /\ ui.needsWrap \in BOOLEAN
    /\ ui.result \in [metadata : Pipe \cup {NoPipe}, tx : Pipe \cup {NoPipe},
                      report : Pipe \cup {NoPipe, NoEvent}]
    /\ weth \in Nat /\ allowance \in Nat /\ bond \in Bonds /\ moves \in 0 .. MaxMoves
    /\ \A p \in Pipe : pipe[p].total \in Bonds \cup {0} /\ stake[p] \in Bonds \cup {0}
    /\ \A p \in Pipe : (claim[p] # "none") <=> (submitTx[p] = "ok")

\* The modal never waits for nothing: when it shows an execution and no pipeline
\* is in flight, it shows an error or asks for a wrap (useReportSubmit.ts:464-472,
\* 502-509, 573-581), whatever was cancelled before.
NoSilentStall ==
    ui.modal = "execute" /\ (\A p \in Pipe : ~InFlight(p)) => ui.error \/ ui.needsWrap

\* The bonds, the balance and the allowance are read several awaits before the registry
\* pulls them (477-534): a submission still reverts on chain only because the bonds have
\* risen above what it read, because an abandoned submission took what it had checked,
\* or because the account's owner did.
CheckedFundsSuffice ==
    [][\A p \in Pipe : submitTx[p] = "pending" /\ submitTx'[p] = "reverted" =>
          abandoned \/ spent \/ bond > pipe[p].total]_submitVars

\* What the modal shows at the end (ReportModal.tsx:264-313) is one submission, the
\* last, and the form it was made of: its metadata, its transaction, its report.
ShownIsOneSubmission ==
    ui.modal = "done" /\ ~abandoned =>
        \E p \in Pipe :
            /\ ui.result.metadata = p /\ ui.result.tx = p
            /\ ui.result.report = (IF submitTx[p] = "ok" THEN p ELSE NoEvent)
            /\ pipe[p].form = form
            /\ \A q \in Pipe : q > p => pipe[q].at = "unused" \/ pipe[q].wrap
            /\ ui.steps[5] = "done" => claim[p] = "settled" \/ settleTx[p] = "reverted"

\* A report is not left to itself (85-93): it gets settled or disputed, or its
\* pipeline ended in an error, was reloaded, or saw its settlement revert.
ReportsGetSettled ==
    \A p \in Pipe :
        submitTx[p] = "ok" ~>
            \/ claim[p] \in {"settled", "disputed"}
            \/ pipe[p].at \in {"failed", "unsettled", "reloaded"}
            \/ settleTx[p] = "reverted"

\* After a wrap the submission goes on from step 3 (230-231, 240): it does not
\* give up for want of a photo that the form still holds.
WrapContinues == \A p \in Pipe : pipe[p].at = "stale" => form = NoPhoto

\* "wait for tx to settle" (ReportModal.tsx:102): the lock is released in the end.
LockIsReleased == Locked ~> ~Locked
=============================================================================
