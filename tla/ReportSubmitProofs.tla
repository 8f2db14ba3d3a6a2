------------------------- MODULE ReportSubmitProofs -------------------------
(***************************************************************************)
(* For any number of pipelines, any balances and any bonds, that may move  *)
(* at any time: the modal never stalls in silence, what was checked        *)
(* suffices for the bonds that were read, and what the modal shows in the  *)
(* end is one submission.                                                  *)
(***************************************************************************)
EXTENDS ReportSubmit, FiniteSetTheorems, TLAPS

(***************************************************************************)
(* The inductive invariant.                                                *)
(***************************************************************************)
BeforeSubmit == {"unused", "wrapping", "upload", "wallet", "bonds", "allowance", "approve", "sign"}
WrapPlace    == {"wrapping", "bonds", "allowance", "approve"}
AfterReceipt == {"liveness", "timer", "settle", "settling"}
Place        == Resting \cup BeforeSubmit \cup AfterReceipt \cup {"receipt"}
Status       == {"pending", "active", "done", "error", "blocked"}
PipeRecord   == [at : Place, wrap : BOOLEAN, form : Form, total : Nat]
Result       == [metadata : Int, tx : Int, report : Int]
UiState      == [modal : {"compose", "execute", "done"}, steps : [StepId -> Status],
                 error : BOOLEAN, needsWrap : BOOLEAN, result : Result]

Types ==
    /\ form \in Form
    /\ ui \in UiState
    /\ pipe \in [Pipe -> PipeRecord]
    /\ weth \in Nat /\ allowance \in Nat /\ bond \in Nat
    /\ stake \in [Pipe -> Nat]
    /\ submitTx \in [Pipe -> {"none", "pending", "ok", "reverted"}]
    /\ settleTx \in [Pipe -> {"none", "pending", "ok", "reverted"}]
    /\ claim \in [Pipe -> {"none", "open", "expired", "settled", "disputed"}]
    /\ abandoned \in BOOLEAN /\ spent \in BOOLEAN

\* A continuation after a wrap ends before it submits anything.
WrapsNeverSubmit ==
    \A p \in Pipe : /\ pipe[p].wrap /\ InFlight(p) => pipe[p].at \in WrapPlace
                    /\ pipe[p].at = "wrapping" => pipe[p].wrap

\* Pipelines are started in order.
StartedInOrder ==
    \E n \in 0 .. MaxPipes : \A p \in Pipe : pipe[p].at = "unused" <=> p > n

\* What became of a transaction agrees with the claim it made or settled.
ChainAgrees ==
    \A p \in Pipe :
        /\ claim[p] # "none" <=> submitTx[p] = "ok"
        /\ settleTx[p] = "ok" => claim[p] = "settled"
        /\ pipe[p].at \in BeforeSubmit => submitTx[p] = "none"

Submitting(p) == InFlight(p) /\ ~pipe[p].wrap
Waiting(p)    == submitTx[p] = "pending"
Active(p)     == Submitting(p) \/ Waiting(p)

\* Unless something was abandoned, a submission has the modal for itself.
OneAtATime ==
    /\ \A p, q \in Pipe : Active(p) /\ (InFlight(q) \/ Waiting(q)) => p = q
    /\ \A p \in Pipe : InFlight(p) \/ Waiting(p) => ui.modal = "execute"
    /\ \A p \in Pipe : Active(p) => ~ui.needsWrap
    /\ \A p \in Pipe : Waiting(p) => pipe[p].at \in {"receipt", "failed"} /\ ui.steps[4] = "done"

\* What a submission has checked is still there, whatever the bonds are by now.
FundsThere ==
    \A p \in Pipe :
        /\ Submitting(p) /\ pipe[p].at \in {"allowance", "approve", "sign"} =>
             weth >= pipe[p].total
        /\ Submitting(p) /\ pipe[p].at = "sign" => allowance >= pipe[p].total
        /\ Waiting(p) => weth >= pipe[p].total /\ allowance >= pipe[p].total

ReportOf(p) == IF submitTx[p] = "ok" THEN p ELSE NoEvent
IsLast(p)   == \A q \in Pipe : q > p => pipe[q].at = "unused" \/ pipe[q].wrap

\* The result filled so far is that of the submission in flight.
ResultFollows ==
    \A p \in Pipe : Submitting(p) =>
        /\ pipe[p].form = form /\ IsLast(p)
        /\ pipe[p].at # "upload" => ui.result.metadata = p
        /\ pipe[p].at \in AfterReceipt \cup {"receipt"} => ui.result.tx = p
        /\ pipe[p].at \in AfterReceipt =>
             submitTx[p] \in {"ok", "reverted"} /\ ui.result.report = ReportOf(p)

Always == Types /\ WrapsNeverSubmit /\ StartedInOrder /\ ChainAgrees
Orderly == OneAtATime /\ (spent \/ FundsThere) /\ ResultFollows

SubmitInv ==
    /\ Always
    /\ NoSilentStall
    /\ abandoned \/ Orderly
    /\ ShownIsOneSubmission

(***************************************************************************)
(* Operators on the state of the modal.                                    *)
(***************************************************************************)
\* SetStep changes one step and nothing else (useReportSubmit.ts:172-174).
LEMMA SetStepFields ==
    ASSUME NEW u \in UiState, NEW i \in StepId, NEW t \in Status
    PROVE  /\ SetStep(u, i, t) \in UiState
           /\ SetStep(u, i, t).modal = u.modal
           /\ SetStep(u, i, t).error = u.error
           /\ SetStep(u, i, t).needsWrap = u.needsWrap
           /\ SetStep(u, i, t).result = u.result
           /\ \A j \in StepId : SetStep(u, i, t).steps[j] = IF j = i THEN t ELSE u.steps[j]
<1>1. SetStep(u, i, t) = [u EXCEPT !.steps = [u.steps EXCEPT ![i] = t]]
  BY DEF SetStep
<1>2. [u.steps EXCEPT ![i] = t] \in [StepId -> Status]
  BY DEF UiState
<1> QED BY <1>1, <1>2 DEF UiState

\* The catch blocks set the error, and touch active steps only (464-472).
LEMMA CaughtFields ==
    ASSUME NEW u \in UiState
    PROVE  /\ Caught(u) \in UiState
           /\ Caught(u).modal = u.modal
           /\ Caught(u).error
           /\ Caught(u).needsWrap = u.needsWrap
           /\ Caught(u).result = u.result
           /\ \A j \in StepId : u.steps[j] # "active" => Caught(u).steps[j] = u.steps[j]
<1> DEFINE steps == [i \in StepId |-> IF u.steps[i] = "active" THEN "error" ELSE u.steps[i]]
<1>1. steps \in [StepId -> Status]
  BY DEF UiState, Status
<1>2. Caught(u) = [u EXCEPT !.error = TRUE, !.steps = steps]
  BY DEF Caught
<1> QED BY <1>1, <1>2 DEF UiState

\* An assignment to the result.
LEMMA ResultFields ==
    ASSUME NEW u \in UiState, NEW r \in Result
    PROVE  LET w == [u EXCEPT !.result = r]
           IN  /\ w \in UiState /\ w.modal = u.modal /\ w.error = u.error
               /\ w.needsWrap = u.needsWrap /\ w.steps = u.steps /\ w.result = r
BY DEF UiState

\* An assignment to a flag, or to the modal.
LEMMA FlagFields ==
    ASSUME NEW u \in UiState, NEW b \in BOOLEAN, NEW m \in {"compose", "execute", "done"}
    PROVE  /\ LET w == [u EXCEPT !.needsWrap = b]
              IN  /\ w \in UiState /\ w.modal = u.modal /\ w.error = u.error
                  /\ w.needsWrap = b /\ w.steps = u.steps /\ w.result = u.result
           /\ LET w == [u EXCEPT !.error = b]
              IN  /\ w \in UiState /\ w.modal = u.modal /\ w.error = b
                  /\ w.needsWrap = u.needsWrap /\ w.steps = u.steps /\ w.result = u.result
           /\ LET w == [u EXCEPT !.modal = m]
              IN  /\ w \in UiState /\ w.modal = m /\ w.error = u.error
                  /\ w.needsWrap = u.needsWrap /\ w.steps = u.steps /\ w.result = u.result
BY DEF UiState

\* The blank state shows nothing (189-196).
LEMMA BlankFields ==
    /\ Blank \in UiState /\ Blank.modal = "compose" /\ ~Blank.needsWrap /\ ~Blank.error
    /\ \A i \in StepId : Blank.steps[i] = "pending"
BY DEF Blank, UiState, INITIAL_STEPS, Status, Result, NoPipe

(***************************************************************************)
(* The beginning.                                                          *)
(***************************************************************************)
\* The page opens with an empty form, no pipeline and no transaction (149-168).
LEMMA InitInv == SubmitInit => SubmitInv
<1> SUFFICES ASSUME SubmitInit PROVE SubmitInv
  OBVIOUS
<1> USE SubmitAssumption, BlankFields
<1>1. \A p \in Pipe : pipe[p] = Unused /\ ~InFlight(p) /\ submitTx[p] = "none"
  BY DEF SubmitInit, InFlight, Unused, Resting
<1>2. Types
  BY DEF SubmitInit, Types, Form, PipeRecord, Place, Resting, Unused
<1>3. StartedInOrder
  <2>1. 0 \in 0 .. MaxPipes /\ \A p \in Pipe : pipe[p].at = "unused" <=> p > 0
    BY <1>1 DEF Unused, Pipe
  <2> QED BY <2>1 DEF StartedInOrder
<1>4. WrapsNeverSubmit /\ ChainAgrees
  BY <1>1 DEF WrapsNeverSubmit, ChainAgrees, SubmitInit, Unused
<1>5. NoSilentStall /\ ShownIsOneSubmission
  BY <1>1 DEF NoSilentStall, ShownIsOneSubmission, SubmitInit
<1>6. Orderly
  BY <1>1 DEF Orderly, OneAtATime, FundsThere, ResultFollows, Active, Submitting, Waiting
<1> QED BY <1>2, <1>3, <1>4, <1>5, <1>6 DEF SubmitInv, Always

(***************************************************************************)
(* A pipeline in flight moves on.                                          *)
(***************************************************************************)
\* Where a step leaves a pipeline: the bonds it owes are read where the balance is.
Lands(p, place) == Goes(p, place) \/ (place = "allowance" /\ ReadsTotal(p))

\* What all steps of a pipeline have in common that submit nothing.
Moves(p, place) ==
    /\ InFlight(p) /\ place \in Place \ {"unused", "wrapping"}
    /\ Lands(p, place)
    /\ ui' \in UiState /\ weth' \in Nat /\ allowance' \in Nat
    /\ settleTx' = settleTx \/ settleTx' = [settleTx EXCEPT ![p] = "pending"]
    /\ UNCHANGED <<form, bond, submitTx, claim, stake, abandoned, spent>>

\* It stays on its way, and tells the user where it leaves it.
KeepsToItsWay(p, place) ==
    /\ pipe[p].wrap /\ place \notin Resting => place \in WrapPlace
    /\ place \in BeforeSubmit => pipe[p].at \in BeforeSubmit
    /\ place \in Resting => ui'.modal # "execute" \/ ui'.error \/ ui'.needsWrap
    /\ place \notin Resting \/ pipe[p].wrap => ui'.modal = ui.modal
    /\ ~pipe[p].wrap /\ place \notin Resting => ui'.needsWrap = ui.needsWrap
    /\ ~abandoned /\ pipe[p].at = "receipt" /\ Waiting(p) =>
         /\ place = "failed" /\ ui'.modal = ui.modal
         /\ ui'.needsWrap = ui.needsWrap /\ ui'.steps[4] = ui.steps[4]

\* It checks the funds it is going to need.
KeepsFunds(p, place) ==
    /\ weth' >= weth
    /\ allowance' >= allowance \/ (place \in {"sign", "stale"} /\ allowance' >= pipe[p].total)
    /\ place = "allowance" => weth' >= pipe'[p].total
    /\ place \in {"approve", "sign"} => pipe[p].at \in {"allowance", "approve", "sign"}
    /\ place = "sign" => pipe[p].at = "sign" \/ allowance' >= pipe[p].total

\* It writes its own numbers into the result, and leaves it at the end.
KeepsResult(p, place) ==
    /\ ~pipe[p].wrap /\ place \notin Resting =>
         /\ place # "upload" => ui'.result.metadata = p
         /\ place \in AfterReceipt \cup {"receipt"} => ui'.result.tx = p
         /\ place \in AfterReceipt =>
              submitTx[p] \in {"ok", "reverted"} /\ ui'.result.report = ReportOf(p)
    /\ ui'.modal = "done" =>
         /\ place \in Resting /\ ~pipe[p].wrap
         /\ pipe[p].at \in AfterReceipt /\ ui'.result = ui.result
         /\ ui'.steps[5] = "done" => claim[p] = "settled" \/ settleTx'[p] = "reverted"

\* Pointwise, what such a step leaves of the pipelines.
LEMMA PipesAfter ==
    ASSUME Types, NEW p \in Pipe, NEW place \in Place \ {"unused"}, InFlight(p), Lands(p, place)
    PROVE  /\ pipe' \in [Pipe -> PipeRecord]
           /\ pipe'[p].at = place
           /\ \A q \in Pipe : pipe'[q].wrap = pipe[q].wrap /\ pipe'[q].form = pipe[q].form
           /\ \A q \in Pipe \ {p} : pipe'[q].at = pipe[q].at /\ pipe'[q].total = pipe[q].total
           /\ place # "allowance" => pipe'[p].total = pipe[p].total
           /\ \A q \in Pipe : pipe'[q].at = "unused" <=> pipe[q].at = "unused"
           /\ \A q \in Pipe : InFlight(q)' <=> IF q = p THEN place \notin Resting ELSE InFlight(q)
<1>1. pipe \in [Pipe -> PipeRecord] /\ place \in Place
  BY DEF Types
<1>2. \E r \in PipeRecord :
        /\ pipe' = [pipe EXCEPT ![p] = r]
        /\ r.at = place /\ r.wrap = pipe[p].wrap /\ r.form = pipe[p].form
        /\ place # "allowance" => r.total = pipe[p].total
  <2>1. CASE Goes(p, place)
    <3> DEFINE r == [pipe[p] EXCEPT !.at = place]
    <3>1. pipe' = [pipe EXCEPT ![p] = r]
      BY <2>1 DEF Goes
    <3>2. /\ r \in PipeRecord
          /\ r.at = place /\ r.wrap = pipe[p].wrap /\ r.form = pipe[p].form
          /\ r.total = pipe[p].total
      BY <1>1 DEF PipeRecord
    <3> QED BY <3>1, <3>2
  <2>2. CASE place = "allowance" /\ ReadsTotal(p)
    <3> DEFINE r == [pipe[p] EXCEPT !.at = "allowance", !.total = bond]
    <3>1. pipe' = [pipe EXCEPT ![p] = r]
      BY <2>2 DEF ReadsTotal
    <3>2. /\ r \in PipeRecord
          /\ r.at = place /\ r.wrap = pipe[p].wrap /\ r.form = pipe[p].form
      BY <1>1, <2>2 DEF PipeRecord, Types
    <3> QED BY <2>2, <3>1, <3>2
  <2> QED BY <2>1, <2>2 DEF Lands
<1>3. /\ \A q \in Pipe \ {p} : pipe'[q] = pipe[q]
      /\ place # "allowance" => pipe'[p].total = pipe[p].total
  BY <1>1, <1>2
<1>4. pipe' \in [Pipe -> PipeRecord]
  BY <1>1, <1>2
<1>5. pipe'[p].at = place /\ pipe'[p].wrap = pipe[p].wrap /\ pipe'[p].form = pipe[p].form
  BY <1>1, <1>2
<1>6. \A q \in Pipe : InFlight(q)' <=> IF q = p THEN place \notin Resting ELSE InFlight(q)
  BY <1>3, <1>5 DEF InFlight, Resting
<1>7. place # "unused" /\ pipe[p].at # "unused"
  BY DEF InFlight, Resting
<1> QED BY <1>3, <1>4, <1>5, <1>6, <1>7

\* A step of a pipeline that keeps to its way, its funds and its result keeps the
\* invariant, whatever other pipelines were cancelled before it.
LEMMA PipelineMoves ==
    ASSUME SubmitInv, NEW p \in Pipe, NEW place, Moves(p, place), KeepsToItsWay(p, place),
           ~abandoned => KeepsFunds(p, place) /\ KeepsResult(p, place)
    PROVE  SubmitInv'
<1> USE SubmitAssumption
<1>1. Types /\ WrapsNeverSubmit /\ StartedInOrder /\ ChainAgrees
  BY DEF SubmitInv, Always
<1>2. /\ pipe' \in [Pipe -> PipeRecord]
      /\ pipe'[p].at = place
      /\ \A q \in Pipe : pipe'[q].wrap = pipe[q].wrap /\ pipe'[q].form = pipe[q].form
      /\ \A q \in Pipe \ {p} : pipe'[q].at = pipe[q].at
      /\ place # "allowance" => pipe'[p].total = pipe[p].total
      /\ \A q \in Pipe : pipe'[q].at = "unused" <=> pipe[q].at = "unused"
      /\ \A q \in Pipe : InFlight(q)' <=> IF q = p THEN place \notin Resting ELSE InFlight(q)
  BY <1>1, PipesAfter DEF Moves
<1>3. /\ InFlight(p)
      /\ settleTx' = settleTx \/ settleTx' = [settleTx EXCEPT ![p] = "pending"]
      /\ UNCHANGED <<form, bond, submitTx, claim, stake, abandoned, spent>>
  BY DEF Moves
<1>4. \A q \in Pipe : Waiting(q)' <=> Waiting(q)
  BY <1>3 DEF Waiting
<1>5. \A q \in Pipe : Submitting(q)' <=> IF q = p THEN place \notin Resting /\ ~pipe[p].wrap
                                         ELSE Submitting(q)
  BY <1>2 DEF Submitting
<1>6. Types'
  BY <1>1, <1>2, <1>3 DEF Types, Moves
<1>7. WrapsNeverSubmit'
  BY <1>1, <1>2 DEF WrapsNeverSubmit, KeepsToItsWay, Moves
<1>8. StartedInOrder'
  BY <1>1, <1>2 DEF StartedInOrder
<1>9. ChainAgrees'
  <2>1. \A q \in Pipe : settleTx'[q] = "ok" => settleTx[q] = "ok"
    BY <1>1, <1>3 DEF Types
  <2> QED BY <1>1, <1>2, <1>3, <2>1 DEF ChainAgrees, KeepsToItsWay
<1>10. NoSilentStall'
  BY <1>2 DEF NoSilentStall, KeepsToItsWay
<1>12. ASSUME ~abandoned
       PROVE  Orderly' /\ ShownIsOneSubmission'
  <2> USE <1>12
  <2>1. OneAtATime /\ (spent \/ FundsThere) /\ ResultFollows
    BY <1>12 DEF SubmitInv, Orderly
  <2>2. /\ ui.modal = "execute"
        /\ \A q \in Pipe \ {p} : ~Active(q)
        /\ Active(p) => \A q \in Pipe \ {p} : ~InFlight(q) /\ ~Waiting(q)
        /\ Active(p) => ~ui.needsWrap
        /\ Waiting(p) => pipe[p].at = "receipt" /\ ui.steps[4] = "done"
    <3>1. Waiting(p) => pipe[p].at \in {"receipt", "failed"} /\ ui.steps[4] = "done"
      BY <2>1 DEF OneAtATime
    <3>2. pipe[p].at # "failed"
      BY <1>3 DEF InFlight, Resting
    <3> QED BY <1>3, <2>1, <3>1, <3>2 DEF OneAtATime
  <2>3. \A q \in Pipe \ {p} : ~Active(q)'
    BY <1>4, <1>5, <2>2 DEF Active
  <2>4. Active(p)' => Active(p)
    BY <1>3, <1>4, <1>5 DEF Active, Submitting
  <2>5. OneAtATime'
    <3>1. (\A a, b \in Pipe : Active(a) /\ (InFlight(b) \/ Waiting(b)) => a = b)'
      BY <1>2, <1>4, <2>2, <2>3, <2>4
    <3>2. (\A a \in Pipe : InFlight(a) \/ Waiting(a) => ui.modal = "execute")'
      <4>1. CASE place \notin Resting
        BY <2>2, <4>1 DEF KeepsToItsWay
      <4>2. CASE place \in Resting
        <5> SUFFICES ASSUME NEW a \in Pipe, InFlight(a)' \/ Waiting(a)'
                     PROVE  ui'.modal = "execute"
          OBVIOUS
        <5>1. CASE a = p
          BY <1>2, <1>4, <2>2, <4>2, <5>1 DEF KeepsToItsWay
        <5>2. CASE a # p
          <6>1. InFlight(a) /\ pipe[p].wrap
            BY <1>2, <1>3, <1>4, <2>2, <5>2 DEF Active, Submitting
          <6> QED BY <2>2, <6>1 DEF KeepsToItsWay
        <5> QED BY <5>1, <5>2
      <4> QED BY <4>1, <4>2
    <3>3. (\A a \in Pipe : Active(a) => ~ui.needsWrap)'
      <4>1. Active(p)' => ~ui'.needsWrap
        BY <1>4, <1>5, <2>2, <2>4 DEF KeepsToItsWay, Active
      <4> QED BY <2>3, <4>1
    <3>4. (\A a \in Pipe : Waiting(a) => pipe[a].at \in {"receipt", "failed"} /\ ui.steps[4] = "done")'
      BY <1>2, <1>4, <2>2, <2>3 DEF KeepsToItsWay, Active
    <3> QED BY <3>1, <3>2, <3>3, <3>4 DEF OneAtATime
  <2>6. (spent \/ FundsThere)'
    <3> SUFFICES ASSUME ~spent PROVE FundsThere'
      BY <1>3
    <3>1. FundsThere /\ KeepsFunds(p, place)
      BY <1>12, <2>1
    <3>2. /\ weth \in Nat /\ allowance \in Nat /\ weth' \in Nat /\ allowance' \in Nat
          /\ pipe[p].total \in Nat /\ pipe'[p].total \in Nat
      BY <1>1, <1>2 DEF Types, Moves, PipeRecord
    <3>3. \A q \in Pipe \ {p} : ~Submitting(q)' /\ ~Waiting(q)'
      BY <2>3 DEF Active
    <3>4. Submitting(p)' => Submitting(p)
      BY <1>3, <1>5 DEF Submitting
    <3>5. Submitting(p)' /\ place \in {"allowance", "approve", "sign"} => weth' >= pipe'[p].total
      BY <1>2, <3>1, <3>2, <3>4 DEF FundsThere, KeepsFunds
    <3>6. Submitting(p)' /\ place = "sign" => allowance' >= pipe'[p].total
      BY <1>2, <3>1, <3>2, <3>4 DEF FundsThere, KeepsFunds
    <3>7. Waiting(p) => weth' >= pipe'[p].total /\ allowance' >= pipe'[p].total
      <4>1. Waiting(p) => place = "failed"
        BY <1>12, <2>2 DEF KeepsToItsWay
      <4> QED BY <1>2, <3>1, <3>2, <4>1 DEF FundsThere, KeepsFunds
    <3> QED BY <1>2, <1>4, <3>3, <3>5, <3>6, <3>7 DEF FundsThere
  <2>7. ResultFollows'
    <3> SUFFICES ASSUME Submitting(p)'
                 PROVE  (/\ pipe[p].form = form /\ IsLast(p)
                         /\ pipe[p].at # "upload" => ui.result.metadata = p
                         /\ pipe[p].at \in AfterReceipt \cup {"receipt"} => ui.result.tx = p
                         /\ pipe[p].at \in AfterReceipt =>
                              submitTx[p] \in {"ok", "reverted"} /\ ui.result.report = ReportOf(p))'
      BY <2>3 DEF ResultFollows, Active
    <3>1. Submitting(p) /\ place \notin Resting /\ ~pipe[p].wrap
      BY <1>3, <1>5 DEF Submitting
    <3>2. pipe'[p].form = form' /\ IsLast(p)'
      BY <1>2, <1>3, <2>1, <3>1 DEF ResultFollows, IsLast
    <3>3. ReportOf(p)' = ReportOf(p)
      BY <1>3 DEF ReportOf
    <3> QED BY <1>2, <1>3, <1>12, <3>1, <3>2, <3>3 DEF KeepsResult
  <2>8. ShownIsOneSubmission'
    <3> SUFFICES ASSUME ui'.modal = "done"
                 PROVE  (/\ ui.result.metadata = p /\ ui.result.tx = p
                         /\ ui.result.report = (IF submitTx[p] = "ok" THEN p ELSE NoEvent)
                         /\ pipe[p].form = form
                         /\ \A q \in Pipe : q > p => pipe[q].at = "unused" \/ pipe[q].wrap
                         /\ ui.steps[5] = "done" => claim[p] = "settled" \/ settleTx[p] = "reverted")'
      BY DEF ShownIsOneSubmission
    <3>1. /\ ~pipe[p].wrap /\ pipe[p].at \in AfterReceipt /\ ui'.result = ui.result
          /\ ui'.steps[5] = "done" => claim[p] = "settled" \/ settleTx'[p] = "reverted"
      BY <1>12 DEF KeepsResult
    <3>2. Submitting(p) /\ pipe[p].at # "upload"
      BY <1>3, <3>1 DEF Submitting, AfterReceipt
    <3> QED BY <1>2, <1>3, <2>1, <3>1, <3>2 DEF ResultFollows, IsLast, ReportOf
  <2> QED BY <2>5, <2>6, <2>7, <2>8 DEF Orderly
<1>13. (abandoned \/ Orderly)' /\ ShownIsOneSubmission'
  <2>1. CASE abandoned
    BY <1>3, <2>1 DEF ShownIsOneSubmission
  <2>2. CASE ~abandoned
    BY <1>12, <2>2
  <2> QED BY <2>1, <2>2
<1> QED BY <1>6, <1>7, <1>8, <1>9, <1>10, <1>13 DEF SubmitInv, Always

\* The modal of a submission in flight, unless something was abandoned.
LEMMA ModalIsIts ==
    ASSUME SubmitInv, ~abandoned, NEW p \in Pipe, InFlight(p)
    PROVE  /\ ui.modal = "execute"
           /\ ~pipe[p].wrap => ~ui.needsWrap
           /\ ~pipe[p].wrap /\ pipe[p].at # "upload" => ui.result.metadata = p
           /\ ~pipe[p].wrap /\ pipe[p].at \in AfterReceipt \cup {"receipt"} => ui.result.tx = p
           /\ ~pipe[p].wrap /\ pipe[p].at \in AfterReceipt =>
                submitTx[p] \in {"ok", "reverted"} /\ ui.result.report = ReportOf(p)
<1>1. OneAtATime /\ ResultFollows
  BY DEF SubmitInv, Orderly
<1> QED BY <1>1 DEF OneAtATime, ResultFollows, Active, Submitting

\* A step that leaves the result and the modal alone.
LEMMA ResultKept ==
    ASSUME SubmitInv, ~abandoned, NEW p \in Pipe, NEW place, InFlight(p),
           ui'.result = ui.result, ui'.modal = ui.modal,
           place \in Resting \/ (place # "receipt" /\ pipe[p].at # "upload"),
           place \in AfterReceipt => pipe[p].at \in AfterReceipt
    PROVE  KeepsResult(p, place)
BY ModalIsIts DEF KeepsResult, AfterReceipt, Resting

\* What every step starts from.
LEMMA TypesHold == SubmitInv => Types /\ WrapsNeverSubmit /\ ChainAgrees
BY DEF SubmitInv, Always

\* Step 1 is done, and the metadata reference is in the result (406-439).
LEMMA StepUploaded == ASSUME SubmitInv, NEW p \in Pipe, Uploaded(p) PROVE SubmitInv'
<1> USE SubmitAssumption
<1> DEFINE u == [ui EXCEPT !.result.metadata = p]
           v == SetStep(u, 1, "done")
<1>1. Types /\ WrapsNeverSubmit
  BY TypesHold
<1>2. u \in UiState /\ u.modal = ui.modal /\ u.needsWrap = ui.needsWrap /\ u.result.metadata = p
  <2>1. u = [ui EXCEPT !.result = [ui.result EXCEPT !.metadata = p]]
    OBVIOUS
  <2>2. ui \in UiState /\ ui.result \in Result /\ p \in Int
    BY <1>1 DEF Types, UiState, Pipe
  <2>3. [ui.result EXCEPT !.metadata = p] \in Result /\ [ui.result EXCEPT !.metadata = p].metadata = p
    BY <2>2 DEF Result
  <2> QED BY <2>1, <2>2, <2>3, ResultFields
<1>3. ui' = SetStep(v, 2, "active")
  BY DEF Uploaded
<1> HIDE DEF u, v
<1>4. v \in UiState /\ v.modal = u.modal /\ v.needsWrap = u.needsWrap /\ v.result = u.result
  BY <1>2, SetStepFields DEF v, StepId, Status
<1>5. ui' \in UiState /\ ui'.modal = ui.modal /\ ui'.needsWrap = ui.needsWrap /\ ui'.result.metadata = p
  BY <1>2, <1>3, <1>4, SetStepFields DEF StepId, Status
<1>6. InFlight(p) /\ ~pipe[p].wrap
  BY <1>1 DEF Uploaded, InFlight, Resting, WrapsNeverSubmit, WrapPlace
<1>7. Moves(p, "wallet")
  BY <1>1, <1>5, <1>6 DEF Moves, Uploaded, Lands, Place, BeforeSubmit, Types, chainVars
<1>8. KeepsToItsWay(p, "wallet")
  BY <1>5, <1>6 DEF KeepsToItsWay, Uploaded, Resting, BeforeSubmit
<1>9. ~abandoned => KeepsFunds(p, "wallet") /\ KeepsResult(p, "wallet")
  BY <1>1, <1>5, <1>6, ModalIsIts
     DEF KeepsFunds, KeepsResult, Uploaded, Types, AfterReceipt, chainVars, Resting
<1> QED BY <1>7, <1>8, <1>9, PipelineMoves

\* The liveness is known, and the timer is set (85-93).
LEMMA StepReadLiveness == ASSUME SubmitInv, NEW p \in Pipe, ReadLiveness(p) PROVE SubmitInv'
<1> USE SubmitAssumption
<1>1. Types /\ WrapsNeverSubmit
  BY TypesHold
<1>2. ui' = SetStep(ui, 5, "active") /\ ui \in UiState
  BY <1>1 DEF ReadLiveness, Types
<1>3. /\ ui' \in UiState /\ ui'.modal = ui.modal /\ ui'.needsWrap = ui.needsWrap
      /\ ui'.result = ui.result
  BY <1>2, SetStepFields DEF StepId, Status
<1>4. InFlight(p) /\ ~pipe[p].wrap
  BY <1>1 DEF ReadLiveness, InFlight, Resting, WrapsNeverSubmit, WrapPlace
<1>5. Moves(p, "timer")
  BY <1>1, <1>3, <1>4 DEF Moves, ReadLiveness, Lands, Place, AfterReceipt, Types, chainVars
<1>6. KeepsToItsWay(p, "timer")
  BY <1>3, <1>4 DEF KeepsToItsWay, ReadLiveness, Resting, BeforeSubmit
<1>7. ASSUME ~abandoned PROVE KeepsFunds(p, "timer") /\ KeepsResult(p, "timer")
  <2>1. KeepsFunds(p, "timer")
    BY <1>1 DEF KeepsFunds, ReadLiveness, Types, chainVars
  <2>2. KeepsResult(p, "timer")
    BY <1>3, <1>4, <1>7, ResultKept DEF ReadLiveness, AfterReceipt
  <2> QED BY <2>1, <2>2
<1> QED BY <1>5, <1>6, <1>7, PipelineMoves

\* The timer fires (93-147).
LEMMA StepTimerFires == ASSUME SubmitInv, NEW p \in Pipe, TimerFires(p) PROVE SubmitInv'
<1> USE SubmitAssumption
<1>1. Types /\ WrapsNeverSubmit
  BY TypesHold
<1>2. ui' = SetStep(ui, 5, "active") /\ ui \in UiState
  BY <1>1 DEF TimerFires, Types
<1>3. /\ ui' \in UiState /\ ui'.modal = ui.modal /\ ui'.needsWrap = ui.needsWrap
      /\ ui'.result = ui.result
  BY <1>2, SetStepFields DEF StepId, Status
<1>4. InFlight(p) /\ ~pipe[p].wrap
  BY <1>1 DEF TimerFires, InFlight, Resting, WrapsNeverSubmit, WrapPlace
<1>5. Moves(p, "settle")
  BY <1>1, <1>3, <1>4 DEF Moves, TimerFires, Lands, Place, AfterReceipt, Types, chainVars
<1>6. KeepsToItsWay(p, "settle")
  BY <1>3, <1>4 DEF KeepsToItsWay, TimerFires, Resting, BeforeSubmit
<1>7. ASSUME ~abandoned PROVE KeepsFunds(p, "settle") /\ KeepsResult(p, "settle")
  <2>1. KeepsFunds(p, "settle")
    BY <1>1 DEF KeepsFunds, TimerFires, Types, chainVars
  <2>2. KeepsResult(p, "settle")
    BY <1>3, <1>4, <1>7, ResultKept DEF TimerFires, AfterReceipt
  <2> QED BY <2>1, <2>2
<1> QED BY <1>5, <1>6, <1>7, PipelineMoves

\* Step 2 is done, and the bonds are read (440-463).
LEMMA StepWalletConnected == ASSUME SubmitInv, NEW p \in Pipe, WalletConnected(p) PROVE SubmitInv'
<1> USE SubmitAssumption
<1> DEFINE u == SetStep(ui, 2, "done")
<1>1. Types /\ WrapsNeverSubmit
  BY TypesHold
<1>2. ui' = SetStep(u, 3, "active") /\ ui \in UiState
  BY <1>1 DEF WalletConnected, Types
<1>3. u \in UiState /\ u.modal = ui.modal /\ u.needsWrap = ui.needsWrap /\ u.result = ui.result
  BY <1>2, SetStepFields DEF StepId, Status
<1> HIDE DEF u
<1>4. /\ ui' \in UiState /\ ui'.modal = ui.modal /\ ui'.needsWrap = ui.needsWrap
      /\ ui'.result = ui.result
  BY <1>2, <1>3, SetStepFields DEF StepId, Status
<1>5. InFlight(p) /\ ~pipe[p].wrap
  BY <1>1 DEF WalletConnected, InFlight, Resting, WrapsNeverSubmit, WrapPlace
<1>6. Moves(p, "bonds")
  BY <1>1, <1>4, <1>5 DEF Moves, WalletConnected, Lands, Place, BeforeSubmit, Types, chainVars
<1>7. KeepsToItsWay(p, "bonds")
  BY <1>4, <1>5 DEF KeepsToItsWay, WalletConnected, Resting, BeforeSubmit
<1>8. ASSUME ~abandoned PROVE KeepsFunds(p, "bonds") /\ KeepsResult(p, "bonds")
  <2>1. KeepsFunds(p, "bonds")
    BY <1>1 DEF KeepsFunds, WalletConnected, Types, chainVars
  <2>2. KeepsResult(p, "bonds")
    BY <1>4, <1>5, <1>8, ResultKept DEF WalletConnected, AfterReceipt
  <2> QED BY <2>1, <2>2
<1> QED BY <1>6, <1>7, <1>8, PipelineMoves

\* A short balance asks for a wrap, a sufficient one goes on (475-509).
LEMMA StepReadBonds == ASSUME SubmitInv, NEW p \in Pipe, ReadBonds(p) PROVE SubmitInv'
<1> USE SubmitAssumption
<1>1. Types /\ WrapsNeverSubmit /\ ui \in UiState
  BY TypesHold DEF Types
<1>2. InFlight(p) /\ pipe[p].at = "bonds"
  BY DEF ReadBonds, InFlight, Resting
<1>3. CASE weth < bond
  <2> DEFINE u == [ui EXCEPT !.needsWrap = TRUE]
  <2>1. ui' = SetStep(u, 3, "blocked")
    BY <1>3 DEF ReadBonds
  <2>2. u \in UiState /\ u.modal = ui.modal /\ u.needsWrap /\ u.result = ui.result
    BY <1>1, FlagFields
  <2> HIDE DEF u
  <2>3. ui' \in UiState /\ ui'.modal = ui.modal /\ ui'.needsWrap /\ ui'.result = ui.result
    BY <2>1, <2>2, SetStepFields DEF StepId, Status
  <2>4. Moves(p, "blocked")
    BY <1>1, <1>2, <1>3, <2>3 DEF Moves, ReadBonds, Lands, Place, Resting, Types, chainVars
  <2>5. KeepsToItsWay(p, "blocked")
    BY <1>2, <2>3 DEF KeepsToItsWay, Resting, BeforeSubmit
  <2>6. ASSUME ~abandoned PROVE KeepsFunds(p, "blocked") /\ KeepsResult(p, "blocked")
    <3>1. KeepsFunds(p, "blocked")
      BY <1>1 DEF KeepsFunds, ReadBonds, Types, chainVars
    <3>2. KeepsResult(p, "blocked")
      BY <1>2, <2>3, <2>6, ResultKept DEF AfterReceipt, Resting
    <3> QED BY <3>1, <3>2
  <2> QED BY <2>4, <2>5, <2>6, PipelineMoves
<1>4. CASE ~(weth < bond)
  <2>1. ui' = SetStep(ui, 3, "active")
    BY <1>4 DEF ReadBonds
  <2>2. /\ ui' \in UiState /\ ui'.modal = ui.modal /\ ui'.needsWrap = ui.needsWrap
        /\ ui'.result = ui.result
    BY <1>1, <2>1, SetStepFields DEF StepId, Status
  <2>3. Moves(p, "allowance")
    BY <1>1, <1>2, <1>4, <2>2 DEF Moves, ReadBonds, Lands, Place, BeforeSubmit, Types, chainVars
  <2>4. KeepsToItsWay(p, "allowance")
    BY <1>2, <2>2 DEF KeepsToItsWay, Resting, BeforeSubmit, WrapPlace
  <2>5. ASSUME ~abandoned PROVE KeepsFunds(p, "allowance") /\ KeepsResult(p, "allowance")
    <3>1. pipe'[p].total = bond
      <4>1. pipe' = [pipe EXCEPT ![p] = [pipe[p] EXCEPT !.at = "allowance", !.total = bond]]
        BY <1>4 DEF ReadBonds, ReadsTotal
      <4>2. pipe \in [Pipe -> PipeRecord]
        BY <1>1 DEF Types
      <4> QED BY <4>1, <4>2 DEF PipeRecord
    <3>2. KeepsFunds(p, "allowance")
      BY <1>1, <1>4, <3>1 DEF KeepsFunds, ReadBonds, Types, chainVars
    <3>3. KeepsResult(p, "allowance")
      BY <1>2, <2>2, <2>5, ResultKept DEF AfterReceipt, Resting
    <3> QED BY <3>2, <3>3
  <2> QED BY <2>3, <2>4, <2>5, PipelineMoves
<1> QED BY <1>3, <1>4

\* From a sufficient allowance on (ReadAllowance and Approve): a submission goes on to
\* be signed, a continuation after a wrap ends in an error.
LEMMA StepAllowed ==
    ASSUME SubmitInv, NEW p \in Pipe, pipe[p].at \in {"allowance", "approve"}, Allowed(p),
           weth' = weth, allowance' \in Nat, allowance' >= pipe[p].total,
           UNCHANGED <<form, bond, submitTx, settleTx, claim, stake, abandoned, spent>>
    PROVE  SubmitInv'
<1> USE SubmitAssumption
<1> DEFINE u == SetStep(ui, 3, "done")
           v == SetStep(u, 4, "active")
<1>1. Types /\ WrapsNeverSubmit /\ ui \in UiState
  BY TypesHold DEF Types
<1>2. InFlight(p)
  BY DEF InFlight, Resting
<1>3. u \in UiState /\ u.modal = ui.modal /\ u.needsWrap = ui.needsWrap /\ u.result = ui.result
  BY <1>1, SetStepFields DEF StepId, Status
<1>4. IF pipe[p].wrap THEN Goes(p, "stale") /\ ui' = Caught(v) ELSE Goes(p, "sign") /\ ui' = v
  BY DEF Allowed
<1> HIDE DEF u
<1>5. v \in UiState /\ v.modal = ui.modal /\ v.needsWrap = ui.needsWrap /\ v.result = ui.result
  BY <1>3, SetStepFields DEF StepId, Status
<1> HIDE DEF v
<1>6. CASE pipe[p].wrap
  <2>1. ui' \in UiState /\ ui'.modal = ui.modal /\ ui'.error /\ ui'.result = ui.result
    BY <1>4, <1>5, <1>6, CaughtFields
  <2>2. Moves(p, "stale")
    BY <1>1, <1>2, <1>4, <1>6, <2>1 DEF Moves, Lands, Place, Resting, Types
  <2>3. KeepsToItsWay(p, "stale")
    BY <1>6, <2>1 DEF KeepsToItsWay, Resting, BeforeSubmit
  <2>4. ASSUME ~abandoned PROVE KeepsFunds(p, "stale") /\ KeepsResult(p, "stale")
    <3>1. KeepsFunds(p, "stale")
      BY <1>1 DEF KeepsFunds, Types
    <3>2. KeepsResult(p, "stale")
      BY <1>2, <2>1, <2>4, ResultKept DEF AfterReceipt, Resting
    <3> QED BY <3>1, <3>2
  <2> QED BY <2>2, <2>3, <2>4, PipelineMoves
<1>7. CASE ~pipe[p].wrap
  <2>1. Moves(p, "sign")
    BY <1>1, <1>2, <1>4, <1>5, <1>7 DEF Moves, Lands, Place, BeforeSubmit, Types
  <2>2. KeepsToItsWay(p, "sign")
    BY <1>4, <1>5, <1>7 DEF KeepsToItsWay, Resting, BeforeSubmit
  <2>3. ASSUME ~abandoned PROVE KeepsFunds(p, "sign") /\ KeepsResult(p, "sign")
    <3>1. KeepsFunds(p, "sign")
      BY <1>1 DEF KeepsFunds, Types
    <3>2. KeepsResult(p, "sign")
      BY <1>2, <1>4, <1>5, <1>7, <2>3, ResultKept DEF AfterReceipt, Resting
    <3> QED BY <3>1, <3>2
  <2> QED BY <2>1, <2>2, <2>3, PipelineMoves
<1> QED BY <1>6, <1>7

\* A short allowance is to be approved, a sufficient one is used (511-534).
LEMMA StepReadAllowance == ASSUME SubmitInv, NEW p \in Pipe, ReadAllowance(p) PROVE SubmitInv'
<1> USE SubmitAssumption
<1>1. Types /\ WrapsNeverSubmit /\ ui \in UiState
  BY TypesHold DEF Types
<1>2. CASE allowance < pipe[p].total
  <2>1. ui' = SetStep(ui, 3, "active") /\ InFlight(p)
    BY <1>2 DEF ReadAllowance, InFlight, Resting
  <2>2. /\ ui' \in UiState /\ ui'.modal = ui.modal /\ ui'.needsWrap = ui.needsWrap
        /\ ui'.result = ui.result
    BY <1>1, <2>1, SetStepFields DEF StepId, Status
  <2>3. Moves(p, "approve")
    BY <1>1, <1>2, <2>1, <2>2 DEF Moves, ReadAllowance, Lands, Place, BeforeSubmit, Types, chainVars
  <2>4. KeepsToItsWay(p, "approve")
    BY <2>1, <2>2 DEF KeepsToItsWay, ReadAllowance, Resting, BeforeSubmit, WrapPlace
  <2>5. ASSUME ~abandoned PROVE KeepsFunds(p, "approve") /\ KeepsResult(p, "approve")
    <3>1. KeepsFunds(p, "approve")
      BY <1>1 DEF KeepsFunds, ReadAllowance, Types, chainVars
    <3>2. KeepsResult(p, "approve")
      BY <2>1, <2>2, <2>5, ResultKept DEF ReadAllowance, AfterReceipt, Resting
    <3> QED BY <3>1, <3>2
  <2> QED BY <2>3, <2>4, <2>5, PipelineMoves
<1>3. CASE ~(allowance < pipe[p].total)
  BY <1>1, <1>3, StepAllowed DEF ReadAllowance, Types, PipeRecord, chainVars
<1> QED BY <1>2, <1>3

\* The approval is mined, for exactly the bonds that were read.
LEMMA StepApprove == ASSUME SubmitInv, NEW p \in Pipe, Approve(p) PROVE SubmitInv'
<1>1. pipe[p].total \in Nat
  BY TypesHold DEF Types, PipeRecord
<1> QED BY <1>1, StepAllowed DEF Approve

\* The receipt is read: the report it names, or none.
LEMMA StepReadReceipt == ASSUME SubmitInv, NEW p \in Pipe, ReadReceipt(p) PROVE SubmitInv'
<1> USE SubmitAssumption
<1> DEFINE n == IF submitTx[p] = "ok" THEN p ELSE NoEvent
<1>1. Types /\ WrapsNeverSubmit /\ ui \in UiState
  BY TypesHold DEF Types
<1>2. ui' = [ui EXCEPT !.result = [ui.result EXCEPT !.report = n]]
  BY DEF ReadReceipt
<1>3. /\ [ui.result EXCEPT !.report = n] \in Result
      /\ [ui.result EXCEPT !.report = n].report = n
      /\ [ui.result EXCEPT !.report = n].tx = ui.result.tx
      /\ [ui.result EXCEPT !.report = n].metadata = ui.result.metadata
  BY <1>1 DEF UiState, Result, Pipe, NoEvent
<1>4. /\ ui' \in UiState /\ ui'.modal = ui.modal /\ ui'.needsWrap = ui.needsWrap
      /\ ui'.result.report = n /\ ui'.result.tx = ui.result.tx
      /\ ui'.result.metadata = ui.result.metadata
  BY <1>1, <1>2, <1>3, ResultFields
<1>5. InFlight(p) /\ ~pipe[p].wrap
  BY <1>1 DEF ReadReceipt, InFlight, Resting, WrapsNeverSubmit, WrapPlace
<1>6. Moves(p, "liveness")
  BY <1>1, <1>4, <1>5 DEF Moves, ReadReceipt, Lands, Place, AfterReceipt, Types, chainVars
<1>7. KeepsToItsWay(p, "liveness")
  BY <1>4, <1>5 DEF KeepsToItsWay, ReadReceipt, Resting, BeforeSubmit, Waiting
<1>8. ASSUME ~abandoned PROVE KeepsFunds(p, "liveness") /\ KeepsResult(p, "liveness")
  <2>1. KeepsFunds(p, "liveness")
    BY <1>1 DEF KeepsFunds, ReadReceipt, Types, chainVars
  <2>2. KeepsResult(p, "liveness")
    BY <1>4, <1>5, <1>8, ModalIsIts DEF KeepsResult, ReadReceipt, AfterReceipt, Resting, ReportOf
  <2> QED BY <2>1, <2>2
<1> QED BY <1>6, <1>7, <1>8, PipelineMoves

\* The end of a submission, well or ill: the modal shows the result.
LEMMA StepEnds ==
    ASSUME SubmitInv, NEW p \in Pipe, NEW place \in {"over", "unsettled"},
           NEW t \in {"done", "error"},
           pipe[p].at \in {"settle", "settling"}, Goes(p, place),
           ui' = SetStep([ui EXCEPT !.modal = "done"], 5, t),
           t = "done" => settleTx[p] \in {"ok", "reverted"},
           UNCHANGED <<form, chainVars, abandoned, spent>>
    PROVE  SubmitInv'
<1> USE SubmitAssumption
<1> DEFINE u == [ui EXCEPT !.modal = "done"]
<1>1. Types /\ WrapsNeverSubmit /\ ChainAgrees /\ ui \in UiState
  BY TypesHold DEF Types
<1>2. u \in UiState /\ u.modal = "done" /\ u.needsWrap = ui.needsWrap /\ u.result = ui.result
  BY <1>1, FlagFields
<1>3. ui' = SetStep(u, 5, t)
  OBVIOUS
<1> HIDE DEF u
<1>4. /\ ui' \in UiState /\ ui'.modal = "done" /\ ui'.needsWrap = ui.needsWrap
      /\ ui'.result = ui.result /\ ui'.steps[5] = t
  BY <1>2, <1>3, SetStepFields DEF StepId, Status
<1>5. InFlight(p) /\ ~pipe[p].wrap
  BY <1>1 DEF InFlight, Resting, WrapsNeverSubmit, WrapPlace
<1>6. Moves(p, place)
  BY <1>1, <1>4, <1>5 DEF Moves, Lands, Place, Resting, Types, chainVars
<1>7. KeepsToItsWay(p, place)
  BY <1>4, <1>5 DEF KeepsToItsWay, Resting, BeforeSubmit
<1>8. t = "done" => claim[p] = "settled" \/ settleTx[p] = "reverted"
  BY <1>1 DEF ChainAgrees
<1>9. ASSUME ~abandoned PROVE KeepsFunds(p, place) /\ KeepsResult(p, place)
  <2>1. KeepsFunds(p, place)
    BY <1>1 DEF KeepsFunds, Types, chainVars
  <2>2. KeepsResult(p, place)
    BY <1>4, <1>5, <1>8 DEF KeepsResult, AfterReceipt, Resting, chainVars
  <2> QED BY <2>1, <2>2
<1> QED BY <1>6, <1>7, <1>9, PipelineMoves

\* The settlement is shown as done, whatever its receipt says.
LEMMA StepReadSettled == ASSUME SubmitInv, NEW p \in Pipe, ReadSettled(p) PROVE SubmitInv'
BY StepEnds DEF ReadSettled, chainVars

\* A settlement that fails is kept to itself, and the result is shown.
LEMMA StepSettleFails == ASSUME SubmitInv, NEW p \in Pipe, SettleFails(p) PROVE SubmitInv'
BY StepEnds DEF SettleFails, chainVars

\* The wrap is mined, and its continuation reads the bonds again (240).
LEMMA StepWrapped == ASSUME SubmitInv, NEW p \in Pipe, Wrapped(p) PROVE SubmitInv'
<1> USE SubmitAssumption
<1> DEFINE u == [ui EXCEPT !.needsWrap = FALSE]
<1>1. Types /\ WrapsNeverSubmit /\ ui \in UiState
  BY TypesHold DEF Types
<1>2. u \in UiState /\ u.modal = ui.modal /\ ~u.needsWrap /\ u.result = ui.result
  BY <1>1, FlagFields
<1>3. ui' = SetStep(u, 3, "active")
  BY DEF Wrapped
<1> HIDE DEF u
<1>4. ui' \in UiState /\ ui'.modal = ui.modal /\ ~ui'.needsWrap /\ ui'.result = ui.result
  BY <1>2, <1>3, SetStepFields DEF StepId, Status
<1>5. InFlight(p)
  BY DEF Wrapped, InFlight, Resting
<1>6. Moves(p, "bonds")
  BY <1>1, <1>4, <1>5 DEF Moves, Wrapped, Lands, Place, BeforeSubmit, Types
<1>7. pipe[p].wrap
  BY <1>1 DEF WrapsNeverSubmit, Wrapped
<1>8. KeepsToItsWay(p, "bonds")
  BY <1>4, <1>7 DEF KeepsToItsWay, Wrapped, Resting, BeforeSubmit, WrapPlace
<1>9. ASSUME ~abandoned PROVE KeepsFunds(p, "bonds") /\ KeepsResult(p, "bonds")
  <2>1. KeepsFunds(p, "bonds")
    BY <1>1 DEF KeepsFunds, Wrapped, Types
  <2>2. KeepsResult(p, "bonds")
    BY <1>4, <1>5, <1>7, <1>9, ModalIsIts DEF KeepsResult
  <2> QED BY <2>1, <2>2
<1> QED BY <1>6, <1>8, <1>9, PipelineMoves

\* A wrap that fails is shown as an error.
LEMMA StepWrapFails == ASSUME SubmitInv, NEW p \in Pipe, WrapFails(p) PROVE SubmitInv'
<1> USE SubmitAssumption
<1> DEFINE u == [ui EXCEPT !.error = TRUE]
<1>1. Types /\ WrapsNeverSubmit /\ ui \in UiState
  BY TypesHold DEF Types
<1>2. u \in UiState /\ u.modal = ui.modal /\ u.error /\ u.result = ui.result
  BY <1>1, FlagFields
<1>3. ui' = SetStep(u, 3, "error")
  BY DEF WrapFails
<1> HIDE DEF u
<1>4. ui' \in UiState /\ ui'.modal = ui.modal /\ ui'.error /\ ui'.result = ui.result
  BY <1>2, <1>3, SetStepFields DEF StepId, Status
<1>5. InFlight(p) /\ pipe[p].wrap
  BY <1>1 DEF WrapFails, InFlight, Resting, WrapsNeverSubmit
<1>6. Moves(p, "failed")
  BY <1>1, <1>4, <1>5 DEF Moves, WrapFails, Lands, Place, Resting, Types, chainVars
<1>7. KeepsToItsWay(p, "failed")
  BY <1>4, <1>5 DEF KeepsToItsWay, WrapFails, Resting, BeforeSubmit
<1>8. ASSUME ~abandoned PROVE KeepsFunds(p, "failed") /\ KeepsResult(p, "failed")
  <2>1. KeepsFunds(p, "failed")
    BY <1>1 DEF KeepsFunds, WrapFails, Types, chainVars
  <2>2. KeepsResult(p, "failed")
    BY <1>4, <1>5, <1>8, ModalIsIts DEF KeepsResult
  <2> QED BY <2>1, <2>2
<1> QED BY <1>6, <1>7, <1>8, PipelineMoves

\* An await that throws is shown as an error (464-472).
LEMMA StepPipelineFails == ASSUME SubmitInv, NEW p \in Pipe, PipelineFails(p) PROVE SubmitInv'
<1> USE SubmitAssumption
<1>1. Types /\ WrapsNeverSubmit /\ ui \in UiState
  BY TypesHold DEF Types
<1>2. /\ ui' \in UiState /\ ui'.modal = ui.modal /\ ui'.error
      /\ ui'.needsWrap = ui.needsWrap /\ ui'.result = ui.result
      /\ ui.steps[4] # "active" => ui'.steps[4] = ui.steps[4]
  BY <1>1, CaughtFields DEF PipelineFails, StepId
<1>3. InFlight(p)
  BY DEF PipelineFails, InFlight, Resting
<1>4. Moves(p, "failed")
  BY <1>1, <1>2, <1>3 DEF Moves, PipelineFails, Lands, Place, Resting, Types, chainVars
<1>5. ~abandoned /\ Waiting(p) => ui.steps[4] = "done"
  BY DEF SubmitInv, Orderly, OneAtATime
<1>6. KeepsToItsWay(p, "failed")
  BY <1>2, <1>5 DEF KeepsToItsWay, PipelineFails, Resting, BeforeSubmit
<1>7. ASSUME ~abandoned PROVE KeepsFunds(p, "failed") /\ KeepsResult(p, "failed")
  <2>1. KeepsFunds(p, "failed")
    BY <1>1 DEF KeepsFunds, PipelineFails, Types, chainVars
  <2>2. KeepsResult(p, "failed")
    BY <1>2, <1>3, <1>7, ResultKept DEF AfterReceipt, Resting
  <2> QED BY <2>1, <2>2
<1> QED BY <1>4, <1>6, <1>7, PipelineMoves

\* The settlement is sent.
LEMMA StepSendSettle == ASSUME SubmitInv, NEW p \in Pipe, SendSettle(p) PROVE SubmitInv'
<1> USE SubmitAssumption
<1>1. Types /\ WrapsNeverSubmit /\ ui \in UiState
  BY TypesHold DEF Types
<1>2. InFlight(p) /\ ~pipe[p].wrap
  BY <1>1 DEF SendSettle, InFlight, Resting, WrapsNeverSubmit, WrapPlace
<1>3. Moves(p, "settling")
  BY <1>1, <1>2 DEF Moves, SendSettle, Lands, Place, AfterReceipt, Types
<1>4. KeepsToItsWay(p, "settling")
  BY <1>2 DEF KeepsToItsWay, SendSettle, Resting, BeforeSubmit
<1>5. ASSUME ~abandoned PROVE KeepsFunds(p, "settling") /\ KeepsResult(p, "settling")
  <2>1. KeepsFunds(p, "settling")
    BY <1>1 DEF KeepsFunds, SendSettle, Types
  <2>2. KeepsResult(p, "settling")
    BY <1>2, <1>5, ResultKept DEF SendSettle, AfterReceipt
  <2> QED BY <2>1, <2>2
<1> QED BY <1>3, <1>4, <1>5, PipelineMoves

(***************************************************************************)
(* The chain moves on, and the modal with its pipelines stands still.      *)
(***************************************************************************)
\* What the chain does behind the hook keeps the invariant, if it takes no funds a
\* pipeline counts on and undoes no settlement.
LEMMA ChainMoves ==
    ASSUME SubmitInv, UNCHANGED <<form, ui, pipe, abandoned>>, Types', ChainAgrees',
           \A p \in Pipe : submitTx'[p] = submitTx[p] \/ (Waiting(p) /\ ~Waiting(p)'),
           \A p \in Pipe : claim[p] = "settled" => claim'[p] = "settled",
           \A p \in Pipe : settleTx[p] = "reverted" => settleTx'[p] = "reverted",
           ~abandoned => spent' \/ FundsThere'
    PROVE  SubmitInv'
<1>1. WrapsNeverSubmit /\ StartedInOrder /\ NoSilentStall
  BY DEF SubmitInv, Always
<1>2. \A p \in Pipe : /\ InFlight(p)' = InFlight(p) /\ Submitting(p)' = Submitting(p)
                      /\ Waiting(p)' => Waiting(p)
                      /\ Active(p)' => Active(p)
  BY DEF InFlight, Submitting, Waiting, Active
<1>3. WrapsNeverSubmit' /\ StartedInOrder' /\ NoSilentStall'
  BY <1>1, <1>2 DEF WrapsNeverSubmit, StartedInOrder, NoSilentStall
<1>4. ASSUME ~abandoned PROVE Orderly' /\ ShownIsOneSubmission'
  <2>1. OneAtATime /\ ResultFollows /\ ShownIsOneSubmission
    BY <1>4 DEF SubmitInv, Orderly
  <2>2. OneAtATime'
    BY <1>2, <2>1 DEF OneAtATime
  <2>3. ResultFollows'
    <3> SUFFICES ASSUME NEW p \in Pipe, Submitting(p)
                 PROVE  (/\ pipe[p].form = form /\ IsLast(p)
                         /\ pipe[p].at # "upload" => ui.result.metadata = p
                         /\ pipe[p].at \in AfterReceipt \cup {"receipt"} => ui.result.tx = p
                         /\ pipe[p].at \in AfterReceipt =>
                              submitTx[p] \in {"ok", "reverted"} /\ ui.result.report = ReportOf(p))'
      BY <1>2 DEF ResultFollows
    <3>1. pipe[p].at \in AfterReceipt => submitTx'[p] = submitTx[p]
      BY <2>1 DEF ResultFollows, Waiting
    <3> QED BY <2>1, <3>1 DEF ResultFollows, IsLast, ReportOf
  <2>4. ShownIsOneSubmission'
    <3> SUFFICES ASSUME ui.modal = "done"
                 PROVE  ShownIsOneSubmission'
      BY DEF ShownIsOneSubmission
    <3>1. PICK p \in Pipe :
            /\ ui.result.metadata = p /\ ui.result.tx = p
            /\ ui.result.report = (IF submitTx[p] = "ok" THEN p ELSE NoEvent)
            /\ pipe[p].form = form
            /\ \A q \in Pipe : q > p => pipe[q].at = "unused" \/ pipe[q].wrap
            /\ ui.steps[5] = "done" => claim[p] = "settled" \/ settleTx[p] = "reverted"
      BY <1>4, <2>1 DEF ShownIsOneSubmission
    <3>2. submitTx'[p] = submitTx[p]
      BY <2>1 DEF OneAtATime
    <3> QED BY <3>1, <3>2 DEF ShownIsOneSubmission
  <2> QED BY <1>4, <2>2, <2>3, <2>4 DEF Orderly
<1>5. (abandoned \/ Orderly)' /\ ShownIsOneSubmission'
  <2>1. CASE abandoned
    BY <2>1 DEF ShownIsOneSubmission
  <2>2. CASE ~abandoned
    BY <1>4, <2>2
  <2> QED BY <2>1, <2>2
<1> QED BY <1>3, <1>5 DEF SubmitInv, Always

\* Funds that were there are there when nothing is taken.
LEMMA FundsKept ==
    ASSUME SubmitInv, UNCHANGED <<pipe, submitTx, allowance, spent>>,
           weth' \in Nat, weth' >= weth
    PROVE  ~abandoned => spent' \/ FundsThere'
<1>1. weth \in Nat /\ \A p \in Pipe : pipe[p].total \in Nat
  BY TypesHold DEF Types, PipeRecord
<1>2. ~abandoned /\ ~spent => FundsThere
  BY DEF SubmitInv, Orderly
<1>3. \A p \in Pipe : Submitting(p)' = Submitting(p) /\ Waiting(p)' = Waiting(p)
  BY DEF Submitting, InFlight, Waiting
<1> QED BY <1>1, <1>2, <1>3 DEF FundsThere

\* The liveness of an assertion ends.
LEMMA StepExpires == ASSUME SubmitInv, NEW p \in Pipe, Expires(p) PROVE SubmitInv'
<1>1. Types /\ ChainAgrees
  BY TypesHold
<1>2. /\ UNCHANGED <<form, ui, pipe, weth, allowance, bond, submitTx, settleTx, stake>>
      /\ UNCHANGED <<abandoned, spent>>
      /\ claim[p] = "open" /\ claim' = [claim EXCEPT ![p] = "expired"]
  BY DEF Expires, hookVars
<1>3. Types'
  BY <1>1, <1>2 DEF Types
<1>4. ChainAgrees' /\ \A q \in Pipe : claim[q] = "settled" => claim'[q] = "settled"
  BY <1>1, <1>2 DEF Types, ChainAgrees
<1>5. ~abandoned => spent' \/ FundsThere'
  BY <1>1, <1>2, FundsKept DEF Types
<1> QED BY <1>2, <1>3, <1>4, <1>5, ChainMoves

\* Another account disputes the report.
LEMMA StepDisputed == ASSUME SubmitInv, NEW p \in Pipe, Disputed(p) PROVE SubmitInv'
<1>1. Types /\ ChainAgrees
  BY TypesHold
<1>2. /\ UNCHANGED <<form, ui, pipe, weth, allowance, bond, submitTx, settleTx, stake>>
      /\ UNCHANGED <<abandoned, spent>>
      /\ claim[p] = "open" /\ claim' = [claim EXCEPT ![p] = "disputed"]
  BY DEF Disputed, hookVars
<1>3. Types'
  BY <1>1, <1>2 DEF Types
<1>4. ChainAgrees' /\ \A q \in Pipe : claim[q] = "settled" => claim'[q] = "settled"
  BY <1>1, <1>2 DEF Types, ChainAgrees
<1>5. ~abandoned => spent' \/ FundsThere'
  BY <1>1, <1>2, FundsKept DEF Types
<1> QED BY <1>2, <1>3, <1>4, <1>5, ChainMoves

\* A settlement, by the pipeline's transaction or by another account's.
LEMMA StepSettled ==
    ASSUME SubmitInv, NEW p \in Pipe, claim[p] = "expired",
           claim' = [claim EXCEPT ![p] = "settled"], weth' = weth + stake[p],
           settleTx' = settleTx
             \/ (settleTx[p] = "pending" /\ settleTx' = [settleTx EXCEPT ![p] = "ok"]),
           UNCHANGED <<form, ui, pipe, allowance, bond, submitTx, stake, abandoned, spent>>
    PROVE  SubmitInv'
<1>1. Types /\ ChainAgrees /\ stake[p] \in Nat
  BY TypesHold DEF Types
<1>2. /\ claim' \in [Pipe -> {"none", "open", "expired", "settled", "disputed"}]
      /\ settleTx' \in [Pipe -> {"none", "pending", "ok", "reverted"}]
      /\ weth' \in Nat /\ weth' >= weth
  BY <1>1 DEF Types
<1>3. Types'
  BY <1>1, <1>2 DEF Types
<1>4. /\ claim'[p] = "settled" /\ \A q \in Pipe \ {p} : claim'[q] = claim[q]
      /\ \A q \in Pipe \ {p} : settleTx'[q] = settleTx[q]
      /\ settleTx[p] = "reverted" => settleTx'[p] = "reverted"
  BY <1>1 DEF Types
<1>5. ChainAgrees'
  BY <1>1, <1>4 DEF ChainAgrees
<1>6. ~abandoned => spent' \/ FundsThere'
  BY <1>2, FundsKept
<1> QED BY <1>3, <1>4, <1>5, <1>6, ChainMoves

\* Another account settles the report.
LEMMA StepSettledByAnother ==
    ASSUME SubmitInv, NEW p \in Pipe, SettledByAnother(p) PROVE SubmitInv'
BY StepSettled DEF SettledByAnother, hookVars

\* The settlement is mined: it pays the bond back, or reverts.
LEMMA StepMineSettle == ASSUME SubmitInv, NEW p \in Pipe, MineSettle(p) PROVE SubmitInv'
<1>1. CASE claim[p] = "expired"
  BY <1>1, StepSettled DEF MineSettle, hookVars
<1>2. CASE claim[p] # "expired"
  <2>1. Types /\ ChainAgrees
    BY TypesHold
  <2>2. /\ UNCHANGED <<form, ui, pipe, weth, allowance, bond, submitTx, claim, stake>>
        /\ UNCHANGED <<abandoned, spent>>
        /\ settleTx[p] = "pending" /\ settleTx' = [settleTx EXCEPT ![p] = "reverted"]
    BY <1>2 DEF MineSettle, hookVars
  <2>3. Types'
    BY <2>1, <2>2 DEF Types
  <2>4. ChainAgrees' /\ \A q \in Pipe : settleTx[q] = "reverted" => settleTx'[q] = "reverted"
    BY <2>1, <2>2 DEF Types, ChainAgrees
  <2>5. ~abandoned => spent' \/ FundsThere'
    BY <2>1, <2>2, FundsKept DEF Types
  <2> QED BY <2>2, <2>3, <2>4, <2>5, ChainMoves
<1> QED BY <1>1, <1>2

\* The submission is mined: unless something was abandoned, nobody else counts on the
\* funds it takes.
LEMMA StepMineSubmit == ASSUME SubmitInv, NEW p \in Pipe, MineSubmit(p) PROVE SubmitInv'
<1> USE SubmitAssumption
<1> DEFINE Funded == allowance >= bond /\ weth >= bond
<1>1. Types /\ ChainAgrees
  BY TypesHold
<1>2. /\ UNCHANGED <<form, ui, pipe, bond, settleTx, abandoned, spent>>
      /\ submitTx[p] = "pending" /\ submitTx' \in [Pipe -> {"none", "pending", "ok", "reverted"}]
      /\ submitTx'[p] = IF Funded THEN "ok" ELSE "reverted"
      /\ \A q \in Pipe \ {p} : submitTx'[q] = submitTx[q]
  BY <1>1 DEF MineSubmit, hookVars, Types
<1>3. /\ claim' \in [Pipe -> {"none", "open", "expired", "settled", "disputed"}]
      /\ claim'[p] = IF Funded THEN "open" ELSE claim[p]
      /\ \A q \in Pipe \ {p} : claim'[q] = claim[q]
      /\ weth' \in Nat /\ allowance' \in Nat /\ stake' \in [Pipe -> Nat]
  BY <1>1 DEF MineSubmit, Types
<1> HIDE DEF Funded
<1>4. Types'
  BY <1>1, <1>2, <1>3 DEF Types
<1>5. claim[p] = "none" /\ settleTx[p] # "ok" /\ pipe[p].at \notin BeforeSubmit
  BY <1>1, <1>2 DEF ChainAgrees
<1>6. ChainAgrees'
  BY <1>1, <1>2, <1>3, <1>5 DEF ChainAgrees
<1>7. Waiting(p) /\ Active(p) /\ ~Waiting(p)' /\ \A q \in Pipe \ {p} : Waiting(q)' = Waiting(q)
  BY <1>2 DEF Waiting, Active
<1>8. ~abandoned => FundsThere'
  <2> SUFFICES ASSUME ~abandoned, NEW q \in Pipe
               PROVE  /\ ~Waiting(q)'
                      /\ ~(Submitting(q)' /\ pipe'[q].at \in {"allowance", "approve", "sign"})
    BY DEF FundsThere
  <2>1. OneAtATime
    BY DEF SubmitInv, Orderly
  <2>2. Submitting(q)' = Submitting(q)
    BY <1>2 DEF Submitting, InFlight
  <2>3. CASE q = p
    BY <1>2, <1>5, <1>7, <2>3 DEF BeforeSubmit
  <2>4. CASE q # p
    BY <1>7, <2>1, <2>2, <2>4 DEF OneAtATime, Submitting
  <2> QED BY <2>3, <2>4
<1>9. \A q \in Pipe : submitTx'[q] = submitTx[q] \/ (Waiting(q) /\ ~Waiting(q)')
  BY <1>2, <1>7
<1>10. \A q \in Pipe : claim[q] = "settled" => claim'[q] = "settled"
  BY <1>3, <1>5
<1> QED BY <1>2, <1>4, <1>6, <1>8, <1>9, <1>10, ChainMoves

\* The account spends its WETH elsewhere.
LEMMA StepSpend == ASSUME SubmitInv, Spend PROVE SubmitInv'
<1>1. Types /\ ChainAgrees
  BY TypesHold
<1>2. /\ UNCHANGED <<form, ui, pipe, allowance, bond, submitTx, settleTx, claim, stake, abandoned>>
      /\ weth' = 0 /\ spent'
  BY DEF Spend, hookVars
<1>3. Types'
  BY <1>1, <1>2 DEF Types, Spend
<1>4. ChainAgrees'
  BY <1>1, <1>2 DEF ChainAgrees
<1> QED BY <1>2, <1>3, <1>4, ChainMoves

\* The bonds move: what was read is still there, if it is still what is asked for.
LEMMA StepBondMoves == ASSUME SubmitInv, BondMoves PROVE SubmitInv'
<1>1. Types /\ ChainAgrees
  BY TypesHold
<1>2. /\ UNCHANGED <<form, ui, pipe, weth, allowance, submitTx, settleTx, claim, stake>>
      /\ UNCHANGED <<abandoned, spent>> /\ bond' \in Nat
  BY SubmitAssumption DEF BondMoves, hookVars
<1>3. Types'
  BY <1>1, <1>2 DEF Types
<1>4. ChainAgrees'
  BY <1>1, <1>2 DEF ChainAgrees
<1>5. ~abandoned => spent' \/ FundsThere'
  BY <1>1, <1>2, FundsKept DEF Types
<1> QED BY <1>2, <1>3, <1>4, <1>5, ChainMoves

(***************************************************************************)
(* The submission is sent.                                                 *)
(***************************************************************************)
\* The submission is sent, with the funds and the form that were checked.
LEMMA StepSendSubmit == ASSUME SubmitInv, NEW p \in Pipe, SendSubmit(p) PROVE SubmitInv'
<1> USE SubmitAssumption
<1> DEFINE u == [ui EXCEPT !.result.tx = p]
           v == SetStep(u, 4, "done")
<1>1. Types /\ WrapsNeverSubmit /\ StartedInOrder /\ ChainAgrees /\ ui \in UiState
  BY DEF SubmitInv, Always, Types
<1>2. /\ u \in UiState /\ u.modal = ui.modal /\ u.needsWrap = ui.needsWrap
      /\ u.result.tx = p /\ u.result.metadata = ui.result.metadata
  <2>1. u = [ui EXCEPT !.result = [ui.result EXCEPT !.tx = p]]
    OBVIOUS
  <2>2. ui.result \in Result /\ p \in Int
    BY <1>1 DEF UiState, Pipe
  <2>3. /\ [ui.result EXCEPT !.tx = p] \in Result
        /\ [ui.result EXCEPT !.tx = p].tx = p
        /\ [ui.result EXCEPT !.tx = p].metadata = ui.result.metadata
    BY <2>2 DEF Result
  <2> QED BY <1>1, <2>1, <2>3, ResultFields
<1>3. ui' = SetStep(v, 5, "active")
  BY DEF SendSubmit
<1> HIDE DEF u
<1>4. /\ v \in UiState /\ v.modal = u.modal /\ v.needsWrap = u.needsWrap
      /\ v.result = u.result /\ v.steps[4] = "done"
  BY <1>2, SetStepFields DEF StepId, Status
<1> HIDE DEF v
<1>5. /\ ui' \in UiState /\ ui'.modal = ui.modal /\ ui'.needsWrap = ui.needsWrap
      /\ ui'.result.tx = p /\ ui'.result.metadata = ui.result.metadata
      /\ ui'.steps[4] = "done"
  BY <1>2, <1>3, <1>4, SetStepFields DEF StepId, Status
<1>6. /\ pipe[p].at = "sign" /\ InFlight(p) /\ ~pipe[p].wrap /\ Goes(p, "receipt")
      /\ "receipt" \in Place /\ "receipt" \notin Resting /\ submitTx[p] = "none"
  BY <1>1 DEF SendSubmit, InFlight, Resting, WrapsNeverSubmit, WrapPlace, Place, ChainAgrees,
              BeforeSubmit
<1>7. /\ pipe' \in [Pipe -> PipeRecord]
      /\ pipe'[p].at = "receipt"
      /\ \A q \in Pipe : pipe'[q].wrap = pipe[q].wrap /\ pipe'[q].form = pipe[q].form
      /\ \A q \in Pipe \ {p} : pipe'[q].at = pipe[q].at
      /\ pipe'[p].total = pipe[p].total
      /\ \A q \in Pipe : pipe'[q].at = "unused" <=> pipe[q].at = "unused"
      /\ \A q \in Pipe : InFlight(q)' <=> IF q = p THEN "receipt" \notin Resting ELSE InFlight(q)
  BY <1>1, <1>6, PipesAfter DEF Lands
<1>8. UNCHANGED <<form, weth, allowance, bond, settleTx, claim, stake, abandoned, spent>>
  BY DEF SendSubmit
<1>9. /\ submitTx' \in [Pipe -> {"none", "pending", "ok", "reverted"}]
      /\ submitTx'[p] = "pending" /\ \A q \in Pipe \ {p} : submitTx'[q] = submitTx[q]
  BY <1>1 DEF SendSubmit, Types
<1>10. Types'
  BY <1>1, <1>5, <1>7, <1>8, <1>9 DEF Types
<1>11. WrapsNeverSubmit' /\ StartedInOrder'
  BY <1>1, <1>6, <1>7 DEF WrapsNeverSubmit, StartedInOrder
<1>12. ChainAgrees'
  BY <1>1, <1>6, <1>7, <1>8, <1>9 DEF ChainAgrees, BeforeSubmit
<1>13. InFlight(p)' /\ Active(p) /\ Submitting(p)
  BY <1>6, <1>7 DEF Active, Submitting
<1>14. NoSilentStall'
  BY <1>13 DEF NoSilentStall
<1>15. ASSUME ~abandoned PROVE Orderly' /\ ui'.modal = "execute"
  <2>1. OneAtATime /\ (spent \/ FundsThere) /\ ResultFollows
    BY <1>15 DEF SubmitInv, Orderly
  <2>2. \A q \in Pipe \ {p} : ~InFlight(q) /\ ~Waiting(q)
    BY <1>13, <2>1 DEF OneAtATime
  <2>3. \A q \in Pipe \ {p} : ~InFlight(q)' /\ ~Waiting(q)' /\ ~Submitting(q)' /\ ~Active(q)'
    BY <1>7, <1>9, <2>2 DEF Waiting, Submitting, Active
  <2>4. ui'.modal = "execute" /\ ~ui'.needsWrap
    BY <1>5, <1>6, <1>13, <2>1 DEF OneAtATime
  <2>5. OneAtATime'
    BY <1>5, <1>7, <2>3, <2>4 DEF OneAtATime
  <2>6. (spent \/ FundsThere)'
    <3>1. CASE spent
      BY <1>8, <3>1
    <3>2. CASE ~spent
      <4>1. weth' >= pipe'[p].total /\ allowance' >= pipe'[p].total
        BY <1>6, <1>7, <1>8, <1>13, <2>1, <3>2 DEF FundsThere
      <4> QED BY <1>7, <2>3, <4>1 DEF FundsThere
    <3> QED BY <3>1, <3>2
  <2>7. ResultFollows'
    <3>1. pipe[p].form = form /\ IsLast(p) /\ ui.result.metadata = p
      BY <1>6, <1>13, <2>1 DEF ResultFollows
    <3>2. IsLast(p)'
      BY <1>7, <3>1 DEF IsLast
    <3> QED BY <1>5, <1>7, <1>8, <2>3, <3>1, <3>2 DEF ResultFollows, AfterReceipt
  <2> QED BY <2>4, <2>5, <2>6, <2>7 DEF Orderly
<1>16. (abandoned \/ Orderly)' /\ ShownIsOneSubmission'
  <2>1. CASE abandoned
    BY <1>8, <2>1 DEF ShownIsOneSubmission
  <2>2. CASE ~abandoned
    BY <1>15, <2>2 DEF ShownIsOneSubmission
  <2> QED BY <2>1, <2>2
<1> QED BY <1>10, <1>11, <1>12, <1>14, <1>16 DEF SubmitInv, Always

(***************************************************************************)
(* The user clicks.                                                        *)
(***************************************************************************)
\* A click, or a reload, that leaves the compose form and leaves nothing behind that
\* is not counted as abandoned (FillForm, SubmitRefused, Cancel, SubmitAnother, Reload).
LEMMA Composes ==
    ASSUME SubmitInv, form' \in Form, ui' \in UiState, ui'.modal = "compose",
           pipe' \in [Pipe -> PipeRecord],
           \A p \in Pipe : pipe'[p] = pipe[p] \/ (InFlight(p) /\ pipe'[p].at = "reloaded"),
           UNCHANGED <<chainVars, spent>>,
           abandoned' \in BOOLEAN, abandoned => abandoned',
           ~abandoned' => \A p \in Pipe : ~InFlight(p) /\ ~Waiting(p)
    PROVE  SubmitInv'
<1>1. Types /\ WrapsNeverSubmit /\ StartedInOrder /\ ChainAgrees
  BY DEF SubmitInv, Always
<1>2. Types'
  BY <1>1 DEF Types, chainVars
<1>3. \A p \in Pipe : pipe'[p].at = "unused" <=> pipe[p].at = "unused"
  BY DEF InFlight, Resting
<1>4. WrapsNeverSubmit' /\ StartedInOrder' /\ ChainAgrees'
  <2>1. WrapsNeverSubmit'
    BY <1>1 DEF WrapsNeverSubmit, InFlight, Resting
  <2>2. StartedInOrder'
    BY <1>1, <1>3 DEF StartedInOrder
  <2>3. ChainAgrees'
    BY <1>1 DEF ChainAgrees, BeforeSubmit, chainVars
  <2> QED BY <2>1, <2>2, <2>3
<1>5. NoSilentStall' /\ ShownIsOneSubmission'
  BY <1>1 DEF NoSilentStall, ShownIsOneSubmission
<1>6. ~abandoned' => \A p \in Pipe : ~InFlight(p)' /\ ~Waiting(p)'
  BY DEF InFlight, Resting, Waiting, chainVars
<1>7. ~abandoned' => Orderly'
  BY <1>6 DEF Orderly, OneAtATime, FundsThere, ResultFollows, Active, Submitting
<1> QED BY <1>2, <1>4, <1>5, <1>7 DEF SubmitInv, Always

\* Nothing is in flight where the modal shows no execution, unless it was abandoned.
LEMMA NothingBehind ==
    ASSUME SubmitInv, ~abandoned, ui.modal # "execute"
    PROVE  \A p \in Pipe : ~InFlight(p) /\ ~Waiting(p)
BY DEF SubmitInv, Orderly, OneAtATime

\* The form changes only while nothing is in flight, unless it was abandoned.
LEMMA StepFillForm == ASSUME SubmitInv, FillForm PROVE SubmitInv'
<1>1. Types
  BY TypesHold
<1>2. ui' \in UiState /\ ui'.modal = "compose"
  BY <1>1, FlagFields DEF FillForm, Types
<1> QED BY <1>1, <1>2, Composes, NothingBehind DEF FillForm, Types, chainVars

\* A refused form stays where it is (385-391).
LEMMA StepSubmitRefused == ASSUME SubmitInv, SubmitRefused PROVE SubmitInv'
<1>1. Types
  BY TypesHold
<1>2. ui' \in UiState /\ ui'.modal = "compose"
  BY <1>1, FlagFields DEF SubmitRefused, Types
<1> QED BY <1>1, <1>2, Composes, NothingBehind DEF SubmitRefused, Types, chainVars

\* The result is dismissed.
LEMMA StepSubmitAnother == ASSUME SubmitInv, SubmitAnother PROVE SubmitInv'
<1>1. Types
  BY TypesHold
<1> QED BY <1>1, BlankFields, Composes, NothingBehind DEF SubmitAnother, Types, chainVars

\* Cancelling leaves the pipeline running, and counts it as abandoned (198-201).
LEMMA StepCancel == ASSUME SubmitInv, Cancel PROVE SubmitInv'
<1>1. Types
  BY TypesHold
<1>2. /\ ui' = Blank /\ ~Locked
      /\ abandoned' = (abandoned \/ \E p \in Pipe : InFlight(p))
      /\ UNCHANGED <<form, pipe, chainVars, spent>>
  BY DEF Cancel
<1>3. abandoned' \in BOOLEAN /\ (abandoned => abandoned')
  BY <1>2
<1>4. ASSUME ~abandoned', NEW p \in Pipe PROVE ~InFlight(p) /\ ~Waiting(p)
  <2>1. ~abandoned /\ ~InFlight(p)
    BY <1>2, <1>4
  <2>2. Waiting(p) => ui.modal = "execute" /\ ui.steps[4] = "done"
    BY <2>1 DEF SubmitInv, Orderly, OneAtATime
  <2> QED BY <1>2, <2>1, <2>2 DEF Locked
<1> QED BY <1>1, <1>2, <1>3, <1>4, BlankFields, Composes DEF Types

\* A reload ends every pipeline, and leaves what it had sent to the chain.
LEMMA StepReload == ASSUME SubmitInv, Reload PROVE SubmitInv'
<1>1. Types
  BY TypesHold
<1>2. /\ ui' = Blank /\ form' = NoPhoto
      /\ abandoned' = (abandoned \/ \E p \in Pipe : InFlight(p) \/ submitTx[p] = "pending")
      /\ UNCHANGED <<chainVars, spent>>
  BY DEF Reload
<1>3. abandoned' \in BOOLEAN /\ (abandoned => abandoned')
  BY <1>2
<1>4. ~abandoned' => \A p \in Pipe : ~InFlight(p) /\ ~Waiting(p)
  BY <1>2 DEF Waiting
<1> DEFINE gone == [Unused EXCEPT !.at = "reloaded"]
<1>5. gone \in PipeRecord /\ gone.at = "reloaded"
  BY DEF Unused, PipeRecord, Form, Place, Resting
<1> HIDE DEF gone
<1>6. pipe' = [p \in Pipe |-> IF InFlight(p) THEN gone ELSE pipe[p]]
  BY DEF Reload, gone
<1>7. pipe' \in [Pipe -> PipeRecord]
  BY <1>1, <1>5, <1>6 DEF Types
<1>8. \A p \in Pipe : pipe'[p] = pipe[p] \/ (InFlight(p) /\ pipe'[p].at = "reloaded")
  BY <1>5, <1>6
<1>9. form' \in Form
  BY <1>2 DEF Form
<1> QED BY <1>2, <1>3, <1>4, <1>7, <1>8, <1>9, BlankFields, Composes

\* A new pipeline is the first unused one, and no later one was used.
LEMMA StartsNext ==
    ASSUME SubmitInv, NEW p \in Pipe, NEW r \in PipeRecord, r.at # "unused", Starts(p, r)
    PROVE  /\ pipe[p].at = "unused"
           /\ \A q \in Pipe : q > p => pipe[q].at = "unused"
           /\ StartedInOrder'
           /\ pipe' \in [Pipe -> PipeRecord] /\ pipe'[p] = r
           /\ \A q \in Pipe \ {p} : pipe'[q] = pipe[q]
<1> USE SubmitAssumption
<1>1. Types /\ StartedInOrder
  BY DEF SubmitInv, Always
<1>2. PICK n \in 0 .. MaxPipes : \A q \in Pipe : pipe[q].at = "unused" <=> q > n
  BY <1>1 DEF StartedInOrder
<1>3. {q \in Pipe : pipe[q].at # "unused"} = 1 .. n
  BY <1>2 DEF Pipe
<1>4. Cardinality(1 .. n) = n
  BY FS_Interval
<1>5. p = n + 1
  BY <1>3, <1>4 DEF Starts
<1>6. pipe' \in [Pipe -> PipeRecord] /\ pipe'[p] = r /\ \A q \in Pipe \ {p} : pipe'[q] = pipe[q]
  BY <1>1 DEF Starts, Types
<1>7. n + 1 \in 0 .. MaxPipes /\ \A q \in Pipe : pipe'[q].at = "unused" <=> q > n + 1
  BY <1>2, <1>5, <1>6 DEF Pipe
<1>8. pipe[p].at = "unused" /\ \A q \in Pipe : q > p => pipe[q].at = "unused"
  BY <1>2, <1>5 DEF Pipe
<1>9. StartedInOrder'
  BY <1>7 DEF StartedInOrder
<1> QED BY <1>6, <1>8, <1>9

\* A click that starts a pipeline finds none that submits (Submit, WrapEth).
LEMMA Begins ==
    ASSUME SubmitInv, NEW p \in Pipe, NEW r \in PipeRecord, Starts(p, r),
           r.at \in {"upload", "wrapping"}, r.wrap <=> r.at = "wrapping",
           ui' \in UiState, ui'.modal = "execute",
           ~abandoned => \A q \in Pipe : ~Active(q),
           ~abandoned /\ ~r.wrap =>
             ~ui'.needsWrap /\ r.form = form /\ \A q \in Pipe : ~InFlight(q),
           UNCHANGED <<form, chainVars, abandoned, spent>>
    PROVE  SubmitInv'
<1> USE SubmitAssumption
<1>1. Types /\ WrapsNeverSubmit /\ ChainAgrees
  BY DEF SubmitInv, Always
<1>2. /\ pipe[p].at = "unused"
      /\ \A q \in Pipe : q > p => pipe[q].at = "unused"
      /\ StartedInOrder'
      /\ pipe' \in [Pipe -> PipeRecord] /\ pipe'[p] = r
      /\ \A q \in Pipe \ {p} : pipe'[q] = pipe[q]
  BY StartsNext
<1>3. Types'
  BY <1>1, <1>2 DEF Types, chainVars
<1>4. InFlight(p)' /\ \A q \in Pipe \ {p} : InFlight(q)' = InFlight(q)
  BY <1>2 DEF InFlight, Resting
<1>5. WrapsNeverSubmit'
  BY <1>1, <1>2, <1>4 DEF WrapsNeverSubmit, WrapPlace
<1>6. submitTx[p] = "none"
  BY <1>1, <1>2 DEF ChainAgrees, BeforeSubmit
<1>7. ChainAgrees'
  BY <1>1, <1>2, <1>6 DEF ChainAgrees, chainVars
<1>8. NoSilentStall' /\ ShownIsOneSubmission'
  BY <1>1, <1>4 DEF NoSilentStall, ShownIsOneSubmission
<1>9. ASSUME ~abandoned PROVE Orderly'
  <2>1. \A q \in Pipe : ~Waiting(q)' /\ ~Waiting(q)
    BY <1>9 DEF Active, Waiting, chainVars
  <2>2. \A q \in Pipe \ {p} : ~Submitting(q)' /\ ~Active(q)'
    BY <1>2, <1>4, <1>9, <2>1 DEF Active, Submitting
  <2>3. Submitting(p)' = ~r.wrap /\ Active(p)' = ~r.wrap
    BY <1>2, <1>4, <2>1 DEF Active, Submitting
  <2>4. OneAtATime'
    BY <1>4, <1>9, <2>1, <2>2, <2>3 DEF OneAtATime
  <2>5. FundsThere'
    BY <1>2, <2>1, <2>2 DEF FundsThere
  <2>6. ResultFollows'
    <3>1. IsLast(p)'
      BY <1>2 DEF IsLast, Pipe
    <3> QED BY <1>2, <1>9, <2>2, <2>3, <3>1 DEF ResultFollows, AfterReceipt
  <2> QED BY <2>4, <2>5, <2>6 DEF Orderly
<1>10. (abandoned \/ Orderly)'
  <2>1. CASE abandoned
    BY <2>1
  <2>2. CASE ~abandoned
    BY <1>9, <2>2
  <2> QED BY <2>1, <2>2
<1> QED BY <1>2, <1>3, <1>5, <1>7, <1>8, <1>10 DEF SubmitInv, Always

\* A submission starts from the compose form, where nothing is in flight (370-405).
LEMMA StepSubmit == ASSUME SubmitInv, NEW p \in Pipe, Submit(p) PROVE SubmitInv'
<1> DEFINE r == [at |-> "upload", wrap |-> FALSE, form |-> form, total |-> 0]
           u == [Blank EXCEPT !.modal = "execute"]
<1>1. Types
  BY TypesHold
<1>2. r \in PipeRecord /\ r.at = "upload" /\ ~r.wrap /\ r.form = form
  BY <1>1 DEF PipeRecord, Types, Place, BeforeSubmit
<1>3. Starts(p, r) /\ ui.modal = "compose" /\ ui' = SetStep(u, 1, "active")
  BY DEF Submit
<1>4. u \in UiState /\ u.modal = "execute" /\ ~u.needsWrap
  BY BlankFields DEF UiState
<1> HIDE DEF u, r
<1>5. ui' \in UiState /\ ui'.modal = "execute" /\ ~ui'.needsWrap
  BY <1>3, <1>4, SetStepFields DEF StepId, Status
<1>6. ~abandoned => \A q \in Pipe : ~InFlight(q) /\ ~Active(q)
  BY <1>3, NothingBehind DEF Active, Submitting
<1>7. UNCHANGED <<form, chainVars, abandoned, spent>>
  BY DEF Submit
<1> QED BY <1>2, <1>3, <1>5, <1>6, <1>7, Begins

\* A wrap starts where a submission was blocked, and none is in flight.
LEMMA StepWrapEth == ASSUME SubmitInv, NEW p \in Pipe, WrapEth(p) PROVE SubmitInv'
<1> DEFINE r == [at |-> "wrapping", wrap |-> TRUE, form |-> NoPhoto, total |-> 0]
<1>1. Types
  BY TypesHold
<1>2. r \in PipeRecord /\ r.at = "wrapping" /\ r.wrap
  BY DEF PipeRecord, Form, Place, BeforeSubmit
<1>3. Starts(p, r) /\ ui.modal = "execute" /\ ui.needsWrap /\ ui' = SetStep(ui, 3, "active")
  BY DEF WrapEth
<1> HIDE DEF r
<1>4. ui' \in UiState /\ ui'.modal = "execute"
  BY <1>1, <1>3, SetStepFields DEF StepId, Status, Types
<1>5. ~abandoned => \A q \in Pipe : ~Active(q)
  BY <1>3 DEF SubmitInv, Orderly, OneAtATime
<1>6. UNCHANGED <<form, chainVars, abandoned, spent>>
  BY DEF WrapEth
<1> QED BY <1>2, <1>3, <1>4, <1>5, <1>6, Begins

(***************************************************************************)
(* The theorems.                                                           *)
(***************************************************************************)
\* Every action keeps the invariant.
LEMMA NextInv == SubmitInv /\ [SubmitNext]_submitVars => SubmitInv'
<1> SUFFICES ASSUME SubmitInv, [SubmitNext]_submitVars PROVE SubmitInv'
  OBVIOUS
<1>1. CASE FillForm
  BY <1>1, StepFillForm
<1>2. CASE SubmitRefused
  BY <1>2, StepSubmitRefused
<1>3. CASE Cancel
  BY <1>3, StepCancel
<1>4. CASE SubmitAnother
  BY <1>4, StepSubmitAnother
<1>5. CASE Reload
  BY <1>5, StepReload
<1>6. CASE Spend
  BY <1>6, StepSpend
<1>7. ASSUME NEW p \in Pipe, Submit(p) \/ WrapEth(p) PROVE SubmitInv'
  BY <1>7, StepSubmit, StepWrapEth
<1>8. ASSUME NEW p \in Pipe, PipelineStep(p) PROVE SubmitInv'
  BY <1>8, StepUploaded, StepWalletConnected, StepReadBonds, StepReadAllowance, StepApprove,
     StepSendSubmit, StepReadReceipt, StepReadLiveness, StepTimerFires, StepSendSettle,
     StepSettleFails, StepReadSettled, StepWrapped DEF PipelineStep, NoAssertion
<1>9. ASSUME NEW p \in Pipe, ChainStep(p) \/ SettledByAnother(p) \/ Disputed(p)
      PROVE  SubmitInv'
  BY <1>9, StepMineSubmit, StepMineSettle, StepExpires, StepSettledByAnother, StepDisputed
     DEF ChainStep
<1>10. ASSUME NEW p \in Pipe, SettleFails(p) \/ WrapFails(p) \/ PipelineFails(p)
       PROVE  SubmitInv'
  BY <1>10, StepSettleFails, StepWrapFails, StepPipelineFails
<1>11. CASE BondMoves
  BY <1>11, StepBondMoves
<1>12. CASE UNCHANGED submitVars
  <2>1. UNCHANGED <<form, ui, pipe, weth, allowance, bond, submitTx, settleTx, claim, stake,
                    abandoned, spent>>
    BY <1>12 DEF submitVars
  <2>2. Types' /\ ChainAgrees'
    BY <2>1 DEF SubmitInv, Always, Types, ChainAgrees
  <2>3. ~abandoned => spent' \/ FundsThere'
    BY <2>1, FundsKept, TypesHold DEF Types
  <2> QED BY <2>1, <2>2, <2>3, ChainMoves
<1> QED BY <1>1, <1>2, <1>3, <1>4, <1>5, <1>6, <1>7, <1>8, <1>9, <1>10, <1>11, <1>12
       DEF SubmitNext

\* Whatever is clicked, cancelled, reloaded, thrown or mined, and in whatever order:
\* the strengthening that makes the properties of useReportSubmit.ts inductive.
THEOREM SubmitInvariant == SubmitSpec => []SubmitInv
<1>1. SubmitInit => SubmitInv
  BY InitInv
<1>2. SubmitInv /\ [SubmitNext]_submitVars => SubmitInv'
  BY NextInv
<1> QED BY <1>1, <1>2, PTL DEF SubmitSpec

\* The modal never shows an execution that nobody runs without an error or a call to
\* wrap (useReportSubmit.ts:464-472, 502-509, 573-581).
THEOREM StallsAreShown == SubmitSpec => []NoSilentStall
<1>1. SubmitInv => NoSilentStall
  BY DEF SubmitInv
<1> QED BY <1>1, SubmitInvariant, PTL

\* Only a mined transaction reverts: every other step leaves it as it is, or sends it.
LEMMA OnlyMiningReverts ==
    ASSUME SubmitInv, NEW p \in Pipe, submitTx[p] = "pending", submitTx'[p] = "reverted",
           [SubmitNext]_submitVars
    PROVE  ~(allowance >= bond /\ weth >= bond)
<1>1. submitTx \in [Pipe -> {"none", "pending", "ok", "reverted"}]
  BY TypesHold DEF Types
<1>2. submitTx' # submitTx
  OBVIOUS
<1>3. \E q \in Pipe : SendSubmit(q) \/ MineSubmit(q)
  BY <1>2 DEF SubmitNext, submitVars, chainVars, FillForm, SubmitRefused, Cancel, SubmitAnother,
     Reload, Spend, BondMoves, Submit, WrapEth, PipelineStep, ChainStep, SettleFails, WrapFails,
     PipelineFails, SettledByAnother, Disputed, Uploaded, WalletConnected, ReadBonds,
     ReadAllowance, Approve, ReadReceipt, ReadLiveness, TimerFires, SendSettle, NoAssertion,
     ReadSettled, Wrapped, MineSettle, Expires
<1>4. ASSUME NEW q \in Pipe, SendSubmit(q) PROVE FALSE
  BY <1>1, <1>4 DEF SendSubmit
<1>5. ASSUME NEW q \in Pipe, MineSubmit(q) PROVE ~(allowance >= bond /\ weth >= bond)
  BY <1>1, <1>5 DEF MineSubmit
<1> QED BY <1>3, <1>4, <1>5

\* A submission whose funds were checked (477-534) reverts only because the bonds have
\* risen above what it read, one was abandoned, or the account spent its WETH elsewhere.
THEOREM FundsSuffice == SubmitSpec => CheckedFundsSuffice
<1>1. SubmitInv /\ [SubmitNext]_submitVars =>
        [\A p \in Pipe : submitTx[p] = "pending" /\ submitTx'[p] = "reverted" =>
             abandoned \/ spent \/ bond > pipe[p].total]_submitVars
  <2> SUFFICES ASSUME SubmitInv, [SubmitNext]_submitVars, NEW p \in Pipe,
                      submitTx[p] = "pending", submitTx'[p] = "reverted",
                      ~abandoned, ~spent
               PROVE  bond > pipe[p].total
    OBVIOUS
  <2>1. ~(allowance >= bond /\ weth >= bond)
    BY OnlyMiningReverts
  <2>2. weth >= pipe[p].total /\ allowance >= pipe[p].total
    BY DEF SubmitInv, Orderly, FundsThere, Waiting
  <2>3. weth \in Nat /\ allowance \in Nat /\ bond \in Nat /\ pipe[p].total \in Nat
    BY TypesHold DEF Types, PipeRecord
  <2> QED BY <2>1, <2>2, <2>3
<1> QED BY <1>1, SubmitInvariant, PTL DEF SubmitSpec, CheckedFundsSuffice

\* The result shown at the end (ReportModal.tsx:264-313) is that of the last submission.
THEOREM OneSubmissionShown == SubmitSpec => []ShownIsOneSubmission
<1>1. SubmitInv => ShownIsOneSubmission
  BY DEF SubmitInv
<1> QED BY <1>1, SubmitInvariant, PTL
=============================================================================
