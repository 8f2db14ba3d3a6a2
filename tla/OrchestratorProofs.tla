------------------------- MODULE OrchestratorProofs -------------------------
(***************************************************************************)
(* For any number of callers, vessels, runs and failures: what a run that  *)
(* answered promises of the ledgers, when a run goes by another name, and  *)
(* that the runs keep the directory they download into.                    *)
(***************************************************************************)
EXTENDS Orchestrator, ImagerDownloadProofs

(***************************************************************************)
(* The inductive invariant.                                                *)
(***************************************************************************)
Stage == {"ended", "download", "enroll", "mint", "minting", "load", "open", "put", "decide",
          "deciding"}

\* The stages at which a run knows its handle, holds the new ledgers, and writes them.
Named  == {"load", "open", "put", "decide", "deciding"}
Holder == {"open", "put", "decide", "deciding"}
Saving == {"open", "put"}

RunRecord  == [at : Stage, id : Run \cup {NoRun}, imo : Imo \cup {Idle}, handle : Handle,
               enabled : BOOLEAN, file : LedgerFile, mem : Ledgers \cup {Idle}]

RunTypes ==
    /\ run \in [Session -> RunRecord]
    /\ runs \in Run \cup {NoRun}
    /\ returned \subseteq [id : Run, imo : Imo, handle : Handle]
    /\ ledgers = [f \in LedgerFile |-> [text |-> Text(f), writers |-> ledgers[f].writers]]
    /\ \A f \in LedgerFile : ledgers[f].writers \subseteq Session
    /\ Text("state") \in Ledgers \cup {NoFile, Torn}
    /\ nameOwner \in {"nobody", "orchestrator", "rival"}
    /\ lastDecision \in Run \cup {NoRun}
    /\ concurrent \in BOOLEAN /\ refused \in BOOLEAN /\ cut \in BOOLEAN

\* What a run has in memory, at each of its cuts.
RunWellFormed(r) ==
    /\ r.enabled <=> r.handle = Agent
    /\ r.at = "deciding" => r.enabled
    /\ r.at # "ended" => r.imo \in Imo /\ r.id \in Run /\ r.id <= runs
    /\ r.at \in Holder => r.mem \in Ledgers

RunsAreCounted ==
    /\ lastDecision <= runs
    /\ \A r \in returned : r.id <= runs
    /\ \A s \in Session : RunWellFormed(run[s])

\* A run has the one ledger open that it is putting.
SaversPut ==
    \A s \in Session, f \in LedgerFile :
        s \in ledgers[f].writers <=> run[s].at = "put" /\ run[s].file = f

OneAtATime == ~concurrent => \A s, t \in Session : Running(s) /\ Running(t) => s = t

Explained == refused \/ concurrent \/ nameOwner = "rival"

\* A run that found the name free and goes to mint it was not yet overtaken by itself.
FallbackKnown ==
    /\ \A r \in returned : r.handle = Fallback => Explained
    /\ \A s \in Session :
         /\ run[s].at \in Named /\ run[s].handle = Fallback => Explained
         /\ run[s].at = "mint" => nameOwner = "nobody" \/ Explained

\* Ledgers that are up to date with the runs that answered and the decision on chain.
UpToDate(m) ==
    /\ lastDecision <= m.verifiers[Agent]
    /\ \A r \in returned : m.vessels[r.imo] >= r.id /\ m.verifiers[r.handle] >= r.id

Rendered ==
    /\ Text("vessels") = Recorded.vessels
    /\ Text("verifiers") = Recorded.verifiers

\* A run that has the ledgers for itself: it is the last that began, what it holds is up
\* to date and names it, and the files it has written are those it holds.
Saves(r) ==
    /\ r.at # "ended" => r.id = runs
    /\ r.at \in Holder =>
         /\ UpToDate(r.mem)
         /\ r.mem.vessels[r.imo] = r.id /\ r.mem.verifiers[r.handle] = r.id
         /\ (r.at \in Saving /\ r.file = "state") \/ Text("state") = r.mem
         /\ (r.at \in Saving /\ r.file # "verifiers") \/ Text("vessels") = r.mem.vessels
         /\ r.at \in Saving \/ Text("verifiers") = r.mem.verifiers
    /\ r.at = "put" => Text(r.file) = Torn

Saved ==
    /\ \A s \in Session : Saves(run[s])
    /\ (\A s \in Session : ~(run[s].at = "put" /\ run[s].file = "state")) =>
         Text("state") # Torn /\ UpToDate(Recorded)
    /\ (\A s \in Session : run[s].at \notin Saving) => Text("state") = NoFile \/ Rendered

OrchestratorInvariant ==
    /\ RunTypes /\ RunsAreCounted /\ SaversPut /\ OneAtATime /\ FallbackKnown
    /\ Undisturbed => Saved

ownVars == <<run, runs, returned, ledgers, chainVars, concurrent, refused, cut>>

(***************************************************************************)
(* What a step does to the record of the run that takes it.                *)
(***************************************************************************)
\* The counts are numbers, and the sentinels are no ledgers.
LEMMA Numbers ==
    /\ MaxRuns \in Nat
    /\ Run \cup {NoRun} \subseteq Nat
    /\ \A i \in Run : i >= 1 /\ i <= MaxRuns
    /\ NoFile # Torn /\ NoFile \notin Ledgers /\ Torn \notin Ledgers
<1>1. MaxRuns \in Nat
  BY OrchestratorAssumption
<1>2. NoFile # Torn /\ NoFile \notin Ledgers /\ Torn \notin Ledgers
  BY ImagerSentinels, LedgerSentinels
<1>3. QED
  BY <1>1, <1>2 DEF Run, NoRun

\* A step of one run leaves the records of the others alone.
LEMMA OneMoves ==
    ASSUME RunTypes, NEW s \in Session, NEW r \in RunRecord, Moves(s, r)
    PROVE  /\ run' \in [Session -> RunRecord]
           /\ run'[s] = r
           /\ \A t \in Session \ {s} : run'[t] = run[t]
BY DEF RunTypes, Moves

\* A run that ended is the record of a run.
LEMMA EndedIsRecord == Ended \in RunRecord
BY DEF Ended, RunRecord, Stage, Run, NoRun, Handle, Fallback, LedgerFile

\* Steps of the download, and whatever else leaves the variables of the pipeline alone.
LEMMA InvariantElsewhere ==
    ASSUME OrchestratorInvariant, UNCHANGED ownVars
    PROVE  OrchestratorInvariant'
<1>1. /\ run' = run /\ runs' = runs /\ returned' = returned /\ ledgers' = ledgers
      /\ nameOwner' = nameOwner /\ lastDecision' = lastDecision
      /\ concurrent' = concurrent /\ refused' = refused /\ cut' = cut
  BY DEF ownVars, chainVars
<1>2. RunTypes' /\ RunsAreCounted'
  BY <1>1 DEF OrchestratorInvariant, RunTypes, RunsAreCounted, RunWellFormed, Text
<1>3. SaversPut' /\ OneAtATime' /\ FallbackKnown'
  BY <1>1 DEF OrchestratorInvariant, SaversPut, OneAtATime, Running, FallbackKnown, Explained
<1>4. (Undisturbed => Saved)'
  BY <1>1 DEF OrchestratorInvariant, Undisturbed, Saved, Saves, UpToDate, Rendered, Recorded, Text
<1>5. QED
  BY <1>2, <1>3, <1>4 DEF OrchestratorInvariant

\* Before a run loads the ledgers it moves between stages, or ends; others may see the
\* name taken meanwhile, but only by a rival or by a concurrent run.
LEMMA InvariantBeforeLoad ==
    ASSUME OrchestratorInvariant, NEW s \in Session, NEW r \in RunRecord, Moves(s, r),
           UNCHANGED <<runs, returned, ledgers, lastDecision, concurrent, cut>>,
           refused' \in BOOLEAN, refused => refused',
           nameOwner' \in {"nobody", "orchestrator", "rival"},
           nameOwner # "nobody" => nameOwner' = nameOwner,
           run[s].at # "ended", run[s].at \notin Holder, r.at \notin Holder,
           r.at # "ended" => r.id = run[s].id /\ r.imo = run[s].imo,
           r.enabled <=> r.handle = Agent, r.at # "deciding",
           r.at \in Named /\ r.handle = Fallback => Explained',
           r.at = "mint" => nameOwner' = "nobody" \/ Explained'
    PROVE  OrchestratorInvariant'
<1>1. /\ RunTypes /\ RunsAreCounted /\ SaversPut /\ OneAtATime /\ FallbackKnown
      /\ Undisturbed => Saved
  BY DEF OrchestratorInvariant
<1>2. /\ run' \in [Session -> RunRecord] /\ run'[s] = r
      /\ \A t \in Session \ {s} : run'[t] = run[t]
  BY <1>1, OneMoves
<1>3. /\ runs' = runs /\ returned' = returned /\ ledgers' = ledgers
      /\ lastDecision' = lastDecision /\ concurrent' = concurrent /\ cut' = cut
  OBVIOUS
<1>4. RunTypes'
  BY <1>1, <1>2, <1>3 DEF RunTypes, Text
<1>5. RunsAreCounted'
  <2>1. RunWellFormed(r)'
    BY <1>1, <1>2, <1>3 DEF RunsAreCounted, RunWellFormed
  <2>2. QED
    BY <1>1, <1>2, <1>3, <2>1 DEF RunsAreCounted, RunWellFormed
<1>6. SaversPut'
  BY <1>1, <1>2, <1>3 DEF SaversPut, Holder
<1>7. OneAtATime'
  BY <1>1, <1>2, <1>3 DEF OneAtATime, Running
<1>8. FallbackKnown'
  <2>1. Explained => Explained'
    BY <1>3 DEF Explained
  <2>2. \A x \in returned' : x.handle = Fallback => Explained'
    BY <1>1, <1>3, <2>1 DEF FallbackKnown
  <2>3. ASSUME NEW t \in Session
        PROVE  /\ run'[t].at \in Named /\ run'[t].handle = Fallback => Explained'
               /\ run'[t].at = "mint" => nameOwner' = "nobody" \/ Explained'
    <3>1. CASE t = s
      BY <1>2, <3>1
    <3>2. CASE t # s
      <4>1. run'[t] = run[t]
        BY <1>2, <3>2
      <4>2. run[t].at = "mint" => concurrent
        BY <1>1, <3>2 DEF OneAtATime, Running
      <4>3. QED
        BY <1>1, <1>3, <2>1, <4>1, <4>2 DEF FallbackKnown, Explained
    <3>3. QED
      BY <3>1, <3>2
  <2>4. QED
    BY <2>2, <2>3 DEF FallbackKnown
<1>9. (Undisturbed => Saved)'
  <2> SUFFICES ASSUME Undisturbed'
               PROVE  Saved'
    OBVIOUS
  <2>1. Saved
    BY <1>1, <1>3 DEF Undisturbed
  <2>2. ASSUME NEW t \in Session
        PROVE  Saves(run[t])'
    <3>1. CASE t = s
      BY <1>2, <1>3, <2>1, <3>1 DEF Saved, Saves, Holder
    <3>2. CASE t # s
      <4>1. run'[t] = run[t]
        BY <1>2, <3>2
      <4>2. QED
        BY <1>3, <2>1, <4>1 DEF Saved, Saves, UpToDate, Text
    <3>3. QED
      BY <3>1, <3>2
  <2>3. (\A t \in Session : ~(run[t].at = "put" /\ run[t].file = "state"))' =>
          (Text("state") # Torn /\ UpToDate(Recorded))'
    BY <1>2, <1>3, <2>1 DEF Saved, UpToDate, Recorded, Text, Holder
  <2>4. (\A t \in Session : run[t].at \notin Saving)' => (Text("state") = NoFile \/ Rendered)'
    BY <1>2, <1>3, <2>1 DEF Saved, Rendered, Recorded, Text, Holder, Saving
  <2>5. QED
    BY <2>2, <2>3, <2>4 DEF Saved
<1>10. QED
  BY <1>4, <1>5, <1>6, <1>7, <1>8, <1>9 DEF OrchestratorInvariant

\* A rival explains every fallback from then on.
LEMMA InvariantAtRival ==
    ASSUME OrchestratorInvariant, RivalTakesName
    PROVE  OrchestratorInvariant'
<1>1. /\ run' = run /\ runs' = runs /\ returned' = returned /\ ledgers' = ledgers
      /\ nameOwner' = "rival" /\ lastDecision' = lastDecision
      /\ concurrent' = concurrent /\ refused' = refused /\ cut' = cut
  BY DEF RivalTakesName
<1>2. RunTypes' /\ RunsAreCounted'
  BY <1>1 DEF OrchestratorInvariant, RunTypes, RunsAreCounted, RunWellFormed, Text
<1>3. SaversPut' /\ OneAtATime' /\ FallbackKnown'
  BY <1>1 DEF OrchestratorInvariant, SaversPut, OneAtATime, Running, FallbackKnown, Explained
<1>4. (Undisturbed => Saved)'
  BY <1>1 DEF OrchestratorInvariant, Undisturbed, Saved, Saves, UpToDate, Rendered, Recorded, Text
<1>5. QED
  BY <1>2, <1>3, <1>4 DEF OrchestratorInvariant

\* A new run has a number of its own; when it is alone, nobody is saving.
LEMMA InvariantAtProcess ==
    ASSUME OrchestratorInvariant, NEW s \in Session, NEW imo \in Imo, Process(s, imo)
    PROVE  OrchestratorInvariant'
<1> DEFINE r == [Ended EXCEPT !.at = "download", !.id = runs + 1, !.imo = imo]
<1>1. /\ RunTypes /\ RunsAreCounted /\ SaversPut /\ OneAtATime /\ FallbackKnown
      /\ Undisturbed => Saved
  BY DEF OrchestratorInvariant
<1>2. /\ run[s].at = "ended" /\ runs < MaxRuns /\ runs' = runs + 1 /\ Moves(s, r)
      /\ concurrent' = (concurrent \/ \E t \in Session \ {s} : Running(t))
      /\ returned' = returned /\ ledgers' = ledgers /\ refused' = refused /\ cut' = cut
      /\ nameOwner' = nameOwner /\ lastDecision' = lastDecision
  BY DEF Process, Running, chainVars
<1>3. runs \in Nat /\ runs' \in Run /\ lastDecision \in Nat
  BY <1>1, <1>2, Numbers DEF RunTypes, Run, NoRun
<1>4. r.at = "download" /\ r.id = runs + 1 /\ r.imo = imo /\ r.handle = Fallback /\ ~r.enabled
  BY DEF Ended
<1>5. r \in RunRecord
  BY <1>2, <1>3 DEF Ended, RunRecord, Stage, Handle, LedgerFile
<1> HIDE DEF r
<1>6. /\ run' \in [Session -> RunRecord] /\ run'[s] = r
      /\ \A t \in Session \ {s} : run'[t] = run[t]
  BY <1>1, <1>2, <1>5, OneMoves
<1>7. RunTypes'
  BY <1>1, <1>2, <1>3, <1>6 DEF RunTypes, Text
<1>8. RunsAreCounted'
  <2>1. \A x \in returned : x.id \in Nat
    BY <1>1, Numbers DEF RunTypes
  <2>2. RunWellFormed(run[s])'
    BY <1>2, <1>3, <1>4, <1>6 DEF RunWellFormed, Fallback, Agent, Holder, Run
  <2>3. ASSUME NEW t \in Session PROVE RunWellFormed(run[t])'
    <3>1. CASE t = s
      BY <2>2, <3>1
    <3>2. CASE t # s
      <4>1. run'[t] = run[t] /\ run[t].at # "ended" => run[t].id \in Nat /\ run[t].id <= runs
        BY <1>1, <1>6, <3>2, Numbers DEF RunsAreCounted, RunWellFormed
      <4>2. QED
        BY <1>1, <1>2, <1>3, <1>6, <3>2, <4>1 DEF RunsAreCounted, RunWellFormed
    <3>3. QED
      BY <3>1, <3>2
  <2>4. QED
    BY <1>1, <1>2, <1>3, <2>1, <2>3 DEF RunsAreCounted
<1>9. SaversPut'
  BY <1>1, <1>2, <1>4, <1>6 DEF SaversPut
<1>10. OneAtATime'
  <2>1. ~concurrent' => \A t \in Session \ {s} : run[t].at = "ended"
    BY <1>2 DEF Running
  <2>2. ~concurrent' => \A t \in Session : run'[t].at # "ended" => t = s
    BY <1>6, <2>1
  <2>3. QED
    BY <2>2 DEF OneAtATime, Running
<1>11. FallbackKnown'
  <2>1. Explained => Explained'
    BY <1>2 DEF Explained
  <2>2. QED
    BY <1>1, <1>2, <1>4, <1>6, <2>1 DEF FallbackKnown, Named
<1>12. (Undisturbed => Saved)'
  <2> SUFFICES ASSUME Undisturbed'
               PROVE  Saved'
    OBVIOUS
  <2>1. Saved /\ \A t \in Session : run[t].at = "ended"
    BY <1>1, <1>2 DEF Undisturbed, Running, RunTypes
  <2>2. \A t \in Session : Saves(run[t])'
    BY <1>2, <1>4, <1>6, <2>1 DEF Saves, Holder
  <2>3. QED
    BY <1>2, <1>6, <2>1, <2>2 DEF Saved, UpToDate, Rendered, Recorded, Text, Saving
<1>13. QED
  BY <1>7, <1>8, <1>9, <1>10, <1>11, <1>12 DEF OrchestratorInvariant

\* A run that ends: it answered, or it failed, or it was killed.
LEMMA InvariantAtEnd ==
    ASSUME OrchestratorInvariant, NEW s \in Session, Moves(s, Ended), Running(s),
           UNCHANGED <<runs, nameOwner, concurrent>>,
           ledgers' = Disk!Closed(s),
           refused' \in BOOLEAN, refused => refused',
           cut' \in BOOLEAN, cut => cut', run[s].at \in Saving => cut',
           \/ lastDecision' = lastDecision
           \/ run[s].at = "deciding" /\ lastDecision' = run[s].id,
           \/ returned' = returned
           \/ /\ run[s].at \in {"decide", "deciding"}
              /\ returned' = returned \cup
                   {[id |-> run[s].id, imo |-> run[s].imo, handle |-> run[s].handle]}
    PROVE  OrchestratorInvariant'
<1> DEFINE own == [id |-> run[s].id, imo |-> run[s].imo, handle |-> run[s].handle]
<1>1. /\ RunTypes /\ RunsAreCounted /\ SaversPut /\ OneAtATime /\ FallbackKnown
      /\ Undisturbed => Saved
  BY DEF OrchestratorInvariant
<1>2. /\ run' \in [Session -> RunRecord] /\ run'[s] = Ended
      /\ \A t \in Session \ {s} : run'[t] = run[t]
  BY <1>1, OneMoves, EndedIsRecord
<1>3. run[s] \in RunRecord /\ RunWellFormed(run[s]) /\ run[s].at # "ended"
  BY <1>1 DEF RunTypes, RunsAreCounted, Running
<1>4. own \in [id : Run, imo : Imo, handle : Handle] /\ own.id <= runs
  BY <1>3 DEF RunWellFormed, RunRecord
<1>5. /\ ledgers' = [f \in LedgerFile |-> [text |-> Text(f), writers |-> ledgers[f].writers \ {s}]]
      /\ \A f \in LedgerFile : Text(f)' = Text(f) /\ ledgers'[f].writers = ledgers[f].writers \ {s}
  <2>1. DOMAIN ledgers = LedgerFile
    BY <1>1 DEF RunTypes
  <2>2. \A f \in LedgerFile : ledgers[f] = [text |-> Text(f), writers |-> ledgers[f].writers]
    BY <1>1 DEF RunTypes
  <2>3. ledgers' = [f \in LedgerFile |-> [text |-> Text(f), writers |-> ledgers[f].writers \ {s}]]
    <3>1. \A f \in LedgerFile : [ledgers[f] EXCEPT !.writers = @ \ {s}]
                                = [text |-> Text(f), writers |-> ledgers[f].writers \ {s}]
      <4>1. \A t, w : [[text |-> t, writers |-> w] EXCEPT !.writers = @ \ {s}]
                      = [text |-> t, writers |-> w \ {s}]
        OBVIOUS
      <4>2. QED
        BY <2>2, <4>1, Zenon
    <3>2. QED
      BY <2>1, <3>1 DEF Disk!Closed
  <2>4. QED
    BY <2>3 DEF Text
<1>6. \A x \in returned' : x \in returned \/ (x = own /\ run[s].at \in {"decide", "deciding"})
  OBVIOUS
<1>7. Ended.at = "ended" /\ Ended.handle = Fallback /\ ~Ended.enabled
  BY DEF Ended
<1> HIDE DEF own
<1>8. RunTypes'
  <2>1. returned' \subseteq [id : Run, imo : Imo, handle : Handle]
    BY <1>1, <1>4, <1>6 DEF RunTypes
  <2>2. lastDecision' \in Run \cup {NoRun}
    BY <1>1, <1>3 DEF RunTypes, RunWellFormed
  <2>3. /\ ledgers' = [f \in LedgerFile |-> [text |-> Text(f)', writers |-> ledgers'[f].writers]]
        /\ \A f \in LedgerFile : ledgers'[f].writers \subseteq Session
    BY <1>1, <1>5 DEF RunTypes
  <2>4. Text("state")' \in Ledgers \cup {NoFile, Torn}
    BY <1>1, <1>5 DEF RunTypes, LedgerFile
  <2>5. QED
    BY <1>1, <1>2, <2>1, <2>2, <2>3, <2>4 DEF RunTypes, Text
<1>9. RunsAreCounted'
  <2>1. lastDecision' <= runs
    BY <1>1, <1>3 DEF RunsAreCounted, RunWellFormed
  <2>2. \A t \in Session : RunWellFormed(run[t])'
    BY <1>1, <1>2, <1>7 DEF RunsAreCounted, RunWellFormed, Fallback, Agent, Holder
  <2>3. QED
    BY <1>1, <1>4, <1>6, <2>1, <2>2 DEF RunsAreCounted
<1>10. SaversPut'
  BY <1>1, <1>2, <1>5, <1>7 DEF SaversPut
<1>11. OneAtATime'
  BY <1>1, <1>2, <1>7 DEF OneAtATime, Running
<1>12. FallbackKnown'
  <2>1. Explained => Explained'
    BY DEF Explained
  <2>2. run[s].at \in {"decide", "deciding"} /\ own.handle = Fallback => Explained
    BY <1>1 DEF own, FallbackKnown, Named
  <2>3. \A x \in returned' : x.handle = Fallback => Explained'
    BY <1>1, <1>6, <2>1, <2>2 DEF FallbackKnown
  <2>4. QED
    BY <1>1, <1>2, <1>7, <2>1, <2>3 DEF FallbackKnown, Named
<1>13. (Undisturbed => Saved)'
  <2> SUFFICES ASSUME Undisturbed'
               PROVE  Saved'
    OBVIOUS
  <2>1. Saved /\ run[s].at \notin Saving
    BY <1>1 DEF Undisturbed
  <2>2. \A t \in Session \ {s} : run[t].at = "ended"
    BY <1>1, <1>3 DEF Undisturbed, OneAtATime, Running
  <2>3. \A t \in Session : run'[t].at = "ended"
    BY <1>2, <1>7, <2>2
  <2>4. \A t \in Session : Saves(run[t])'
    BY <2>3 DEF Saves, Holder
  <2>5. /\ Text("state")' = Text("state") /\ Text("vessels")' = Text("vessels")
        /\ Text("verifiers")' = Text("verifiers") /\ Recorded' = Recorded
    BY <1>5 DEF LedgerFile, Recorded
  <2>6. /\ Text("state") # Torn /\ UpToDate(Recorded)
        /\ Text("state") = NoFile \/ Rendered
    BY <2>1, <2>2 DEF Saved, Saving
  <2>7. UpToDate(Recorded)'
    <3>1. CASE run[s].at \in {"decide", "deciding"}
      <4>1. /\ Text("state") = run[s].mem /\ run[s].mem \in Ledgers
            /\ run[s].mem.vessels[run[s].imo] = run[s].id
            /\ run[s].mem.verifiers[run[s].handle] = run[s].id
            /\ run[s].at = "deciding" => run[s].handle = Agent
        BY <1>3, <2>1, <3>1 DEF Saved, Saves, Holder, Saving, RunWellFormed
      <4>2. Recorded = run[s].mem /\ run[s].id \in Nat
        BY <1>3, <4>1, Numbers DEF Recorded, RunWellFormed
      <4>3. lastDecision' <= Recorded.verifiers[Agent]
        BY <2>6, <4>1, <4>2 DEF UpToDate
      <4>4. \A x \in returned' : Recorded.vessels[x.imo] >= x.id
                                 /\ Recorded.verifiers[x.handle] >= x.id
        BY <1>6, <2>6, <4>1, <4>2 DEF UpToDate, own
      <4>5. QED
        BY <2>5, <4>3, <4>4 DEF UpToDate
    <3>2. CASE run[s].at \notin {"decide", "deciding"}
      BY <1>6, <2>5, <2>6, <3>2 DEF UpToDate
    <3>3. QED
      BY <3>1, <3>2
  <2>8. QED
    BY <2>3, <2>4, <2>5, <2>6, <2>7 DEF Saved, Rendered
<1>14. QED
  BY <1>8, <1>9, <1>10, <1>11, <1>12, <1>13 DEF OrchestratorInvariant

\* The ledgers a run holds when it has added its own records to those it read.
LEMMA LoadedLedgers ==
    ASSUME RunTypes, NEW i \in Imo, NEW h \in Handle, NEW n \in Run
    PROVE  /\ LoadState \in Ledgers
           /\ LET new == [vessels   |-> [LoadState.vessels EXCEPT ![i] = n],
                          verifiers |-> [LoadState.verifiers EXCEPT ![h] = n]]
              IN  /\ new \in Ledgers
                  /\ new.vessels[i] = n /\ new.verifiers[h] = n
                  /\ \A j \in Imo : j # i => new.vessels[j] = LoadState.vessels[j]
                  /\ \A k \in Handle : k # h => new.verifiers[k] = LoadState.verifiers[k]
<1>1. EmptyState \in Ledgers
  BY DEF EmptyState, Ledgers
<1>2. LoadState \in Ledgers
  BY <1>1 DEF RunTypes, LoadState
<1>3. LoadState.vessels \in [Imo -> Run \cup {NoRun}]
      /\ LoadState.verifiers \in [Handle -> Run \cup {NoRun}]
  BY <1>2 DEF Ledgers
<1>4. QED
  BY <1>2, <1>3 DEF Ledgers

\* It loads what the runs before it saved, and its number is the highest.
LEMMA InvariantAtLoad ==
    ASSUME OrchestratorInvariant, NEW s \in Session, Load(s)
    PROVE  OrchestratorInvariant'
<1> DEFINE new == [vessels   |-> [LoadState.vessels EXCEPT ![run[s].imo] = run[s].id],
                   verifiers |-> [LoadState.verifiers EXCEPT ![run[s].handle] = run[s].id]]
           r   == [run[s] EXCEPT !.at = "open", !.file = "state", !.mem = new]
<1>1. /\ RunTypes /\ RunsAreCounted /\ SaversPut /\ OneAtATime /\ FallbackKnown
      /\ Undisturbed => Saved
  BY DEF OrchestratorInvariant
<1>2. /\ run[s].at = "load" /\ Moves(s, r)
      /\ runs' = runs /\ returned' = returned /\ ledgers' = ledgers
      /\ nameOwner' = nameOwner /\ lastDecision' = lastDecision
      /\ concurrent' = concurrent /\ refused' = refused /\ cut' = cut
  BY DEF Load, chainVars, buildVesselRecord, buildVerifierActivity
<1>3. /\ run[s] \in RunRecord /\ RunWellFormed(run[s])
      /\ run[s].imo \in Imo /\ run[s].handle \in Handle /\ run[s].id \in Run
  <2>1. run[s] \in RunRecord /\ RunWellFormed(run[s])
    BY <1>1 DEF RunTypes, RunsAreCounted
  <2>2. QED
    BY <1>2, <2>1 DEF RunWellFormed, RunRecord
<1>4. /\ new \in Ledgers
      /\ new.vessels[run[s].imo] = run[s].id /\ new.verifiers[run[s].handle] = run[s].id
      /\ \A j \in Imo : j # run[s].imo => new.vessels[j] = LoadState.vessels[j]
      /\ \A k \in Handle : k # run[s].handle => new.verifiers[k] = LoadState.verifiers[k]
  BY <1>1, <1>3, LoadedLedgers
<1> HIDE DEF new
<1>5. /\ r \in RunRecord /\ r.at = "open" /\ r.file = "state" /\ r.mem = new
      /\ r.id = run[s].id /\ r.imo = run[s].imo /\ r.handle = run[s].handle
      /\ r.enabled = run[s].enabled
  BY <1>3, <1>4 DEF RunRecord, Stage, LedgerFile
<1> HIDE DEF r
<1>6. /\ run' \in [Session -> RunRecord] /\ run'[s] = r
      /\ \A t \in Session \ {s} : run'[t] = run[t]
  BY <1>1, <1>2, <1>5, OneMoves
<1>7. RunTypes'
  BY <1>1, <1>2, <1>6 DEF RunTypes, Text
<1>8. RunsAreCounted'
  <2>1. RunWellFormed(run[s])'
    BY <1>2, <1>3, <1>4, <1>5, <1>6 DEF RunWellFormed
  <2>2. \A t \in Session : RunWellFormed(run[t])'
    BY <1>1, <1>2, <1>6, <2>1 DEF RunsAreCounted, RunWellFormed
  <2>3. QED
    BY <1>1, <1>2, <2>2 DEF RunsAreCounted
<1>9. SaversPut'
  BY <1>1, <1>2, <1>5, <1>6 DEF SaversPut
<1>10. OneAtATime'
  BY <1>1, <1>2, <1>5, <1>6 DEF OneAtATime, Running
<1>11. FallbackKnown'
  BY <1>1, <1>2, <1>5, <1>6 DEF FallbackKnown, Named, Explained
<1>12. (Undisturbed => Saved)'
  <2> SUFFICES ASSUME Undisturbed'
               PROVE  Saved'
    OBVIOUS
  <2>1. Saved
    BY <1>1, <1>2 DEF Undisturbed
  <2>2. \A t \in Session \ {s} : run[t].at = "ended" /\ run'[t] = run[t]
    BY <1>1, <1>2, <1>6 DEF Undisturbed, OneAtATime, Running
  <2>3. /\ Text("state") # Torn /\ UpToDate(Recorded)
        /\ run[s].id = runs /\ Recorded = LoadState
    BY <1>2, <2>1, <2>2 DEF Saved, Saves, Recorded, LoadState
  <2>4. UpToDate(new)
    <3>1. lastDecision \in Nat /\ lastDecision <= runs /\ runs \in Nat
      BY <1>1, Numbers DEF RunTypes, RunsAreCounted
    <3>2. Agent \in Handle
      BY DEF Handle
    <3>3. lastDecision <= new.verifiers[Agent]
      BY <1>4, <2>3, <3>1, <3>2 DEF UpToDate
    <3>4. ASSUME NEW x \in returned
          PROVE  new.vessels[x.imo] >= x.id /\ new.verifiers[x.handle] >= x.id
      <4>1. x.imo \in Imo /\ x.handle \in Handle /\ x.id \in Nat /\ x.id <= runs
        BY <1>1, Numbers DEF RunTypes, RunsAreCounted
      <4>2. QED
        BY <1>4, <2>3, <3>1, <4>1 DEF UpToDate
    <3>5. QED
      BY <3>3, <3>4 DEF UpToDate
  <2>5. Saves(run[s])'
    BY <1>2, <1>4, <1>5, <1>6, <2>3, <2>4 DEF Saves, UpToDate, Saving
  <2>6. \A t \in Session : Saves(run[t])'
    BY <1>2, <2>2, <2>5 DEF Saves, Holder
  <2>7. QED
    BY <1>2, <1>5, <1>6, <2>3, <2>6 DEF Saved, UpToDate, Recorded, Text, Saving
<1>13. QED
  BY <1>7, <1>8, <1>9, <1>10, <1>11, <1>12 DEF OrchestratorInvariant

\* What a step of one run does to one ledger.
LEMMA OneLedger ==
    ASSUME RunTypes, NEW s \in Session, NEW g \in LedgerFile, NEW t, NEW w \in SUBSET Session,
           ledgers' = [ledgers EXCEPT ![g] = [text |-> t, writers |-> w]]
    PROVE  /\ ledgers' = [f \in LedgerFile |-> [text |-> Text(f)', writers |-> ledgers'[f].writers]]
           /\ \A f \in LedgerFile : ledgers'[f].writers \subseteq Session
           /\ Text(g)' = t /\ ledgers'[g].writers = w
           /\ \A f \in LedgerFile \ {g} :
                Text(f)' = Text(f) /\ ledgers'[f].writers = ledgers[f].writers
<1>1. DOMAIN ledgers = LedgerFile /\ \A f \in LedgerFile : ledgers[f].writers \subseteq Session
  BY DEF RunTypes
<1>2. \A f \in LedgerFile : ledgers[f] = [text |-> Text(f), writers |-> ledgers[f].writers]
  BY DEF RunTypes
<1>3. /\ DOMAIN ledgers' = LedgerFile
      /\ ledgers'[g] = [text |-> t, writers |-> w]
      /\ \A f \in LedgerFile \ {g} : ledgers'[f] = ledgers[f]
      /\ ledgers' = [f \in LedgerFile |-> ledgers'[f]]
  BY <1>1
<1>4. /\ Text(g)' = t /\ ledgers'[g].writers = w
      /\ \A f \in LedgerFile \ {g} :
           Text(f)' = Text(f) /\ ledgers'[f].writers = ledgers[f].writers
  BY <1>3 DEF Text
<1>5. \A f \in LedgerFile : ledgers'[f] = [text |-> Text(f)', writers |-> ledgers'[f].writers]
  <2> SUFFICES ASSUME NEW f \in LedgerFile
               PROVE  ledgers'[f] = [text |-> Text(f)', writers |-> ledgers'[f].writers]
    OBVIOUS
  <2>1. CASE f = g
    BY <1>3, <1>4, <2>1
  <2>2. CASE f # g
    BY <1>2, <1>3, <1>4, <2>2
  <2>3. QED
    BY <2>1, <2>2
<1>6. ledgers' = [f \in LedgerFile |-> [text |-> Text(f)', writers |-> ledgers'[f].writers]]
  BY <1>3, <1>5
<1>7. QED
  BY <1>1, <1>3, <1>4, <1>6

\* A ledger is torn from when it is opened, and the run that opened it is putting it.
LEMMA InvariantAtOpen ==
    ASSUME OrchestratorInvariant, NEW s \in Session, OpenLedger(s)
    PROVE  OrchestratorInvariant'
<1> DEFINE r == [run[s] EXCEPT !.at = "put"]
<1>0. PICK g : g = run[s].file
  OBVIOUS
<1>1. /\ RunTypes /\ RunsAreCounted /\ SaversPut /\ OneAtATime /\ FallbackKnown
      /\ Undisturbed => Saved
  BY DEF OrchestratorInvariant
<1>2. /\ run[s].at = "open" /\ Moves(s, r)
      /\ ledgers' = [ledgers EXCEPT ![g] = [text |-> Torn, writers |-> ledgers[g].writers \cup {s}]]
      /\ runs' = runs /\ returned' = returned
      /\ nameOwner' = nameOwner /\ lastDecision' = lastDecision
      /\ concurrent' = concurrent /\ refused' = refused /\ cut' = cut
  BY <1>0 DEF OpenLedger, Goes, chainVars, Disk!OpenTruncate
<1>3. run[s] \in RunRecord /\ RunWellFormed(run[s]) /\ g \in LedgerFile
  BY <1>0, <1>1 DEF RunTypes, RunsAreCounted, RunRecord
<1>4. /\ r \in RunRecord /\ r.at = "put" /\ r.file = g /\ r.mem = run[s].mem
      /\ r.id = run[s].id /\ r.imo = run[s].imo /\ r.handle = run[s].handle
      /\ r.enabled = run[s].enabled
  BY <1>0, <1>3 DEF RunRecord, Stage
<1> HIDE DEF r
<1>5. /\ run' \in [Session -> RunRecord] /\ run'[s] = r
      /\ \A t \in Session \ {s} : run'[t] = run[t]
  BY <1>0, <1>1, <1>2, <1>4, OneMoves
<1>6. ledgers[g].writers \cup {s} \in SUBSET Session
  BY <1>0, <1>1, <1>3 DEF RunTypes
<1>7. /\ ledgers' = [f \in LedgerFile |-> [text |-> Text(f)', writers |-> ledgers'[f].writers]]
      /\ \A f \in LedgerFile : ledgers'[f].writers \subseteq Session
      /\ Text(g)' = Torn /\ ledgers'[g].writers = ledgers[g].writers \cup {s}
      /\ \A f \in LedgerFile \ {g} :
           Text(f)' = Text(f) /\ ledgers'[f].writers = ledgers[f].writers
  BY <1>0, <1>1, <1>2, <1>3, <1>6, OneLedger
<1>8. RunTypes'
  <2>1. Text("state")' \in Ledgers \cup {NoFile, Torn}
    BY <1>1, <1>7 DEF RunTypes, LedgerFile
  <2>2. QED
    BY <1>0, <1>1, <1>2, <1>5, <1>7, <2>1 DEF RunTypes
<1>9. RunsAreCounted'
  <2>1. RunWellFormed(run[s])'
    BY <1>0, <1>2, <1>3, <1>4, <1>5 DEF RunWellFormed, Holder
  <2>2. \A t \in Session : RunWellFormed(run[t])'
    BY <1>0, <1>1, <1>2, <1>5, <2>1 DEF RunsAreCounted, RunWellFormed
  <2>3. QED
    BY <1>0, <1>1, <1>2, <2>2 DEF RunsAreCounted
<1>10. SaversPut'
  <2>1. ASSUME NEW t \in Session, NEW f \in LedgerFile
        PROVE  t \in ledgers'[f].writers <=> run'[t].at = "put" /\ run'[t].file = f
    <3>1. t \in ledgers[f].writers <=> run[t].at = "put" /\ run[t].file = f
      BY <1>1 DEF SaversPut
    <3>2. CASE t = s
      BY <1>0, <1>2, <1>4, <1>5, <1>7, <3>1, <3>2
    <3>3. CASE t # s
      BY <1>5, <1>7, <3>1, <3>3
    <3>4. QED
      BY <3>2, <3>3
  <2>2. QED
    BY <2>1 DEF SaversPut
<1>11. OneAtATime'
  BY <1>0, <1>1, <1>2, <1>4, <1>5 DEF OneAtATime, Running
<1>12. FallbackKnown'
  BY <1>0, <1>1, <1>2, <1>4, <1>5 DEF FallbackKnown, Named, Explained
<1>13. (Undisturbed => Saved)'
  <2> SUFFICES ASSUME Undisturbed'
               PROVE  Saved'
    OBVIOUS
  <2>1. Saved
    BY <1>0, <1>1, <1>2 DEF Undisturbed
  <2>2. \A t \in Session \ {s} : run[t].at = "ended" /\ run'[t] = run[t]
    BY <1>0, <1>1, <1>2, <1>5 DEF Undisturbed, OneAtATime, Running
  <2>3. g # "state" => Text("state")' = Text("state")
    BY <1>7 DEF LedgerFile
  <2>4. g = "verifiers" => Text("vessels")' = Text("vessels")
    BY <1>7 DEF LedgerFile
  <2>5. Saves(run[s])
    BY <2>1 DEF Saved
  <2>6. Saves(run[s])'
    BY <1>0, <1>2, <1>3, <1>4, <1>5, <1>7, <2>3, <2>4, <2>5
    DEF Saves, UpToDate, Holder, Saving, LedgerFile
  <2>7. \A t \in Session : Saves(run[t])'
    BY <1>0, <1>2, <2>2, <2>6 DEF Saves, Holder
  <2>8. g # "state" => (Text("state") # Torn /\ UpToDate(Recorded))'
    <3>1. Text("state") # Torn /\ UpToDate(Recorded)
      BY <1>0, <1>2, <2>1, <2>2 DEF Saved
    <3>2. QED
      BY <1>0, <1>2, <2>3, <3>1 DEF UpToDate, Recorded
  <2>9. QED
    BY <1>4, <1>5, <2>7, <2>8 DEF Saved, Saving
<1>14. QED
  BY <1>8, <1>9, <1>10, <1>11, <1>12, <1>13 DEF OrchestratorInvariant

\* A ledger that was put shows what the run holds; the last one completes the three.
LEMMA InvariantAtWrite ==
    ASSUME OrchestratorInvariant, NEW s \in Session, WriteLedger(s)
    PROVE  OrchestratorInvariant'
<1>0. PICK g : g = run[s].file
  OBVIOUS
<1> DEFINE put  == View(run[s].mem, g)
           at   == IF g = "verifiers" THEN "decide" ELSE "open"
           file == IF g = "state" THEN "vessels" ELSE "verifiers"
           r    == [run[s] EXCEPT !.at = at, !.file = file]
<1>1. /\ RunTypes /\ RunsAreCounted /\ SaversPut /\ OneAtATime /\ FallbackKnown
      /\ Undisturbed => Saved
  BY DEF OrchestratorInvariant
<1>2. /\ run[s].at = "put" /\ Disk!Put(s, put)
      /\ runs' = runs /\ returned' = returned
      /\ nameOwner' = nameOwner /\ lastDecision' = lastDecision
      /\ concurrent' = concurrent /\ refused' = refused /\ cut' = cut
  BY <1>0 DEF WriteLedger, chainVars
<1>3. run[s] \in RunRecord /\ RunWellFormed(run[s]) /\ g \in LedgerFile /\ run[s].mem \in Ledgers
  BY <1>0, <1>1, <1>2 DEF RunTypes, RunsAreCounted, RunRecord, RunWellFormed, Holder
<1>4. /\ r \in RunRecord /\ r.at = at /\ r.file = file /\ r.mem = run[s].mem
      /\ r.id = run[s].id /\ r.imo = run[s].imo /\ r.handle = run[s].handle
      /\ r.enabled = run[s].enabled
  BY <1>0, <1>3 DEF RunRecord, Stage, LedgerFile
<1>5. Moves(s, r)
  <2>1. CASE g = "state"
    BY <1>0, <2>1 DEF WriteLedger
  <2>2. CASE g = "vessels"
    BY <1>0, <2>2 DEF WriteLedger
  <2>3. CASE g = "verifiers"
    <3>1. Moves(s, [run[s] EXCEPT !.at = "decide"])
      BY <1>0, <2>3 DEF WriteLedger
    <3>2. r = [run[s] EXCEPT !.at = "decide"]
      BY <1>0, <1>3, <2>3 DEF RunRecord
    <3>3. QED
      BY <3>1, <3>2
  <2>4. QED
    BY <1>0, <1>3, <2>1, <2>2, <2>3 DEF LedgerFile
<1> HIDE DEF r
<1>6. /\ run' \in [Session -> RunRecord] /\ run'[s] = r
      /\ \A t \in Session \ {s} : run'[t] = run[t]
  BY <1>1, <1>4, <1>5, OneMoves
<1>7. \A f \in LedgerFile : s \in ledgers[f].writers <=> f = g
  BY <1>0, <1>1, <1>2, <1>3 DEF SaversPut
<1> HIDE DEF put
<1>8. PICK t : /\ t \in {put, Torn} /\ (Text(g) = Torn => t = put)
               /\ ledgers' = [ledgers EXCEPT ![g] =
                                [text |-> t, writers |-> ledgers[g].writers \ {s}]]
  <2>1. DOMAIN ledgers = LedgerFile
    BY <1>1 DEF RunTypes
  <2>2. PICK n \in DOMAIN ledgers :
          /\ s \in ledgers[n].writers
          /\ \E t \in IF ledgers[n].text \in {Torn, put} THEN {put} ELSE {put, Torn} :
               ledgers' = [ledgers EXCEPT ![n] =
                             [text |-> t, writers |-> ledgers[n].writers \ {s}]]
    BY <1>0, <1>2, <1>3, <1>7, <2>1 DEF Disk!Put
  <2>3. n = g
    BY <1>7, <2>1, <2>2
  <2>4. QED
    BY <2>2, <2>3 DEF Text
<1>9. /\ ledgers[g].writers \ {s} \in SUBSET Session
      /\ ledgers' = [ledgers EXCEPT ![g] = [text |-> t, writers |-> ledgers[g].writers \ {s}]]
  BY <1>1, <1>3, <1>8 DEF RunTypes
<1>10. /\ ledgers' = [f \in LedgerFile |-> [text |-> Text(f)', writers |-> ledgers'[f].writers]]
       /\ \A f \in LedgerFile : ledgers'[f].writers \subseteq Session
       /\ Text(g)' = t /\ ledgers'[g].writers = ledgers[g].writers \ {s}
       /\ \A f \in LedgerFile \ {g} :
            Text(f)' = Text(f) /\ ledgers'[f].writers = ledgers[f].writers
  BY <1>1, <1>3, <1>9, OneLedger
<1>11. RunTypes'
  <2>1. Text("state")' \in Ledgers \cup {NoFile, Torn}
    <3>1. g = "state" => put = run[s].mem
      BY DEF put, View
    <3>2. QED
      BY <1>0, <1>1, <1>3, <1>8, <1>10, <3>1 DEF RunTypes, LedgerFile
  <2>2. QED
    BY <1>0, <1>1, <1>2, <1>6, <1>10, <2>1 DEF RunTypes
<1>12. RunsAreCounted'
  <2>1. RunWellFormed(run[s])'
    BY <1>0, <1>2, <1>3, <1>4, <1>6 DEF RunWellFormed, Holder
  <2>2. \A x \in Session : RunWellFormed(run[x])'
    BY <1>0, <1>1, <1>2, <1>6, <2>1 DEF RunsAreCounted, RunWellFormed
  <2>3. QED
    BY <1>0, <1>1, <1>2, <2>2 DEF RunsAreCounted
<1>13. SaversPut'
  <2>1. ASSUME NEW x \in Session, NEW f \in LedgerFile
        PROVE  x \in ledgers'[f].writers <=> run'[x].at = "put" /\ run'[x].file = f
    <3>1. x \in ledgers[f].writers <=> run[x].at = "put" /\ run[x].file = f
      BY <1>1 DEF SaversPut
    <3>2. CASE x = s
      BY <1>4, <1>6, <1>7, <1>10, <3>2
    <3>3. CASE x # s
      BY <1>6, <1>10, <3>1, <3>3
    <3>4. QED
      BY <3>2, <3>3
  <2>2. QED
    BY <2>1 DEF SaversPut
<1>14. OneAtATime'
  BY <1>0, <1>1, <1>2, <1>4, <1>6 DEF OneAtATime, Running
<1>15. FallbackKnown'
  BY <1>0, <1>1, <1>2, <1>4, <1>6 DEF FallbackKnown, Named, Explained
<1>16. (Undisturbed => Saved)'
  <2> SUFFICES ASSUME Undisturbed'
               PROVE  Saved'
    OBVIOUS
  <2>1. Saved /\ Saves(run[s])
    BY <1>0, <1>1, <1>2 DEF Undisturbed, Saved
  <2>2. \A x \in Session \ {s} : run[x].at = "ended" /\ run'[x] = run[x]
    BY <1>0, <1>1, <1>2, <1>6 DEF Undisturbed, OneAtATime, Running
  <2>3. t = put
    BY <1>0, <1>2, <1>8, <2>1 DEF Saves
  <2>4. /\ UpToDate(run[s].mem) /\ run[s].id = runs
        /\ run[s].mem.vessels[run[s].imo] = run[s].id
        /\ run[s].mem.verifiers[run[s].handle] = run[s].id
        /\ g # "state" => Text("state") = run[s].mem
        /\ g = "verifiers" => Text("vessels") = run[s].mem.vessels
    BY <1>0, <1>2, <2>1 DEF Saves, Holder, Saving
  <2>5. /\ Text("state")' = run[s].mem
        /\ g # "state" => Text("vessels")' = run[s].mem.vessels
        /\ g = "verifiers" => Text("verifiers")' = run[s].mem.verifiers
    <3>1. CASE g = "state"
      BY <1>10, <2>3, <3>1 DEF put, View
    <3>2. CASE g = "vessels"
      BY <1>10, <2>3, <2>4, <3>2 DEF put, View, LedgerFile
    <3>3. CASE g = "verifiers"
      BY <1>10, <2>3, <2>4, <3>3 DEF put, View, LedgerFile
    <3>4. QED
      BY <1>0, <1>3, <3>1, <3>2, <3>3 DEF LedgerFile
  <2>6. Saves(run[s])'
    BY <1>0, <1>2, <1>3, <1>4, <1>6, <2>4, <2>5 DEF Saves, UpToDate, Saving, LedgerFile
  <2>7. \A x \in Session : Saves(run[x])'
    BY <1>0, <1>2, <2>2, <2>6 DEF Saves, Holder
  <2>8. Recorded' = run[s].mem /\ Text("state")' # Torn
    BY <1>0, <1>3, <2>5, Numbers DEF Recorded
  <2>9. UpToDate(Recorded)'
    BY <1>0, <1>2, <2>4, <2>8 DEF UpToDate
  <2>10. g = "verifiers" => Rendered'
    BY <2>5, <2>8 DEF Rendered
  <2>11. g # "verifiers" => run'[s].at \in Saving
    BY <1>4, <1>6 DEF Saving
  <2>12. QED
    BY <2>7, <2>8, <2>9, <2>10, <2>11 DEF Saved
<1>17. QED
  BY <1>11, <1>12, <1>13, <1>14, <1>15, <1>16 DEF OrchestratorInvariant

\* A run that goes on to write its decision has written its ledgers.
LEMMA InvariantAtDecide ==
    ASSUME OrchestratorInvariant, NEW s \in Session, run[s].at = "decide", run[s].enabled,
           Goes(s, "deciding"),
           UNCHANGED <<runs, returned, ledgers, chainVars, concurrent, refused, cut>>
    PROVE  OrchestratorInvariant'
<1> DEFINE r == [run[s] EXCEPT !.at = "deciding"]
<1>1. /\ RunTypes /\ RunsAreCounted /\ SaversPut /\ OneAtATime /\ FallbackKnown
      /\ Undisturbed => Saved
  BY DEF OrchestratorInvariant
<1>2. /\ Moves(s, r) /\ runs' = runs /\ returned' = returned /\ ledgers' = ledgers
      /\ nameOwner' = nameOwner /\ lastDecision' = lastDecision
      /\ concurrent' = concurrent /\ refused' = refused /\ cut' = cut
  BY DEF Goes, chainVars
<1>3. run[s] \in RunRecord /\ RunWellFormed(run[s])
  BY <1>1 DEF RunTypes, RunsAreCounted
<1>4. /\ r \in RunRecord /\ r.at = "deciding" /\ r.file = run[s].file /\ r.mem = run[s].mem
      /\ r.id = run[s].id /\ r.imo = run[s].imo /\ r.handle = run[s].handle
      /\ r.enabled = run[s].enabled
  BY <1>3 DEF RunRecord, Stage
<1> HIDE DEF r
<1>5. /\ run' \in [Session -> RunRecord] /\ run'[s] = r
      /\ \A t \in Session \ {s} : run'[t] = run[t]
  BY <1>1, <1>2, <1>4, OneMoves
<1>6. RunTypes'
  BY <1>1, <1>2, <1>5 DEF RunTypes, Text
<1>7. RunsAreCounted'
  <2>1. RunWellFormed(run[s])'
    BY <1>2, <1>3, <1>4, <1>5 DEF RunWellFormed, Holder
  <2>2. \A t \in Session : RunWellFormed(run[t])'
    BY <1>1, <1>2, <1>5, <2>1 DEF RunsAreCounted, RunWellFormed
  <2>3. QED
    BY <1>1, <1>2, <2>2 DEF RunsAreCounted
<1>8. SaversPut' /\ OneAtATime' /\ FallbackKnown'
  <2>1. SaversPut'
    BY <1>1, <1>2, <1>4, <1>5 DEF SaversPut
  <2>2. OneAtATime'
    BY <1>1, <1>2, <1>4, <1>5 DEF OneAtATime, Running
  <2>3. FallbackKnown'
    BY <1>1, <1>2, <1>4, <1>5 DEF FallbackKnown, Named, Explained
  <2>4. QED
    BY <2>1, <2>2, <2>3
<1>9. (Undisturbed => Saved)'
  <2> SUFFICES ASSUME Undisturbed'
               PROVE  Saved'
    OBVIOUS
  <2>1. Saved
    BY <1>1, <1>2 DEF Undisturbed
  <2>2. Saves(run[s])'
    BY <1>2, <1>4, <1>5, <2>1 DEF Saved, Saves, UpToDate, Holder, Saving, Text
  <2>3. \A t \in Session \ {s} : Saves(run[t])'
    <3>1. \A t \in Session \ {s} : run'[t] = run[t] /\ Saves(run[t])
      BY <1>5, <2>1 DEF Saved
    <3>2. QED
      BY <1>2, <3>1 DEF Saves, UpToDate, Text
  <2>4. (\A t \in Session : ~(run[t].at = "put" /\ run[t].file = "state"))' =>
          (Text("state") # Torn /\ UpToDate(Recorded))'
    BY <1>2, <1>4, <1>5, <2>1 DEF Saved, UpToDate, Recorded, Text
  <2>5. (\A t \in Session : run[t].at \notin Saving)' => (Text("state") = NoFile \/ Rendered)'
    BY <1>2, <1>4, <1>5, <2>1 DEF Saved, Rendered, Recorded, Text, Saving
  <2>6. QED
    BY <2>2, <2>3, <2>4, <2>5 DEF Saved
<1>10. QED
  BY <1>6, <1>7, <1>8, <1>9 DEF OrchestratorInvariant

\* A run that has no ledger open leaves the ledgers as they are when it ends.
LEMMA NothingToClose ==
    ASSUME OrchestratorInvariant, NEW s \in Session, run[s].at # "put"
    PROVE  Disk!Closed(s) = ledgers
<1>1. \A f \in LedgerFile : s \notin ledgers[f].writers
  BY DEF OrchestratorInvariant, SaversPut
<1>2. /\ ledgers = [f \in LedgerFile |-> [text |-> Text(f), writers |-> ledgers[f].writers]]
      /\ DOMAIN ledgers = LedgerFile
  BY DEF OrchestratorInvariant, RunTypes
<1>3. \A f \in LedgerFile : ledgers[f] = [text |-> Text(f), writers |-> ledgers[f].writers]
  BY <1>2
<1>4. \A t, w : [[text |-> t, writers |-> w] EXCEPT !.writers = @ \ {s}]
              = [text |-> t, writers |-> w \ {s}]
  OBVIOUS
<1>5. \A f \in LedgerFile : [ledgers[f] EXCEPT !.writers = @ \ {s}] = ledgers[f]
  <2> SUFFICES ASSUME NEW f \in LedgerFile
               PROVE  [ledgers[f] EXCEPT !.writers = @ \ {s}] = ledgers[f]
    OBVIOUS
  <2>1. ledgers[f].writers \ {s} = ledgers[f].writers
    BY <1>1
  <2>2. [ledgers[f] EXCEPT !.writers = @ \ {s}]
          = [text |-> Text(f), writers |-> ledgers[f].writers \ {s}]
    BY <1>3, <1>4, Zenon
  <2>3. QED
    BY <1>3, <2>1, <2>2
<1>6. QED
  BY <1>2, <1>5 DEF Disk!Closed

\* A run that goes to another stage keeps the rest; one that is enrolled takes the name.
LEMMA StageRecords ==
    ASSUME OrchestratorInvariant, NEW s \in Session, NEW at \in Stage
    PROVE  LET r == [run[s] EXCEPT !.at = at]
               e == [run[s] EXCEPT !.at = "load", !.handle = Agent, !.enabled = TRUE]
           IN  /\ r \in RunRecord /\ r.at = at /\ r.id = run[s].id /\ r.imo = run[s].imo
               /\ r.handle = run[s].handle /\ (r.enabled <=> r.handle = Agent)
               /\ e \in RunRecord /\ e.at = "load" /\ e.id = run[s].id /\ e.imo = run[s].imo
               /\ e.handle = Agent /\ e.enabled = TRUE
<1>1. run[s] \in RunRecord /\ RunWellFormed(run[s])
  BY DEF OrchestratorInvariant, RunTypes, RunsAreCounted
<1>2. QED
  BY <1>1 DEF RunRecord, Stage, Handle, RunWellFormed

\* The download and the enrolment, step by step.
LEMMA InvariantAtEnrolment ==
    ASSUME OrchestratorInvariant, NEW s \in Session,
           \/ Downloaded(s) \/ EnsureEnrolled(s) \/ SendMint(s) \/ Minted(s)
           \/ LookUpFails(s) \/ NotConfigured(s) \/ OnChainFails(s)
    PROVE  OrchestratorInvariant'
<1> DEFINE To(at) == [run[s] EXCEPT !.at = at]
           Enrol  == [run[s] EXCEPT !.at = "load", !.handle = Agent, !.enabled = TRUE]
<1>1. /\ nameOwner \in {"nobody", "orchestrator", "rival"} /\ refused \in BOOLEAN
      /\ nameOwner = "orchestrator" \/ nameOwner = "rival" \/ nameOwner = "nobody"
  BY DEF OrchestratorInvariant, RunTypes
<1>2. ASSUME NEW at \in Stage
      PROVE  /\ To(at) \in RunRecord /\ To(at).at = at /\ To(at).id = run[s].id
             /\ To(at).imo = run[s].imo /\ To(at).handle = run[s].handle
             /\ To(at).enabled <=> To(at).handle = Agent
  BY StageRecords
<1>3. /\ Enrol \in RunRecord /\ Enrol.at = "load" /\ Enrol.id = run[s].id
      /\ Enrol.imo = run[s].imo /\ Enrol.handle = Agent /\ Enrol.enabled = TRUE
  <2>1. "load" \in Stage
    BY DEF Stage
  <2>2. QED
    BY <2>1, StageRecords
<1>4. Ended \in RunRecord /\ Ended.at = "ended" /\ (Ended.enabled <=> Ended.handle = Agent)
  BY EndedIsRecord DEF Ended, Agent, Fallback
<1>5. /\ {"enroll", "mint", "minting", "load"} \subseteq Stage
      /\ {"ended", "download", "enroll", "mint", "minting", "load"} \cap Holder = {}
      /\ {"ended", "download", "enroll", "mint", "minting"} \cap Named = {}
      /\ Agent # Fallback
  BY DEF Stage, Holder, Named, Agent, Fallback
<1>6. run[s].at = "mint" => nameOwner = "nobody" \/ Explained
  BY DEF OrchestratorInvariant, FallbackKnown
<1> HIDE DEF To, Enrol
<1>7. CASE Downloaded(s)
  <2>1. /\ run[s].at = "download"
        /\ Moves(s, To("enroll")) \/ Moves(s, Ended)
        /\ UNCHANGED <<runs, returned, ledgers, lastDecision, concurrent, cut>>
        /\ refused' = refused /\ nameOwner' = nameOwner
    BY <1>7 DEF Downloaded, chainVars, To
  <2>2. CASE Moves(s, To("enroll"))
    BY <1>1, <1>2, <1>5, <2>1, <2>2, InvariantBeforeLoad
  <2>3. CASE Moves(s, Ended)
    BY <1>1, <1>4, <1>5, <2>1, <2>3, InvariantBeforeLoad
  <2>4. QED
    BY <2>1, <2>2, <2>3
<1>8. CASE EnsureEnrolled(s)
  <2>1. /\ run[s].at = "enroll"
        /\ \/ nameOwner # "nobody" /\ Moves(s, Enrol)
           \/ nameOwner = "nobody" /\ Moves(s, To("mint"))
        /\ UNCHANGED <<runs, returned, ledgers, lastDecision, concurrent, cut>>
        /\ refused' = refused /\ nameOwner' = nameOwner
    BY <1>8 DEF EnsureEnrolled, Enrolled, Goes, chainVars, To, Enrol
  <2>2. CASE Moves(s, Enrol)
    BY <1>1, <1>3, <1>5, <2>1, <2>2, InvariantBeforeLoad
  <2>3. CASE nameOwner = "nobody" /\ Moves(s, To("mint"))
    BY <1>1, <1>2, <1>5, <2>1, <2>3, InvariantBeforeLoad
  <2>4. QED
    BY <2>1, <2>2, <2>3
<1>9. CASE SendMint(s)
  <2>1. /\ run[s].at = "mint"
        /\ \/ Moves(s, To("minting"))
           \/ nameOwner # "nobody" /\ Moves(s, To("load"))
        /\ UNCHANGED <<runs, returned, ledgers, lastDecision, concurrent, cut>>
        /\ refused' = refused /\ nameOwner' = nameOwner /\ concurrent' = concurrent
    BY <1>9 DEF SendMint, Goes, chainVars, To
  <2>2. CASE Moves(s, To("minting"))
    BY <1>1, <1>2, <1>5, <2>1, <2>2, InvariantBeforeLoad
  <2>3. CASE nameOwner # "nobody" /\ Moves(s, To("load"))
    <3>1. Explained'
      BY <1>6, <2>1, <2>3 DEF Explained
    <3>2. QED
      BY <1>1, <1>2, <1>5, <2>1, <2>3, <3>1, InvariantBeforeLoad
  <2>4. QED
    BY <2>1, <2>2, <2>3
<1>10. CASE Minted(s)
  <2>1. /\ run[s].at = "minting" /\ Moves(s, Enrol)
        /\ UNCHANGED <<runs, returned, ledgers, lastDecision, concurrent, cut>>
        /\ refused' = refused
        /\ nameOwner' = IF nameOwner = "nobody" THEN "orchestrator" ELSE nameOwner
    BY <1>10 DEF Minted, Enrolled, Enrol
  <2>2. /\ nameOwner' \in {"nobody", "orchestrator", "rival"}
        /\ nameOwner # "nobody" => nameOwner' = nameOwner
    BY <1>1, <2>1
  <2>3. QED
    BY <1>1, <1>3, <1>5, <2>1, <2>2, InvariantBeforeLoad
<1>11. CASE LookUpFails(s)
  <2>1. /\ run[s].at = "enroll" /\ Moves(s, To("mint"))
        /\ UNCHANGED <<runs, returned, ledgers, lastDecision, concurrent, cut>>
        /\ refused' = TRUE /\ nameOwner' = nameOwner
    BY <1>11 DEF LookUpFails, Goes, chainVars, To
  <2>2. Explained'
    BY <2>1 DEF Explained
  <2>3. QED
    BY <1>1, <1>2, <1>5, <2>1, <2>2, InvariantBeforeLoad
<1>12. CASE NotConfigured(s)
  <2>1. /\ run[s].at = "enroll" /\ Moves(s, To("load"))
        /\ UNCHANGED <<runs, returned, ledgers, lastDecision, concurrent, cut>>
        /\ refused' = TRUE /\ nameOwner' = nameOwner
    BY <1>12 DEF NotConfigured, Goes, chainVars, To
  <2>2. Explained'
    BY <2>1 DEF Explained
  <2>3. QED
    BY <1>1, <1>2, <1>5, <2>1, <2>2, InvariantBeforeLoad
<1>13. CASE OnChainFails(s)
  <2>1. /\ run[s].at \in {"mint", "minting"} /\ Moves(s, To("load"))
        /\ UNCHANGED <<runs, returned, ledgers, lastDecision, concurrent, cut>>
        /\ refused' = TRUE
        /\ nameOwner' = nameOwner \/ (nameOwner = "nobody" /\ nameOwner' = "orchestrator")
    BY <1>13 DEF OnChainFails, Goes, To
  <2>2. Explained'
    BY <2>1 DEF Explained
  <2>3. /\ nameOwner' \in {"nobody", "orchestrator", "rival"}
        /\ nameOwner # "nobody" => nameOwner' = nameOwner
    BY <1>1, <2>1
  <2>4. QED
    BY <1>1, <1>2, <1>5, <2>1, <2>2, <2>3, InvariantBeforeLoad
<1>14. QED
  BY <1>7, <1>8, <1>9, <1>10, <1>11, <1>12, <1>13

\* The decision, the answer, and the end of a run that is killed.
LEMMA InvariantAtAnswer ==
    ASSUME OrchestratorInvariant, NEW s \in Session,
           Decide(s) \/ Decided(s) \/ DecisionFails(s) \/ Killed(s)
    PROVE  OrchestratorInvariant'
<1> DEFINE own == [id |-> run[s].id, imo |-> run[s].imo, handle |-> run[s].handle]
<1>1. refused \in BOOLEAN /\ cut \in BOOLEAN
  BY DEF OrchestratorInvariant, RunTypes
<1>2. ASSUME run[s].at \in {"decide", "deciding"}
      PROVE  ledgers = Disk!Closed(s) /\ Running(s) /\ run[s].at \notin Saving
  BY <1>2, NothingToClose DEF Running, Saving
<1>3. CASE Decide(s)
  <2>1. /\ run[s].at = "decide" /\ ledgers' = ledgers
        /\ runs' = runs /\ nameOwner' = nameOwner /\ concurrent' = concurrent
        /\ refused' = refused /\ cut' = cut /\ lastDecision' = lastDecision
    BY <1>3 DEF Decide, chainVars
  <2>2. CASE run[s].enabled /\ Goes(s, "deciding") /\ returned' = returned
    BY <2>1, <2>2, InvariantAtDecide DEF chainVars
  <2>3. CASE returned' = returned \cup {own} /\ Moves(s, Ended)
    BY <1>1, <1>2, <2>1, <2>3, InvariantAtEnd
  <2>4. QED
    BY <1>3, <2>2, <2>3 DEF Decide, Returns
<1>4. CASE Decided(s)
  <2>1. /\ run[s].at = "deciding" /\ ledgers' = ledgers
        /\ runs' = runs /\ nameOwner' = nameOwner /\ concurrent' = concurrent
        /\ refused' = refused /\ cut' = cut /\ lastDecision' = run[s].id
        /\ returned' = returned \cup {own} /\ Moves(s, Ended)
    BY <1>4 DEF Decided, Returns
  <2>2. QED
    BY <1>1, <1>2, <2>1, InvariantAtEnd
<1>5. CASE DecisionFails(s)
  <2>1. /\ run[s].at = "deciding" /\ ledgers' = ledgers
        /\ runs' = runs /\ nameOwner' = nameOwner /\ concurrent' = concurrent
        /\ refused' = TRUE /\ cut' = cut
        /\ lastDecision' = lastDecision \/ lastDecision' = run[s].id
        /\ returned' = returned \cup {own} /\ Moves(s, Ended)
    BY <1>5 DEF DecisionFails, Returns
  <2>2. QED
    BY <1>1, <1>2, <2>1, InvariantAtEnd
<1>6. CASE Killed(s)
  <2>1. /\ Running(s) /\ ledgers' = Disk!Closed(s)
        /\ cut' = (cut \/ run[s].at \in {"open", "put"}) /\ Moves(s, Ended)
        /\ runs' = runs /\ nameOwner' = nameOwner /\ concurrent' = concurrent
        /\ refused' = refused /\ lastDecision' = lastDecision /\ returned' = returned
    BY <1>6 DEF Killed, chainVars
  <2>2. cut' \in BOOLEAN /\ (cut => cut') /\ (run[s].at \in Saving => cut')
    BY <2>1 DEF Saving
  <2>3. QED
    BY <1>1, <2>1, <2>2, InvariantAtEnd
<1>7. QED
  BY <1>3, <1>4, <1>5, <1>6

LEMMA InvariantInit == Init => OrchestratorInvariant
<1> SUFFICES ASSUME Init
             PROVE  OrchestratorInvariant
  OBVIOUS
<1>1. /\ run = [s \in Session |-> Ended] /\ runs = 0 /\ returned = {}
      /\ ledgers = [f \in LedgerFile |-> [text |-> NoFile, writers |-> {}]]
      /\ nameOwner = "nobody" /\ lastDecision = NoRun
      /\ concurrent = FALSE /\ refused = FALSE /\ cut = FALSE
  BY DEF Init, Blank, Missing
<1>2. /\ \A f \in LedgerFile : Text(f) = NoFile /\ ledgers[f].writers = {}
      /\ "state" \in LedgerFile
  BY <1>1 DEF Text, LedgerFile
<1>3. Ended \in RunRecord /\ Ended.at = "ended" /\ Ended.handle = Fallback /\ ~Ended.enabled
  BY EndedIsRecord DEF Ended
<1>4. RunTypes
  BY <1>1, <1>2, <1>3 DEF RunTypes, Text, NoRun
<1>5. RunsAreCounted
  BY <1>1, <1>3 DEF RunsAreCounted, RunWellFormed, NoRun, Holder, Agent, Fallback
<1>6. SaversPut /\ OneAtATime /\ FallbackKnown
  BY <1>1, <1>2, <1>3 DEF SaversPut, OneAtATime, Running, FallbackKnown, Named
<1>7. Saved
  <2>1. Recorded = EmptyState /\ Text("state") = NoFile
    BY <1>2 DEF Recorded
  <2>2. UpToDate(Recorded)
    BY <1>1, <2>1 DEF UpToDate, EmptyState, Handle, NoRun
  <2>3. \A s \in Session : Saves(run[s])
    BY <1>1, <1>3 DEF Saves, Holder
  <2>4. QED
    BY <2>1, <2>2, <2>3, Numbers DEF Saved
<1>8. QED
  BY <1>4, <1>5, <1>6, <1>7 DEF OrchestratorInvariant

LEMMA InvariantNext ==
    ASSUME OrchestratorInvariant, [Next]_orchestratorVars
    PROVE  OrchestratorInvariant'
<1>1. ASSUME NEW s \in Session,
             \/ Downloaded(s) \/ EnsureEnrolled(s) \/ SendMint(s) \/ Minted(s)
             \/ LookUpFails(s) \/ NotConfigured(s) \/ OnChainFails(s)
      PROVE  OrchestratorInvariant'
  BY <1>1, InvariantAtEnrolment
<1>2. ASSUME NEW s \in Session, NEW imo \in Imo, Process(s, imo)
      PROVE  OrchestratorInvariant'
  BY <1>2, InvariantAtProcess
<1>3. ASSUME NEW s \in Session, Load(s) \/ OpenLedger(s) \/ WriteLedger(s)
      PROVE  OrchestratorInvariant'
  BY <1>3, InvariantAtLoad, InvariantAtOpen, InvariantAtWrite
<1>4. ASSUME NEW s \in Session, Decide(s) \/ Decided(s) \/ DecisionFails(s) \/ Killed(s)
      PROVE  OrchestratorInvariant'
  BY <1>4, InvariantAtAnswer
<1>5. ASSUME NEW s \in Session, Downloads(s) \/ DownloadFails(s)
      PROVE  OrchestratorInvariant'
  <2>1. UNCHANGED ownVars
    BY <1>5 DEF Downloads, DownloadFails, ownVars
  <2>2. QED
    BY <2>1, InvariantElsewhere
<1>6. CASE RivalTakesName
  BY <1>6, InvariantAtRival
<1>7. CASE FixtureChanges
  <2>1. UNCHANGED ownVars
    BY <1>7 DEF FixtureChanges, ownVars
  <2>2. QED
    BY <2>1, InvariantElsewhere
<1>8. CASE UNCHANGED orchestratorVars
  <2>1. UNCHANGED ownVars
    BY <1>8 DEF orchestratorVars, ownVars
  <2>2. QED
    BY <2>1, InvariantElsewhere
<1>9. QED
  BY <1>1, <1>2, <1>3, <1>4, <1>5, <1>6, <1>7, <1>8 DEF Next

(***************************************************************************)
(* The theorems.                                                           *)
(***************************************************************************)
\* What the runs, the three ledgers and the name on chain have to do with one another, at
\* every cut of every run (pipeline.mjs, state.mjs, onchain.mjs).
THEOREM RunsAndLedgers == Spec => []OrchestratorInvariant
<1>1. Init => OrchestratorInvariant
  BY InvariantInit
<1>2. OrchestratorInvariant /\ [Next]_orchestratorVars => OrchestratorInvariant'
  BY InvariantNext
<1>3. QED
  BY <1>1, <1>2, PTL DEF Spec

\* A run that answered is in the state file, or a later one for its vessel and its handle
\* is (pipeline.mjs:130-147), as long as runs neither overlap nor are killed while they save.
THEOREM AnsweredRunsAreInTheState == Spec => []AnsweredRunsAreRecorded
<1>1. OrchestratorInvariant => AnsweredRunsAreRecorded
  <2> SUFFICES ASSUME OrchestratorInvariant, Undisturbed, NEW r \in returned
               PROVE  \/ Text("state") = Torn /\ \E s \in Session : s \in ledgers["state"].writers
                      \/ /\ Recorded.vessels[r.imo] >= r.id
                         /\ Recorded.verifiers[r.handle] >= r.id
    BY DEF AnsweredRunsAreRecorded
  <2>1. CASE \E s \in Session : run[s].at = "put" /\ run[s].file = "state"
    <3>1. PICK s \in Session : run[s].at = "put" /\ run[s].file = "state"
      BY <2>1
    <3>2. s \in ledgers["state"].writers
      BY <3>1 DEF OrchestratorInvariant, SaversPut, LedgerFile
    <3>3. Text("state") = Torn
      BY <3>1 DEF OrchestratorInvariant, Saved, Saves
    <3>4. QED
      BY <3>2, <3>3
  <2>2. CASE \A s \in Session : ~(run[s].at = "put" /\ run[s].file = "state")
    BY <2>2 DEF OrchestratorInvariant, Saved, UpToDate
  <2>3. QED
    BY <2>1, <2>2
<1>2. QED
  BY RunsAndLedgers, <1>1, PTL

\* Between runs both renderings show the state file, and the chain is never ahead of it:
\* saveState, the renderings and verifier.lastDecision come in this order (pipeline.mjs).
THEOREM LedgersAgreeBetweenRuns == Spec => []MirrorsAgree
<1>1. OrchestratorInvariant => MirrorsAgree
  <2> SUFFICES ASSUME OrchestratorInvariant, Undisturbed, \A s \in Session : ~Running(s),
                      Text("state") # NoFile
               PROVE  Rendered /\ lastDecision <= Recorded.verifiers[Agent]
    BY DEF MirrorsAgree, Rendered
  <2>1. Saved /\ \A s \in Session : run[s].at = "ended"
    BY DEF OrchestratorInvariant, Running
  <2>2. QED
    BY <2>1 DEF Saved, UpToDate, Saving
<1>2. QED
  BY RunsAndLedgers, <1>1, PTL

\* A run answers under the fallback handle only when the chain failed it, or another run or
\* account took the name between its look-up and its mint (onchain.mjs:69-87).
THEOREM FallbackHasAReason == Spec => []FallbackIsExplained
<1>1. OrchestratorInvariant => FallbackIsExplained
  BY DEF OrchestratorInvariant, FallbackKnown, FallbackIsExplained, Explained
<1>2. QED
  BY RunsAndLedgers, <1>1, PTL

(***************************************************************************)
(* The session directory under the runs.  A kill of an idle process counts *)
(* as a fault and moves nothing else; every other step is one of a caller. *)
(***************************************************************************)
LEMMA OnlyCallsDownload ==
    ASSUME NEW s \in Session,
           \/ Downloaded(s) \/ EnsureEnrolled(s) \/ SendMint(s) \/ Minted(s) \/ LookUpFails(s)
           \/ NotConfigured(s) \/ OnChainFails(s) \/ Load(s) \/ OpenLedger(s) \/ WriteLedger(s)
           \/ Decide(s) \/ Decided(s) \/ DecisionFails(s)
    PROVE  UNCHANGED imagerVars /\ concurrent' = concurrent
BY DEF Downloaded, EnsureEnrolled, SendMint, Minted, LookUpFails, NotConfigured, OnChainFails,
       Load, OpenLedger, WriteLedger, Decide, Decided, DecisionFails

LEMMA RunsAreCallers ==
    ASSUME [Next]_orchestratorVars
    PROVE  \/ [ImagerNext]_imagerVars /\ wiped' = wiped
           \/ faults < MaxFaults /\ faults' = faults + 1
              /\ UNCHANGED <<files, served, dl, out, wiped, overlapped>>
<1>1. CASE UNCHANGED imagerVars
  BY <1>1 DEF imagerVars
<1>2. ASSUME NEW s \in Session, DownloadImage(s) \/ Works(s) \/ GatewayFails(s) \/ Kill(s)
      PROVE  ImagerNext /\ wiped' = wiped
  <2>1. ImagerNext
    BY <1>2 DEF ImagerNext
  <2>2. wiped' = wiped
    BY <1>2 DEF Works, DownloadImage, CallStarts, ReadState, GetMetadata, Reconcile, OpenTmp,
                WriteTmp, RenameTmp, GetPacket, PacketsDone, Reload, Recompose, GatewayFails, Kill
  <2>3. QED
    BY <2>1, <2>2
<1>3. CASE NewFixture
  BY <1>3 DEF ImagerNext, NewFixture
<1>4. ASSUME NEW s \in Session, Killed(s)
      PROVE  Kill(s) \/ (faults < MaxFaults /\ faults' = faults + 1
                         /\ UNCHANGED <<files, served, dl, out, wiped, overlapped>>)
  BY <1>4 DEF Killed
<1>5. ASSUME NEW s \in Session,
             \/ Downloaded(s) \/ EnsureEnrolled(s) \/ SendMint(s) \/ Minted(s) \/ LookUpFails(s)
             \/ NotConfigured(s) \/ OnChainFails(s) \/ Load(s) \/ OpenLedger(s) \/ WriteLedger(s)
             \/ Decide(s) \/ Decided(s) \/ DecisionFails(s)
      PROVE  UNCHANGED imagerVars
  BY <1>5, OnlyCallsDownload
<1>6. ASSUME NEW s \in Session, NEW imo \in Imo, Process(s, imo) PROVE DownloadImage(s)
  BY <1>6 DEF Process
<1>7. ASSUME NEW s \in Session, Downloads(s) \/ DownloadFails(s) PROVE Works(s) \/ GatewayFails(s)
  BY <1>7 DEF Downloads, DownloadFails
<1>8. RivalTakesName => UNCHANGED imagerVars
  BY DEF RivalTakesName
<1>9. FixtureChanges => NewFixture
  BY DEF FixtureChanges
<1>10. UNCHANGED orchestratorVars => UNCHANGED imagerVars
  BY DEF orchestratorVars
<1>11. QED
  BY <1>1, <1>2, <1>3, <1>4, <1>5, <1>6, <1>7, <1>8, <1>9, <1>10 DEF Next

\* A process downloads in the run that asked for it, so that downloads overlap only when
\* runs do; and no run removes packets.
RunsDownload ==
    /\ ~wiped
    /\ \A s \in Session : Busy(s) => run[s].at = "download"
    /\ overlapped => concurrent

\* Only a call in progress works, and no other call is touched.
LEMMA WorkIsOnesOwn ==
    ASSUME Types, NEW s \in Session, Works(s) \/ GatewayFails(s) \/ Kill(s)
    PROVE  Busy(s) /\ overlapped' = overlapped /\ \A t \in Session \ {s} : dl'[t] = dl[t]
<1>1. Busy(s)
  BY DEF Works, ReadState, GetMetadata, Reconcile, OpenTmp, WriteTmp, RenameTmp, GetPacket,
         PacketsDone, Reload, Recompose, GatewayFails, Kill, Busy, Resting
<1>2. overlapped' = overlapped
  BY DEF Works, ReadState, GetMetadata, Reconcile, OpenTmp, WriteTmp, RenameTmp, GetPacket,
         PacketsDone, Reload, Recompose, GatewayFails, Kill
<1>3. \E r : Step(s, r)
  <2>1. ReadState(s) \/ GetMetadata(s) \/ Reconcile(s) => \E r : Step(s, r)
    BY DEF ReadState, GetMetadata, Reconcile, Throw
  <2>2. OpenTmp(s) \/ WriteTmp(s) \/ RenameTmp(s) => \E r : Step(s, r)
    BY DEF OpenTmp, WriteTmp, RenameTmp, Throw
  <2>3. GetPacket(s) \/ PacketsDone(s) \/ GatewayFails(s) \/ Kill(s) => \E r : Step(s, r)
    BY DEF GetPacket, PacketsDone, GatewayFails, Kill, Throw
  <2>4. Reload(s) \/ Recompose(s) => \E r : Step(s, r)
    BY DEF Reload, Recompose, Throw
  <2>5. QED
    BY <2>1, <2>2, <2>3, <2>4 DEF Works
<1>4. QED
  BY <1>1, <1>2, <1>3 DEF Step, Types

LEMMA RunsDownloadNext ==
    ASSUME RunTypes, Types, RunsDownload, [Next]_orchestratorVars
    PROVE  RunsDownload'
<1>1. ~wiped'
  BY RunsAreCallers DEF RunsDownload
<1>2. (\A s \in Session : Busy(s) => Running(s)) /\ (overlapped => concurrent)
  BY DEF RunsDownload, Running
<1>3. ASSUME NEW s \in Session, NEW imo \in Imo, Process(s, imo)
      PROVE  RunsDownload'
  <2> DEFINE r == [Ended EXCEPT !.at = "download", !.id = runs + 1, !.imo = imo]
             c == [Rest("ensure") EXCEPT !.kind = "image", !.todo = Packet]
  <2>1. run' = [run EXCEPT ![s] = r] /\ r.at = "download"
    BY <1>3 DEF Process, Moves, Ended
  <2>2. dl' = [dl EXCEPT ![s] = c]
    BY <1>3 DEF Process, DownloadImage, CallStarts, Step
  <2> HIDE DEF r, c
  <2>3. run'[s].at = "download" /\ \A t \in Session \ {s} : run'[t] = run[t] /\ dl'[t] = dl[t]
    BY <2>1, <2>2 DEF RunTypes, Types
  <2>4. overlapped' => concurrent'
    BY <1>2, <1>3 DEF Process, DownloadImage, CallStarts
  <2>5. QED
    BY <1>1, <2>3, <2>4 DEF RunsDownload, Busy
<1>4. ASSUME NEW s \in Session, Downloads(s) \/ DownloadFails(s)
      PROVE  RunsDownload'
  <2>1. (Works(s) \/ GatewayFails(s)) /\ run' = run /\ concurrent' = concurrent
    BY <1>4 DEF Downloads, DownloadFails
  <2>2. Busy(s) /\ overlapped' = overlapped /\ \A t \in Session \ {s} : dl'[t] = dl[t]
    BY <2>1, WorkIsOnesOwn
  <2>3. QED
    BY <1>1, <2>1, <2>2 DEF RunsDownload, Busy
<1>5. ASSUME NEW s \in Session, Killed(s)
      PROVE  RunsDownload'
  <2>1. /\ run' = [run EXCEPT ![s] = Ended] /\ concurrent' = concurrent
        /\ Kill(s) \/ (~Busy(s) /\ dl' = dl /\ overlapped' = overlapped)
    BY <1>5 DEF Killed, Moves
  <2>2. /\ ~Busy(s)' /\ overlapped' = overlapped
        /\ \A t \in Session \ {s} : dl'[t] = dl[t] /\ run'[t] = run[t]
    <3>1. CASE Kill(s)
      <4>1. dl' = [dl EXCEPT ![s] = Rest("failed")] /\ Rest("failed").at = "failed"
        BY <3>1, RestFields DEF Kill, Throw, Step, Resting
      <4>2. ~Busy(s)'
        BY <4>1 DEF Types, Busy, Resting
      <4>3. QED
        BY <2>1, <3>1, <4>2, WorkIsOnesOwn DEF RunTypes
    <3>2. CASE ~Busy(s) /\ dl' = dl /\ overlapped' = overlapped
      BY <2>1, <3>2 DEF RunTypes, Busy
    <3>3. QED
      BY <2>1, <3>1, <3>2
  <2>3. QED
    BY <1>1, <2>1, <2>2 DEF RunsDownload, Busy
<1>6. ASSUME NEW s \in Session,
             \/ Downloaded(s) \/ EnsureEnrolled(s) \/ SendMint(s) \/ Minted(s) \/ LookUpFails(s)
             \/ NotConfigured(s) \/ OnChainFails(s) \/ Load(s) \/ OpenLedger(s) \/ WriteLedger(s)
             \/ Decide(s) \/ Decided(s) \/ DecisionFails(s)
      PROVE  RunsDownload'
  <2>1. dl' = dl /\ overlapped' = overlapped /\ concurrent' = concurrent
    BY <1>6, OnlyCallsDownload DEF imagerVars
  <2>2. ~Busy(s)
    BY <1>6 DEF RunsDownload, Downloaded, EnsureEnrolled, SendMint, Minted, LookUpFails,
                NotConfigured, OnChainFails, Load, OpenLedger, WriteLedger, Decide, Decided,
                DecisionFails
  <2>3. \A t \in Session \ {s} : run'[t] = run[t]
    <3>1. \E r : Moves(s, r)
      BY <1>6 DEF Downloaded, EnsureEnrolled, SendMint, Minted, LookUpFails, NotConfigured,
                  OnChainFails, Load, OpenLedger, WriteLedger, Decide, Decided, DecisionFails,
                  Goes, Enrolled, Returns
    <3>2. QED
      BY <3>1 DEF Moves, RunTypes
  <2>4. QED
    BY <1>1, <2>1, <2>2, <2>3 DEF RunsDownload, Busy
<1>7. CASE RivalTakesName \/ FixtureChanges \/ UNCHANGED orchestratorVars
  <2>1. UNCHANGED <<dl, run, overlapped, concurrent>>
    BY <1>7 DEF RivalTakesName, FixtureChanges, NewFixture, orchestratorVars, imagerVars
  <2>2. QED
    BY <1>1, <2>1 DEF RunsDownload, Busy
<1>8. QED
  BY <1>3, <1>4, <1>5, <1>6, <1>7 DEF Next

(***************************************************************************)
(* What holds of the directory under the runs.                             *)
(***************************************************************************)
\* The session directory keeps its invariant under any number of runs, killed anywhere:
\* a run is one more caller of downloadImage (pipeline.mjs:63-78).
THEOREM RunsKeepTheDirectory == Spec => [](ImagerInv /\ faults \in 0 .. MaxFaults /\ RunsDownload)
<1> DEFINE Bounded == faults \in 0 .. MaxFaults
<1>1. Init => ImagerInv /\ Bounded /\ RunsDownload
  <2> SUFFICES ASSUME Init PROVE ImagerInv /\ Bounded /\ RunsDownload
    OBVIOUS
  <2>1. ImagerInv /\ Bounded
    BY InitInv, ImagerCounts DEF Init, ImagerInit
  <2>2. \A s \in Session : dl[s] = Rest("idle")
    BY DEF Init, ImagerInit
  <2>3. ~wiped /\ ~overlapped
    BY DEF Init, ImagerInit
  <2>4. QED
    BY <2>1, <2>2, <2>3, RestFields DEF RunsDownload, Busy, Resting
<1>2. OrchestratorInvariant /\ ImagerInv /\ Bounded /\ RunsDownload /\ [Next]_orchestratorVars =>
        ImagerInv' /\ Bounded' /\ RunsDownload'
  <2> SUFFICES ASSUME OrchestratorInvariant, ImagerInv, Bounded, RunsDownload,
                      [Next]_orchestratorVars
               PROVE  ImagerInv' /\ Bounded' /\ RunsDownload'
    OBVIOUS
  <2>1. [ImagerNext]_imagerVars => ImagerInv' /\ Bounded'
    BY NextInv, StepFaults
  <2>2. ASSUME faults < MaxFaults, faults' = faults + 1,
               UNCHANGED <<files, served, dl, out, wiped, overlapped>>
        PROVE  ImagerInv' /\ Bounded'
    <3>1. served' \in Version
      BY <2>2 DEF ImagerInv, Types
    <3>2. ImagerInv'
      BY <2>2, <3>1, StepBeside
    <3>3. Bounded'
      BY <2>2, ImagerCounts
    <3>4. QED
      BY <3>2, <3>3
  <2>3. RunsDownload'
    BY RunsDownloadNext DEF OrchestratorInvariant, ImagerInv
  <2>4. QED
    BY <2>1, <2>2, <2>3, RunsAreCallers
<1>3. QED
  BY <1>1, <1>2, RunsAndLedgers, PTL DEF Spec

\* The type invariant of the pipeline and of the directory it downloads into.
THEOREM OrchestratorTypeCorrect == Spec => []TypeOK
<1>1. OrchestratorInvariant /\ ImagerInv /\ faults \in 0 .. MaxFaults => TypeOK
  <2> SUFFICES ASSUME OrchestratorInvariant, ImagerInv, faults \in 0 .. MaxFaults PROVE TypeOK
    OBVIOUS
  <2>1. ImagerTypeOK
    BY InvTypes
  <2>2. QED
    BY <2>1 DEF OrchestratorInvariant, RunTypes, RunRecord, Stage, TypeOK
<1>2. QED
  BY <1>1, RunsAndLedgers, RunsKeepTheDirectory, PTL

\* Under any number of runs what state.json lists is on disk at every cut, and whole where
\* calls did not overlap: the packet is in place before it is listed (downloadPackets).
THEOREM RunsListWhatIsStored == Spec => []ListedIsStored
BY InvListed, RunsKeepTheDirectory, PTL

\* The packets listed are those on disk, of the fixture that state.json describes, and so
\* is every image that was handed to a run.
Whole ==
    /\ Readable => OnDisk.list = Stored /\ \A i \in Stored : files[File(i)].text = OnDisk.version
    /\ \A s \in Session : out[s] = NoFile \/ out[s].tiles = {out[s].metadata}

\* As long as one run follows another every download is whole, wherever one was killed and
\* whatever the plugin served meanwhile; nothing keeps two runs apart (server.mjs:32-59).
THEOREM RunsInTurnDownloadWhole == Spec => [](concurrent \/ Whole)
<1>1. ImagerInv /\ RunsDownload => concurrent \/ Whole
  BY InvListed, InvImage DEF RunsDownload, Whole, ListedIsStored, ImageIsTheMetadatas
<1>2. QED
  BY <1>1, RunsKeepTheDirectory, PTL
=============================================================================
