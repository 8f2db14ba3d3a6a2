----------------------------- MODULE VesselTable -----------------------------
(***************************************************************************)
(* The web page's reads of the chain: fetchVessels and fetchVerifiers      *)
(* (web/app/lib/chain.ts), the polling hooks useVessels and useVerifiers,  *)
(* and the page that shows their rows.  Each user of a hook polls for      *)
(* itself, so the globe and the table hold two answers to one question.  A *)
(* load reads the block number and the events, then every row field by     *)
(* field, each from the block of the moment; loads of one hook overlap and *)
(* may answer in any order.                                                *)
(***************************************************************************)
EXTENDS Integers, FiniteSets

CONSTANTS
    Vessel,          \* vessels Lighthouse may name
    Verifier,        \* handles it may enroll
    View,            \* users of the two hooks
    Globe, Table,    \* the page and TablesSection, users of useVessels
    Agents,          \* TablesSection, the user of useVerifiers
    DeployBlock,     \* NEXT_PUBLIC_DEPLOY_BLOCK, 0 when unset
    MaxScanRange,    \* MAX_SCAN_RANGE, in blocks
    MaxBlock,        \* bound on the chain
    Together,        \* bound: the sets of views that a behaviour follows
    MaxLoads,        \* bound on the loads of one view in flight
    MaxFailures,     \* bound on the loads that fail
    None             \* sentinel: no data, no selection

ASSUME TableAssumption ==
    /\ {DeployBlock, MaxScanRange, MaxBlock, MaxLoads, MaxFailures} \subseteq Nat
    /\ {Globe, Table, Agents} \subseteq View /\ Together \subseteq SUBSET View
    /\ None \notin Vessel /\ Vessel \cap Verifier = {}

VARIABLES
    head,      \* block number
    named,     \* entry -> block of its VesselNamed or VerifierEnrolled, 0 if none
    news,      \* entry -> part -> block that last wrote it
    data,      \* view -> its rows, or None
    error,     \* view -> an error is shown in place of the rows
    loads,     \* view -> its loads in flight
    failures,  \* failures so far
    selected,  \* vessel the globe was asked to focus, or None
    watched    \* the views that are followed; it never changes

chain     == <<head, named, news>>
tableVars == <<head, named, news, data, error, loads, failures, selected, watched>>

\* What a view lists, and the parts of a row that may come from different blocks: of
\* a vessel the registry's counters and the resolver's records, of a verifier what
\* it was enrolled with and its last decision.
Entry     == Vessel \cup Verifier
Listed(v) == IF v = Agents THEN Verifier ELSE Vessel
Parts(v)  == IF v = Agents THEN {"identity", "lastDecision"} ELSE {"counters", "records"}
PartsOf(e) == IF e \in Verifier THEN Parts(Agents) ELSE Parts(Table)

TableInit ==
    /\ head = DeployBlock
    /\ named = [e \in Entry |-> 0]
    /\ news = [e \in Entry |-> [q \in PartsOf(e) |-> 0]]
    /\ data = [v \in View |-> None] /\ error = [v \in View |-> FALSE]
    /\ loads = [v \in View |-> {}] /\ failures = 0
    /\ selected = None
    /\ watched \in Together

Named(e) == named[e] # 0

Writes(e, parts) ==
    /\ named' = [named EXCEPT ![e] = IF Named(e) THEN @ ELSE head + 1]
    /\ news' = [news EXCEPT ![e] = [q \in PartsOf(e) |-> IF q \in parts THEN head + 1 ELSE @[q]]]

\* A block names a vessel or settles a report about it: its counters and its records
\* change together.  Or it enrolls a verifier, or an enrolled one sets its last
\* decision.  Other blocks concern no entry that is followed.
NewBlock ==
    /\ head < MaxBlock
    /\ head' = head + 1
    /\ \/ UNCHANGED <<named, news>>
       \/ \E v \in watched : \E e \in Listed(v) :
             Writes(e, IF v = Agents /\ Named(e) THEN {"lastDecision"} ELSE PartsOf(e))
    /\ UNCHANGED <<data, error, loads, failures, selected, watched>>

scanFrom(h) ==
    IF DeployBlock = 0 \/ h - DeployBlock > MaxScanRange
    THEN (IF h > MaxScanRange THEN h - MaxScanRange ELSE 0)
    ELSE DeployBlock

Found(v) == {e \in Listed(v) : Named(e) /\ named[e] >= scanFrom(head)}

(***************************************************************************)
(* A load, from one await to the next.                                     *)
(***************************************************************************)
Starting == [at |-> "scan"]

\* Faulty variant of Load: polling ends with the first answer.
LoadOnce(v) ==
    /\ v \in watched /\ Cardinality(loads[v]) < MaxLoads /\ data[v] = None
    /\ loads' = [loads EXCEPT ![v] = @ \cup {Starting}]
    /\ error' = [error EXCEPT ![v] = FALSE]
    /\ UNCHANGED <<chain, data, failures, selected, watched>>

\* On mount, every REFRESH_MS, and on the refresh button.
Load(v) ==
    /\ v \in watched /\ Cardinality(loads[v]) < MaxLoads
    /\ loads' = [loads EXCEPT ![v] = @ \cup {Starting}]
    /\ error' = [error EXCEPT ![v] = FALSE]
    /\ UNCHANGED <<chain, data, failures, selected, watched>>

Becomes(v, l, m) == loads' = [loads EXCEPT ![v] = (@ \ {l}) \cup {m}]

\* The block number, then the events up to it.
Scan(v, l) ==
    /\ l.at = "scan"
    /\ Becomes(v, l, [at |-> "hydrate", found |-> Found(v), read |-> <<>>])
    /\ UNCHANGED <<chain, data, error, failures, selected, watched>>

\* One answer of the rows' Promise.all; at the last one setData replaces whatever
\* another load has set.
ReadPart(v, l, q) ==
    /\ l.at = "hydrate" /\ q \in Parts(v) \ DOMAIN l.read
    /\ LET read == [r \in DOMAIN l.read \cup {q} |->
                      IF r = q THEN [e \in l.found |-> news[e][q]] ELSE l.read[r]]
       IN  IF DOMAIN read # Parts(v)
           THEN Becomes(v, l, [l EXCEPT !.read = read]) /\ UNCHANGED data
           ELSE /\ loads' = [loads EXCEPT ![v] = @ \ {l}]
                /\ data' = [data EXCEPT ![v] =
                     [e \in l.found |-> [r \in Parts(v) |-> read[r][e]]]]
    /\ UNCHANGED <<chain, error, failures, selected, watched>>

ReadCounters(v, l)     == ReadPart(v, l, "counters")
ReadRecords(v, l)      == ReadPart(v, l, "records")
ReadIdentity(v, l)     == ReadPart(v, l, "identity")
ReadLastDecision(v, l) == ReadPart(v, l, "lastDecision")

LoadFails(v, l) ==
    /\ failures < MaxFailures /\ failures' = failures + 1
    /\ error' = [error EXCEPT ![v] = TRUE]
    /\ loads' = [loads EXCEPT ![v] = @ \ {l}]
    /\ UNCHANGED <<chain, data, selected, watched>>

(***************************************************************************)
(* The page.                                                               *)
(***************************************************************************)
\* An error hides the table's rows, not the globe's.
TableRows      == IF error[Table] \/ data[Table] = None THEN {} ELSE DOMAIN data[Table]
fleet          == IF data[Globe] = None THEN {} ELSE DOMAIN data[Globe]
selectedVessel == IF selected \in fleet THEN selected ELSE None

onFocusVessel(e) ==
    /\ e \in TableRows
    /\ selected' = e
    /\ UNCHANGED <<chain, data, error, loads, failures, watched>>

HydrateStep(v, l) ==
    \/ ReadCounters(v, l) \/ ReadRecords(v, l) \/ ReadIdentity(v, l) \/ ReadLastDecision(v, l)

TableNext ==
    \/ NewBlock
    \/ \E e \in Vessel : onFocusVessel(e)
    \/ \E v \in View : \/ Load(v)
                      \/ \E l \in loads[v] : Scan(v, l) \/ HydrateStep(v, l) \/ LoadFails(v, l)

TableSpec == TableInit /\ [][TableNext]_tableVars

\* The timer keeps polling, and the node answers or fails.
TableFairness ==
    \A v \in View : /\ WF_tableVars(Load(v))
                    /\ WF_tableVars(\E l \in loads[v] : Scan(v, l))
                    /\ \A q \in Parts(v) : WF_tableVars(\E l \in loads[v] : ReadPart(v, l, q))
TableFairSpec == TableSpec /\ TableFairness

\* Types of the page's state.
TableTypeOK ==
    /\ head \in Nat /\ named \in [Entry -> 0 .. head]
    /\ \A e \in Entry : news[e] \in [PartsOf(e) -> 0 .. head]
    /\ error \in [View -> BOOLEAN] /\ selected \in Vessel \cup {None}
    /\ \A v \in View : data[v] = None \/ DOMAIN data[v] \subseteq Listed(v)

Current(v) == [e \in Found(v) |-> news[e]]

\* Once the chain is quiet every view comes to hold what the chain says and keeps
\* it, whatever answers were late, torn between two blocks or refused
\* (chain.ts:115-257, useVessels.ts:20-42, useVerifiers.ts:20-42): the two vessel views
\* agree, and no verifier is shown with a decision it has since replaced.
ViewsCatchUp == <>[](\A v \in watched : data[v] = Current(v))

\* A vessel picked in the table gets its place on the globe (page.tsx:141-162),
\* unless another is picked or the scan has left it behind.
FocusIsShown ==
    \A e \in Vessel :
        selected = e ~> selectedVessel = e \/ selected # e \/ e \notin Found(Table)

\* "every imo-<n>.vessel.phare.eth ever minted" (chain.ts:4).
EveryMintIsListed ==
    \A v \in View : \A l \in loads[v] :
        l.at = "hydrate" => \A e \in Listed(v) : Named(e) /\ named[e] < head => e \in l.found
=============================================================================
