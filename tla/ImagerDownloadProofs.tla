------------------------ MODULE ImagerDownloadProofs ------------------------
(***************************************************************************)
(* For any number of callers, packets, fixtures and failures: what is      *)
(* listed is stored, and calls that do not overlap resume where the last   *)
(* one left off.                                                           *)
(***************************************************************************)
EXTENDS ImagerDownload, FiniteSetTheorems, TLAPS

(***************************************************************************)
(* The inductive invariant.                                                *)
(***************************************************************************)
Contents     == {NoFile, Torn} \cup Version \cup States
FileType == [text : Contents, writers : SUBSET Session]
Outputs  == {NoFile} \cup [metadata : Version, tiles : SUBSET Version]
Writing  == {"open", "put", "rename"}
Settled  == {"reconcile", "next", "reload", "recompose"}

Types ==
    /\ files \in [Path -> FileType]
    /\ \A n \in Path :
         files[n].text \in {NoFile, Torn} \cup (IF n[1] \in Packet THEN Version ELSE States)
    /\ served \in Version
    /\ dl \in [Session -> Calls]
    /\ out \in [Session -> Outputs]
    /\ wiped \in BOOLEAN /\ overlapped \in BOOLEAN

\* A process has one file open while it puts its bytes, and that is one of its target.
WritersPut ==
    \A n \in Path, s \in Session : s \in files[n].writers =>
        /\ dl[s].at = "put" /\ n[1] = dl[s].target
        /\ Exists(n)
        /\ \A m \in Path : s \in files[m].writers => m = n

\* What a call has in memory, at each of its cuts.
WellFormed(r) ==
    /\ r.at \in Settled \cup Writing => r.mem \in States
    /\ r.at \in Resting \cup {"ensure", "metadata"} => r.mem = Idle /\ r.got = Idle
    /\ r.at \in Writing =>
         /\ r.then # ""
         /\ r.then = "list" => r.target \in r.todo /\ r.got \in Version
         /\ r.then # "list" => r.target = StateJson
    /\ r.at = "next" \/ (r.at \in Writing /\ r.then \in {"list", "next"}) =>
         r.todo \cap r.mem.list = {}

\* Unless the user removed the packets, whatever is listed exists: on disk, in a
\* temporary file, in memory.
Known(text) == text \in States => \A i \in text.list : Exists(File(i))
ListedExists ==
    /\ \A n \in Path : n[1] = StateJson => Known(files[n].text)
    /\ \A s \in Session : Known(dl[s].mem)

BytesOf(r) == IF r.target = StateJson THEN r.mem ELSE r.got
OfVersion(list, v) == \A i \in list : Exists(File(i)) => files[File(i)].text = v

\* How a call that has the directory for itself stands to what is on disk.
Sound(r) ==
    /\ r.at = "metadata" => OnDisk = NoFile
    /\ r.at \in Settled \cup Writing =>
         /\ r.got \in {Idle, r.mem.version}
         /\ OfVersion(r.mem.list, r.mem.version)
    /\ r.at \in Settled \/ (r.at \in Writing /\ r.then = "list") => OnDisk = r.mem
    /\ r.at = "recompose" => r.mem.list = Packet
    /\ r.at \in Writing =>
         /\ r.then = "reconcile" => OnDisk = NoFile /\ r.mem.list = {}
         /\ r.then \in {"plan", "next", "returned"} => Readable /\ OnDisk.version = r.mem.version
         /\ r.then = "plan" => /\ r.mem.list \subseteq OnDisk.list
                               /\ \A i \in OnDisk.list \ r.mem.list : ~Exists(File(i))
         /\ r.then = "next" => \E i \in Packet : r.mem.list = OnDisk.list \cup {i}
         /\ r.then = "returned" => r.mem.list = OnDisk.list
    /\ r.at = "put" => \/ ~Exists(Tmp(r.target))
                       \/ files[Tmp(r.target)].text = Torn /\ files[Tmp(r.target)].writers # {}
    /\ r.at = "rename" => files[Tmp(r.target)].text \in {NoFile, BytesOf(r)}

ListIsVersions == Readable => OfVersion(OnDisk.list, OnDisk.version)

CallsAlone ==
    /\ \A s, t \in Session : Busy(s) /\ Busy(t) => s = t
    /\ \A s \in Session : Sound(dl[s])
    /\ \A n \in Path : n[2] = "" => files[n].writers = {}
    /\ ListIsVersions
    /\ \A s \in Session : out[s] = NoFile \/ out[s].tiles = {out[s].metadata}

ImagerInv ==
    /\ Types
    /\ WritersPut
    /\ \A s \in Session : WellFormed(dl[s])
    /\ wiped \/ ListedExists
    /\ overlapped \/ CallsAlone

\* Paths, and what the sentinels are not.
LEMMA Basics ==
    /\ \A i \in Packet \cup {StateJson} : File(i) \in Path /\ Tmp(i) \in Path
    /\ \A i \in Packet \cup {StateJson} :
         File(i)[1] = i /\ File(i)[2] = "" /\ Tmp(i)[1] = i /\ Tmp(i)[2] = ".tmp"
    /\ \A i, j \in Packet \cup {StateJson} : File(i) # Tmp(j)
    /\ \A i, j \in Packet \cup {StateJson} : (File(i) = File(j) \/ Tmp(i) = Tmp(j)) => i = j
    /\ \A n \in Path : n[1] \in Packet \cup {StateJson} /\ n[2] \in {"", ".tmp"}
                      /\ (n[2] = ".tmp" => n = Tmp(n[1])) /\ (n[2] = "" => n = File(n[1]))
    /\ StateJson \notin Packet /\ 0 \in Packet
<1>1. \A t, u : File(t) # Tmp(u) /\ (File(t) = File(u) \/ Tmp(t) = Tmp(u) => t = u)
  BY DEF File, Tmp
<1>2. \A t : File(t)[1] = t /\ File(t)[2] = "" /\ Tmp(t)[1] = t /\ Tmp(t)[2] = ".tmp"
  BY DEF File, Tmp
<1>3. \A i \in Packet \cup {StateJson} : File(i) \in Path /\ Tmp(i) \in Path
  BY DEF File, Tmp, Path
<1>4. ASSUME NEW n \in Path
      PROVE  /\ n[1] \in Packet \cup {StateJson} /\ n[2] \in {"", ".tmp"}
             /\ (n[2] = ".tmp" => n = Tmp(n[1])) /\ (n[2] = "" => n = File(n[1]))
  <2> DEFINE A == Packet \cup {StateJson}
             B == {"", ".tmp"}
  <2>0. n \in A \X B
    BY DEF Path
  <2> HIDE DEF A, B
  <2>1. PICK t \in A, e \in B : n = <<t, e>>
    BY <2>0
  <2>2. n[1] = t /\ n[2] = e
    BY <2>1
  <2> QED BY <2>1, <2>2 DEF File, Tmp, A, B
<1>5. StateJson \notin Packet /\ 0 \in Packet
  BY ImagerCounts DEF StateJson, Packet
<1> QED BY <1>1, <1>2, <1>3, <1>4, <1>5

\* A call at rest stands in no relation to the directory.
LEMMA RestIsSound ==
    ASSUME NEW r, r.at \in Resting \cup {"ensure"}
    PROVE  Sound(r)
BY DEF Sound, Resting, Settled, Writing

LEMMA RestFields ==
    ASSUME NEW a \in Resting \cup {"ensure"}
    PROVE  /\ Rest(a) \in Calls /\ Rest(a).at = a /\ Rest(a).mem = Idle /\ Rest(a).got = Idle
           /\ WellFormed(Rest(a)) /\ Known(Rest(a).mem) /\ Sound(Rest(a))
<1>1. Rest(a) \in Calls /\ Rest(a).at = a /\ Rest(a).mem = Idle /\ Rest(a).got = Idle
  BY ImagerSentinels DEF Rest, Calls, Resting
<1>2. WellFormed(Rest(a))
  BY <1>1 DEF WellFormed, Settled, Writing, Resting
<1>3. Known(Rest(a).mem)
  BY <1>1, ImagerSentinels DEF Known
<1> QED BY <1>1, <1>2, <1>3, RestIsSound

\* atomicWrite begins (58-64).
LEMMA AtomicWriteFields ==
    ASSUME NEW r \in Calls, NEW target \in Packet \cup {StateJson},
           NEW then \in {"reconcile", "plan", "list", "next", "returned"}
    PROVE  LET w == AtomicWrite(r, target, then)
           IN  /\ w \in Calls /\ w.at = "open" /\ w.target = target /\ w.then = then
               /\ w.kind = r.kind /\ w.mem = r.mem /\ w.todo = r.todo /\ w.got = r.got
BY DEF AtomicWrite, Calls

\* An assignment to a field of a call.
LEMMA CallFields ==
    ASSUME NEW r \in Calls
    PROVE  /\ \A m \in States :
                LET w == [r EXCEPT !.mem = m]
                IN  /\ w \in Calls /\ w.at = r.at /\ w.target = r.target /\ w.then = r.then
                    /\ w.kind = r.kind /\ w.mem = m /\ w.todo = r.todo /\ w.got = r.got
           /\ \A a \in Settled \cup Writing \cup {"metadata"} :
                LET w == [r EXCEPT !.at = a]
                IN  /\ w \in Calls /\ w.at = a /\ w.target = r.target /\ w.then = r.then
                    /\ w.kind = r.kind /\ w.mem = r.mem /\ w.todo = r.todo /\ w.got = r.got
           /\ \A g \in Version :
                LET w == [r EXCEPT !.got = g]
                IN  /\ w \in Calls /\ w.at = r.at /\ w.target = r.target /\ w.then = r.then
                    /\ w.kind = r.kind /\ w.mem = r.mem /\ w.todo = r.todo /\ w.got = g
<1>1. \A m \in States : [r EXCEPT !.mem = m] \in Calls
  BY DEF Calls
<1>2. \A a \in Settled \cup Writing \cup {"metadata"} : [r EXCEPT !.at = a] \in Calls
  BY DEF Calls, Settled, Writing
<1>3. \A g \in Version : [r EXCEPT !.got = g] \in Calls
  BY DEF Calls
<1>4. /\ \A m : LET w == [r EXCEPT !.mem = m]
                IN  /\ w.at = r.at /\ w.target = r.target /\ w.then = r.then
                    /\ w.kind = r.kind /\ w.mem = m /\ w.todo = r.todo /\ w.got = r.got
  BY DEF Calls
<1>5. \A a : LET w == [r EXCEPT !.at = a]
             IN  /\ w.at = a /\ w.target = r.target /\ w.then = r.then
                 /\ w.kind = r.kind /\ w.mem = r.mem /\ w.todo = r.todo /\ w.got = r.got
  BY DEF Calls
<1>6. \A g : LET w == [r EXCEPT !.got = g]
             IN  /\ w.at = r.at /\ w.target = r.target /\ w.then = r.then
                 /\ w.kind = r.kind /\ w.mem = r.mem /\ w.todo = r.todo /\ w.got = g
  BY DEF Calls
<1> QED BY <1>1, <1>2, <1>3, <1>4, <1>5, <1>6

\* The requested packets that are not listed (146-148).
LEMMA PlanFields ==
    ASSUME NEW r \in Calls, r.mem \in States
    PROVE  /\ Plan(r) \in Calls /\ Plan(r).at = "next" /\ Plan(r).mem = r.mem
           /\ Plan(r).todo \cap r.mem.list = {} /\ Plan(r).got = r.got
BY DEF Plan, Calls

\* An assignment to the list, or to the completion, of a state.
LEMMA StateFields ==
    ASSUME NEW m \in States, NEW l \in SUBSET Packet
    PROVE  /\ [m EXCEPT !.list = l] \in States /\ [m EXCEPT !.list = l].list = l
           /\ [m EXCEPT !.list = l].version = m.version
           /\ [m EXCEPT !.complete = TRUE] \in States
           /\ [m EXCEPT !.complete = TRUE].list = m.list
           /\ [m EXCEPT !.complete = TRUE].version = m.version
BY DEF States

(***************************************************************************)
(* Steps that leave the directory alone.                                   *)
(***************************************************************************)
\* A call moves on in memory.
LEMMA CallMoves ==
    ASSUME ImagerInv, NEW s \in Session, NEW r \in Calls,
           dl' = [dl EXCEPT ![s] = r], files' = files, wiped' = wiped,
           dl[s].at # "put", r.at # "put",
           WellFormed(r), ~wiped => Known(r.mem),
           served' \in Version, out' \in [Session -> Outputs],
           overlapped' \in BOOLEAN, overlapped => overlapped',
           ~overlapped' =>
             /\ Sound(r)
             /\ r.at \in Resting \/ \A t \in Session \ {s} : ~Busy(t)
             /\ \A t \in Session : out'[t] = out[t] \/ out'[t].tiles = {out'[t].metadata}
    PROVE  ImagerInv'
<1>1. Types /\ WritersPut /\ \A t \in Session : WellFormed(dl[t])
  BY DEF ImagerInv
<1>2. /\ dl' \in [Session -> Calls] /\ dl'[s] = r
      /\ \A t \in Session \ {s} : dl'[t] = dl[t]
  BY <1>1 DEF Types
<1>3. Types'
  BY <1>1, <1>2 DEF Types
<1>4. WritersPut'
  BY <1>1, <1>2 DEF WritersPut, Exists
<1>5. \A t \in Session : WellFormed(dl[t])'
  BY <1>1, <1>2
<1>6. (wiped \/ ListedExists)'
  <2> SUFFICES ASSUME ~wiped PROVE ListedExists'
    OBVIOUS
  <2>1. ListedExists /\ \A m : Known(m)' = Known(m)
    BY DEF ImagerInv, Known, Exists
  <2> QED BY <1>2, <2>1 DEF ListedExists
<1>7. ASSUME ~overlapped' PROVE CallsAlone'
  <2>1. CallsAlone
    BY <1>7 DEF ImagerInv
  <2>2. \A t \in Session \ {s} : Busy(t)' = Busy(t)
    BY <1>2 DEF Busy
  <2>3. (\A t, u \in Session : Busy(t) /\ Busy(u) => t = u)'
    <3>1. r.at \in Resting => ~Busy(s)'
      BY <1>2 DEF Busy
    <3> QED BY <1>7, <2>1, <2>2, <3>1 DEF CallsAlone
  <2>4. \A x : Sound(x)' = Sound(x)
    BY DEF Sound, OnDisk, Readable, OfVersion, Exists, BytesOf
  <2>5. \A t \in Session : Sound(dl[t])'
    BY <1>2, <1>7, <2>1, <2>4 DEF CallsAlone
  <2>6. ListIsVersions' /\ \A n \in Path : n[2] = "" => files'[n].writers = {}
    BY <2>1 DEF CallsAlone, ListIsVersions, Readable, OnDisk, OfVersion, Exists
  <2>7. \A t \in Session : out'[t] = NoFile \/ out'[t].tiles = {out'[t].metadata}
    BY <1>7, <2>1 DEF CallsAlone
  <2> QED BY <2>3, <2>5, <2>6, <2>7 DEF CallsAlone
<1> QED BY <1>3, <1>4, <1>5, <1>6, <1>7 DEF ImagerInv

\* A call throws, where it has no file open.
LEMMA StepThrow ==
    ASSUME ImagerInv, NEW s \in Session, dl[s].at # "put", Throw(s),
           UNCHANGED <<files, served, out, wiped, overlapped>>
    PROVE  ImagerInv'
<1>1. Types
  BY DEF ImagerInv
<1>2. dl' = [dl EXCEPT ![s] = Rest("failed")] /\ "failed" \in Resting
  BY DEF Throw, Step, Resting
<1> QED BY <1>1, <1>2, RestFields, CallMoves DEF Types, Resting

LEMMA StepCallStarts ==
    ASSUME ImagerInv, NEW s \in Session, NEW kind \in {"image", "packets"},
           NEW request \in SUBSET Packet, CallStarts(s, kind, request)
    PROVE  ImagerInv'
<1> DEFINE r == [Rest("ensure") EXCEPT !.kind = kind, !.todo = request]
<1>1. Types
  BY DEF ImagerInv
<1>2. r \in Calls /\ r.at = "ensure" /\ r.mem = Idle /\ r.got = Idle
  <2>1. "ensure" \in Resting \cup {"ensure"}
    OBVIOUS
  <2>2. /\ Rest("ensure") \in Calls /\ Rest("ensure").at = "ensure"
        /\ Rest("ensure").mem = Idle /\ Rest("ensure").got = Idle
    BY <2>1, RestFields
  <2> QED BY <2>2 DEF Calls
<1>3. /\ dl' = [dl EXCEPT ![s] = r] /\ ~Busy(s)
      /\ overlapped' = (overlapped \/ \E t \in Session \ {s} : Busy(t))
      /\ UNCHANGED <<files, served, out, wiped>>
  BY DEF CallStarts, Step
<1> HIDE DEF r
<1>4. WellFormed(r) /\ Known(r.mem) /\ Sound(r)
  BY <1>2, ImagerSentinels, RestIsSound DEF WellFormed, Known, Settled, Writing, Resting
<1>5. dl[s].at # "put" /\ r.at # "put"
  BY <1>2, <1>3 DEF Busy, Resting
<1> QED BY <1>1, <1>2, <1>3, <1>4, <1>5, CallMoves DEF Types

\* What is on disk is a state, where it can be read.
LEMMA ReadableState == Types /\ Readable => OnDisk \in States
<1>1. File(StateJson) \in Path /\ File(StateJson)[1] = StateJson /\ StateJson \notin Packet
  BY Basics
<1> QED BY <1>1 DEF Types, Readable, OnDisk

\* What a call of its own has the directory for.
LEMMA HasItAlone ==
    ASSUME ImagerInv, ~overlapped, NEW s \in Session, Busy(s)
    PROVE  Sound(dl[s]) /\ (\A t \in Session \ {s} : ~Busy(t)) /\ ListIsVersions
BY DEF ImagerInv, CallsAlone

LEMMA StepReadState == ASSUME ImagerInv, NEW s \in Session, ReadState(s) PROVE ImagerInv'
<1>1. Types /\ WellFormed(dl[s]) /\ dl[s] \in Calls
  BY DEF ImagerInv, Types
<1>2. dl[s].at = "ensure" /\ Busy(s) /\ dl[s].got = Idle
  BY <1>1 DEF ReadState, Busy, Resting, WellFormed
<1>3. UNCHANGED <<files, served, out, wiped, overlapped>>
  BY DEF ReadState
<1>4. CASE OnDisk = NoFile
  <2> DEFINE r == [dl[s] EXCEPT !.at = "metadata"]
  <2>1. r \in Calls /\ r.at = "metadata" /\ r.mem = dl[s].mem /\ r.got = Idle
    BY <1>1, <1>2, CallFields
  <2>2. dl' = [dl EXCEPT ![s] = r]
    BY <1>4, ImagerSentinels DEF ReadState, Step, Readable
  <2> HIDE DEF r
  <2>3. WellFormed(r) /\ Known(r.mem)
    BY <1>1, <1>2, <2>1, ImagerSentinels DEF WellFormed, Known, Settled, Writing, Resting
  <2>4. Sound(r)
    BY <1>4, <2>1 DEF Sound, Settled, Writing
  <2> QED BY <1>1, <1>2, <1>3, <2>1, <2>2, <2>3, <2>4, HasItAlone, CallMoves DEF Types
<1>5. CASE OnDisk = Torn /\ Throw(s)
  BY <1>2, <1>3, <1>5, StepThrow
<1>6. CASE Readable
  <2> DEFINE q == [dl[s] EXCEPT !.at = "reconcile"]
             r == [q EXCEPT !.mem = OnDisk]
  <2>1. OnDisk \in States
    BY <1>1, <1>6, ReadableState
  <2>2. q \in Calls /\ q.at = "reconcile" /\ q.got = Idle
    BY <1>1, <1>2, CallFields DEF Settled
  <2>3. r = [dl[s] EXCEPT !.at = "reconcile", !.mem = OnDisk]
    OBVIOUS
  <2> HIDE DEF q
  <2>4. r \in Calls /\ r.at = "reconcile" /\ r.mem = OnDisk /\ r.got = Idle
    BY <2>1, <2>2, CallFields
  <2>5. dl' = [dl EXCEPT ![s] = r]
    BY <1>6, <2>3 DEF ReadState, Step, Readable
  <2> HIDE DEF r
  <2>6. WellFormed(r)
    BY <2>1, <2>4 DEF WellFormed, Settled, Writing, Resting
  <2>7. ~wiped => Known(r.mem)
    BY <2>4, Basics DEF ImagerInv, ListedExists, OnDisk
  <2>8. ~overlapped => Sound(r)
    BY <1>2, <1>6, <2>4, HasItAlone DEF Sound, Settled, Writing, ListIsVersions
  <2> QED BY <1>1, <1>2, <1>3, <2>4, <2>5, <2>6, <2>7, <2>8, HasItAlone, CallMoves DEF Types
<1> QED BY <1>4, <1>5, <1>6 DEF ReadState

LEMMA StepGetMetadata == ASSUME ImagerInv, NEW s \in Session, GetMetadata(s) PROVE ImagerInv'
<1> DEFINE fresh == [version |-> served, list |-> {}, complete |-> FALSE]
           q     == [dl[s] EXCEPT !.mem = fresh]
           r     == AtomicWrite(q, StateJson, "reconcile")
<1>1. Types /\ WellFormed(dl[s]) /\ dl[s] \in Calls
  BY DEF ImagerInv, Types
<1>2. dl[s].at = "metadata" /\ Busy(s) /\ dl[s].got = Idle
  BY <1>1 DEF GetMetadata, Busy, Resting, WellFormed
<1>3. UNCHANGED <<files, served, out, wiped, overlapped>> /\ dl' = [dl EXCEPT ![s] = r]
  BY DEF GetMetadata, Step
<1>4. fresh \in States /\ fresh.list = {}
  BY <1>1 DEF States, Types
<1> HIDE DEF fresh
<1>5. q \in Calls /\ q.mem = fresh /\ q.got = Idle
  BY <1>1, <1>2, <1>4, CallFields
<1> HIDE DEF q
<1>6. /\ r \in Calls /\ r.at = "open" /\ r.target = StateJson /\ r.then = "reconcile"
      /\ r.mem = fresh /\ r.got = Idle
  BY <1>5, AtomicWriteFields
<1> HIDE DEF r
<1>7. WellFormed(r) /\ Known(r.mem)
  BY <1>4, <1>6 DEF WellFormed, Known, Settled, Writing, Resting
<1>8. ~overlapped => Sound(r)
  BY <1>2, <1>4, <1>6, HasItAlone DEF Sound, OfVersion, Settled, Writing
<1> QED BY <1>1, <1>2, <1>3, <1>6, <1>7, <1>8, HasItAlone, CallMoves DEF Types

LEMMA StepReconcile == ASSUME ImagerInv, NEW s \in Session, Reconcile(s) PROVE ImagerInv'
<1> DEFINE present == {i \in dl[s].mem.list : Exists(File(i))}
           m == [dl[s].mem EXCEPT !.list = present]
           q == [dl[s] EXCEPT !.mem = m]
<1>1. Types /\ WellFormed(dl[s]) /\ dl[s] \in Calls
  BY DEF ImagerInv, Types
<1>2. dl[s].at = "reconcile" /\ Busy(s) /\ dl[s].mem \in States
  BY <1>1 DEF Reconcile, Busy, Resting, WellFormed, Settled
<1>3. /\ UNCHANGED <<files, served, out, wiped, overlapped>>
      /\ dl' = [dl EXCEPT ![s] = IF present = dl[s].mem.list THEN Plan(q)
                                 ELSE AtomicWrite(q, StateJson, "plan")]
  <2>1. q = [dl[s] EXCEPT !.mem.list = present]
    OBVIOUS
  <2> QED BY <2>1 DEF Reconcile, Step
<1>4. m \in States /\ m.list = present /\ m.version = dl[s].mem.version
  BY <1>2, StateFields DEF States
<1>5. present = dl[s].mem.list => m = dl[s].mem
  BY <1>2 DEF States
<1>6. q \in Calls /\ q.mem = m /\ q.got = dl[s].got
  BY <1>1, <1>4, CallFields
<1>7. ~wiped => Known(m)
  BY <1>4 DEF Known
<1>8. ~overlapped => /\ m.version = dl[s].mem.version /\ dl[s].got \in {Idle, m.version}
                     /\ OnDisk = dl[s].mem /\ OfVersion(m.list, m.version)
  BY <1>2, <1>4, HasItAlone DEF Sound, OfVersion, Settled
<1> HIDE DEF m, q
<1>9. CASE present = dl[s].mem.list
  <2> DEFINE r == Plan(q)
  <2>1. /\ r \in Calls /\ r.at = "next" /\ r.mem = m /\ r.got = dl[s].got
        /\ r.todo \cap r.mem.list = {}
    BY <1>4, <1>6, PlanFields
  <2>2. dl' = [dl EXCEPT ![s] = r]
    BY <1>3, <1>9
  <2> HIDE DEF r
  <2>3. WellFormed(r)
    BY <1>4, <2>1 DEF WellFormed, Settled, Writing, Resting
  <2>4. ~overlapped => Sound(r)
    BY <1>5, <1>8, <1>9, <2>1 DEF Sound, Settled, Writing
  <2> QED BY <1>1, <1>2, <1>3, <1>7, <2>1, <2>2, <2>3, <2>4, HasItAlone, CallMoves DEF Types
<1>10. CASE present # dl[s].mem.list
  <2> DEFINE r == AtomicWrite(q, StateJson, "plan")
  <2>1. /\ r \in Calls /\ r.at = "open" /\ r.target = StateJson /\ r.then = "plan"
        /\ r.mem = m /\ r.got = dl[s].got
    BY <1>6, AtomicWriteFields
  <2>2. dl' = [dl EXCEPT ![s] = r]
    BY <1>3, <1>10
  <2> HIDE DEF r
  <2>3. WellFormed(r)
    BY <1>4, <2>1 DEF WellFormed, Settled, Writing, Resting
  <2>4. OnDisk = dl[s].mem => Readable
    BY <1>2, ImagerSentinels DEF Readable
  <2>5. ~overlapped => Sound(r)
    BY <1>4, <1>8, <2>1, <2>4 DEF Sound, Settled, Writing
  <2> QED BY <1>1, <1>2, <1>3, <1>7, <2>1, <2>2, <2>3, <2>5, HasItAlone, CallMoves DEF Types
<1> QED BY <1>9, <1>10

LEMMA StepGetPacket == ASSUME ImagerInv, NEW s \in Session, GetPacket(s) PROVE ImagerInv'
<1>1. Types /\ WellFormed(dl[s]) /\ dl[s] \in Calls
  BY DEF ImagerInv, Types
<1>2. dl[s].at = "next" /\ Busy(s) /\ dl[s].mem \in States
  BY <1>1 DEF GetPacket, Busy, Resting, WellFormed, Settled
<1>3. UNCHANGED <<files, served, out, wiped, overlapped>>
  BY DEF GetPacket
<1>4. CASE Throw(s)
  BY <1>2, <1>3, <1>4, StepThrow
<1>5. ASSUME NEW i \in dl[s].todo, served = dl[s].mem.version,
             Step(s, AtomicWrite([dl[s] EXCEPT !.got = served], i, "list"))
      PROVE  ImagerInv'
  <2> DEFINE q == [dl[s] EXCEPT !.got = served]
             r == AtomicWrite(q, i, "list")
  <2>1. i \in Packet /\ i \in Packet \cup {StateJson} /\ served \in Version
    BY <1>1, <1>5 DEF Calls, Types
  <2>2. q \in Calls /\ q.mem = dl[s].mem /\ q.todo = dl[s].todo /\ q.got = served
    BY <1>1, <2>1, CallFields
  <2> HIDE DEF q
  <2>3. /\ r \in Calls /\ r.at = "open" /\ r.target = i /\ r.then = "list"
        /\ r.mem = dl[s].mem /\ r.todo = dl[s].todo /\ r.got = served
    BY <2>1, <2>2 DEF AtomicWrite, Calls
  <2>4. dl' = [dl EXCEPT ![s] = r]
    BY <1>5 DEF Step, q
  <2> HIDE DEF r
  <2>5. WellFormed(r)
    BY <1>1, <1>2, <1>5, <2>1, <2>3 DEF WellFormed, Settled, Writing, Resting
  <2>6. ~wiped => Known(r.mem)
    BY <2>3 DEF ImagerInv, ListedExists
  <2>7. ~overlapped => Sound(r)
    BY <1>2, <1>5, <2>3, HasItAlone DEF Sound, Settled, Writing
  <2> QED BY <1>1, <1>2, <1>3, <2>3, <2>4, <2>5, <2>6, <2>7, HasItAlone, CallMoves DEF Types
<1> QED BY <1>4, <1>5 DEF GetPacket, Verified

LEMMA StepGatewayFails == ASSUME ImagerInv, NEW s \in Session, GatewayFails(s) PROVE ImagerInv'
BY StepThrow DEF GatewayFails

LEMMA StepPacketsDone == ASSUME ImagerInv, NEW s \in Session, PacketsDone(s) PROVE ImagerInv'
<1>1. Types /\ WellFormed(dl[s]) /\ dl[s] \in Calls
  BY DEF ImagerInv, Types
<1>2. dl[s].at = "next" /\ Busy(s) /\ dl[s].mem \in States
  BY <1>1 DEF PacketsDone, Busy, Resting, WellFormed, Settled
<1>3. UNCHANGED <<files, served, out, wiped, overlapped>>
  BY DEF PacketsDone
<1>4. CASE dl[s].kind = "packets"
  <2>1. dl' = [dl EXCEPT ![s] = Rest("returned")] /\ "returned" \in Resting
    BY <1>4 DEF PacketsDone, Step, Resting
  <2> QED BY <1>1, <1>2, <1>3, <2>1, RestFields, CallMoves DEF Types, Resting
<1>5. CASE dl[s].kind # "packets"
  <2> DEFINE r == [dl[s] EXCEPT !.at = "reload"]
  <2>1. r \in Calls /\ r.at = "reload" /\ r.mem = dl[s].mem /\ r.got = dl[s].got
    BY <1>1, CallFields DEF Settled
  <2>2. dl' = [dl EXCEPT ![s] = r]
    BY <1>5 DEF PacketsDone, Step
  <2> HIDE DEF r
  <2>3. WellFormed(r)
    BY <1>2, <2>1 DEF WellFormed, Settled, Writing, Resting
  <2>4. ~wiped => Known(r.mem)
    BY <2>1 DEF ImagerInv, ListedExists
  <2>5. ~overlapped => Sound(r)
    BY <1>2, <2>1, HasItAlone DEF Sound, Settled, Writing
  <2> QED BY <1>1, <1>2, <1>3, <2>1, <2>2, <2>3, <2>4, <2>5, HasItAlone, CallMoves DEF Types
<1> QED BY <1>4, <1>5

\* As many packets as there are, are all of them (219-224).
LEMMA AllListed ==
    ASSUME NEW l \in SUBSET Packet, Cardinality(l) = PacketCount
    PROVE  l = Packet
<1>1. IsFiniteSet(Packet) /\ Cardinality(Packet) = PacketCount
  BY ImagerCounts, FS_Interval DEF Packet
<1> QED BY <1>1, FS_Subset

LEMMA StepReload == ASSUME ImagerInv, NEW s \in Session, Reload(s) PROVE ImagerInv'
<1>1. Types /\ WellFormed(dl[s]) /\ dl[s] \in Calls
  BY DEF ImagerInv, Types
<1>2. dl[s].at = "reload" /\ Busy(s)
  BY <1>1 DEF Reload, Busy, Resting
<1>3. UNCHANGED <<files, served, out, wiped, overlapped>>
  BY DEF Reload
<1>4. CASE Throw(s)
  BY <1>2, <1>3, <1>4, StepThrow
<1>5. CASE Readable /\ Cardinality(OnDisk.list) = PacketCount
  <2> DEFINE q == [dl[s] EXCEPT !.at = "recompose"]
             r == [q EXCEPT !.mem = OnDisk]
  <2>1. OnDisk \in States
    BY <1>1, <1>5, ReadableState
  <2>2. q \in Calls /\ q.at = "recompose" /\ q.got = dl[s].got
    BY <1>1, CallFields DEF Settled
  <2>3. r = [dl[s] EXCEPT !.at = "recompose", !.mem = OnDisk]
    OBVIOUS
  <2> HIDE DEF q
  <2>4. r \in Calls /\ r.at = "recompose" /\ r.mem = OnDisk /\ r.got = dl[s].got
    BY <2>1, <2>2, CallFields
  <2>5. dl' = [dl EXCEPT ![s] = r]
    BY <1>5, <2>3 DEF Reload, Step
  <2> HIDE DEF r
  <2>6. WellFormed(r)
    BY <2>1, <2>4 DEF WellFormed, Settled, Writing, Resting
  <2>7. ~wiped => Known(r.mem)
    BY <2>4, Basics DEF ImagerInv, ListedExists, OnDisk
  <2>8. OnDisk.list = Packet
    BY <1>5, <2>1, AllListed DEF States
  <2>9. ~overlapped => Sound(r)
    BY <1>2, <2>4, <2>8, HasItAlone DEF Sound, Settled, Writing
  <2> QED BY <1>1, <1>2, <1>3, <2>4, <2>5, <2>6, <2>7, <2>9, HasItAlone, CallMoves DEF Types
<1> QED BY <1>4, <1>5 DEF Reload

\* The image is composed of packets of the version it is described by (229-240).
LEMMA StepRecompose == ASSUME ImagerInv, NEW s \in Session, Recompose(s) PROVE ImagerInv'
<1>1. Types /\ WellFormed(dl[s]) /\ dl[s] \in Calls
  BY DEF ImagerInv, Types
<1>2. dl[s].at = "recompose" /\ Busy(s) /\ dl[s].mem \in States
  BY <1>1 DEF Recompose, Busy, Resting, WellFormed, Settled
<1>3. UNCHANGED <<files, served, wiped, overlapped>>
  BY DEF Recompose
<1>4. CASE Throw(s) /\ UNCHANGED out
  BY <1>2, <1>3, <1>4, StepThrow
<1>5. CASE \A i \in Packet : files[File(i)].text \notin {NoFile, Torn}
  <2> DEFINE m == [dl[s].mem EXCEPT !.complete = TRUE]
             q == [dl[s] EXCEPT !.mem = m]
             r == AtomicWrite(q, StateJson, "returned")
             image == [metadata |-> dl[s].mem.version, tiles |-> {files[File(i)].text : i \in Packet}]
  <2>1. m \in States /\ m.list = dl[s].mem.list /\ m.version = dl[s].mem.version
    BY <1>2, StateFields DEF States
  <2>2. dl' = [dl EXCEPT ![s] = r] /\ out' = [out EXCEPT ![s] = image]
    <3>1. q = [dl[s] EXCEPT !.mem.complete = TRUE]
      OBVIOUS
    <3> QED BY <1>5, <3>1 DEF Recompose, Step
  <2> HIDE DEF m
  <2>3. q \in Calls /\ q.mem = m /\ q.got = dl[s].got
    BY <1>1, <2>1, CallFields
  <2> HIDE DEF q
  <2>4. /\ r \in Calls /\ r.at = "open" /\ r.target = StateJson /\ r.then = "returned"
        /\ r.mem = m /\ r.got = dl[s].got
    BY <2>3, AtomicWriteFields
  <2> HIDE DEF r
  <2>5. image \in [metadata : Version, tiles : SUBSET Version]
    <3>1. \A i \in Packet : files[File(i)].text \in Version
      <4> SUFFICES ASSUME NEW i \in Packet PROVE files[File(i)].text \in Version
        OBVIOUS
      <4>1. File(i) \in Path /\ File(i)[1] \in Packet
        BY Basics
      <4> QED BY <1>1, <1>5, <4>1 DEF Types
    <3> QED BY <1>2, <3>1 DEF States
  <2>6. ~overlapped => image.tiles = {image.metadata}
    <3>1. ~overlapped => \A i \in Packet : files[File(i)].text = dl[s].mem.version
      BY <1>2, <1>5, HasItAlone DEF Sound, OfVersion, Exists, Settled
    <3>2. Packet # {}
      BY Basics
    <3> QED BY <3>1, <3>2
  <2> HIDE DEF image
  <2>7. /\ out' \in [Session -> Outputs]
        /\ ~overlapped => \A t \in Session : out'[t] = out[t] \/ out'[t].tiles = {out'[t].metadata}
    BY <1>1, <2>2, <2>5, <2>6 DEF Types, Outputs
  <2>8. WellFormed(r)
    BY <2>1, <2>4 DEF WellFormed, Settled, Writing, Resting
  <2>9. ~wiped => Known(r.mem)
    <3>1. ~wiped => Known(dl[s].mem)
      BY DEF ImagerInv, ListedExists
    <3> QED BY <1>2, <2>1, <2>4, <3>1 DEF Known
  <2>10. OnDisk = dl[s].mem => Readable
    BY <1>2, ImagerSentinels DEF Readable
  <2>11. ~overlapped => Sound(r)
    BY <1>2, <2>1, <2>4, <2>10, HasItAlone DEF Sound, Settled, Writing
  <2> QED BY <1>1, <1>2, <1>3, <2>2, <2>4, <2>7, <2>8, <2>9, <2>11, HasItAlone, CallMoves DEF Types
<1> QED BY <1>4, <1>5 DEF Recompose

\* What is served and the faults so far may change under the calls.
LEMMA StepBeside ==
    ASSUME ImagerInv, served' \in Version, UNCHANGED <<files, dl, out, wiped, overlapped>>
    PROVE  ImagerInv'
<1>1. Types
  BY DEF ImagerInv
<1>2. files' = files /\ dl' = dl /\ out' = out /\ wiped' = wiped /\ overlapped' = overlapped
  OBVIOUS
<1>3. Types'
  BY <1>1, <1>2 DEF Types
<1>4. \A x : Sound(x)' = Sound(x) /\ Known(x)' = Known(x)
  BY <1>2 DEF Sound, OnDisk, Readable, OfVersion, Exists, BytesOf, Known
<1>5. WritersPut' /\ (\A s \in Session : WellFormed(dl[s])') /\ (wiped \/ ListedExists)'
  BY <1>2, <1>4 DEF ImagerInv, WritersPut, Exists, ListedExists
<1>6. ASSUME CallsAlone PROVE CallsAlone'
  <2>1. \A s \in Session : Sound(dl[s])'
    BY <1>2, <1>4, <1>6 DEF CallsAlone
  <2>2. ListIsVersions'
    BY <1>2, <1>6 DEF CallsAlone, ListIsVersions, Readable, OnDisk, OfVersion, Exists
  <2>3. (\A s, t \in Session : Busy(s) /\ Busy(t) => s = t)'
    BY <1>2, <1>6 DEF CallsAlone, Busy
  <2> QED BY <1>2, <1>6, <2>1, <2>2, <2>3 DEF CallsAlone
<1> QED BY <1>2, <1>3, <1>5, <1>6 DEF ImagerInv

LEMMA StepNewFixture ==
    ASSUME ImagerInv, NewFixture \/ UNCHANGED imagerVars
    PROVE  ImagerInv'
<1>1. served' \in Version
  BY ImagerCounts DEF ImagerInv, Types, NewFixture, imagerVars, Version
<1>2. UNCHANGED <<files, dl, out, wiped, overlapped>>
  BY DEF NewFixture, imagerVars
<1> QED BY <1>1, <1>2, StepBeside

(***************************************************************************)
(* Steps on files.                                                         *)
(***************************************************************************)
\* What is known and sound is so by what the files proper hold.
LEMMA SameFiles ==
    ASSUME Types, \A n \in Path : n[2] = "" => files'[n].text = files[n].text
    PROVE  /\ OnDisk' = OnDisk /\ Readable' = Readable
           /\ \A i \in Packet : Exists(File(i))' = Exists(File(i))
           /\ \A x : Known(x)' = Known(x)
           /\ \A l \in SUBSET Packet : \A v : OfVersion(l, v)' = OfVersion(l, v)
           /\ Readable => OnDisk.list \in SUBSET Packet
<1>1. \A i \in Packet \cup {StateJson} : files'[File(i)].text = files[File(i)].text
  BY Basics
<1>2. OnDisk' = OnDisk /\ Readable' = Readable
  BY <1>1 DEF OnDisk, Readable
<1>3. \A i \in Packet : Exists(File(i))' = Exists(File(i))
  BY <1>1 DEF Exists
<1>4. \A x : Known(x)' = Known(x)
  BY <1>3 DEF Known, States
<1>5. \A l \in SUBSET Packet : \A v : OfVersion(l, v)' = OfVersion(l, v)
  BY <1>1, <1>3 DEF OfVersion
<1>6. Readable => OnDisk.list \in SUBSET Packet
  BY ReadableState DEF States
<1> QED BY <1>2, <1>3, <1>4, <1>5, <1>6

\* A step of a call that removes no file and, when it has the directory for itself,
\* changes no more than temporary ones.
LEMMA CallWrites ==
    ASSUME ImagerInv, NEW s \in Session, Busy(s), NEW r \in Calls,
           dl' = [dl EXCEPT ![s] = r], UNCHANGED <<served, out, wiped, overlapped>>,
           files' \in [Path -> FileType],
           \A n \in Path :
             files'[n].text \in {NoFile, Torn} \cup (IF n[1] \in Packet THEN Version ELSE States),
           \A n \in Path : n[2] = "" /\ files[n].text # NoFile => files'[n].text # NoFile,
           ~overlapped => \A n \in Path : n[2] = "" => /\ files'[n].text = files[n].text
                                                       /\ files'[n].writers \subseteq files[n].writers,
           \A n \in Path :
             n[1] = StateJson => files'[n].text \in {files[n].text, NoFile, Torn, dl[s].mem},
           r.mem \in {dl[s].mem, Idle}, WritersPut', WellFormed(r), ~overlapped => Sound(dl[s])'
    PROVE  ImagerInv'
<1>1. /\ Types /\ \A t \in Session : WellFormed(dl[t])
      /\ dl' \in [Session -> Calls] /\ dl'[s] = r
      /\ \A t \in Session \ {s} : dl'[t] = dl[t]
  BY DEF ImagerInv, Types
<1>2. Types'
  BY <1>1 DEF Types
<1>3. \A t \in Session : WellFormed(dl[t])'
  BY <1>1
<1>4. (wiped \/ ListedExists)'
  <2> SUFFICES ASSUME ~wiped PROVE ListedExists'
    OBVIOUS
  <2>1. ListedExists /\ \A x : Known(x) => Known(x)'
    <3>1. \A i \in Packet : Exists(File(i)) => Exists(File(i))'
      BY Basics DEF Exists
    <3> QED BY <3>1 DEF ImagerInv, Known, States
  <2>2. Known(NoFile) /\ Known(Torn) /\ Known(Idle)
    BY ImagerSentinels DEF Known
  <2> QED BY <1>1, <2>1, <2>2 DEF ListedExists
<1>5. ASSUME ~overlapped PROVE CallsAlone'
  <2>1. (\A t \in Session \ {s} : ~Busy(t)) /\ ListIsVersions /\ CallsAlone
    BY <1>5, HasItAlone DEF ImagerInv
  <2>2. \A t \in Session \ {s} : ~Busy(t)' /\ Sound(dl[t])'
    <3> SUFFICES ASSUME NEW t \in Session \ {s} PROVE ~Busy(t)' /\ Sound(dl[t])'
      OBVIOUS
    <3>1. dl'[t].at \in Resting
      BY <1>1, <2>1 DEF Busy
    <3> QED BY <3>1 DEF Busy, Sound, Resting, Settled, Writing
  <2>3. ListIsVersions'
    BY <1>1, <1>5, <2>1, SameFiles DEF ListIsVersions, States
  <2>4. \A t, u \in Session : Busy(t)' /\ Busy(u)' => t = u
    BY <2>2
  <2>5. \A t \in Session : Sound(dl[t])'
    <3> SUFFICES ASSUME NEW t \in Session PROVE Sound(dl[t])'
      OBVIOUS
    <3>1. CASE t = s
      BY <1>5, <3>1
    <3>2. CASE t # s
      BY <2>2, <3>2
    <3> QED BY <3>1, <3>2
  <2>6. \A n \in Path : n[2] = "" => files'[n].writers = {}
    BY <1>5, <2>1 DEF CallsAlone
  <2>7. \A t \in Session : out'[t] = NoFile \/ out'[t].tiles = {out'[t].metadata}
    BY <2>1 DEF CallsAlone
  <2> QED BY <2>3, <2>4, <2>5, <2>6, <2>7 DEF CallsAlone
<1> QED BY <1>2, <1>3, <1>4, <1>5 DEF ImagerInv

\* The temporary file is created or emptied, under whatever other call wrote it.
LEMMA StepOpenTmp == ASSUME ImagerInv, NEW s \in Session, OpenTmp(s) PROVE ImagerInv'
<1> DEFINE r == [dl[s] EXCEPT !.at = "put"]
           tmp == Tmp(dl[s].target)
<1>1. /\ Types /\ WritersPut /\ WellFormed(dl[s]) /\ dl[s] \in Calls
  BY DEF ImagerInv, Types
<1>2. /\ dl[s].at = "open" /\ Busy(s) /\ dl[s].mem \in States
      /\ dl[s].target \in Packet \cup {StateJson}
  BY <1>1 DEF OpenTmp, Busy, Resting, WellFormed, Writing, Calls
<1>3. UNCHANGED <<served, out, wiped, overlapped>> /\ dl' = [dl EXCEPT ![s] = r]
  BY DEF OpenTmp, Step
<1>4. tmp \in Path /\ tmp[1] = dl[s].target /\ tmp[2] = ".tmp"
  BY <1>2, Basics
<1>5. /\ files' = [files EXCEPT ![tmp] = [text |-> Torn, writers |-> files[tmp].writers \cup {s}]]
      /\ files' \in [Path -> FileType]
      /\ files'[tmp].text = Torn /\ files'[tmp].writers = files[tmp].writers \cup {s}
      /\ \A n \in Path \ {tmp} : files'[n] = files[n]
  BY <1>1, <1>4 DEF OpenTmp, OpenTruncate, Types, FileType, Contents
<1>6. /\ r \in Calls /\ r.at = "put" /\ r.target = dl[s].target /\ r.then = dl[s].then
      /\ r.mem = dl[s].mem /\ r.todo = dl[s].todo /\ r.got = dl[s].got
  BY <1>1, CallFields DEF Writing
<1>7. /\ dl'[s].at = "put" /\ dl'[s].target = dl[s].target /\ dl'[s].then = dl[s].then
      /\ dl'[s].mem = dl[s].mem /\ dl'[s].todo = dl[s].todo /\ dl'[s].got = dl[s].got
      /\ \A t \in Session \ {s} : dl'[t] = dl[t]
  BY <1>1, <1>3, <1>6 DEF Types
<1>8. \A n \in Path : n[2] = "" => files'[n] = files[n]
  BY <1>4, <1>5
<1>9. \A n \in Path : files'[n].text \in {files[n].text, Torn}
  BY <1>5
<1>10. Tmp(dl[s].target)' = tmp
  BY <1>7 DEF Tmp
<1> HIDE DEF r, tmp
<1>11. WritersPut'
  <2>1. \A n \in Path : s \notin files[n].writers
    BY <1>1, <1>2 DEF WritersPut
  <2>2. \A n \in Path : s \in files'[n].writers => n = tmp
    BY <1>5, <2>1
  <2>3. \A n \in Path : files[n].text # NoFile => files'[n].text # NoFile
    BY <1>9, ImagerSentinels
  <2>4. \A n \in Path, t \in Session \ {s} : t \in files'[n].writers <=> t \in files[n].writers
    BY <1>5
  <2>5. ASSUME NEW n \in Path, NEW t \in Session, t \in files'[n].writers
        PROVE  /\ dl'[t].at = "put" /\ n[1] = dl'[t].target
               /\ files'[n].text # NoFile
               /\ \A m \in Path : t \in files'[m].writers => m = n
    <3>1. CASE t = s
      BY <1>4, <1>5, <1>7, <2>2, <2>5, <3>1, ImagerSentinels
    <3>2. CASE t # s
      BY <1>1, <1>7, <2>3, <2>4, <2>5, <3>2 DEF WritersPut, Exists
    <3> QED BY <3>1, <3>2
  <2> QED BY <2>5 DEF WritersPut, Exists
<1>12. WellFormed(r)
  BY <1>1, <1>2, <1>6 DEF WellFormed, Settled, Writing, Resting
<1>13. ASSUME ~overlapped PROVE Sound(dl[s])'
  <2>1. Sound(dl[s])
    BY <1>2, <1>13, HasItAlone
  <2>2. files'[tmp].text = Torn /\ files'[tmp].writers # {}
    BY <1>5
  <2>3. /\ OnDisk' = OnDisk /\ Readable' = Readable
        /\ \A i \in Packet : Exists(File(i))' = Exists(File(i))
        /\ OfVersion(dl[s].mem.list, dl[s].mem.version)' = OfVersion(dl[s].mem.list, dl[s].mem.version)
        /\ Readable => OnDisk.list \in SUBSET Packet
    BY <1>1, <1>2, <1>7, <1>8, SameFiles DEF States
  <2> QED BY <1>2, <1>7, <1>10, <2>1, <2>2, <2>3 DEF Sound, Settled, Writing
<1> QED BY <1>1, <1>2, <1>3, <1>5, <1>6, <1>8, <1>9, <1>11, <1>12, <1>13, CallWrites DEF Types

\* The bytes are put where the call has its file open, if that is still named.
LEMMA StepWriteTmp == ASSUME ImagerInv, NEW s \in Session, WriteTmp(s) PROVE ImagerInv'
<1> DEFINE r == [dl[s] EXCEPT !.at = "rename"]
           tmp == Tmp(dl[s].target)
           b == Bytes(s)
<1>1. /\ Types /\ WritersPut /\ WellFormed(dl[s]) /\ dl[s] \in Calls
  BY DEF ImagerInv, Types
<1>2. /\ dl[s].at = "put" /\ Busy(s) /\ dl[s].mem \in States
      /\ dl[s].target \in Packet \cup {StateJson}
  BY <1>1 DEF WriteTmp, Busy, Resting, WellFormed, Writing, Calls
<1>3. UNCHANGED <<served, out, wiped, overlapped>> /\ dl' = [dl EXCEPT ![s] = r]
  BY DEF WriteTmp, Step
<1>4. tmp \in Path /\ tmp[1] = dl[s].target /\ tmp[2] = ".tmp"
  BY <1>2, Basics
<1>5. /\ r \in Calls /\ r.at = "rename" /\ r.target = dl[s].target /\ r.then = dl[s].then
      /\ r.mem = dl[s].mem /\ r.todo = dl[s].todo /\ r.got = dl[s].got
  BY <1>1, CallFields DEF Writing
<1>6. /\ dl'[s].at = "rename" /\ dl'[s].target = dl[s].target /\ dl'[s].then = dl[s].then
      /\ dl'[s].mem = dl[s].mem /\ dl'[s].todo = dl[s].todo /\ dl'[s].got = dl[s].got
      /\ \A t \in Session \ {s} : dl'[t] = dl[t]
  BY <1>1, <1>3, <1>5 DEF Types
<1>7. Tmp(dl[s].target)' = tmp /\ BytesOf(dl[s])' = b /\ BytesOf(dl[s]) = b
  BY <1>6 DEF Tmp, BytesOf, Bytes
<1>8. b \in (IF dl[s].target \in Packet THEN Version ELSE States)
  <2>1. CASE dl[s].then = "list"
    <3>1. dl[s].target \in Packet /\ dl[s].got \in Version
      BY <1>1, <1>2, <2>1 DEF WellFormed, Writing, Calls
    <3> QED BY <3>1, Basics DEF Bytes
  <2>2. CASE dl[s].then # "list"
    <3>1. dl[s].target = StateJson
      BY <1>1, <1>2, <2>2 DEF WellFormed, Writing
    <3> QED BY <1>2, <3>1, Basics DEF Bytes
  <2> QED BY <2>1, <2>2
<1>9. WellFormed(r)
  BY <1>1, <1>2, <1>5 DEF WellFormed, Settled, Writing, Resting
<1> HIDE DEF r, tmp, b
<1>10. DOMAIN files = Path
  BY <1>1 DEF Types
<1>11. b # NoFile /\ b # Torn
  BY <1>8, ImagerSentinels
<1>12. CASE \A n \in Path : s \notin files[n].writers
  <2>1. files' = files
    BY <1>10, <1>12 DEF WriteTmp, Put
  <2>2. WritersPut'
    BY <1>1, <1>2, <1>6, <1>12, <2>1 DEF WritersPut, Exists
  <2>3. ASSUME ~overlapped PROVE Sound(dl[s])'
    <3>1. Sound(dl[s]) /\ \A t \in Session \ {s} : ~Busy(t)
      BY <1>2, <2>3, HasItAlone
    <3>2. files[tmp].writers = {}
      <4>1. \A t \in files[tmp].writers : t \in Session /\ Busy(t)
        BY <1>1, <1>4 DEF Types, FileType, WritersPut, Busy, Resting
      <4> QED BY <1>4, <1>12, <3>1, <4>1
    <3>3. files'[tmp].text = NoFile
      BY <1>2, <2>1, <3>1, <3>2 DEF Sound, tmp, Exists
    <3>4. /\ OnDisk' = OnDisk /\ Readable' = Readable
          /\ \A i \in Packet : Exists(File(i))' = Exists(File(i))
          /\ OfVersion(dl[s].mem.list, dl[s].mem.version)' = OfVersion(dl[s].mem.list, dl[s].mem.version)
          /\ Readable => OnDisk.list \in SUBSET Packet
      BY <1>1, <1>2, <1>6, <2>1, SameFiles DEF States
    <3> QED BY <1>2, <1>6, <1>7, <3>1, <3>3, <3>4 DEF Sound, Settled, Writing
  <2> QED BY <1>1, <1>2, <1>3, <1>5, <1>9, <2>1, <2>2, <2>3, CallWrites DEF Types
<1>13. ASSUME NEW n \in Path, s \in files[n].writers, NEW text \in {b, Torn},
              files[n].text = Torn => text = b,
              files' = [files EXCEPT ![n] = [text |-> text, writers |-> files[n].writers \ {s}]]
       PROVE  ImagerInv'
  <2>1. n[1] = dl[s].target /\ \A m \in Path : s \in files[m].writers => m = n
    BY <1>1, <1>13 DEF WritersPut
  <2>2. text \in {Torn} \cup (IF n[1] \in Packet THEN Version ELSE States)
    BY <1>8, <2>1
  <2>3. /\ files'[n].text = text /\ files'[n].writers = files[n].writers \ {s}
        /\ \A m \in Path \ {n} : files'[m] = files[m]
    BY <1>1, <1>13 DEF Types
  <2>4. files' \in [Path -> FileType]
    <3>1. [text |-> text, writers |-> files[n].writers \ {s}] \in FileType
      BY <1>1, <2>2 DEF Types, FileType, Contents
    <3> QED BY <1>1, <1>13, <3>1 DEF Types
  <2>5. WritersPut'
    <3>1. \A m \in Path : s \notin files'[m].writers
      BY <2>1, <2>3
    <3>2. \A m \in Path, t \in Session : t \in files'[m].writers => t \in files[m].writers
      BY <2>3
    <3>3. \A m \in Path : files[m].text # NoFile => files'[m].text # NoFile
      BY <1>11, <2>3, ImagerSentinels
    <3> QED BY <1>1, <1>6, <3>1, <3>2, <3>3 DEF WritersPut, Exists
  <2>6. ASSUME ~overlapped
        PROVE  n = tmp /\ text = b /\ \A m \in Path : m[2] = "" => files'[m] = files[m]
    <3>1. Sound(dl[s]) /\ \A m \in Path : m[2] = "" => files[m].writers = {}
      BY <1>2, <2>6, HasItAlone DEF ImagerInv, CallsAlone
    <3>2. n[2] = ".tmp"
      BY <1>13, <3>1, Basics
    <3>3. n = tmp
      <4>1. n = Tmp(n[1])
        BY <3>2, Basics
      <4> QED BY <2>1, <4>1 DEF tmp
    <3>4. files[n].text = Torn
      BY <1>1, <1>2, <1>13, <3>1, <3>3 DEF Sound, WritersPut, tmp
    <3> QED BY <1>13, <2>3, <3>2, <3>3, <3>4
  <2>7. ASSUME ~overlapped PROVE Sound(dl[s])'
    <3>1. Sound(dl[s])
      BY <1>2, <2>7, HasItAlone
    <3>2. files'[tmp].text = BytesOf(dl[s])'
      BY <1>7, <2>3, <2>6, <2>7
    <3>3. /\ OnDisk' = OnDisk /\ Readable' = Readable
          /\ \A i \in Packet : Exists(File(i))' = Exists(File(i))
          /\ OfVersion(dl[s].mem.list, dl[s].mem.version)' = OfVersion(dl[s].mem.list, dl[s].mem.version)
          /\ Readable => OnDisk.list \in SUBSET Packet
      <4>1. \A m \in Path : m[2] = "" => files'[m].text = files[m].text
        BY <2>6, <2>7
      <4> QED BY <1>1, <1>2, <1>6, <4>1, SameFiles DEF States
    <3> QED BY <1>2, <1>6, <1>7, <3>1, <3>2, <3>3 DEF Sound, Settled, Writing
  <2>8. /\ \A m \in Path :
             files'[m].text \in {NoFile, Torn} \cup (IF m[1] \in Packet THEN Version ELSE States)
        /\ \A m \in Path : m[2] = "" /\ files[m].text # NoFile => files'[m].text # NoFile
    BY <1>1, <1>11, <2>2, <2>3, ImagerSentinels DEF Types
  <2>9. \A m \in Path : m[1] = StateJson => files'[m].text \in {files[m].text, NoFile, Torn, dl[s].mem}
    BY <2>1, <2>3 DEF b, Bytes
  <2> QED BY <1>2, <1>3, <1>5, <1>9, <2>4, <2>5, <2>6, <2>7, <2>8, <2>9, CallWrites
<1>14. (\A n \in Path : s \notin files[n].writers)
       \/ \E n \in Path, text \in {b, Torn} :
            /\ s \in files[n].writers
            /\ files[n].text = Torn => text = b
            /\ files' = [files EXCEPT ![n] = [text |-> text, writers |-> files[n].writers \ {s}]]
  BY <1>10 DEF WriteTmp, Put, b
<1> QED BY <1>12, <1>13, <1>14

\* A call is killed, and what it has open is closed as it is.
LEMMA StepKill == ASSUME ImagerInv, NEW s \in Session, Kill(s) PROVE ImagerInv'
<1> DEFINE r == Rest("failed")
<1>1. /\ Types /\ WritersPut /\ Busy(s)
      /\ UNCHANGED <<served, out, wiped, overlapped>> /\ dl' = [dl EXCEPT ![s] = r]
  BY DEF ImagerInv, Kill, Throw, Step
<1>2. /\ r \in Calls /\ r.at = "failed" /\ r.mem = Idle /\ WellFormed(r)
  BY RestFields DEF Resting
<1> HIDE DEF r
<1>3. dl'[s] = r /\ \A t \in Session \ {s} : dl'[t] = dl[t]
  BY <1>1, <1>2 DEF Types
<1>4. files' = [n \in Path |-> [text |-> files[n].text, writers |-> files[n].writers \ {s}]]
  <2>1. DOMAIN files = Path /\ \A n \in Path : files[n] \in FileType
    BY <1>1 DEF Types
  <2>2. \A n \in Path : [files[n] EXCEPT !.writers = files[n].writers \ {s}]
                        = [text |-> files[n].text, writers |-> files[n].writers \ {s}]
    BY <2>1 DEF FileType
  <2> QED BY <2>1, <2>2 DEF Kill, Closed
<1>5. files' \in [Path -> FileType]
  BY <1>1, <1>4 DEF Types, FileType
<1>6. \A n \in Path : files'[n].text = files[n].text /\ files'[n].writers = files[n].writers \ {s}
  BY <1>4
<1>7. WritersPut'
  BY <1>1, <1>3, <1>6 DEF WritersPut, Exists
<1>8. Sound(dl[s])'
  BY <1>2, <1>3 DEF Sound, Resting, Settled, Writing
<1> QED BY <1>1, <1>2, <1>5, <1>6, <1>7, <1>8, CallWrites DEF Types

\* The packets are removed, whatever is in progress.
LEMMA StepWipePackets == ASSUME ImagerInv, WipePackets PROVE ImagerInv'
<1>1. /\ Types /\ WritersPut /\ \A s \in Session : WellFormed(dl[s])
      /\ UNCHANGED <<served, dl, out, overlapped>> /\ wiped' = TRUE
  BY DEF ImagerInv, WipePackets
<1>2. /\ \A n \in Path : n[1] \in Packet => files'[n].text = NoFile /\ files'[n].writers = {}
      /\ \A n \in Path : n[1] \notin Packet => files'[n] = files[n]
  <2>1. Missing.text = NoFile /\ Missing.writers = {}
    BY DEF Missing
  <2>2. \A n \in Path : files'[n] = IF n[1] \in Packet THEN Missing ELSE files[n]
    BY DEF WipePackets
  <2> HIDE DEF Missing
  <2> QED BY <2>1, <2>2
<1>3. Types'
  <2>1. Missing \in FileType /\ Missing.text = NoFile /\ Missing.writers = {}
    BY DEF Missing, FileType, Contents
  <2>2. files' \in [Path -> FileType]
    BY <1>1, <2>1 DEF WipePackets, Types
  <2> QED BY <1>1, <1>2, <2>1, <2>2 DEF Types
<1>4. WritersPut'
  BY <1>1, <1>2 DEF WritersPut, Exists
<1>5. ASSUME ~overlapped PROVE CallsAlone'
  <2>1. CallsAlone
    BY <1>5 DEF ImagerInv
  <2>2. OnDisk' = OnDisk /\ Readable' = Readable
    <3>1. File(StateJson) \in Path /\ File(StateJson)[1] \notin Packet
      BY Basics
    <3> QED BY <1>2, <3>1 DEF OnDisk, Readable
  <2>3. \A i \in Packet : ~Exists(File(i))'
    <3>1. \A i \in Packet : File(i) \in Path /\ File(i)[1] \in Packet
      BY Basics
    <3> QED BY <1>2, <3>1 DEF Exists
  <2>4. \A s \in Session : Sound(dl[s])'
    <3> SUFFICES ASSUME NEW s \in Session PROVE Sound(dl[s])'
      OBVIOUS
    <3> DEFINE r == dl[s]
    <3>1. Sound(r) /\ r \in Calls /\ r.target \in Packet \cup {StateJson} /\ dl' = dl
      BY <1>1, <2>1 DEF CallsAlone, Types, Calls
    <3>2. /\ Tmp(r.target) \in Path
          /\ files'[Tmp(r.target)] = files[Tmp(r.target)] \/ files'[Tmp(r.target)].text = NoFile
      <4>1. Tmp(r.target) \in Path
        BY <3>1, Basics
      <4> QED BY <1>2, <4>1
    <3>3. r.at \in Settled \cup Writing => OfVersion(r.mem.list, r.mem.version)'
      <4>1. r.at \in Settled \cup Writing => r.mem.list \subseteq Packet
        BY <1>1 DEF WellFormed, States
      <4> QED BY <1>1, <2>3, <4>1 DEF OfVersion
    <3>4. Readable => OnDisk.list \subseteq Packet
      BY <1>1, ReadableState DEF States
    <3> QED BY <1>1, <2>2, <2>3, <3>1, <3>2, <3>3, <3>4 DEF Sound, Exists, BytesOf
  <2>5. ListIsVersions'
    <3>1. Readable => OnDisk.list \subseteq Packet
      BY <1>1, ReadableState DEF States
    <3> QED BY <2>2, <2>3, <3>1 DEF ListIsVersions, OfVersion
  <2>6. \A n \in Path : n[2] = "" => files'[n].writers = {}
    BY <1>2, <2>1 DEF CallsAlone
  <2>7. \A s, t \in Session : Busy(s)' /\ Busy(t)' => s = t
    BY <1>1, <2>1 DEF CallsAlone, Busy
  <2>8. \A s \in Session : out'[s] = NoFile \/ out'[s].tiles = {out'[s].metadata}
    BY <1>1, <2>1 DEF CallsAlone
  <2> QED BY <2>4, <2>5, <2>6, <2>7, <2>8 DEF CallsAlone
<1> QED BY <1>1, <1>3, <1>4, <1>5 DEF ImagerInv

\* The new list and what is left to do, once packet i is in place (173-177).
LEMMA AfterPacket ==
    ASSUME NEW c \in Calls, c.mem \in States, c.target \in c.todo, c.then = "list"
    PROVE  LET w == Continue(c)
           IN  /\ w \in Calls /\ w.at = "open" /\ w.target = StateJson /\ w.then = "next"
               /\ w.mem \in States /\ w.mem.list = c.mem.list \cup {c.target}
               /\ w.mem.version = c.mem.version
               /\ w.todo = c.todo \ {c.target} /\ w.got = Idle
<1> DEFINE m == [c.mem EXCEPT !.list = c.mem.list \cup {c.target}]
           q == [c EXCEPT !.mem = m, !.todo = c.todo \ {c.target}, !.got = Idle]
           w == AtomicWrite(q, StateJson, "next")
<1>1. c.todo \in SUBSET Packet /\ c.mem.list \in SUBSET Packet
  BY DEF Calls, States
<1>2. m \in States /\ m.list = c.mem.list \cup {c.target} /\ m.version = c.mem.version
  <2>1. c.mem.list \cup {c.target} \in SUBSET Packet
    BY <1>1
  <2> QED BY <2>1, StateFields
<1>3. Continue(c) = w
  <2>1. q = [c EXCEPT !.mem.list = @ \cup {c.target}, !.todo = @ \ {c.target}, !.got = Idle]
    OBVIOUS
  <2> HIDE DEF q
  <2> QED BY <2>1 DEF Continue
<1> HIDE DEF m
<1>4. q \in Calls /\ q.mem = m /\ q.todo = c.todo \ {c.target} /\ q.got = Idle
  BY <1>1, <1>2 DEF Calls
<1> HIDE DEF q
<1>5. /\ w \in Calls /\ w.at = "open" /\ w.target = StateJson /\ w.then = "next"
      /\ w.mem = q.mem /\ w.todo = q.todo /\ w.got = q.got
  BY <1>4, AtomicWriteFields
<1> HIDE DEF w
<1> QED BY <1>2, <1>3, <1>4, <1>5

\* The other targets.
LEMMA AfterState ==
    ASSUME NEW c \in Calls, c.mem \in States, c.then \in {"reconcile", "plan", "next", "returned"}
    PROVE  LET w == Continue(c)
           IN  /\ w \in Calls /\ w.at \in {"reconcile", "next", "returned"}
               /\ w.at = "returned" => w = Rest("returned")
               /\ w.at # "returned" => w.mem = c.mem /\ w.got = c.got
               /\ c.then = "plan" => w.at = "next" /\ w.todo \cap w.mem.list = {}
               /\ c.then = "next" => w.at = "next" /\ w.todo = c.todo
               /\ c.then = "reconcile" => w.at = "reconcile"
<1>1. CASE c.then = "plan"
  BY <1>1, PlanFields DEF Continue
<1>2. CASE c.then = "returned"
  BY <1>2, RestFields DEF Continue, Resting
<1>3. CASE c.then \in {"reconcile", "next"}
  <2>1. Continue(c) = [c EXCEPT !.at = c.then]
    BY <1>3 DEF Continue
  <2>2. /\ [c EXCEPT !.at = c.then] \in Calls
        /\ [c EXCEPT !.at = c.then].at = c.then /\ [c EXCEPT !.at = c.then].mem = c.mem
        /\ [c EXCEPT !.at = c.then].todo = c.todo /\ [c EXCEPT !.at = c.then].got = c.got
    BY <1>3, CallFields DEF Settled
  <2> QED BY <1>3, <2>1, <2>2
<1> QED BY <1>1, <1>2, <1>3

\* The temporary file takes the place of its target, and the call goes on (63, 173-177).
LEMMA StepRenameTmp == ASSUME ImagerInv, NEW s \in Session, RenameTmp(s) PROVE ImagerInv'
<1> DEFINE w    == Continue(dl[s])
           tmp  == Tmp(dl[s].target)
           file == File(dl[s].target)
<1>1. Types /\ WritersPut /\ WellFormed(dl[s]) /\ dl[s] \in Calls
  BY DEF ImagerInv, Types
<1>2. /\ dl[s].at = "rename" /\ Busy(s) /\ dl[s].mem \in States
      /\ dl[s].target \in Packet \cup {StateJson}
      /\ dl[s].then \in {"reconcile", "plan", "list", "next", "returned"}
  BY <1>1 DEF RenameTmp, Busy, Resting, WellFormed, Writing, Calls
<1>3. UNCHANGED <<served, out, wiped, overlapped>>
  BY DEF RenameTmp
<1>4. CASE ~Exists(tmp)
  BY <1>2, <1>3, <1>4, StepThrow DEF RenameTmp
<1>5. ASSUME Exists(tmp) PROVE ImagerInv'
  <2>1. /\ tmp \in Path /\ tmp[1] = dl[s].target /\ tmp[2] = ".tmp"
        /\ file \in Path /\ file[1] = dl[s].target /\ file[2] = "" /\ tmp # file
    BY <1>2, Basics
  <2>2. files' = [files EXCEPT ![file] = files[tmp], ![tmp] = Missing] /\ dl' = [dl EXCEPT ![s] = w]
    BY <1>5 DEF RenameTmp, Rename, Step
  <2>3. /\ files'[file] = files[tmp] /\ files'[tmp] = Missing
        /\ \A n \in Path \ {file, tmp} : files'[n] = files[n]
    BY <1>1, <2>1, <2>2 DEF Types
  <2>4. /\ Missing \in FileType /\ Missing.text = NoFile /\ Missing.writers = {}
        /\ files[tmp].text # NoFile
    BY <1>5 DEF Missing, FileType, Contents, Exists
  <2>5. w \in Calls /\ w.at # "put" /\ WellFormed(w)
    <3>1. CASE dl[s].then = "list"
      <4>1. dl[s].target \in dl[s].todo /\ dl[s].todo \cap dl[s].mem.list = {}
        BY <1>1, <1>2, <3>1 DEF WellFormed, Writing
      <4>2. /\ w \in Calls /\ w.at = "open" /\ w.target = StateJson /\ w.then = "next"
            /\ w.mem \in States /\ w.mem.list = dl[s].mem.list \cup {dl[s].target}
            /\ w.todo = dl[s].todo \ {dl[s].target}
        BY <1>1, <1>2, <3>1, <4>1, AfterPacket
      <4>3. w.todo \cap w.mem.list = {}
        BY <4>1, <4>2
      <4> HIDE DEF w
      <4> QED BY <4>2, <4>3 DEF WellFormed, Settled, Writing, Resting
    <3>2. CASE dl[s].then # "list"
      <4>1. /\ w \in Calls /\ w.at \in {"reconcile", "next", "returned"}
            /\ w.at = "returned" => w = Rest("returned")
            /\ w.at # "returned" => w.mem = dl[s].mem
            /\ dl[s].then = "plan" => w.todo \cap w.mem.list = {}
            /\ dl[s].then = "next" => w.at = "next" /\ w.todo = dl[s].todo
            /\ dl[s].then = "reconcile" => w.at = "reconcile"
            /\ dl[s].then = "returned" => w = Rest("returned")
        BY <1>1, <1>2, <3>2, AfterState DEF Continue
      <4>2. WellFormed(Rest("returned")) /\ Rest("returned").at = "returned"
        BY RestFields DEF Resting
      <4> HIDE DEF w
      <4>3. w.at = "next" => w.todo \cap w.mem.list = {}
        BY <1>1, <1>2, <3>2, <4>1, <4>2 DEF WellFormed, Writing
      <4> QED BY <1>2, <4>1, <4>2, <4>3 DEF WellFormed, Settled, Writing, Resting
    <3> QED BY <3>1, <3>2
  <2> HIDE DEF w, Missing
  <2>6. dl'[s] = w /\ \A t \in Session \ {s} : dl'[t] = dl[t]
    BY <1>1, <2>2 DEF Types
  <2>7. Types'
    <3>1. files' \in [Path -> FileType]
      BY <1>1, <2>1, <2>2, <2>4 DEF Types
    <3>2. \A n \in Path :
            files'[n].text \in {NoFile, Torn} \cup (IF n[1] \in Packet THEN Version ELSE States)
      BY <1>1, <2>1, <2>3, <2>4 DEF Types
    <3> QED BY <1>1, <1>3, <2>2, <2>5, <3>1, <3>2 DEF Types
  <2>8. WritersPut'
    <3>1. \A n \in Path : s \notin files[n].writers
      BY <1>1, <1>2 DEF WritersPut
    <3>2. \A n \in Path, t \in Session : t \in files'[n].writers =>
            IF n = file THEN t \in files[tmp].writers ELSE n # tmp /\ t \in files[n].writers
      BY <2>1, <2>3, <2>4
    <3>3. ASSUME NEW n \in Path, NEW t \in Session, t \in files'[n].writers
          PROVE  /\ dl'[t].at = "put" /\ n[1] = dl'[t].target
                 /\ files'[n].text # NoFile
                 /\ \A m \in Path : t \in files'[m].writers => m = n
      <4>1. CASE n = file
        <5>1. t \in files[tmp].writers /\ t # s
          BY <2>1, <3>1, <3>2, <3>3, <4>1
        <5>2. /\ dl[t].at = "put" /\ dl[t].target = dl[s].target
              /\ \A m \in Path : t \in files[m].writers => m = tmp
          BY <1>1, <2>1, <5>1 DEF WritersPut
        <5> QED BY <2>1, <2>3, <2>4, <2>6, <3>2, <4>1, <5>1, <5>2
      <4>2. CASE n # file
        <5>1. n # tmp /\ t \in files[n].writers /\ t # s
          BY <3>1, <3>2, <3>3, <4>2
        <5>2. /\ dl[t].at = "put" /\ n[1] = dl[t].target /\ files[n].text # NoFile
              /\ \A m \in Path : t \in files[m].writers => m = n
          BY <1>1, <5>1 DEF WritersPut, Exists
        <5>3. \A m \in Path : t \in files'[m].writers => m = n
          BY <2>1, <3>2, <5>1, <5>2
        <5> QED BY <2>3, <2>6, <4>2, <5>1, <5>2, <5>3
      <4> QED BY <4>1, <4>2
    <3> QED BY <3>3 DEF WritersPut, Exists
  <2>9. \A t \in Session : WellFormed(dl[t])'
    BY <2>5, <2>6 DEF ImagerInv
  <2>10. (wiped \/ ListedExists)'
    <3> SUFFICES ASSUME ~wiped PROVE ListedExists'
      BY <1>3
    <3>1. ListedExists
      BY DEF ImagerInv
    <3>2. \A i \in Packet : Exists(File(i)) => Exists(File(i))'
      <4> SUFFICES ASSUME NEW i \in Packet, files[File(i)].text # NoFile
                   PROVE  files'[File(i)].text # NoFile
        BY DEF Exists
      <4>1. File(i) \in Path \ {tmp}
        BY <1>2, Basics
      <4>2. CASE File(i) = file
        BY <2>3, <2>4, <4>2
      <4>3. CASE File(i) # file
        BY <2>3, <4>1, <4>3
      <4> QED BY <4>2, <4>3
    <3>3. \A x : Known(x) => Known(x)'
      BY <3>2 DEF Known, States
    <3>4. ASSUME NEW n \in Path, n[1] = StateJson PROVE Known(files[n].text)'
      <4>1. Known(NoFile)
        BY ImagerSentinels DEF Known
      <4>2. \/ files'[n].text \in {files[n].text, NoFile}
            \/ tmp[1] = StateJson /\ files'[n].text = files[tmp].text
        BY <2>1, <2>3, <2>4, <3>4
      <4> QED BY <2>1, <3>1, <3>3, <3>4, <4>1, <4>2 DEF ListedExists
    <3>5. Known(dl[s].mem)'
      <4>1. Known(dl[s].mem) /\ Known(Idle)
        BY <3>1, ImagerSentinels DEF ListedExists, Known
      <4>2. CASE dl[s].then = "list"
        <5>1. dl[s].target \in dl[s].todo
          BY <1>1, <1>2, <4>2 DEF WellFormed, Writing
        <5>2. w.mem.list = dl[s].mem.list \cup {dl[s].target}
          BY <1>1, <1>2, <4>2, <5>1, AfterPacket DEF w
        <5>3. files'[file].text # NoFile
          BY <2>3, <2>4
        <5>4. \A i \in dl[s].mem.list : Exists(File(i))'
          BY <1>2, <3>2, <4>1 DEF Known, States
        <5> QED BY <2>6, <5>2, <5>3, <5>4 DEF Known, Exists
      <4>3. CASE dl[s].then # "list"
        <5>1. w.mem \in {dl[s].mem, Idle}
          BY <1>1, <1>2, <4>3, AfterState, RestFields DEF w, Resting
        <5> QED BY <2>6, <3>3, <4>1, <5>1
      <4> QED BY <4>2, <4>3
    <3> QED BY <2>6, <3>1, <3>3, <3>4, <3>5 DEF ListedExists
  <2>11. ASSUME ~overlapped PROVE CallsAlone'
    <3>1. /\ CallsAlone /\ Sound(dl[s]) /\ (\A t \in Session \ {s} : ~Busy(t)) /\ ListIsVersions
          /\ OfVersion(dl[s].mem.list, dl[s].mem.version) /\ dl[s].got \in {Idle, dl[s].mem.version}
      BY <1>2, <2>11, HasItAlone DEF ImagerInv, Sound, Writing
    <3>2. files[tmp].text = BytesOf(dl[s])
      BY <1>2, <2>4, <3>1 DEF Sound
    <3>3. files[tmp].writers = {}
      <4>1. \A t \in files[tmp].writers : t \in Session /\ dl[t].at = "put"
        BY <1>1, <2>1 DEF Types, FileType, WritersPut
      <4>2. \A t \in Session : dl[t].at = "put" => Busy(t)
        BY DEF Busy, Resting
      <4> QED BY <1>2, <3>1, <4>1, <4>2
    <3>4. \A n \in Path : n[2] = "" => files'[n].writers = {}
      BY <2>1, <2>3, <3>1, <3>3 DEF CallsAlone
    <3>5. \A t \in Session \ {s} : ~Busy(t)' /\ Sound(dl[t])'
      <4> SUFFICES ASSUME NEW t \in Session \ {s} PROVE ~Busy(t)' /\ Sound(dl[t])'
        OBVIOUS
      <4>1. dl'[t].at \in Resting
        BY <2>6, <3>1 DEF Busy
      <4> QED BY <4>1 DEF Busy, Sound, Resting, Settled, Writing
    <3>6. Sound(dl[s])' /\ ListIsVersions'
      <4>1. CASE dl[s].then = "list"
        <5>1. dl[s].target \in dl[s].todo /\ dl[s].got \in Version /\ dl[s].target \in Packet
          BY <1>1, <1>2, <4>1 DEF WellFormed, Writing, Calls
        <5>2. /\ w.at = "open" /\ w.target = StateJson /\ w.then = "next"
              /\ w.mem \in States /\ w.mem.list = dl[s].mem.list \cup {dl[s].target}
              /\ w.mem.version = dl[s].mem.version /\ w.got = Idle
          BY <1>1, <1>2, <4>1, <5>1, AfterPacket DEF w
        <5>3. files'[file].text = dl[s].mem.version
          <6>1. dl[s].got = dl[s].mem.version
            BY <3>1, <5>1, ImagerSentinels
          <6>2. dl[s].target # StateJson
            BY <5>1, Basics
          <6> QED BY <2>3, <3>2, <6>1, <6>2 DEF BytesOf
        <5>4. OnDisk' = OnDisk /\ OnDisk = dl[s].mem
          <6>1. File(StateJson) \in Path \ {file, tmp}
            BY <5>1, Basics
          <6>2. OnDisk' = OnDisk
            BY <2>3, <6>1 DEF OnDisk
          <6> QED BY <1>2, <3>1, <4>1, <6>2 DEF Sound, Writing
        <5>5. \A i \in Packet : i # dl[s].target => files'[File(i)] = files[File(i)]
          <6> SUFFICES ASSUME NEW i \in Packet, i # dl[s].target PROVE files'[File(i)] = files[File(i)]
            OBVIOUS
          <6>1. File(i) \in Path \ {file, tmp}
            BY <1>2, Basics
          <6> QED BY <2>3, <6>1
        <5>6. \A i \in dl[s].mem.list \cup {dl[s].target} :
                files'[File(i)].text # NoFile => files'[File(i)].text = dl[s].mem.version
          BY <1>2, <3>1, <5>3, <5>5 DEF OfVersion, Exists, States
        <5>7. Readable'
          BY <1>2, <5>4, ImagerSentinels DEF Readable
        <5>8. /\ OfVersion(dl[s].mem.list, dl[s].mem.version)'
              /\ OfVersion(OnDisk.list, OnDisk.version)'
          BY <2>6, <5>2, <5>4, <5>6 DEF OfVersion, Exists
        <5>9. Sound(dl[s])'
          BY <2>6, <5>1, <5>2, <5>4, <5>7, <5>8 DEF Sound, Settled, Writing
        <5> QED BY <5>8, <5>9 DEF ListIsVersions
      <4>2. CASE dl[s].then # "list"
        <5>1. dl[s].target = StateJson
          BY <1>1, <1>2, <4>2 DEF WellFormed, Writing
        <5>2. /\ w.at \in {"reconcile", "next", "returned"}
              /\ w.at = "returned" => w = Rest("returned")
              /\ w.at # "returned" => w.mem = dl[s].mem /\ w.got = dl[s].got
          BY <1>1, <1>2, <4>2, AfterState DEF w
        <5>3. OnDisk' = dl[s].mem
          BY <2>3, <3>2, <5>1 DEF OnDisk, BytesOf
        <5>4. \A i \in Packet : files'[File(i)] = files[File(i)]
          <6> SUFFICES ASSUME NEW i \in Packet PROVE files'[File(i)] = files[File(i)]
            OBVIOUS
          <6>1. File(i) \in Path \ {file, tmp}
            BY <5>1, Basics
          <6> QED BY <2>3, <6>1
        <5>5. \A i \in dl[s].mem.list :
                files'[File(i)].text # NoFile => files'[File(i)].text = dl[s].mem.version
          BY <1>2, <3>1, <5>4 DEF OfVersion, Exists, States
        <5>6. ListIsVersions'
          BY <5>3, <5>5 DEF ListIsVersions, OfVersion, Exists
        <5>7. CASE w.at = "returned"
          <6>1. dl'[s].at = "returned"
            BY <2>6, <5>7
          <6>2. Sound(dl[s])'
            BY <6>1 DEF Sound, Resting, Settled, Writing
          <6> QED BY <5>6, <6>2
        <5>8. CASE w.at # "returned"
          <6>1. OfVersion(dl[s].mem.list, dl[s].mem.version)'
            BY <2>6, <5>2, <5>5, <5>8 DEF OfVersion, Exists
          <6>2. Sound(dl[s])'
            BY <2>6, <3>1, <5>2, <5>3, <5>8, <6>1 DEF Sound, Settled, Writing
          <6> QED BY <5>6, <6>2
        <5> QED BY <5>7, <5>8
      <4> QED BY <4>1, <4>2
    <3>7. \A t \in Session : Sound(dl[t])'
      <4> SUFFICES ASSUME NEW t \in Session PROVE Sound(dl[t])'
        OBVIOUS
      <4>1. CASE t = s
        BY <3>6, <4>1
      <4>2. CASE t # s
        BY <3>5, <4>2
      <4> QED BY <4>1, <4>2
    <3>8. \A t, u \in Session : Busy(t)' /\ Busy(u)' => t = u
      BY <3>5
    <3>9. \A t \in Session : out'[t] = NoFile \/ out'[t].tiles = {out'[t].metadata}
      BY <1>3, <3>1 DEF CallsAlone
    <3> QED BY <3>4, <3>6, <3>7, <3>8, <3>9 DEF CallsAlone
  <2> QED BY <1>3, <2>7, <2>8, <2>9, <2>10, <2>11 DEF ImagerInv
<1> QED BY <1>4, <1>5

(***************************************************************************)
(* The theorems.                                                           *)
(***************************************************************************)
LEMMA InitInv == ImagerInit => ImagerInv
<1> SUFFICES ASSUME ImagerInit PROVE ImagerInv
  OBVIOUS
<1> DEFINE idle == Rest("idle")
<1>1. /\ idle \in Calls /\ idle.at = "idle" /\ idle.mem = Idle /\ WellFormed(idle)
      /\ Known(idle.mem) /\ Sound(idle)
  BY RestFields DEF Resting
<1>2. dl = [s \in Session |-> idle]
  BY DEF ImagerInit
<1> HIDE DEF idle
<1>3. Missing \in FileType /\ Missing.text = NoFile /\ Missing.writers = {}
  BY DEF Missing, FileType, Contents
<1>4. files \in [Path -> FileType] /\ \A n \in Path : files[n].text = NoFile /\ files[n].writers = {}
  <2>1. files = [n \in Path |-> Missing]
    BY DEF ImagerInit, Blank
  <2> HIDE DEF Missing
  <2> QED BY <1>3, <2>1
<1>5. out = [s \in Session |-> NoFile] /\ served = 1 /\ wiped = FALSE /\ overlapped = FALSE
  BY DEF ImagerInit
<1>6. Types
  <2>1. dl \in [Session -> Calls] /\ out \in [Session -> Outputs]
    BY <1>1, <1>2, <1>5 DEF Outputs, ImagerInit
  <2>2. served \in Version
    BY <1>5, ImagerCounts DEF Version
  <2>3. wiped \in BOOLEAN /\ overlapped \in BOOLEAN
    BY <1>5, Zenon
  <2>4. \A n \in Path :
          files[n].text \in {NoFile, Torn} \cup (IF n[1] \in Packet THEN Version ELSE States)
    BY <1>4
  <2> QED BY <1>4, <2>1, <2>2, <2>3, <2>4 DEF Types
<1>7. WritersPut
  BY <1>4 DEF WritersPut
<1>8. ListedExists
  BY <1>1, <1>2, <1>4, ImagerSentinels DEF ListedExists, Known
<1>9. CallsAlone
  <2>1. \A s \in Session : ~Busy(s)
    BY <1>1, <1>2 DEF Busy, Resting
  <2>2. ~Readable
    BY <1>4, Basics DEF Readable, OnDisk
  <2> QED BY <1>1, <1>2, <1>4, <1>5, <2>1, <2>2 DEF CallsAlone, ListIsVersions
<1> QED BY <1>1, <1>2, <1>6, <1>7, <1>8, <1>9 DEF ImagerInv

LEMMA NextInv == ImagerInv /\ [ImagerNext]_imagerVars => ImagerInv'
<1> SUFFICES ASSUME ImagerInv, [ImagerNext]_imagerVars PROVE ImagerInv'
  OBVIOUS
<1>1. CASE WipePackets
  BY <1>1, StepWipePackets
<1>2. CASE NewFixture \/ UNCHANGED imagerVars
  BY <1>2, StepNewFixture
<1>3. ASSUME NEW s \in Session, DownloadImage(s) PROVE ImagerInv'
  BY <1>3, StepCallStarts DEF DownloadImage
<1>4. ASSUME NEW s \in Session, NEW i \in Packet, CallStarts(s, "packets", {i}) PROVE ImagerInv'
  BY <1>4, StepCallStarts
<1>5. ASSUME NEW s \in Session, Works(s) PROVE ImagerInv'
  BY <1>5, StepReadState, StepGetMetadata, StepReconcile, StepOpenTmp, StepWriteTmp, StepRenameTmp,
     StepGetPacket, StepPacketsDone, StepReload, StepRecompose DEF Works
<1>6. ASSUME NEW s \in Session, GatewayFails(s) \/ Kill(s) PROVE ImagerInv'
  BY <1>6, StepGatewayFails, StepKill
<1> QED BY <1>1, <1>2, <1>3, <1>4, <1>5, <1>6 DEF ImagerNext

\* The inductive invariant holds throughout.
THEOREM ImagerInvariant == ImagerSpec => []ImagerInv
BY InitInv, NextInv, PTL DEF ImagerSpec

LEMMA StepFaults ==
    ASSUME faults \in 0 .. MaxFaults, [ImagerNext]_imagerVars
    PROVE  faults' \in 0 .. MaxFaults
<1>1. faults' = faults \/ (faults < MaxFaults /\ faults' = faults + 1)
  BY DEF ImagerNext, Works, DownloadImage, CallStarts, ReadState, GetMetadata, Reconcile, OpenTmp,
         WriteTmp, RenameTmp, GetPacket, PacketsDone, Reload, Recompose, GatewayFails, Kill,
         WipePackets, NewFixture, imagerVars
<1> QED BY <1>1, ImagerCounts

LEMMA InvTypes == ImagerInv /\ faults \in 0 .. MaxFaults => ImagerTypeOK
<1> SUFFICES ASSUME ImagerInv, faults \in 0 .. MaxFaults PROVE ImagerTypeOK
  OBVIOUS
<1>1. Types
  BY DEF ImagerInv
<1>2. DOMAIN files = Path /\ \A n \in Path : files[n].writers \subseteq Session
  BY <1>1 DEF Types, FileType
<1> QED BY <1>1, <1>2 DEF Types, Outputs, ImagerTypeOK

\* No step leaves a type, and the failures stay within their bound.
THEOREM ImagerTypeCorrect == ImagerSpec => []ImagerTypeOK
<1> DEFINE Bounded == faults \in 0 .. MaxFaults
<1>1. ImagerInit => Bounded
  BY ImagerCounts DEF ImagerInit
<1>2. Bounded /\ [ImagerNext]_imagerVars => Bounded'
  BY StepFaults
<1>3. ImagerInv /\ Bounded => ImagerTypeOK
  BY InvTypes
<1> HIDE DEF Bounded
<1> QED BY <1>1, <1>2, <1>3, ImagerInvariant, PTL DEF ImagerSpec

LEMMA InvListed == ImagerInv => ListedIsStored
<1> SUFFICES ASSUME ImagerInv, Readable PROVE
      /\ ~wiped => OnDisk.list = Stored
      /\ ~overlapped => \A i \in Stored : files[File(i)].text = OnDisk.version
  BY DEF ListedIsStored
<1>1. OnDisk \in States
  BY ReadableState DEF ImagerInv
<1>2. ~wiped => \A i \in OnDisk.list : Exists(File(i))
  BY <1>1, Basics DEF ImagerInv, ListedExists, Known, OnDisk
<1>3. ~overlapped => OfVersion(OnDisk.list, OnDisk.version)
  BY DEF ImagerInv, CallsAlone, ListIsVersions
<1> QED BY <1>2, <1>3 DEF Stored, OfVersion

\* For any number of callers, packets, failures and fixtures: what state.json lists
\* is stored, and is of the fixture it describes where calls did not overlap.
THEOREM ListedStays == ImagerSpec => []ListedIsStored
BY InvListed, ImagerInvariant, PTL

LEMMA InvImage == ImagerInv => ImageIsTheMetadatas
BY DEF ImagerInv, CallsAlone, ImageIsTheMetadatas

\* An image is composed of the packets of the metadata it is handed over with.
THEOREM ImageIsOfItsMetadata == ImagerSpec => []ImageIsTheMetadatas
BY InvImage, ImagerInvariant, PTL

(***************************************************************************)
(* The refinement: calls that do not overlap resume.                       *)
(***************************************************************************)
\* What is kept depends on the files proper alone.
LEMMA SameStored ==
    ASSUME Types, \A n \in Path : n[2] = "" => files'[n].text = files[n].text
    PROVE  Stored' = Stored
<1>1. /\ OnDisk' = OnDisk /\ Readable' = Readable
      /\ \A i \in Packet : Exists(File(i))' = Exists(File(i))
      /\ Readable => OnDisk.list \subseteq Packet
  BY SameFiles
<1>2. CASE Readable
  <2>1. {i \in OnDisk'.list : Exists(File(i))'} = {i \in OnDisk.list : Exists(File(i))}
    BY <1>1, <1>2
  <2> QED BY <1>1, <1>2, <2>1 DEF Stored
<1>3. CASE ~Readable
  BY <1>1, <1>3 DEF Stored
<1> QED BY <1>2, <1>3

\* A call that has the directory for itself is the only one that downloads.
LEMMA Alone ==
    ASSUME ImagerInv, ~overlapped, NEW s \in Session, Busy(s),
           \A t \in Session \ {s} : dl'[t] = dl[t]
    PROVE  \A i \in Packet : /\ i \in Fetched <=> Unlisted(dl[s], i)
                             /\ i \in Fetched' <=> Unlisted(dl[s], i)'
<1>1. \A t \in Session \ {s} : dl[t].at \in Resting
  BY DEF ImagerInv, CallsAlone, Busy
<1>2. \A t \in Session \ {s}, i \in Packet : ~Unlisted(dl[t], i) /\ ~Unlisted(dl[t], i)'
  BY <1>1 DEF Unlisted, Resting
<1> QED BY <1>2 DEF Fetched

\* It downloads one packet at a time, and none that is kept.
LEMMA OneUnlisted ==
    ASSUME ImagerInv, ~overlapped, NEW s \in Session, dl[s].at \in Writing
    PROVE  \/ \A i \in Packet : ~Unlisted(dl[s], i)
           \/ \E j \in Packet : /\ j \notin Stored
                                /\ \A i \in Packet : Unlisted(dl[s], i) <=> i = j
<1>1. /\ WellFormed(dl[s]) /\ dl[s] \in Calls /\ Sound(dl[s]) /\ dl[s].mem \in States
  <2>1. Busy(s)
    BY DEF Busy, Resting, Writing
  <2> QED BY <2>1, HasItAlone DEF ImagerInv, Types, WellFormed
<1>2. CASE dl[s].then = "list"
  <2>1. /\ dl[s].target \in Packet /\ OnDisk = dl[s].mem
        /\ dl[s].target \notin dl[s].mem.list
    BY <1>1, <1>2, Basics DEF WellFormed, Sound, Writing, Calls
  <2>2. \A i \in Packet : Unlisted(dl[s], i) <=> i = dl[s].target
    BY <1>2 DEF Unlisted, Writing
  <2> QED BY <2>1, <2>2 DEF Stored
<1>3. CASE dl[s].then = "next"
  <2>1. Readable
    BY <1>1, <1>3 DEF Sound, Writing
  <2>2. PICK j \in Packet : dl[s].mem.list = OnDisk.list \cup {j}
    BY <1>1, <1>3 DEF Sound, Writing
  <2>3. \A i \in Packet : Unlisted(dl[s], i) <=> i = j /\ j \notin OnDisk.list
    BY <1>3, <2>1, <2>2 DEF Unlisted, Writing
  <2>4. CASE j \in OnDisk.list
    BY <2>3, <2>4
  <2>5. CASE j \notin OnDisk.list
    <3>1. j \notin Stored
      BY <2>5 DEF Stored
    <3> QED BY <2>3, <2>5, <3>1
  <2> QED BY <2>4, <2>5
<1>4. CASE dl[s].then \notin {"list", "next"}
  BY <1>4 DEF Unlisted
<1> QED BY <1>2, <1>3, <1>4

\* What one step may do to the packets: fetch one that is not kept, keep or waste one that
\* was fetched.
PacketMoves ==
    \/ UNCHANGED <<Stored, Fetched>>
    \/ \E i \in Packet :
        /\ i \notin Stored \cup Fetched
        /\ Stored' = Stored /\ Fetched' = Fetched \cup {i}
    \/ \E i \in Packet :
        /\ i \in Fetched
        /\ Stored' \in {Stored, Stored \cup {i}} /\ Fetched' = Fetched \ {i}

\* A call that ends wastes what it downloaded and did not list.
LEMMA Wastes ==
    ASSUME ImagerInv, ~overlapped, NEW s \in Session, Busy(s),
           \A t \in Session \ {s} : dl'[t] = dl[t],
           Stored' = Stored, dl'[s].at \notin Writing
    PROVE  PacketMoves
<1>1. \A i \in Packet : i \notin Fetched'
  BY Alone DEF Unlisted, Writing
<1>2. CASE \A i \in Packet : ~Unlisted(dl[s], i)
  <2>1. Fetched' = Fetched
    BY <1>1, <1>2, Alone DEF Fetched
  <2> QED BY <2>1 DEF PacketMoves
<1>3. CASE dl[s].at \in Writing /\ \E j \in Packet : \A i \in Packet : Unlisted(dl[s], i) <=> i = j
  <2>1. PICK j \in Packet : \A i \in Packet : Unlisted(dl[s], i) <=> i = j
    BY <1>3
  <2>2. Fetched = {j}
    BY <2>1, Alone DEF Fetched
  <2>3. Fetched' = {}
    BY <1>1 DEF Fetched
  <2> QED BY <2>2, <2>3 DEF PacketMoves
<1>4. dl[s].at \notin Writing => \A i \in Packet : ~Unlisted(dl[s], i)
  BY DEF Unlisted, Writing
<1> QED BY <1>2, <1>3, <1>4, OneUnlisted

\* A file takes the place of its target: what was downloaded is kept, or is wasted, or
\* waits to be listed.
LEMMA RenameKeeps ==
    ASSUME ImagerInv, ~overlapped, NEW s \in Session, RenameTmp(s)
    PROVE  PacketMoves
<1> DEFINE tmp  == Tmp(dl[s].target)
           file == File(dl[s].target)
<1>1. Types /\ WellFormed(dl[s]) /\ dl[s] \in Calls
  BY DEF ImagerInv, Types
<1>2. /\ dl[s].at = "rename" /\ Busy(s) /\ dl[s].mem \in States
      /\ dl[s].target \in Packet \cup {StateJson}
      /\ dl[s].then \in {"reconcile", "plan", "list", "next", "returned"}
  BY <1>1 DEF RenameTmp, Busy, Resting, WellFormed, Writing, Calls
<1>3. Sound(dl[s])
  BY <1>2, HasItAlone
<1>4. \A t \in Session \ {s} : dl'[t] = dl[t]
  BY <1>1 DEF RenameTmp, Throw, Step, Types
<1>5. CASE ~Exists(tmp)
  <2>1. Stored' = Stored
    BY <1>1, <1>5, SameStored DEF RenameTmp
  <2>2. dl'[s].at = "failed"
    <3>1. dl' = [dl EXCEPT ![s] = Rest("failed")]
      BY <1>5 DEF RenameTmp, Throw, Step
    <3> QED BY <1>1, <3>1, RestFields DEF Types, Resting
  <2> QED BY <1>2, <1>4, <2>1, <2>2, Wastes DEF Writing
<1>6. ASSUME Exists(tmp) PROVE PacketMoves
  <2>1. tmp \in Path /\ file \in Path /\ tmp # file
    BY <1>2, Basics
  <2>2. /\ files'[file] = files[tmp]
        /\ \A n \in Path \ {file, tmp} : files'[n] = files[n]
    BY <1>1, <1>6, <2>1 DEF RenameTmp, Rename, Types
  <2>3. \A i \in Packet \cup {StateJson} : i # dl[s].target => files'[File(i)] = files[File(i)]
    <3> SUFFICES ASSUME NEW i \in Packet \cup {StateJson}, i # dl[s].target
                 PROVE  files'[File(i)] = files[File(i)]
      OBVIOUS
    <3>1. File(i) \in Path \ {file, tmp}
      BY <1>2, Basics
    <3> QED BY <2>2, <3>1
  <2>4. Readable => OnDisk \in States
    BY <1>1, ReadableState
  <2>5. CASE dl[s].then = "list"
    <3>1. /\ dl[s].target \in Packet /\ dl[s].target \in dl[s].todo
          /\ dl[s].todo \cap dl[s].mem.list = {} /\ OnDisk = dl[s].mem
      BY <1>1, <1>2, <1>3, <2>5 DEF WellFormed, Sound, Writing, Calls
    <3>2. OnDisk' = OnDisk
      BY <2>3, <3>1, Basics DEF OnDisk
    <3>3. \A i \in OnDisk.list : files'[File(i)] = files[File(i)]
      BY <1>2, <2>3, <3>1 DEF States
    <3>4. Stored' = Stored
      BY <3>2, <3>3 DEF Stored, Readable, Exists
    <3>5. /\ dl'[s].at = "open" /\ dl'[s].then = "next"
          /\ dl'[s].mem.list = dl[s].mem.list \cup {dl[s].target}
      <4>1. dl'[s] = Continue(dl[s])
        BY <1>1, <1>6 DEF RenameTmp, Step, Types
      <4> QED BY <1>1, <1>2, <2>5, <3>1, <4>1, AfterPacket
    <3>6. \A i \in Packet : Unlisted(dl[s], i) <=> i = dl[s].target
      BY <1>2, <2>5 DEF Unlisted
    <3>7. \A i \in Packet : Unlisted(dl[s], i)' <=> i = dl[s].target
      <4>1. Readable' /\ OnDisk'.list = dl[s].mem.list
        BY <1>2, <3>1, <3>2, ImagerSentinels DEF Readable
      <4>2. dl[s].target \notin dl[s].mem.list
        BY <3>1
      <4> QED BY <3>5, <4>1, <4>2 DEF Unlisted
    <3>8. Fetched' = Fetched
      BY <1>2, <1>4, <3>6, <3>7, Alone DEF Fetched
    <3> QED BY <3>4, <3>8 DEF PacketMoves
  <2>6. CASE dl[s].then # "list"
    <3>1. dl[s].target = StateJson
      BY <1>1, <1>2, <2>6 DEF WellFormed, Writing
    <3>2. OnDisk' = dl[s].mem
      <4>1. files[tmp].text = BytesOf(dl[s])
        BY <1>2, <1>3, <1>6 DEF Sound, Exists
      <4> QED BY <2>2, <3>1, <4>1 DEF OnDisk, BytesOf
    <3>3. \A i \in Packet : Exists(File(i))' = Exists(File(i))
      <4>1. \A i \in Packet : i # dl[s].target
        BY <3>1, Basics
      <4> QED BY <2>3, <4>1 DEF Exists
    <3>4. Stored' = {i \in dl[s].mem.list : Exists(File(i))}
      <4>1. Readable'
        BY <1>2, <3>2, ImagerSentinels DEF Readable
      <4>2. dl[s].mem.list \subseteq Packet
        BY <1>2 DEF States
      <4> QED BY <3>2, <3>3, <4>1, <4>2 DEF Stored
    <3>5. dl'[s].at \notin Writing
      <4>1. dl'[s] = Continue(dl[s])
        BY <1>1, <1>6 DEF RenameTmp, Step, Types
      <4> QED BY <1>1, <1>2, <2>6, <4>1, AfterState DEF Writing
    <3>6. CASE dl[s].then = "reconcile"
      <4>1. Stored' = Stored
        BY <1>2, <1>3, <3>4, <3>6 DEF Sound, Stored, Readable, Writing
      <4> QED BY <1>2, <1>4, <3>5, <4>1, Wastes
    <3>7. CASE dl[s].then = "plan"
      <4>1. /\ Readable /\ dl[s].mem.list \subseteq OnDisk.list
            /\ \A i \in OnDisk.list \ dl[s].mem.list : ~Exists(File(i))
        BY <1>2, <1>3, <3>7 DEF Sound, Writing
      <4>2. Stored' = Stored
        BY <3>4, <4>1 DEF Stored
      <4> QED BY <1>2, <1>4, <3>5, <4>2, Wastes
    <3>8. CASE dl[s].then = "next"
      <4>1. PICK i \in Packet : dl[s].mem.list = OnDisk.list \cup {i}
        BY <1>2, <1>3, <3>8 DEF Sound, Writing
      <4>2. Readable
        BY <1>2, <1>3, <3>8 DEF Sound, Writing
      <4>3. /\ Stored' = Stored \/ Stored' = Stored \cup {i}
            /\ i \in OnDisk.list => Stored' = Stored
        BY <3>4, <4>1, <4>2 DEF Stored
      <4>4. CASE Stored' = Stored
        BY <1>2, <1>4, <3>5, <4>4, Wastes
      <4>5. CASE Stored' = Stored \cup {i} /\ i \notin OnDisk.list
        <5>1. \A q \in Packet : Unlisted(dl[s], q) <=> q = i
          BY <1>2, <3>8, <4>1, <4>2, <4>5 DEF Unlisted
        <5>2. \A q \in Packet : ~Unlisted(dl[s], q)'
          BY <3>5 DEF Unlisted, Writing
        <5>3. Fetched = {i} /\ Fetched' = {}
          BY <1>2, <1>4, <5>1, <5>2, Alone DEF Fetched
        <5> QED BY <4>5, <5>3 DEF PacketMoves
      <4> QED BY <4>3, <4>4, <4>5
    <3>9. CASE dl[s].then = "returned"
      <4>1. Readable /\ dl[s].mem.list = OnDisk.list
        BY <1>2, <1>3, <3>9 DEF Sound, Writing
      <4>2. Stored' = Stored
        BY <3>4, <4>1 DEF Stored
      <4> QED BY <1>2, <1>4, <3>5, <4>2, Wastes
    <3> QED BY <1>2, <2>6, <3>6, <3>7, <3>8, <3>9
  <2> QED BY <2>5, <2>6
<1> QED BY <1>5, <1>6

\* An image is composed when every packet is kept.
LEMMA ComposesAll ==
    ASSUME ImagerInv, ~overlapped, NEW s \in Session, Recompose(s), out' # out
    PROVE  Stored = Packet /\ out'[s] # NoFile
<1> DEFINE image == [metadata |-> dl[s].mem.version, tiles |-> {files[File(i)].text : i \in Packet}]
<1>1. Types /\ WellFormed(dl[s])
  BY DEF ImagerInv
<1>2. dl[s].at = "recompose" /\ Busy(s) /\ dl[s].mem \in States
  BY <1>1 DEF Recompose, Busy, Resting, WellFormed, Settled
<1>3. OnDisk = dl[s].mem /\ OnDisk.list = Packet
  BY <1>2, HasItAlone DEF Sound, Settled
<1>4. Readable /\ \A i \in Packet : Exists(File(i))
  BY <1>2, <1>3, ImagerSentinels DEF Recompose, Readable, Exists
<1>5. image # NoFile
  <2>1. \A i \in Packet : files[File(i)].text \in Version
    <3>1. \A i \in Packet : files[File(i)].text = dl[s].mem.version
      BY <1>2, <1>3, <1>4, HasItAlone DEF Sound, OfVersion, Settled
    <3> QED BY <1>2, <3>1 DEF States
  <2>2. image \in [metadata : Version, tiles : SUBSET Version]
    BY <1>2, <2>1 DEF States
  <2> QED BY <2>2, ImagerSentinels
<1>6. out' = [out EXCEPT ![s] = image]
  BY DEF Recompose
<1> HIDE DEF image
<1>7. out'[s] # NoFile
  BY <1>1, <1>5, <1>6 DEF Types
<1> QED BY <1>3, <1>4, <1>7 DEF Stored

\* An answer brings a packet that is not kept.
LEMMA AsksForMissing ==
    ASSUME ImagerInv, ~overlapped, NEW s \in Session, GetPacket(s)
    PROVE  PacketMoves
<1>1. Types /\ WellFormed(dl[s]) /\ dl[s] \in Calls
  BY DEF ImagerInv, Types
<1>2. dl[s].at = "next" /\ Busy(s) /\ dl[s].at \notin Writing
  BY DEF GetPacket, Busy, Resting, Writing
<1>3. /\ \A t \in Session \ {s} : dl'[t] = dl[t]
      /\ Stored' = Stored
  <2>1. files' = files
    BY DEF GetPacket
  <2> QED BY <1>1, <2>1, SameStored DEF GetPacket, Throw, Step, Types
<1>4. PICK i \in dl[s].todo :
        \/ Step(s, AtomicWrite([dl[s] EXCEPT !.got = served], i, "list"))
        \/ Throw(s)
  BY DEF GetPacket
<1>5. i \in Packet /\ i \notin Stored
  <2>1. OnDisk = dl[s].mem /\ dl[s].todo \cap dl[s].mem.list = {}
    BY <1>1, <1>2, HasItAlone DEF Sound, WellFormed, Settled
  <2>2. dl[s].todo \subseteq Packet
    BY <1>1 DEF Calls
  <2> QED BY <2>1, <2>2 DEF Stored
<1>6. CASE Throw(s)
  <2>1. dl'[s].at = "failed"
    BY <1>1, <1>6 DEF Throw, Step, Rest, Types
  <2> QED BY <1>2, <1>3, <2>1, Wastes DEF Writing
<1>7. CASE Step(s, AtomicWrite([dl[s] EXCEPT !.got = served], i, "list"))
  <2>1. dl'[s].at = "open" /\ dl'[s].then = "list" /\ dl'[s].target = i
    BY <1>1, <1>7 DEF Step, AtomicWrite, Types, Calls
  <2>2. \A q \in Packet : ~Unlisted(dl[s], q) /\ (Unlisted(dl[s], q)' <=> q = i)
    BY <1>2, <2>1 DEF Unlisted
  <2>3. Fetched = {} /\ Fetched' = {i}
    BY <1>2, <1>3, <1>5, <2>2, Alone DEF Fetched
  <2> QED BY <1>3, <1>5, <2>3 DEF PacketMoves
<1> QED BY <1>4, <1>6, <1>7

\* A call that is not writing goes on to a step that is no download.
LEMMA Proceeds ==
    ASSUME ImagerInv, ~overlapped, NEW s \in Session, Busy(s), dl[s].at \notin Writing,
           \A t \in Session \ {s} : dl'[t] = dl[t],
           dl'[s].at \notin Writing \/ dl'[s].then \notin {"list", "next"}
    PROVE  Fetched' = Fetched
<1>1. \A i \in Packet : ~Unlisted(dl[s], i) /\ ~Unlisted(dl[s], i)'
  BY DEF Unlisted, Writing
<1> QED BY <1>1, Alone DEF Fetched

LEMMA ReadsAndPlans ==
    ASSUME ImagerInv, ~overlapped, NEW s \in Session,
           \/ ReadState(s) \/ GetMetadata(s) \/ Reconcile(s)
           \/ PacketsDone(s) \/ Reload(s) \/ Recompose(s) \/ GatewayFails(s)
    PROVE  UNCHANGED <<Stored, Fetched>>
<1>1. Types /\ dl[s] \in Calls
  BY DEF ImagerInv, Types
<1>2. Busy(s) /\ dl[s].at \notin Writing
  BY DEF ReadState, GetMetadata, Reconcile, PacketsDone, Reload, Recompose, GatewayFails, Busy,
         Resting, Writing
<1>3. files' = files
  BY DEF ReadState, GetMetadata, Reconcile, PacketsDone, Reload, Recompose, GatewayFails
<1>4. \A t \in Session \ {s} : dl'[t] = dl[t]
  BY <1>1 DEF ReadState, GetMetadata, Reconcile, PacketsDone, Reload, Recompose, GatewayFails,
              Throw, Step, Types
<1>5. ASSUME NEW r, dl' = [dl EXCEPT ![s] = r],
             r.at \notin Writing \/ r.then \notin {"list", "next"}
      PROVE  UNCHANGED <<Stored, Fetched>>
  <2>1. dl'[s] = r
    BY <1>1, <1>5 DEF Types
  <2>2. Fetched' = Fetched
    BY <1>2, <1>4, <1>5, <2>1, Proceeds
  <2> QED BY <1>1, <1>3, <2>2, SameStored
<1>6. CASE Throw(s)
  BY <1>5, <1>6, RestFields DEF Throw, Step, Resting, Writing
<1>7. ASSUME NEW m \in States, NEW then \in {"reconcile", "plan", "returned"},
             dl' = [dl EXCEPT ![s] = AtomicWrite([dl[s] EXCEPT !.mem = m], StateJson, then)]
      PROVE  UNCHANGED <<Stored, Fetched>>
  <2> DEFINE q == [dl[s] EXCEPT !.mem = m]
             r == AtomicWrite(q, StateJson, then)
  <2>1. q \in Calls
    BY <1>1, CallFields
  <2>2. dl' = [dl EXCEPT ![s] = r]
    BY <1>7
  <2> HIDE DEF q
  <2>3. r.then = then
    BY <2>1, AtomicWriteFields
  <2> HIDE DEF r
  <2> QED BY <1>5, <2>2, <2>3
<1>8. CASE ReadState(s)
  <2>1. CASE OnDisk = NoFile
    <3> DEFINE r == [dl[s] EXCEPT !.at = "metadata"]
    <3>1. r.at = "metadata" /\ dl' = [dl EXCEPT ![s] = r]
      BY <1>1, <1>8, <2>1, CallFields, ImagerSentinels DEF ReadState, Step, Readable
    <3> HIDE DEF r
    <3> QED BY <1>5, <3>1 DEF Writing
  <2>2. CASE Readable
    <3> DEFINE q == [dl[s] EXCEPT !.at = "reconcile"]
               r == [q EXCEPT !.mem = OnDisk]
    <3>1. OnDisk \in States
      BY <1>1, <2>2, ReadableState
    <3>2. q \in Calls /\ q.at = "reconcile"
      BY <1>1, CallFields DEF Settled
    <3>3. r = [dl[s] EXCEPT !.at = "reconcile", !.mem = OnDisk]
      OBVIOUS
    <3>4. dl' = [dl EXCEPT ![s] = r]
      BY <1>8, <2>2, <3>3 DEF ReadState, Step, Readable
    <3> HIDE DEF q
    <3>5. r.at = "reconcile"
      BY <3>1, <3>2, CallFields
    <3> HIDE DEF r
    <3> QED BY <1>5, <3>4, <3>5 DEF Writing
  <2> QED BY <1>6, <1>8, <2>1, <2>2 DEF ReadState
<1>9. CASE GetMetadata(s)
  <2> DEFINE fresh == [version |-> served, list |-> {}, complete |-> FALSE]
  <2>1. fresh \in States
    BY <1>1 DEF States, Types
  <2>2. dl' = [dl EXCEPT ![s] = AtomicWrite([dl[s] EXCEPT !.mem = fresh], StateJson, "reconcile")]
    BY <1>9 DEF GetMetadata, Step
  <2> HIDE DEF fresh
  <2> QED BY <1>7, <2>1, <2>2
<1>10. CASE Reconcile(s)
  <2> DEFINE present == {i \in dl[s].mem.list : Exists(File(i))}
             m == [dl[s].mem EXCEPT !.list = present]
             q == [dl[s] EXCEPT !.mem = m]
  <2>1. dl[s].mem \in States
    BY <1>1, <1>10 DEF ImagerInv, Types, Reconcile, WellFormed, Settled
  <2>2. dl' = [dl EXCEPT ![s] = IF present = dl[s].mem.list THEN Plan(q)
                                ELSE AtomicWrite(q, StateJson, "plan")]
    <3>1. q = [dl[s] EXCEPT !.mem.list = present]
      OBVIOUS
    <3> QED BY <1>10, <3>1 DEF Reconcile, Step
  <2>3. m \in States
    BY <2>1, StateFields DEF States
  <2> HIDE DEF m
  <2>4. CASE present = dl[s].mem.list
    <3>1. q \in Calls /\ q.mem \in States
      BY <1>1, <2>3, CallFields
    <3> DEFINE r == Plan(q)
    <3>2. dl' = [dl EXCEPT ![s] = r]
      BY <2>2, <2>4
    <3> HIDE DEF q
    <3>3. r.at = "next"
      BY <3>1, PlanFields
    <3> HIDE DEF r
    <3> QED BY <1>5, <3>2, <3>3 DEF Writing
  <2>5. CASE present # dl[s].mem.list
    BY <1>7, <2>2, <2>3, <2>5
  <2> QED BY <2>4, <2>5
<1>11. CASE PacketsDone(s)
  <2>1. CASE dl[s].kind = "packets"
    BY <1>5, <1>11, <2>1, RestFields DEF PacketsDone, Step, Resting, Writing
  <2>2. CASE dl[s].kind # "packets"
    <3> DEFINE r == [dl[s] EXCEPT !.at = "reload"]
    <3>1. r.at = "reload" /\ dl' = [dl EXCEPT ![s] = r]
      BY <1>1, <1>11, <2>2, CallFields DEF PacketsDone, Step, Settled
    <3> HIDE DEF r
    <3> QED BY <1>5, <3>1 DEF Writing
  <2> QED BY <2>1, <2>2
<1>12. CASE Reload(s)
  <2>1. CASE Readable /\ Cardinality(OnDisk.list) = PacketCount
    <3> DEFINE q == [dl[s] EXCEPT !.at = "recompose"]
               r == [q EXCEPT !.mem = OnDisk]
    <3>1. OnDisk \in States
      BY <1>1, <2>1, ReadableState
    <3>2. q \in Calls /\ q.at = "recompose"
      BY <1>1, CallFields DEF Settled
    <3>3. r = [dl[s] EXCEPT !.at = "recompose", !.mem = OnDisk]
      OBVIOUS
    <3>4. dl' = [dl EXCEPT ![s] = r]
      BY <1>12, <2>1, <3>3 DEF Reload, Step
    <3> HIDE DEF q
    <3>5. r.at = "recompose"
      BY <3>1, <3>2, CallFields
    <3> HIDE DEF r
    <3> QED BY <1>5, <3>4, <3>5 DEF Writing
  <2> QED BY <1>6, <1>12, <2>1 DEF Reload
<1>13. CASE Recompose(s)
  <2>1. CASE \A i \in Packet : files[File(i)].text \notin {NoFile, Torn}
    <3> DEFINE m == [dl[s].mem EXCEPT !.complete = TRUE]
    <3>1. dl[s].mem \in States
      BY <1>1, <1>13 DEF ImagerInv, Types, Recompose, WellFormed, Settled
    <3>2. m \in States
      BY <3>1, StateFields DEF States
    <3>3. dl' = [dl EXCEPT ![s] = AtomicWrite([dl[s] EXCEPT !.mem = m], StateJson, "returned")]
      <4>1. [dl[s] EXCEPT !.mem = m] = [dl[s] EXCEPT !.mem.complete = TRUE]
        OBVIOUS
      <4> QED BY <1>13, <2>1, <4>1 DEF Recompose, Step
    <3> HIDE DEF m
    <3> QED BY <1>7, <3>2, <3>3
  <2> QED BY <1>6, <1>13, <2>1 DEF Recompose
<1> QED BY <1>6, <1>8, <1>9, <1>10, <1>11, <1>12, <1>13 DEF GatewayFails

\* A temporary file is opened or filled, or the call is killed.
LEMMA BesideTheFiles ==
    ASSUME ImagerInv, ~overlapped, NEW s \in Session, OpenTmp(s) \/ WriteTmp(s) \/ Kill(s)
    PROVE  PacketMoves
<1>1. Types /\ dl[s] \in Calls
  BY DEF ImagerInv, Types
<1>2. \A n \in Path : n[2] = "" => files'[n].text = files[n].text
  <2>1. CASE OpenTmp(s)
    <3>1. dl[s].target \in Packet \cup {StateJson}
      BY <1>1 DEF Calls
    <3>2. Tmp(dl[s].target) \in Path /\ Tmp(dl[s].target)[2] = ".tmp"
      BY <3>1, Basics
    <3> QED BY <1>1, <2>1, <3>2 DEF OpenTmp, OpenTruncate, Types
  <2>2. CASE WriteTmp(s)
    <3>1. \A n \in Path : n[2] = "" => s \notin files[n].writers
      BY DEF ImagerInv, CallsAlone
    <3>2. DOMAIN files = Path
      BY <1>1 DEF Types
    <3> QED BY <1>1, <2>2, <3>1, <3>2 DEF WriteTmp, Put, Types
  <2>3. CASE Kill(s)
    <3>1. DOMAIN files = Path /\ \A n \in Path : files[n] \in FileType
      BY <1>1 DEF Types
    <3>2. \A n \in Path : files'[n] = [files[n] EXCEPT !.writers = files[n].writers \ {s}]
      BY <2>3, <3>1 DEF Kill, Closed
    <3> QED BY <3>1, <3>2 DEF FileType
  <2> QED BY <2>1, <2>2, <2>3
<1>3. /\ Stored' = Stored
      /\ OnDisk' = OnDisk /\ Readable' = Readable
  BY <1>1, <1>2, SameStored, SameFiles
<1>4. \A t \in Session \ {s} : dl'[t] = dl[t]
  BY <1>1 DEF OpenTmp, WriteTmp, Kill, Throw, Step, Types
<1>5. CASE Kill(s)
  <2>1. dl'[s].at = "failed" /\ Busy(s)
    BY <1>1, <1>5 DEF Kill, Throw, Step, Rest, Types
  <2> QED BY <1>3, <1>4, <2>1, Wastes DEF Writing
<1>6. CASE OpenTmp(s) \/ WriteTmp(s)
  <2>1. Busy(s) /\ dl[s].at \in Writing
    BY <1>6 DEF OpenTmp, WriteTmp, Busy, Resting, Writing
  <2>2. /\ dl'[s].at \in Writing /\ dl'[s].then = dl[s].then
        /\ dl'[s].target = dl[s].target /\ dl'[s].mem = dl[s].mem
    <3> DEFINE a == IF dl[s].at = "open" THEN "put" ELSE "rename"
               r == [dl[s] EXCEPT !.at = a]
    <3>1. a \in Writing
      BY DEF Writing
    <3>2. dl' = [dl EXCEPT ![s] = r]
      BY <1>6 DEF OpenTmp, WriteTmp, Step
    <3> HIDE DEF a
    <3>3. r.at = a /\ r.then = dl[s].then /\ r.target = dl[s].target /\ r.mem = dl[s].mem
      BY <1>1, <3>1, CallFields
    <3> HIDE DEF r
    <3> QED BY <1>1, <3>1, <3>2, <3>3 DEF Types
  <2>3. \A i \in Packet : Unlisted(dl[s], i)' <=> Unlisted(dl[s], i)
    BY <1>3, <2>1, <2>2 DEF Unlisted, Writing
  <2>4. Fetched' = Fetched
    BY <1>4, <2>1, <2>3, Alone DEF Fetched
  <2> QED BY <1>3, <2>4 DEF PacketMoves
<1> QED BY <1>5, <1>6

\* A call starts, or the plugin's operator acts.
LEMMA NothingMoves ==
    ASSUME Types, UNCHANGED files,
           UNCHANGED dl \/ \E s \in Session : \E k, q : CallStarts(s, k, q)
    PROVE  UNCHANGED <<Stored, Fetched>>
<1>1. Stored' = Stored
  BY SameStored
<1>2. OnDisk' = OnDisk /\ Readable' = Readable
  BY SameFiles
<1>3. CASE UNCHANGED dl
  BY <1>1, <1>2, <1>3 DEF Fetched, Unlisted
<1>4. ASSUME NEW s \in Session, NEW k, NEW q, CallStarts(s, k, q) PROVE Fetched' = Fetched
  <2>1. dl[s].at \in Resting /\ dl'[s].at = "ensure"
    BY <1>4 DEF CallStarts, Busy, Step, Rest, Types
  <2>2. \A t \in Session \ {s} : dl'[t] = dl[t]
    BY <1>4 DEF CallStarts, Step, Types
  <2>3. \A i \in Packet : ~Unlisted(dl[s], i) /\ ~Unlisted(dl[s], i)'
    BY <2>1 DEF Unlisted, Resting
  <2>4. \A t \in Session \ {s}, i \in Packet : Unlisted(dl[t], i)' <=> Unlisted(dl[t], i)
    BY <1>2, <2>2 DEF Unlisted
  <2> QED BY <2>3, <2>4 DEF Fetched
<1> QED BY <1>1, <1>3, <1>4

\* Calls that do not overlap pick up where the last one left off, whatever was
\* killed, refused or removed in between (14-16, 191-195): what is listed and stored is
\* not downloaded again.
THEOREM Resumes == ImagerSpec /\ []~overlapped => PicksUpWhereItLeftOff
<1>1. ImagerInit => Kept!Init
  <2> SUFFICES ASSUME ImagerInit PROVE Kept!Init
    OBVIOUS
  <2>1. files[File(StateJson)].text = NoFile
    BY Basics DEF ImagerInit, Blank, Missing
  <2>2. Fetched = {}
    BY DEF ImagerInit, Rest, Fetched, Unlisted
  <2> QED BY <2>1, <2>2 DEF Kept!Init, ImagerInit, Stored, Readable, OnDisk, Composed
<1>2. ImagerInv /\ ~overlapped /\ [ImagerNext]_imagerVars =>
        [Kept!Next]_<<Stored, Fetched, Composed, wiped>>
  <2> DEFINE Step2 == Kept!Next \/ UNCHANGED <<Stored, Fetched, Composed, wiped>>
  <2> SUFFICES ASSUME ImagerInv, ~overlapped, [ImagerNext]_imagerVars PROVE Step2
    OBVIOUS
  <2>1. Types
    BY DEF ImagerInv
  <2>2. ASSUME PacketMoves, UNCHANGED <<Composed, wiped>> PROVE Step2
    BY <2>2 DEF PacketMoves, Kept!Next, Kept!Fetch, Kept!Keep, Kept!Waste
  <2>3. CASE WipePackets
    <3>1. ~wiped /\ wiped' = TRUE /\ Composed' = Composed /\ dl' = dl
      BY <2>3 DEF WipePackets, Composed
    <3>2. \A n \in Path : n[1] \in Packet => files'[n] = Missing
      BY <2>3 DEF WipePackets
    <3>3. OnDisk' = OnDisk
      <4>1. File(StateJson) \in Path /\ File(StateJson)[1] \notin Packet
        BY Basics
      <4> QED BY <2>3, <4>1 DEF OnDisk, WipePackets
    <3>4. \A i \in Packet : ~Exists(File(i))'
      <4>1. \A i \in Packet : File(i) \in Path /\ File(i)[1] \in Packet
        BY Basics
      <4>2. Missing.text = NoFile
        BY DEF Missing
      <4> QED BY <3>2, <4>1, <4>2 DEF Exists
    <3>5. Readable => OnDisk.list \subseteq Packet
      BY <2>1, ReadableState DEF States
    <3>6. Stored' = {}
      BY <3>3, <3>4, <3>5 DEF Stored, Readable
    <3>7. Fetched' = Fetched
      BY <3>1, <3>3 DEF Fetched, Unlisted, Readable
    <3> QED BY <3>1, <3>6, <3>7 DEF Kept!Next, Kept!Lose
  <2>4. ASSUME NEW s \in Session,
               \/ RenameTmp(s) \/ OpenTmp(s) \/ WriteTmp(s) \/ Kill(s) \/ GetPacket(s)
               \/ ReadState(s) \/ GetMetadata(s) \/ Reconcile(s)
               \/ PacketsDone(s) \/ Reload(s) \/ GatewayFails(s)
        PROVE  Step2
    <3>1. UNCHANGED <<Composed, wiped>>
      BY <2>4 DEF RenameTmp, OpenTmp, WriteTmp, Kill, GetPacket, ReadState, GetMetadata,
                  Reconcile, PacketsDone, Reload, GatewayFails, Composed
    <3>2. PacketMoves
      BY <2>4, RenameKeeps, BesideTheFiles, AsksForMissing, ReadsAndPlans DEF PacketMoves
    <3> QED BY <2>2, <3>1, <3>2
  <2>5. ASSUME NEW s \in Session, Recompose(s) PROVE Step2
    <3>1. wiped' = wiped /\ UNCHANGED <<Stored, Fetched>>
      BY <2>5, ReadsAndPlans DEF Recompose
    <3>2. CASE out' = out
      BY <3>1, <3>2 DEF Composed
    <3>3. CASE out' # out
      <4>1. Stored = Packet /\ Composed'
        BY <2>5, <3>3, ComposesAll DEF Composed
      <4> QED BY <3>1, <4>1 DEF Kept!Next, Kept!Compose
    <3> QED BY <3>2, <3>3
  <2>6. CASE NewFixture \/ UNCHANGED imagerVars
    <3>1. UNCHANGED <<files, dl, out, wiped>>
      BY <2>6 DEF NewFixture, imagerVars
    <3>2. UNCHANGED <<Stored, Fetched>>
      BY <2>1, <3>1, NothingMoves
    <3> QED BY <3>1, <3>2 DEF Composed
  <2>7. ASSUME NEW s \in Session, NEW k, NEW q, CallStarts(s, k, q) PROVE Step2
    <3>1. UNCHANGED <<files, out, wiped>>
      BY <2>7 DEF CallStarts
    <3>2. UNCHANGED <<Stored, Fetched>>
      BY <2>1, <2>7, <3>1, NothingMoves
    <3> QED BY <3>1, <3>2 DEF Composed
  <2>8. ASSUME NEW s \in Session, Works(s) PROVE Step2
    BY <2>4, <2>5, <2>8 DEF Works
  <2> HIDE DEF Step2
  <2> QED BY <2>3, <2>4, <2>6, <2>7, <2>8 DEF ImagerNext, DownloadImage
<1> QED BY <1>1, <1>2, ImagerInvariant, PTL DEF ImagerSpec, PicksUpWhereItLeftOff, Kept!Spec
=============================================================================
