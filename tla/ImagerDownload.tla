--------------------------- MODULE ImagerDownload ---------------------------
(***************************************************************************)
(* orbitalImager-sdk/src/imager.mjs: downloadPackets and downloadImage of  *)
(* one image, whose session directory holds state.json and a file for each *)
(* packet.  A download is cut where it awaits the gateway and before every *)
(* file operation; several may share the directory, and each may be killed *)
(* at any point and called again.                                          *)
(***************************************************************************)
EXTENDS Integers, FileSystem

CONSTANTS
    Session,      \* callers of downloadImage and downloadPackets
    PacketCount,  \* packets of the image
    Versions,     \* the fixtures the plugin may serve are 1 .. Versions
    MaxFaults,    \* bound on failures, kills, wiped directories, new fixtures
    Idle          \* sentinel: nothing in memory

ASSUME ImagerCounts ==
    PacketCount \in Nat \ {0} /\ Versions \in Nat \ {0} /\ MaxFaults \in Nat

VARIABLES
    served,     \* the fixture the plugin serves now
    dl,         \* session -> where its call is, and what it has in memory
    out,        \* session -> the tiles of the image it composed last, or NoFile
    faults,     \* failures so far
    wiped,      \* history: the user removed packets/
    overlapped  \* history: two calls were in progress at once

imagerVars == <<files, served, dl, out, faults, wiped, overlapped>>

Packet    == 0 .. PacketCount - 1
Version   == 1 .. Versions
StateJson == -1
Path      == (Packet \cup {StateJson}) \X {"", ".tmp"}
File(t)   == <<t, "">>
Tmp(t)    == <<t, ".tmp">>

\* state.json: the plugin's metadata, and the _download block.
States == [version : Version, list : SUBSET Packet, complete : BOOLEAN]

ASSUME ImagerSentinels ==
    /\ NoFile # Torn /\ Idle \notin States \cup Version
    /\ {NoFile, Torn} \cap (States \cup Version) = {}
    /\ NoFile \notin [metadata : Version, tiles : SUBSET Version]
OnDisk == files[File(StateJson)].text
Readable == OnDisk \notin {NoFile, Torn}

\* The keys of a finished call are forgotten, so that equal states are equal.
Rest(result) == [at |-> result, target |-> StateJson, then |-> "", kind |-> "",
                 mem |-> Idle, todo |-> {}, got |-> Idle]
Resting == {"idle", "failed", "returned"}
Busy(s) == dl[s].at \notin Resting

ImagerInit ==
    /\ files = Blank(Path)
    /\ served = 1
    /\ dl = [s \in Session |-> Rest("idle")]
    /\ out = [s \in Session |-> NoFile]
    /\ faults = 0 /\ wiped = FALSE /\ overlapped = FALSE

Step(s, r) == dl' = [dl EXCEPT ![s] = r]
Throw(s)   == Step(s, Rest("failed"))

\* atomicWrite of a target: open <path>.tmp, put the bytes, rename.
AtomicWrite(r, target, then) == [r EXCEPT !.at = "open", !.target = target, !.then = then]

\* Faulty variant of Plan: what is listed is not taken out.
PlanAll(r) == [r EXCEPT !.at = "next"]

\* `missing`: the requested indexes, each named once, that state.json does not list.
Plan(r) == [r EXCEPT !.at = "next", !.todo = @ \ r.mem.list]

(***************************************************************************)
(* The call and ensureState.                                               *)
(***************************************************************************)
CallStarts(s, kind, request) ==
    /\ ~Busy(s)
    /\ Step(s, [Rest("ensure") EXCEPT !.kind = kind, !.todo = request])
    /\ overlapped' = (overlapped \/ \E t \in Session \ {s} : Busy(t))
    /\ UNCHANGED <<files, served, out, faults, wiped>>

\* The command line and the pipeline ask for every packet and the image.
DownloadImage(s) == CallStarts(s, "image", Packet)

\* Faulty variant of ReadState: state.json is always begun anew.
BeginAnew(s) ==
    /\ dl[s].at = "ensure"
    /\ Step(s, [dl[s] EXCEPT !.at = "metadata"])
    /\ UNCHANGED <<files, served, out, faults, wiped, overlapped>>

\* An existing state.json is read and trusted; otherwise the metadata is fetched.
ReadState(s) ==
    /\ dl[s].at = "ensure"
    /\ \/ OnDisk = NoFile /\ Step(s, [dl[s] EXCEPT !.at = "metadata"])
       \/ OnDisk = Torn /\ Throw(s)
       \/ Readable /\ Step(s, [dl[s] EXCEPT !.at = "reconcile", !.mem = OnDisk])
    /\ UNCHANGED <<files, served, out, faults, wiped, overlapped>>

GetMetadata(s) ==
    /\ dl[s].at = "metadata"
    /\ LET fresh == [version |-> served, list |-> {}, complete |-> FALSE]
       IN  Step(s, AtomicWrite([dl[s] EXCEPT !.mem = fresh], StateJson, "reconcile"))
    /\ UNCHANGED <<files, served, out, faults, wiped, overlapped>>

\* Faulty variant of Reconcile: the list is trusted.
TrustList(s) ==
    /\ dl[s].at = "reconcile"
    /\ Step(s, Plan(dl[s]))
    /\ UNCHANGED <<files, served, out, faults, wiped, overlapped>>

\* A listed packet whose file is gone is taken off the list.
Reconcile(s) ==
    /\ dl[s].at = "reconcile"
    /\ LET present == {i \in dl[s].mem.list : Exists(File(i))}
           r       == [dl[s] EXCEPT !.mem.list = present]
       IN  Step(s, IF present = dl[s].mem.list THEN Plan(r) ELSE AtomicWrite(r, StateJson, "plan"))
    /\ UNCHANGED <<files, served, out, faults, wiped, overlapped>>

(***************************************************************************)
(* The three steps of atomicWrite.  <path>.tmp is the same for all calls.  *)
(***************************************************************************)
Bytes(s) == IF dl[s].target = StateJson THEN dl[s].mem ELSE dl[s].got

OpenTmp(s) ==
    /\ dl[s].at = "open"
    /\ OpenTruncate(s, Tmp(dl[s].target))
    /\ Step(s, [dl[s] EXCEPT !.at = "put"])
    /\ UNCHANGED <<served, out, faults, wiped, overlapped>>

WriteTmp(s) ==
    /\ dl[s].at = "put"
    /\ Put(s, Bytes(s))
    /\ Step(s, [dl[s] EXCEPT !.at = "rename"])
    /\ UNCHANGED <<served, out, faults, wiped, overlapped>>

\* What the code does once a file is in place.
Continue(r) ==
    CASE r.then = "plan"     -> Plan(r)
      [] r.then = "list"     -> AtomicWrite([r EXCEPT !.mem.list = @ \cup {r.target},
                                                      !.todo = @ \ {r.target}, !.got = Idle],
                                            StateJson, "next")
      [] r.then = "returned" -> Rest("returned")
      [] OTHER               -> [r EXCEPT !.at = r.then]

RenameTmp(s) ==
    /\ dl[s].at = "rename"
    /\ IF Exists(Tmp(dl[s].target))
       THEN Rename(Tmp(dl[s].target), File(dl[s].target)) /\ Step(s, Continue(dl[s]))
       ELSE Throw(s) /\ UNCHANGED files        \* another call has renamed it: ENOENT
    /\ UNCHANGED <<served, out, faults, wiped, overlapped>>

(***************************************************************************)
(* The packets.                                                            *)
(***************************************************************************)
\* Faulty variant of Verified: only the answer's own hash is compared.
SelfConsistent(bytes, r) == bytes \in Version

\* The bytes have the hash that the answer states, and that of the metadata;
\* damaged ones do not, and count as a failure of the gateway.
Verified(bytes, r) == bytes = r.mem.version

\* Faulty variant of GetPacket: the list is written before the packet.
ListFirst(s) ==
    /\ dl[s].at = "next"
    /\ \E i \in dl[s].todo :
         IF Verified(served, dl[s])
         THEN Step(s, AtomicWrite([dl[s] EXCEPT !.mem.list = @ \cup {i}, !.todo = @ \ {i}],
                                  StateJson, "next"))
         ELSE Throw(s)
    /\ UNCHANGED <<files, served, out, faults, wiped, overlapped>>

\* Packets are asked for in ascending order, as downloadImage does.
GetPacket(s) ==
    /\ dl[s].at = "next"
    /\ \E i \in dl[s].todo :
         /\ \A j \in dl[s].todo : i <= j
         /\ \/ /\ Verified(served, dl[s])
               /\ Step(s, AtomicWrite([dl[s] EXCEPT !.got = served], i, "list"))
            \/ ~Verified(served, dl[s]) /\ Throw(s)
    /\ UNCHANGED <<files, served, out, faults, wiped, overlapped>>

\* Transport errors, timeouts, and bytes that do not verify.
GatewayFails(s) ==
    /\ dl[s].at = "metadata" \/ (dl[s].at = "next" /\ dl[s].todo # {})
    /\ faults < MaxFaults /\ faults' = faults + 1
    /\ Throw(s)
    /\ UNCHANGED <<files, served, out, wiped, overlapped>>

PacketsDone(s) ==
    /\ dl[s].at = "next" /\ dl[s].todo = {}
    /\ Step(s, IF dl[s].kind = "packets" THEN Rest("returned") ELSE [dl[s] EXCEPT !.at = "reload"])
    /\ UNCHANGED <<files, served, out, faults, wiped, overlapped>>

(***************************************************************************)
(* downloadImage, after downloadPackets.                                   *)
(***************************************************************************)
\* state.json is read again, and refused when it does not list enough packets.
Reload(s) ==
    /\ dl[s].at = "reload"
    /\ IF Readable /\ Cardinality(OnDisk.list) = PacketCount
       THEN Step(s, [dl[s] EXCEPT !.at = "recompose", !.mem = OnDisk])
       ELSE Throw(s)
    /\ UNCHANGED <<files, served, out, faults, wiped, overlapped>>

\* sharp refuses a tile that is missing or truncated.
Recompose(s) ==
    /\ dl[s].at = "recompose"
    /\ IF \A i \in Packet : files[File(i)].text \notin {NoFile, Torn}
       THEN /\ out' = [out EXCEPT ![s] = [metadata |-> dl[s].mem.version,
                                          tiles |-> {files[File(i)].text : i \in Packet}]]
            /\ Step(s, AtomicWrite([dl[s] EXCEPT !.mem.complete = TRUE], StateJson, "returned"))
       ELSE Throw(s) /\ UNCHANGED out
    /\ UNCHANGED <<files, served, faults, wiped, overlapped>>

(***************************************************************************)
(* The environment: kills, the user, the plugin's operator.                *)
(***************************************************************************)
Kill(s) ==
    /\ Busy(s)
    /\ faults < MaxFaults /\ faults' = faults + 1
    /\ files' = Closed(s)
    /\ Throw(s)
    /\ UNCHANGED <<served, out, wiped, overlapped>>

WipePackets ==
    /\ ~wiped /\ wiped' = TRUE
    /\ faults < MaxFaults /\ faults' = faults + 1
    /\ files' = [n \in Path |-> IF n[1] \in Packet THEN Missing ELSE files[n]]
    /\ UNCHANGED <<served, dl, out, overlapped>>

NewFixture ==
    /\ served < Versions /\ served' = served + 1
    /\ faults < MaxFaults /\ faults' = faults + 1
    /\ UNCHANGED <<files, dl, out, wiped, overlapped>>

\* One step of the code of a call in progress.
Works(s) ==
    \/ ReadState(s) \/ GetMetadata(s) \/ Reconcile(s)
    \/ OpenTmp(s) \/ WriteTmp(s) \/ RenameTmp(s)
    \/ GetPacket(s) \/ PacketsDone(s) \/ Reload(s) \/ Recompose(s)

Disturbed == WipePackets \/ NewFixture \/ \E s \in Session : GatewayFails(s) \/ Kill(s)

ImagerNext ==
    \/ \E s \in Session :
        \/ DownloadImage(s)
        \/ \E i \in Packet : CallStarts(s, "packets", {i})
        \/ Works(s) \/ GatewayFails(s) \/ Kill(s)
    \/ WipePackets \/ NewFixture

ImagerSpec == ImagerInit /\ [][ImagerNext]_imagerVars

\* The code runs, and whoever wants the image calls again after a failure.
ImagerFairSpec ==
    /\ ImagerSpec
    /\ \A s \in Session : /\ WF_imagerVars(Works(s))
                          /\ SF_imagerVars(DownloadImage(s))

(***************************************************************************)
(* Properties.                                                             *)
(***************************************************************************)
Calls ==
    [at : Resting \cup {"ensure", "metadata", "reconcile", "open", "put", "rename",
                        "next", "reload", "recompose"},
     target : Packet \cup {StateJson},
     then : {"", "reconcile", "plan", "list", "next", "returned"},
     kind : {"", "image", "packets"},
     mem : States \cup {Idle}, todo : SUBSET Packet, got : Version \cup {Idle}]

\* Every variable has its type, and every file holds text of its kind.
ImagerTypeOK ==
    /\ DOMAIN files = Path
    /\ \A n \in Path :
        /\ files[n].writers \subseteq Session
        /\ files[n].text \in {NoFile, Torn} \cup (IF n[1] \in Packet THEN Version ELSE States)
    /\ served \in Version
    /\ dl \in [Session -> Calls]
    /\ out \in [Session -> {NoFile} \cup [metadata : Version, tiles : SUBSET Version]]
    /\ faults \in 0 .. MaxFaults
    /\ wiped \in BOOLEAN /\ overlapped \in BOOLEAN

Stored == IF Readable THEN {i \in OnDisk.list : Exists(File(i))} ELSE {}

\* The packet is written before state.json lists it (imager.mjs:170-176): at every
\* cut, what is listed is on disk unless the user removed it, and when calls did
\* not overlap it is whole and is the packet the metadata describes.
ListedIsStored ==
    Readable =>
        /\ ~wiped => OnDisk.list = Stored
        /\ ~overlapped => \A i \in Stored : files[File(i)].text = OnDisk.version

\* An image is composed of the packets of the metadata it is handed over with
\* (pipeline.mjs:84-90 takes the image hash from there), whatever was killed,
\* wiped or replaced at the plugin in between.
ImageIsTheMetadatas ==
    ~overlapped => \A s \in Session : out[s] = NoFile \/ out[s].tiles = {out[s].metadata}

\* From the answer to GetPacket until state.json, with the packet listed, is in place.
Unlisted(r, i) ==
    /\ r.at \in {"open", "put", "rename"}
    /\ \/ r.then = "list" /\ r.target = i
       \/ r.then = "next" /\ i \in r.mem.list /\ ~(Readable /\ i \in OnDisk.list)
Fetched  == {i \in Packet : \E s \in Session : Unlisted(dl[s], i)}
Composed == \E s \in Session : out[s] # NoFile

\* imager.mjs:14-16, 191-195: a call picks up where the last one left off.  A packet that
\* is listed and stored is not downloaded again, by this call or a later one.
Kept == INSTANCE ResumableDownload
        WITH have <- Stored, fetched <- Fetched, composed <- Composed, lost <- wiped
PicksUpWhereItLeftOff == Kept!Spec

\* ORBITALIMAGER_SPEC.md:217: a download that was killed completes when it is called
\* again, provided the plugin goes on serving the same fixture.
DownloadCompletes == [](served = 1) => <>Composed
=============================================================================
