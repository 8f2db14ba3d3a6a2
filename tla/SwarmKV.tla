------------------------------ MODULE SwarmKV ------------------------------
(***************************************************************************)
(* The key-value store of swarm-kv: a feed of updates for every key, one   *)
(* more feed whose latest update is the list of keys, and a cache of that  *)
(* list in the writing process.  Several calls of one writer may be in     *)
(* progress at a time; each is cut where the code awaits the gateway.      *)
(* A request takes effect at the gateway and is answered later; it may     *)
(* fail before it takes effect, or its answer may be lost.                 *)
(***************************************************************************)
EXTENDS Integers, Sequences, FiniteSets

CONSTANTS
    Key,            \* plain keys
    Value,          \* what a key may be set to
    Tombstone,      \* the payload that deletes a key
    Unwritten,      \* the feed of a key that has no update yet
    NoKey,          \* the key of a call that has none
    Cold,           \* an index cache that has not been filled
    Caller,         \* concurrent calls of the writing process
    IndexCapacity,  \* how many keys fit in the 4096 bytes of an update
    MaxUpdates      \* bound: no call begins when the index feed has so many updates

ASSUME KVAssumption ==
    /\ Tombstone \notin Value
    /\ Unwritten \notin Value \cup {Tombstone}
    /\ \A keys \in SUBSET Key : Cold # keys
    /\ NoKey \notin Key
    /\ IndexCapacity \in Nat
    /\ MaxUpdates \in Nat

VARIABLES
    feed,    \* per key, the latest update of its feed
    index,   \* the updates of the index feed
    shown,   \* an index lookup returns this update or a later one
    cache,   \* _indexCache of the writing process
    call,    \* per caller, the call in progress
    told,    \* history: per key, what the last call did if it returned
    ours,    \* history: the keys whose last call returned in this process
    mishaps  \* history: what went wrong so far

kvVars == <<feed, index, shown, cache, call, told, ours, mishaps>>

Stage == {"idle", "value", "valueAccepted", "download", "downloaded", "index", "indexAccepted"}

Calling(kind, key, payload, stage) ==
    [kind |-> kind, key |-> key, payload |-> payload, stage |-> stage, keys |-> {}]

Idle == Calling("none", NoKey, Unwritten, "idle")

(***************************************************************************)
(* What the gateway stores and returns.                                    *)
(***************************************************************************)
IndexAt(i) == IF i = 0 THEN {} ELSE index[i]

\* The keys whose latest update is a value.
LiveKeys == {k \in Key : feed[k] \in Value}

\* What list() of a reader may return.
ReaderLists == {IndexAt(i) : i \in shown .. Len(index)}

Init ==
    /\ feed = [k \in Key |-> Unwritten]
    /\ index = <<>>
    /\ shown = 0
    /\ cache = Cold
    /\ call = [c \in Caller |-> Idle]
    /\ told = [k \in Key |-> "nothing"]
    /\ ours = {}
    /\ mishaps = {}

(***************************************************************************)
(* The calls.                                                              *)
(***************************************************************************)
Busy == {c \in Caller : call[c] # Idle}

Begin(c, newCall) ==
    /\ call[c] = Idle
    /\ Len(index) < MaxUpdates
    /\ call' = [call EXCEPT ![c] = newCall]
    /\ mishaps' = IF Busy = {} THEN mishaps ELSE mishaps \cup {"overlap"}

\* Until a call on a key returns, the caller has been told nothing about it.
Untell(k) ==
    /\ told' = [told EXCEPT ![k] = "nothing"]
    /\ ours' = ours \ {k}

\* Faulty variant of Put: it goes on without having written the value.
PutUnwritten(c, k, v) ==
    /\ Begin(c, Calling("put", k, v, "valueAccepted"))
    /\ Untell(k)
    /\ UNCHANGED <<feed, index, shown, cache>>

\* put, del: send the update of the key's own feed.
Put(c, k, v) ==
    /\ Begin(c, Calling("put", k, v, "value"))
    /\ Untell(k)
    /\ UNCHANGED <<feed, index, shown, cache>>

Del(c, k) ==
    /\ Begin(c, Calling("del", k, Tombstone, "value"))
    /\ Untell(k)
    /\ UNCHANGED <<feed, index, shown, cache>>

\* list: answered from the cache when it is warm, which changes nothing.
List(c) ==
    /\ cache = Cold
    /\ Begin(c, Calling("list", NoKey, Unwritten, "download"))
    /\ UNCHANGED <<feed, index, shown, cache, told, ours>>

Return(c) ==
    /\ call' = [call EXCEPT ![c] = Idle]
    /\ \/ call[c].kind = "list" /\ UNCHANGED <<told, ours>>
       \/ /\ call[c].kind # "list"
          /\ told' = [told EXCEPT ![call[c].key] = call[c].kind]
          /\ ours' = ours \cup {call[c].key}
    /\ UNCHANGED mishaps

Throw(c, mishap) ==
    /\ call' = [call EXCEPT ![c] = Idle]
    /\ mishaps' = mishaps \cup {mishap}
    /\ UNCHANGED <<told, ours>>

Fits(keys) == Cardinality(keys) <= IndexCapacity

\* _writeIndex: refuse a list that does not fit, else send it.
WriteIndex(c, keys) ==
    \/ ~Fits(keys) /\ Throw(c, "failure")
    \/ /\ Fits(keys)
       /\ call' = [call EXCEPT ![c] = [@ EXCEPT !.stage = "index", !.keys = keys]]
       /\ UNCHANGED <<told, ours, mishaps>>

AddToIndex(c, keys) ==
    /\ call[c].kind = "put"
    /\ IF call[c].key \in keys THEN Return(c) ELSE WriteIndex(c, keys \cup {call[c].key})

\* Faulty variant of RemoveFromIndex: the list keeps the key.
KeepInIndex(c, keys) ==
    /\ call[c].kind = "del"
    /\ Return(c)

RemoveFromIndex(c, keys) ==
    /\ call[c].kind = "del"
    /\ IF call[c].key \in keys THEN WriteIndex(c, keys \ {call[c].key}) ELSE Return(c)

\* What the caller does once it has the list of keys.
UseList(c, keys) ==
    \/ AddToIndex(c, keys)
    \/ RemoveFromIndex(c, keys)
    \/ call[c].kind = "list" /\ Return(c)

\* The gateway takes the update of a key, and answers; the list comes next.
AcceptValue(c) ==
    /\ call[c].stage = "value"
    /\ feed' = [feed EXCEPT ![call[c].key] = call[c].payload]
    /\ call' = [call EXCEPT ![c].stage = "valueAccepted"]
    /\ UNCHANGED <<index, shown, cache, told, ours, mishaps>>

ValueWritten(c) ==
    /\ call[c].stage = "valueAccepted"
    /\ \/ cache # Cold /\ UseList(c, cache)
       \/ /\ cache = Cold
          /\ call' = [call EXCEPT ![c].stage = "download"]
          /\ UNCHANGED <<told, ours, mishaps>>
    /\ UNCHANGED <<feed, index, shown, cache>>

\* The gateway returns the list as it was after update i.
Downloads(c, i) ==
    call' = [call EXCEPT ![c] = [@ EXCEPT !.stage = "downloaded", !.keys = IndexAt(i)]]

\* Faulty variant of LookUpIndex: a lookup that fails counts as an empty list.
LookUpIndexOrNothing(c) ==
    /\ call[c].stage = "download"
    /\ \E i \in {0} \cup (shown .. Len(index)) :
          /\ Downloads(c, i)
          /\ mishaps' = IF i \in shown .. Len(index) - 1 THEN mishaps \cup {"lag"} ELSE mishaps
    /\ UNCHANGED <<feed, index, shown, cache, told, ours>>

\* The gateway looks the index up, perhaps finding an old update; the answer
\* fills the cache, whatever has happened to the cache meanwhile.
LookUpIndex(c) ==
    /\ call[c].stage = "download"
    /\ \E i \in shown .. Len(index) :
          /\ Downloads(c, i)
          /\ mishaps' = IF i = Len(index) THEN mishaps ELSE mishaps \cup {"lag"}
    /\ UNCHANGED <<feed, index, shown, cache, told, ours>>

IndexRead(c) ==
    /\ call[c].stage = "downloaded"
    /\ cache' = call[c].keys
    /\ UseList(c, call[c].keys)
    /\ UNCHANGED <<feed, index, shown>>

\* Faulty variant of IndexWritten: the cache is not brought up to date.
IndexWrittenUncached(c) ==
    /\ call[c].stage = "indexAccepted"
    /\ Return(c)
    /\ UNCHANGED <<feed, index, shown, cache>>

\* The gateway takes the index update; its answer sets the cache.
AcceptIndex(c) ==
    /\ call[c].stage = "index"
    /\ index' = Append(index, call[c].keys)
    /\ call' = [call EXCEPT ![c].stage = "indexAccepted"]
    /\ UNCHANGED <<feed, shown, cache, told, ours, mishaps>>

IndexWritten(c) ==
    /\ call[c].stage = "indexAccepted"
    /\ cache' = call[c].keys
    /\ Return(c)
    /\ UNCHANGED <<feed, index, shown>>

\* Faulty variant of RequestFails: the cache was set before the upload.
RequestFailsCached(c) ==
    /\ call[c] # Idle
    /\ Throw(c, "failure")
    /\ cache' = IF call[c].stage = "index" THEN call[c].keys ELSE cache
    /\ UNCHANGED <<feed, index, shown>>

\* A request fails, or its answer is lost: the awaiting call rejects.  When it is
\* the answer to an index update, the cache now differs from what was published.
RequestFails(c) ==
    /\ call[c] # Idle
    /\ Throw(c, IF call[c].stage = "indexAccepted" THEN "lost" ELSE "failure")
    /\ UNCHANGED <<feed, index, shown, cache>>

\* The process ends and another is started with the same key pair.
Restart ==
    /\ cache' = Cold
    /\ call' = [c \in Caller |-> Idle]
    /\ ours' = {}
    /\ mishaps' = IF Busy = {} THEN mishaps ELSE mishaps \cup {"failure"}
    /\ UNCHANGED <<feed, index, shown, told>>

\* The gateway converges: older index updates are no longer returned.
Converge ==
    /\ shown < Len(index)
    /\ shown' = shown + 1
    /\ UNCHANGED <<feed, index, cache, call, told, ours, mishaps>>

Answered(c) ==
    \/ AcceptValue(c)
    \/ ValueWritten(c)
    \/ LookUpIndex(c)
    \/ IndexRead(c)
    \/ AcceptIndex(c)
    \/ IndexWritten(c)

Next ==
    \/ \E c \in Caller :
          \/ \E k \in Key : Del(c, k) \/ \E v \in Value : Put(c, k, v)
          \/ List(c)
          \/ Answered(c)
          \/ RequestFails(c)
    \/ Restart
    \/ Converge

Spec == Init /\ [][Next]_kvVars

-----------------------------------------------------------------------------
(***************************************************************************)
(* Properties.                                                             *)
(***************************************************************************)

\* Every variable has its type, and no index update exceeds the payload limit.
TypeOK ==
    /\ feed \in [Key -> Value \cup {Tombstone, Unwritten}]
    /\ index \in Seq(SUBSET Key)
    /\ \A i \in DOMAIN index : Cardinality(index[i]) <= IndexCapacity
    /\ shown \in 0 .. Len(index)
    /\ cache = Cold \/ cache \in SUBSET Key
    /\ call \in [Caller -> [kind : {"none", "put", "del", "list"}, key : Key \cup {NoKey},
                            payload : Value \cup {Tombstone, Unwritten},
                            stage : Stage, keys : SUBSET Key]]
    /\ told \in [Key -> {"nothing", "put", "del"}]
    /\ ours \subseteq Key
    /\ mishaps \subseteq {"overlap", "failure", "lost", "lag"}

\* No list of keys, published, cached or on its way, names a key whose feed was
\* never written: put writes the value first, whatever fails or overlaps after.
IndexedWasWritten ==
    LET written == {k \in Key : feed[k] # Unwritten} IN
    /\ \A i \in DOMAIN index : index[i] \subseteq written
    /\ cache # Cold => cache \subseteq written
    /\ \A c \in Caller : call[c].keys \subseteq written

\* The cache is always some list the gateway has accepted (or the empty one
\* before the first): a failed or lost index write never leaves it ahead.
CacheWasPublished ==
    cache # Cold => \E i \in 0 .. Len(index) : cache = IndexAt(i)

\* A list that has what the caller of put and del was told of a key.
Agrees(k, keys) ==
    /\ told[k] = "put" => k \in keys
    /\ told[k] = "del" => k \notin keys

\* As long as its calls do not overlap, the writer's own list agrees with the calls
\* that have returned to it: with those of this process in spite of gateway lag,
\* failures and lost answers (the comment on _indexCache), and with those of earlier
\* processes unless some lookup was stale or the answer to an index update was lost.
OwnListIsAuthoritative ==
    "overlap" \notin mishaps /\ cache # Cold =>
        \A k \in Key : k \in ours \/ mishaps \cap {"lag", "lost"} = {} => Agrees(k, cache)

\* When nothing has gone wrong, no call is in progress and the gateway has
\* converged, every reader's list is exactly the live keys (the header of
\* swarm-kv/src/index.js on the index feed).
LiveKeysAreListed ==
    mishaps = {} /\ Busy = {} /\ shown = Len(index) => ReaderLists = {LiveKeys}

\* The README's "a single owner writing from a single process is safe": a key
\* whose put has returned is in the writer's own list.
SingleProcessIsSafe ==
    cache # Cold => \A k \in Key : told[k] = "put" => k \in cache
=============================================================================
