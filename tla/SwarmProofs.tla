---------------------------- MODULE SwarmProofs ----------------------------
(***************************************************************************)
(* Proofs about the two Swarm libraries, which share nothing: SwarmKV, for *)
(* any number of keys, values and concurrent calls, any payload limit and  *)
(* any gateway lag; and VerifiedFetch, for any keys, identifiers and       *)
(* contents.                                                               *)
(***************************************************************************)
EXTENDS SwarmKV, VerifiedFetch, TLAPS

(***************************************************************************)
(* The key-value store.                                                    *)
(***************************************************************************)
CallType == [kind : {"none", "put", "del", "list"}, key : Key \cup {NoKey},
             payload : Value \cup {Tombstone, Unwritten},
             stage : Stage, keys : SUBSET Key]

\* What a call in progress looks like, stage by stage.
CallFits(c) ==
    /\ call[c].kind \in {"put", "del"} => call[c].key \in Key
    /\ call[c].kind = "none" <=> call[c] = Idle
    /\ call[c].stage = "idle" <=> call[c] = Idle
    /\ call[c].stage \in {"value", "valueAccepted", "index", "indexAccepted"} =>
          call[c].kind \in {"put", "del"}
    /\ call[c].stage = "value" => call[c].payload # Unwritten
    /\ call[c].stage \in {"index", "indexAccepted"} => Cardinality(call[c].keys) <= IndexCapacity

\* A put goes near the index only after its value was accepted.
WroteFirst(c) ==
    call[c].kind = "put" /\ call[c].stage # "value" => feed[call[c].key] # Unwritten

\* What a call got from the index feed, or put there, is an update of it.
KeysPublished(c) ==
    call[c].stage \in {"downloaded", "indexAccepted"} =>
        \E i \in 0 .. Len(index) : call[c].keys = IndexAt(i)

KVCore ==
    /\ TypeOK
    /\ \A c \in Caller : CallFits(c) /\ WroteFirst(c) /\ KeysPublished(c)
    /\ IndexedWasWritten
    /\ CacheWasPublished

LEMMA IdleIsACall == Idle \in CallType /\ Idle.keys = {} /\ Idle.kind = "none" /\ Idle.stage = "idle"
  BY DEF Idle, Calling, CallType, Stage

LEMMA KVInitCore == Init => KVCore
  <1> SUFFICES ASSUME Init PROVE KVCore
    OBVIOUS
  <1> USE IdleIsACall, KVAssumption
  <1>1. \A c \in Caller : call[c] = Idle
    BY DEF Init
  <1>2. TypeOK
    BY DEF Init, TypeOK, CallType
  <1>3. \A c \in Caller : CallFits(c) /\ WroteFirst(c) /\ KeysPublished(c)
    BY <1>1 DEF CallFits, WroteFirst, KeysPublished
  <1>4. IndexedWasWritten /\ CacheWasPublished
    BY <1>1 DEF Init, IndexedWasWritten, CacheWasPublished
  <1> QED
    BY <1>2, <1>3, <1>4 DEF KVCore

Written == {k \in Key : feed[k] # Unwritten}

\* The index feed grows by what a call has sent, if at all.
IndexGrows(c) ==
    \/ index' = index
    \/ call[c].stage = "index" /\ index' = Append(index, call[c].keys)

LEMMA IndexAtGrows ==
  ASSUME KVCore, NEW c \in Caller, IndexGrows(c)
  PROVE  /\ index' \in Seq(SUBSET Key)
         /\ \A i \in DOMAIN index' : Cardinality(index'[i]) <= IndexCapacity
         /\ Len(index) \in Nat /\ Len(index') \in Nat
         /\ Len(index) <= Len(index')
         /\ \A i \in 0 .. Len(index) : IndexAt(i)' = IndexAt(i)
         /\ \A i \in DOMAIN index' : index'[i] \subseteq Written
  <1> USE DEF KVCore, TypeOK, IndexAt, CallFits, Written, IndexedWasWritten
  <1>1. CASE index' = index
    BY <1>1
  <1>2. CASE call[c].stage = "index" /\ index' = Append(index, call[c].keys)
    <2>1. call[c].keys \in SUBSET Key /\ call[c].keys \subseteq Written
          /\ Cardinality(call[c].keys) <= IndexCapacity
      BY <1>2
    <2>2. index \in Seq(SUBSET Key) /\ Len(index') = Len(index) + 1
          /\ index'[Len(index) + 1] = call[c].keys
          /\ \A i \in 1 .. Len(index) : index'[i] = index[i]
      BY <1>2, <2>1
    <2> QED
      BY <1>2, <2>1, <2>2
  <1> QED
    BY <1>1, <1>2 DEF IndexGrows

\* A step that changes one call keeps the invariant if it keeps it for that call.
LEMMA OneCall ==
  ASSUME KVCore, NEW c \in Caller, NEW new \in CallType,
         call' = [call EXCEPT ![c] = new],
         feed' \in [Key -> Value \cup {Tombstone, Unwritten}],
         \A k \in Key : feed[k] # Unwritten => feed'[k] # Unwritten,
         IndexGrows(c),
         shown' = shown,
         \/ cache' = cache
         \/ call[c].stage \in {"downloaded", "indexAccepted"} /\ cache' = call[c].keys,
         told' \in [Key -> {"nothing", "put", "del"}], ours' \subseteq Key,
         mishaps' \subseteq {"overlap", "failure", "lost", "lag"},
         CallFits(c)', WroteFirst(c)', KeysPublished(c)',
         new.keys \subseteq Written'
  PROVE  KVCore'
  <1> call \in [Caller -> CallType]
    BY DEF KVCore, TypeOK, CallType
  <1>1. /\ call'[c] = new
        /\ \A d \in Caller \ {c} : call'[d] = call[d]
        /\ call' \in [Caller -> CallType]
    OBVIOUS
  <1>2. Written \subseteq Written'
    BY DEF Written
  <1>3. \A i \in 0 .. Len(index) : i \in 0 .. Len(index') /\ IndexAt(i)' = IndexAt(i)
    BY IndexAtGrows
  <1>4. \A d \in Caller : (CallFits(d) /\ WroteFirst(d) /\ KeysPublished(d))'
    <2> SUFFICES ASSUME NEW d \in Caller \ {c}
                 PROVE  (CallFits(d) /\ WroteFirst(d) /\ KeysPublished(d))'
      OBVIOUS
    <2>1. CallFits(d) /\ WroteFirst(d) /\ KeysPublished(d)
      BY DEF KVCore
    <2>2. CallFits(d)'
      BY <1>1, <2>1 DEF CallFits
    <2>3. WroteFirst(d)'
      BY <1>1, <2>1 DEF WroteFirst, KVCore, CallFits
    <2>4. KeysPublished(d)'
      BY <1>1, <1>3, <2>1 DEF KeysPublished
    <2> QED
      BY <2>2, <2>3, <2>4
  <1>5. IndexedWasWritten'
    <2>1. \A i \in DOMAIN index' : index'[i] \subseteq Written'
      BY <1>2, IndexAtGrows
    <2>2. cache' # Cold => cache' \subseteq Written'
      BY <1>2 DEF KVCore, IndexedWasWritten, Written
    <2>3. \A d \in Caller : call'[d].keys \subseteq Written'
      BY <1>1, <1>2 DEF KVCore, IndexedWasWritten, Written
    <2> QED
      BY <2>1, <2>2, <2>3 DEF IndexedWasWritten, Written
  <1>6. CacheWasPublished'
    <2>1. CASE cache' = cache
      BY <2>1, <1>3 DEF KVCore, CacheWasPublished
    <2>2. CASE call[c].stage \in {"downloaded", "indexAccepted"} /\ cache' = call[c].keys
      <3>1. PICK i \in 0 .. Len(index) : call[c].keys = IndexAt(i)
        BY <2>2 DEF KVCore, KeysPublished
      <3> QED
        BY <2>2, <3>1, <1>3 DEF CacheWasPublished
    <2> QED
      BY <2>1, <2>2
  <1>7. TypeOK'
    <2>1. shown' \in 0 .. Len(index')
      BY IndexAtGrows DEF KVCore, TypeOK
    <2>2. cache' = Cold \/ cache' \in SUBSET Key
      BY DEF KVCore, TypeOK
    <2>3. index' \in Seq(SUBSET Key) /\ \A i \in DOMAIN index' : Cardinality(index'[i]) <= IndexCapacity
      BY IndexAtGrows
    <2> QED
      BY <1>1, <2>1, <2>2, <2>3 DEF TypeOK, CallType
  <1> QED
    BY <1>4, <1>5, <1>6, <1>7 DEF KVCore

LEMMA BeginStep ==
  ASSUME KVCore, NEW c \in Caller, NEW new \in CallType, Begin(c, new),
         new.kind # "none", new.stage \in {"value", "download"}, new.keys = {},
         new.kind \in {"put", "del"} => /\ new.stage = "value" /\ new.key \in Key
                                        /\ new.payload # Unwritten,
         new.kind = "list" => new.stage = "download",
         told' \in [Key -> {"nothing", "put", "del"}], ours' \subseteq Key,
         UNCHANGED <<feed, index, shown, cache>>
  PROVE  KVCore'
  <1> call \in [Caller -> CallType]
    BY DEF KVCore, TypeOK, CallType
  <1> call'[c] = new
    BY DEF Begin
  <1>1. new # Idle
    BY IdleIsACall
  <1>2. new.kind \in {"put", "del", "list"}
    BY DEF CallType
  <1>3. (CallFits(c) /\ WroteFirst(c) /\ KeysPublished(c))'
    BY <1>1, <1>2 DEF CallFits, WroteFirst, KeysPublished
  <1>4. mishaps' \subseteq {"overlap", "failure", "lost", "lag"}
    BY DEF Begin, KVCore, TypeOK
  <1> QED
    BY <1>3, <1>4, OneCall DEF Begin, IndexGrows, KVCore, TypeOK

LEMMA CallsBegin ==
  ASSUME KVCore, NEW c \in Caller, NEW k \in Key,
         Del(c, k) \/ \E v \in Value : Put(c, k, v)
  PROVE  KVCore'
  <1> USE KVAssumption
  <1>1. CASE Del(c, k)
    <2> DEFINE new == Calling("del", k, Tombstone, "value")
    <2>1. new \in CallType /\ new.kind = "del" /\ new.stage = "value" /\ new.keys = {}
          /\ new.key = k /\ new.payload = Tombstone
      BY DEF CallType, Calling, Stage
    <2> HIDE DEF new
    <2> QED
      BY <1>1, <2>1, BeginStep DEF Del, Untell, new, KVCore, TypeOK
  <1>2. ASSUME NEW v \in Value, Put(c, k, v) PROVE KVCore'
    <2> DEFINE new == Calling("put", k, v, "value")
    <2>1. new \in CallType /\ new.kind = "put" /\ new.stage = "value" /\ new.keys = {}
          /\ new.key = k /\ new.payload = v
      BY DEF CallType, Calling, Stage
    <2> HIDE DEF new
    <2> QED
      BY <1>2, <2>1, BeginStep DEF Put, Untell, new, KVCore, TypeOK
  <1> QED
    BY <1>1, <1>2

LEMMA ListStep ==
  ASSUME KVCore, NEW c \in Caller, List(c) PROVE KVCore'
  <1> DEFINE new == Calling("list", NoKey, Unwritten, "download")
  <1>1. new \in CallType /\ new.kind = "list" /\ new.stage = "download" /\ new.keys = {}
    BY DEF CallType, Calling, Stage
  <1> HIDE DEF new
  <1> QED
    BY <1>1, BeginStep DEF List, new, KVCore, TypeOK

Throws(c) == \E mishap \in {"failure", "lost"} : Throw(c, mishap)

\* A call that ends, with a result or an exception, leaves nothing behind.
LEMMA EndStep ==
  ASSUME KVCore, NEW c \in Caller, call[c] # Idle,
         Return(c) \/ Throws(c),
         UNCHANGED <<feed, index, shown>>,
         \/ cache' = cache
         \/ call[c].stage \in {"downloaded", "indexAccepted"} /\ cache' = call[c].keys
  PROVE  KVCore'
  <1> call \in [Caller -> CallType]
    BY DEF KVCore, TypeOK, CallType
  <1>1. call' = [call EXCEPT ![c] = Idle] /\ call'[c] = Idle
    BY DEF Return, Throws, Throw
  <1>2. told' \in [Key -> {"nothing", "put", "del"}] /\ ours' \subseteq Key
    BY DEF Return, Throws, Throw, KVCore, TypeOK, CallFits, CallType
  <1>3. mishaps' \subseteq {"overlap", "failure", "lost", "lag"}
    BY DEF Return, Throws, Throw, KVCore, TypeOK
  <1>4. (CallFits(c) /\ WroteFirst(c) /\ KeysPublished(c))'
    BY <1>1, IdleIsACall DEF CallFits, WroteFirst, KeysPublished
  <1> QED
    BY <1>1, <1>2, <1>3, <1>4, IdleIsACall, OneCall DEF IndexGrows, KVCore, TypeOK

\* A call that goes on to write the index with a list of written keys.
LEMMA WriteIndexStep ==
  ASSUME KVCore, NEW c \in Caller, call[c].kind \in {"put", "del"}, WroteFirst(c),
         call[c].stage # "value",
         NEW keys \in SUBSET Key, keys \subseteq Written,
         WriteIndex(c, keys),
         UNCHANGED <<feed, index, shown>>,
         \/ cache' = cache
         \/ call[c].stage \in {"downloaded", "indexAccepted"} /\ cache' = call[c].keys
  PROVE  KVCore'
  <1> call \in [Caller -> CallType]
    BY DEF KVCore, TypeOK, CallType
  <1>1. CASE Throws(c)
    BY <1>1, EndStep, IdleIsACall
  <1>2. CASE /\ Fits(keys)
             /\ call' = [call EXCEPT ![c] = [@ EXCEPT !.stage = "index", !.keys = keys]]
             /\ UNCHANGED <<told, ours, mishaps>>
    <2> DEFINE new == [call[c] EXCEPT !.stage = "index", !.keys = keys]
    <2>1. /\ new \in CallType /\ new.kind = call[c].kind /\ new.key = call[c].key
          /\ new.stage = "index" /\ new.keys = keys
      BY DEF CallType, Stage
    <2>2. call' = [call EXCEPT ![c] = new] /\ call'[c] = new
      BY <1>2
    <2> HIDE DEF new
    <2>3. CallFits(c)'
      BY <1>2, <2>1, <2>2, IdleIsACall DEF CallFits, KVCore, Fits
    <2>4. WroteFirst(c)' /\ KeysPublished(c)'
      BY <2>1, <2>2 DEF WroteFirst, KeysPublished
    <2>5. Written' = Written
      BY DEF Written
    <2> QED
      BY <1>2, <2>1, <2>2, <2>3, <2>4, <2>5, OneCall DEF IndexGrows, KVCore, TypeOK
  <1> QED
    BY <1>1, <1>2 DEF WriteIndex, Throws

LEMMA UseListStep ==
  ASSUME KVCore, NEW c \in Caller, call[c].stage \in {"valueAccepted", "downloaded"},
         NEW keys \in SUBSET Key, keys \subseteq Written,
         UseList(c, keys),
         UNCHANGED <<feed, index, shown>>,
         cache' = cache \/ (call[c].stage = "downloaded" /\ cache' = call[c].keys)
  PROVE  KVCore'
  <1>1. call[c] # Idle /\ call[c].stage # "value"
    BY IdleIsACall
  <1>2. WroteFirst(c) /\ CallFits(c)
    BY DEF KVCore
  <1>3. CASE Return(c)
    BY <1>1, <1>3, EndStep
  <1>4. CASE call[c].kind = "put" /\ WriteIndex(c, keys \cup {call[c].key})
    <2>1. keys \cup {call[c].key} \in SUBSET Key /\ keys \cup {call[c].key} \subseteq Written
      BY <1>1, <1>2, <1>4 DEF WroteFirst, CallFits, Written
    <2> QED
      BY <1>1, <1>2, <1>4, <2>1, WriteIndexStep
  <1>5. CASE call[c].kind = "del" /\ WriteIndex(c, keys \ {call[c].key})
    BY <1>1, <1>2, <1>5, WriteIndexStep
  <1> QED
    BY <1>3, <1>4, <1>5 DEF UseList, AddToIndex, RemoveFromIndex

LEMMA AcceptValueStep ==
  ASSUME KVCore, NEW c \in Caller, AcceptValue(c) PROVE KVCore'
  <1> call \in [Caller -> CallType] /\ feed \in [Key -> Value \cup {Tombstone, Unwritten}]
    BY DEF KVCore, TypeOK, CallType
  <1> DEFINE new == [call[c] EXCEPT !.stage = "valueAccepted"]
  <1>1. /\ new \in CallType /\ new.kind = call[c].kind /\ new.key = call[c].key
        /\ new.stage = "valueAccepted" /\ new.keys = call[c].keys
    BY DEF CallType, Stage
  <1>2. call' = [call EXCEPT ![c] = new] /\ call'[c] = new
    BY DEF AcceptValue
  <1> HIDE DEF new
  <1>3. call[c].key \in Key /\ call[c].kind \in {"put", "del"} /\ call[c].payload # Unwritten
        /\ call[c].payload \in Value \cup {Tombstone, Unwritten}
    BY DEF AcceptValue, KVCore, CallFits, CallType
  <1>4. /\ feed' \in [Key -> Value \cup {Tombstone, Unwritten}]
        /\ feed'[call[c].key] # Unwritten
        /\ \A k \in Key : feed[k] # Unwritten => feed'[k] # Unwritten
    BY <1>3 DEF AcceptValue
  <1>5. CallFits(c)'
    BY <1>1, <1>2, <1>3, IdleIsACall DEF CallFits
  <1>6. WroteFirst(c)' /\ KeysPublished(c)'
    BY <1>1, <1>2, <1>4 DEF WroteFirst, KeysPublished
  <1>7. new.keys \subseteq Written'
    BY <1>1, <1>4 DEF KVCore, IndexedWasWritten, Written, CallType
  <1> QED
    BY <1>1, <1>2, <1>4, <1>5, <1>6, <1>7, OneCall DEF AcceptValue, IndexGrows, KVCore, TypeOK

LEMMA ValueWrittenStep ==
  ASSUME KVCore, NEW c \in Caller, ValueWritten(c) PROVE KVCore'
  <1> call \in [Caller -> CallType]
    BY DEF KVCore, TypeOK, CallType
  <1>1. CASE cache # Cold /\ UseList(c, cache)
    <2>1. cache \in SUBSET Key /\ cache \subseteq Written
      BY <1>1 DEF KVCore, TypeOK, IndexedWasWritten, Written
    <2>2. PICK keys \in SUBSET Key : keys = cache
      BY <2>1
    <2>3. keys \subseteq Written /\ UseList(c, keys)
      BY <1>1, <2>1, <2>2 DEF UseList, AddToIndex, RemoveFromIndex, WriteIndex, Return, Throw
    <2>4. call[c].stage \in {"valueAccepted", "downloaded"}
      BY DEF ValueWritten
    <2>5. UNCHANGED <<feed, index, shown, cache>>
      BY DEF ValueWritten
    <2>6. cache' = cache \/ (call[c].stage = "downloaded" /\ cache' = call[c].keys)
      BY <2>5
    <2>7. UNCHANGED <<feed, index, shown>>
      BY <2>5
    <2> QED
      BY <2>3, <2>4, <2>6, <2>7, UseListStep
  <1>2. CASE call' = [call EXCEPT ![c].stage = "download"] /\ UNCHANGED <<told, ours, mishaps>>
    <2> DEFINE new == [call[c] EXCEPT !.stage = "download"]
    <2>1. /\ new \in CallType /\ new.kind = call[c].kind /\ new.key = call[c].key
          /\ new.stage = "download" /\ new.keys = call[c].keys
      BY DEF CallType, Stage
    <2>2. call' = [call EXCEPT ![c] = new] /\ call'[c] = new
      BY <1>2
    <2> HIDE DEF new
    <2>3. CallFits(c)' /\ WroteFirst(c)' /\ KeysPublished(c)'
      BY <2>1, <2>2, IdleIsACall
      DEF ValueWritten, KVCore, CallFits, WroteFirst, KeysPublished
    <2>4. new.keys \subseteq Written' /\ Written' = Written
      BY <2>1 DEF ValueWritten, KVCore, IndexedWasWritten, Written, CallType
    <2> QED
      BY <1>2, <2>1, <2>2, <2>3, <2>4, OneCall DEF ValueWritten, IndexGrows, KVCore, TypeOK
  <1> QED
    BY <1>1, <1>2 DEF ValueWritten

LEMMA LookUpStep ==
  ASSUME KVCore, NEW c \in Caller, LookUpIndex(c) PROVE KVCore'
  <1> call \in [Caller -> CallType]
    BY DEF KVCore, TypeOK, CallType
  <1>1. PICK i \in shown .. Len(index) :
          /\ call' = [call EXCEPT ![c] = [@ EXCEPT !.stage = "downloaded", !.keys = IndexAt(i)]]
          /\ mishaps' = IF i = Len(index) THEN mishaps ELSE mishaps \cup {"lag"}
    BY DEF LookUpIndex, Downloads
  <1>2. i \in 0 .. Len(index)
    BY DEF KVCore, TypeOK
  <1>3. IndexAt(i) \in SUBSET Key /\ IndexAt(i) \subseteq Written
    BY <1>2 DEF KVCore, TypeOK, IndexAt, IndexedWasWritten, Written
  <1> DEFINE new == [call[c] EXCEPT !.stage = "downloaded", !.keys = IndexAt(i)]
  <1>4. /\ new \in CallType /\ new.kind = call[c].kind /\ new.key = call[c].key
        /\ new.stage = "downloaded" /\ new.keys = IndexAt(i)
    BY <1>3 DEF CallType, Stage
  <1>5. call' = [call EXCEPT ![c] = new] /\ call'[c] = new
    BY <1>1
  <1> HIDE DEF new
  <1>6. CallFits(c)' /\ WroteFirst(c)'
    BY <1>4, <1>5, IdleIsACall DEF LookUpIndex, KVCore, CallFits, WroteFirst
  <1>7. KeysPublished(c)'
    BY <1>2, <1>4, <1>5 DEF KeysPublished, LookUpIndex, IndexAt
  <1>8. Written' = Written
    BY DEF LookUpIndex, Written
  <1>9. mishaps' \subseteq {"overlap", "failure", "lost", "lag"}
    BY <1>1 DEF KVCore, TypeOK
  <1>10. /\ UNCHANGED <<feed, index, shown, cache>>
         /\ feed' \in [Key -> Value \cup {Tombstone, Unwritten}]
         /\ told' \in [Key -> {"nothing", "put", "del"}] /\ ours' \subseteq Key
    BY DEF LookUpIndex, KVCore, TypeOK
  <1> QED
    BY <1>3, <1>4, <1>5, <1>6, <1>7, <1>8, <1>9, <1>10, OneCall DEF IndexGrows

LEMMA IndexReadStep ==
  ASSUME KVCore, NEW c \in Caller, IndexRead(c) PROVE KVCore'
  <1>1. call[c].keys \in SUBSET Key /\ call[c].keys \subseteq Written
    BY DEF KVCore, TypeOK, IndexedWasWritten, Written
  <1> QED
    BY <1>1, UseListStep DEF IndexRead

LEMMA AcceptIndexStep ==
  ASSUME KVCore, NEW c \in Caller, AcceptIndex(c) PROVE KVCore'
  <1> call \in [Caller -> CallType] /\ index \in Seq(SUBSET Key) /\ call[c].keys \in SUBSET Key
    BY DEF KVCore, TypeOK, CallType
  <1> DEFINE new == [call[c] EXCEPT !.stage = "indexAccepted"]
  <1>1. /\ new \in CallType /\ new.kind = call[c].kind /\ new.key = call[c].key
        /\ new.stage = "indexAccepted" /\ new.keys = call[c].keys
    BY DEF CallType, Stage
  <1>2. call' = [call EXCEPT ![c] = new] /\ call'[c] = new
    BY DEF AcceptIndex
  <1> HIDE DEF new
  <1>3. CallFits(c)' /\ WroteFirst(c)'
    BY <1>1, <1>2, IdleIsACall DEF AcceptIndex, KVCore, CallFits, WroteFirst
  <1>4. KeysPublished(c)'
    <2> DEFINE n == Len(index)
    <2>1. /\ n \in Nat /\ Len(index') = n + 1
          /\ index'[n + 1] = call[c].keys
      BY DEF AcceptIndex
    <2>2. Len(index') \in 0 .. Len(index') /\ Len(index') # 0 /\ index'[Len(index')] = call[c].keys
      BY <2>1
    <2> HIDE DEF n
    <2>3. \E i \in 0 .. Len(index') : call'[c].keys = IF i = 0 THEN {} ELSE index'[i]
      BY <1>1, <1>2, <2>2
    <2> QED
      BY <2>3 DEF KeysPublished, IndexAt
  <1>5. new.keys \subseteq Written' /\ Written' = Written
    BY <1>1 DEF AcceptIndex, KVCore, IndexedWasWritten, Written, CallType
  <1> QED
    BY <1>1, <1>2, <1>3, <1>4, <1>5, OneCall DEF AcceptIndex, IndexGrows, KVCore, TypeOK

LEMMA RestartStep == KVCore /\ Restart => KVCore'
  <1> SUFFICES ASSUME KVCore, Restart PROVE KVCore'
    OBVIOUS
  <1> USE IdleIsACall
  <1>1. \A c \in Caller : call'[c] = Idle
    BY DEF Restart
  <1>2. TypeOK'
    BY DEF Restart, KVCore, TypeOK, CallType
  <1>3. \A c \in Caller : (CallFits(c) /\ WroteFirst(c) /\ KeysPublished(c))'
    BY <1>1 DEF CallFits, WroteFirst, KeysPublished
  <1>4. IndexedWasWritten' /\ CacheWasPublished'
    BY <1>1 DEF Restart, KVCore, IndexedWasWritten, CacheWasPublished
  <1> QED
    BY <1>2, <1>3, <1>4 DEF KVCore

LEMMA ConvergeStep == KVCore /\ Converge => KVCore'
  <1> SUFFICES ASSUME KVCore, Converge PROVE KVCore'
    OBVIOUS
  <1>1. TypeOK'
    BY DEF Converge, KVCore, TypeOK
  <1>2. \A c \in Caller : (CallFits(c) /\ WroteFirst(c) /\ KeysPublished(c))'
    BY DEF Converge, KVCore, CallFits, WroteFirst, KeysPublished, IndexAt
  <1>3. IndexedWasWritten' /\ CacheWasPublished'
    BY DEF Converge, KVCore, IndexedWasWritten, CacheWasPublished, IndexAt
  <1> QED
    BY <1>1, <1>2, <1>3 DEF KVCore

LEMMA AnsweredStep ==
  ASSUME KVCore, NEW c \in Caller, Answered(c) \/ RequestFails(c) PROVE KVCore'
  <1>1. CASE IndexWritten(c)
    BY <1>1, EndStep, IdleIsACall DEF IndexWritten
  <1>2. CASE RequestFails(c)
    BY <1>2, EndStep DEF RequestFails, Throws
  <1> QED
    BY <1>1, <1>2, AcceptValueStep, ValueWrittenStep, LookUpStep, IndexReadStep, AcceptIndexStep
    DEF Answered

LEMMA KVNextCore == KVCore /\ [Next]_kvVars => KVCore'
  <1> SUFFICES ASSUME KVCore, [Next]_kvVars PROVE KVCore'
    OBVIOUS
  <1>1. CASE UNCHANGED kvVars
    BY <1>1 DEF kvVars, KVCore, TypeOK, CallFits, WroteFirst, KeysPublished,
                IndexedWasWritten, CacheWasPublished, IndexAt
  <1>2. ASSUME NEW c \in Caller, NEW k \in Key, Del(c, k) \/ \E v \in Value : Put(c, k, v)
        PROVE  KVCore'
    BY <1>2, CallsBegin
  <1>3. ASSUME NEW c \in Caller, List(c) PROVE KVCore'
    BY <1>3, ListStep
  <1> QED
    BY <1>1, <1>2, <1>3, AnsweredStep, RestartStep, ConvergeStep DEF Next

\* The inductive invariant of the key-value store.
THEOREM KVInvariant == Spec => []KVCore
  <1> QED
    BY KVInitCore, KVNextCore, PTL DEF Spec

\* No variable leaves its type, and no index update ever exceeds the payload
\* limit, however many calls overlap.
THEOREM KVTypeCorrect == Spec => []TypeOK
  <1>1. KVCore => TypeOK
    BY DEF KVCore
  <1> QED
    BY <1>1, KVInvariant, PTL

\* Whatever fails, overlaps, lags or restarts, no list of keys names a key
\* that was never written.
THEOREM ListedKeysWereWritten == Spec => []IndexedWasWritten
  <1>1. KVCore => IndexedWasWritten
    BY DEF KVCore
  <1> QED
    BY <1>1, KVInvariant, PTL

\* The cache is never ahead of the gateway.
THEOREM CacheIsNeverAhead == Spec => []CacheWasPublished
  <1>1. KVCore => CacheWasPublished
    BY DEF KVCore
  <1> QED
    BY <1>1, KVInvariant, PTL

-----------------------------------------------------------------------------
(***************************************************************************)
(* The list the writer keeps, and the list its readers get.  The argument  *)
(* follows the one call that can be in progress while calls do not         *)
(* overlap, from the download of the list to the answer that sets the      *)
(* cache.                                                                  *)
(***************************************************************************)

\* What readers get once the gateway has converged.
Latest == IndexAt(Len(index))

\* The payload of a call is that of its kind.
PayloadFits(c) ==
    /\ call[c].kind = "put" => call[c].payload \in Value
    /\ call[c].kind = "del" => call[c].payload = Tombstone

\* No call of this process has returned before the cache is first filled.
ColdKnowsNothing == cache = Cold => ours = {}

\* The cache agrees with the calls of this process that have returned.
OwnKeysAgree ==
    "overlap" \notin mishaps /\ cache # Cold => \A k \in ours : Agrees(k, cache)

\* A call that runs alone downloads only into a cold cache, and publishes the
\* cached list with its own key added or removed.
UsesCache(c) ==
    /\ call[c].stage \in {"download", "downloaded"} => cache = Cold
    /\ call[c].stage \in {"index", "indexAccepted"} =>
         /\ cache # Cold
         /\ call[c].kind = "put" => call[c].keys = cache \cup {call[c].key}
         /\ call[c].kind = "del" => call[c].keys = cache \ {call[c].key}

\* The value is at the gateway, the list perhaps not yet.
Recorded(c) == call[c].kind \in {"put", "del"} /\ call[c].stage # "value"

\* Between calls the list, the cache and the feeds agree.
Settled ==
    /\ Latest = LiveKeys
    /\ cache # Cold => cache = Latest

\* While one call is in progress, and nothing has gone wrong, they differ by
\* that call's key at most.
Smooth(c) ==
    /\ Recorded(c) => /\ Latest \ {call[c].key} = LiveKeys \ {call[c].key}
                      /\ call[c].key \in LiveKeys <=> call[c].kind = "put"
    /\ ~Recorded(c) => Latest = LiveKeys
    /\ call[c].stage \in {"downloaded", "indexAccepted"} => call[c].keys = Latest
    /\ call[c].stage \in {"index", "indexAccepted"} => call[c].keys = LiveKeys
    /\ cache # Cold /\ call[c].stage # "indexAccepted" => cache = Latest

KVOwn ==
    /\ \A c \in Caller : PayloadFits(c)
    /\ ColdKnowsNothing
    /\ "overlap" \notin mishaps =>
         /\ \A c, d \in Busy : c = d
         /\ \A c \in Busy : UsesCache(c)
    /\ OwnKeysAgree
    /\ mishaps = {} => /\ Busy = {} => Settled
                       /\ \A c \in Busy : Smooth(c)

LEMMA KVInitOwn == Init => KVOwn
  <1> SUFFICES ASSUME Init PROVE KVOwn
    OBVIOUS
  <1>1. Busy = {}
    BY DEF Init, Busy
  <1>2. LiveKeys = {} /\ Latest = {}
    BY KVAssumption DEF Init, LiveKeys, Latest, IndexAt
  <1>3. \A c \in Caller : PayloadFits(c)
    BY IdleIsACall DEF Init, PayloadFits
  <1> QED
    BY <1>1, <1>2, <1>3 DEF Init, KVOwn, ColdKnowsNothing, Settled, OwnKeysAgree, Agrees

\* What has to be shown of a step of one call, which is alone if no calls
\* overlap.
LEMMA OneOwnCall ==
  ASSUME KVCore, KVOwn, NEW c \in Caller, NEW new \in CallType,
         call' = [call EXCEPT ![c] = new],
         mishaps \subseteq mishaps',
         "overlap" \notin mishaps' => Busy \subseteq {c},
         PayloadFits(c)', ColdKnowsNothing',
         "overlap" \notin mishaps' => UsesCache(c)' /\ OwnKeysAgree',
         mishaps' = {} => IF new = Idle THEN Settled' ELSE Smooth(c)'
  PROVE  KVOwn'
  <1> call \in [Caller -> CallType]
    BY DEF KVCore, TypeOK, CallType
  <1>1. call'[c] = new /\ \A d \in Caller \ {c} : call'[d] = call[d]
    OBVIOUS
  <1>2. \A d \in Caller : PayloadFits(d)'
    BY <1>1 DEF KVOwn, PayloadFits
  <1>3. "overlap" \notin mishaps' => Busy' \subseteq {c}
    BY <1>1 DEF Busy
  <1>4. OwnKeysAgree'
    BY DEF OwnKeysAgree, Agrees
  <1>5. ASSUME mishaps' = {}
        PROVE  (Busy' = {} => Settled') /\ \A d \in Busy' : Smooth(d)'
    <2>1. Busy' \subseteq {c} /\ (c \in Busy' <=> new # Idle)
      BY <1>1, <1>3, <1>5 DEF Busy
    <2> QED
      BY <1>5, <2>1
  <1>6. ASSUME "overlap" \notin mishaps'
        PROVE  (\A d, e \in Busy' : d = e) /\ \A d \in Busy' : UsesCache(d)'
    BY <1>3, <1>6
  <1> QED
    BY <1>2, <1>4, <1>5, <1>6 DEF KVOwn

\* What the invariant says of a call in progress that is the only one.
LEMMA BusyCall ==
  ASSUME KVCore, KVOwn, NEW c \in Caller, call[c] # Idle
  PROVE  /\ c \in Busy
         /\ "overlap" \notin mishaps => Busy = {c} /\ UsesCache(c)
         /\ mishaps = {} => Smooth(c) /\ UsesCache(c)
  BY DEF KVOwn, Busy

\* A call that begins leaves the lists alone.
LEMMA BeginOwn ==
  ASSUME KVCore, KVOwn, NEW c \in Caller, NEW new \in CallType, Begin(c, new),
         new # Idle, new.stage \in {"value", "download"},
         new.stage = "download" => cache = Cold /\ new.kind \notin {"put", "del"},
         new.kind = "put" => new.payload \in Value,
         new.kind = "del" => new.payload = Tombstone,
         \A k \in Key : told'[k] = told[k] \/ told'[k] = "nothing",
         ours' \subseteq ours,
         UNCHANGED <<feed, index, shown, cache>>
  PROVE  KVOwn'
  <1> call \in [Caller -> CallType]
    BY DEF KVCore, TypeOK, CallType
  <1>1. call'[c] = new /\ call' = [call EXCEPT ![c] = new]
    BY DEF Begin
  <1>2. mishaps \subseteq mishaps' /\ ("overlap" \notin mishaps' => Busy = {})
    BY DEF Begin
  <1>3. PayloadFits(c)' /\ ColdKnowsNothing'
    BY <1>1 DEF PayloadFits, ColdKnowsNothing, KVOwn
  <1>4. UsesCache(c)' /\ ("overlap" \notin mishaps' => OwnKeysAgree')
    <2>1. ASSUME "overlap" \notin mishaps', cache' # Cold, NEW k \in ours' PROVE Agrees(k, cache)'
      <3>1. k \in Key /\ Agrees(k, cache)
        BY <1>2, <2>1 DEF KVOwn, OwnKeysAgree, KVCore, TypeOK
      <3> QED
        BY <3>1 DEF Agrees
    <2> QED
      BY <1>1, <2>1 DEF UsesCache, OwnKeysAgree
  <1>5. ASSUME mishaps' = {} PROVE Smooth(c)'
    <2>1. Settled
      BY <1>2, <1>5 DEF KVOwn
    <2> QED
      BY <1>1, <2>1 DEF Smooth, Settled, Recorded, Latest, LiveKeys, IndexAt
  <1> QED
    BY <1>1, <1>2, <1>3, <1>4, <1>5, OneOwnCall

LEMMA CallsBeginOwn ==
  ASSUME KVCore, KVOwn, NEW c \in Caller, NEW k \in Key,
         Del(c, k) \/ \E v \in Value : Put(c, k, v)
  PROVE  KVOwn'
  <1> told \in [Key -> {"nothing", "put", "del"}]
    BY DEF KVCore, TypeOK
  <1>1. CASE Del(c, k)
    <2> DEFINE new == Calling("del", k, Tombstone, "value")
    <2>1. new \in CallType /\ new.kind = "del" /\ new.stage = "value"
          /\ new.payload = Tombstone /\ new # Idle
      BY IdleIsACall DEF CallType, Calling, Stage
    <2> HIDE DEF new
    <2> QED
      BY <1>1, <2>1, BeginOwn DEF Del, Untell, new
  <1>2. ASSUME NEW v \in Value, Put(c, k, v) PROVE KVOwn'
    <2> DEFINE new == Calling("put", k, v, "value")
    <2>1. new \in CallType /\ new.kind = "put" /\ new.stage = "value"
          /\ new.payload = v /\ new # Idle
      BY IdleIsACall DEF CallType, Calling, Stage
    <2> HIDE DEF new
    <2> QED
      BY <1>2, <2>1, BeginOwn DEF Put, Untell, new
  <1> QED
    BY <1>1, <1>2

LEMMA ListBeginsOwn ==
  ASSUME KVCore, KVOwn, NEW c \in Caller, List(c) PROVE KVOwn'
  <1> DEFINE new == Calling("list", NoKey, Unwritten, "download")
  <1>1. new \in CallType /\ new.kind = "list" /\ new.stage = "download" /\ new # Idle
    BY IdleIsACall DEF CallType, Calling, Stage
  <1> HIDE DEF new
  <1> QED
    BY <1>1, BeginOwn DEF List, new

\* An exception ends the call; the cache may have been filled by its download.
LEMMA ThrowOwn ==
  ASSUME KVCore, KVOwn, NEW c \in Caller, call[c] # Idle, Throws(c),
         UNCHANGED <<feed, index, shown>>,
         \/ cache' = cache
         \/ call[c].stage = "downloaded" /\ cache' = call[c].keys
  PROVE  KVOwn'
  <1> call \in [Caller -> CallType]
    BY DEF KVCore, TypeOK, CallType
  <1>1. call'[c] = Idle /\ call' = [call EXCEPT ![c] = Idle] /\ told' = told
        /\ ours' = ours /\ mishaps \subseteq mishaps' /\ mishaps' # {}
        /\ ("overlap" \in mishaps' <=> "overlap" \in mishaps)
    BY DEF Throws, Throw
  <1>2. call[c].keys \in SUBSET Key
    BY DEF CallType
  <1>3. PayloadFits(c)' /\ UsesCache(c)'
    BY <1>1, IdleIsACall DEF PayloadFits, UsesCache
  <1>4. ColdKnowsNothing'
    BY <1>1, <1>2, KVAssumption DEF KVOwn, ColdKnowsNothing
  <1>5. ASSUME "overlap" \notin mishaps' PROVE OwnKeysAgree'
    <2>1. UsesCache(c)
      BY <1>1, <1>5, BusyCall
    <2>2. CASE cache' = cache
      BY <1>1, <1>5, <2>2 DEF KVOwn, OwnKeysAgree, Agrees
    <2>3. CASE call[c].stage = "downloaded"
      BY <1>1, <2>1, <2>3 DEF KVOwn, UsesCache, ColdKnowsNothing, OwnKeysAgree, Agrees
    <2> QED
      BY <2>2, <2>3
  <1> QED
    BY <1>1, <1>3, <1>4, <1>5, BusyCall, IdleIsACall, OneOwnCall

\* A call that returns: its key is in the cache if it was a put, and not if
\* it was a del, and elsewhere the cache is what it was, or was cold.
LEMMA ReturnOwn ==
  ASSUME KVCore, KVOwn, NEW c \in Caller, call[c] # Idle, Return(c),
         UNCHANGED <<feed, index, shown>>,
         cache' # Cold,
         "overlap" \notin mishaps =>
            /\ call[c].kind = "put" => call[c].key \in cache'
            /\ call[c].kind = "del" => call[c].key \notin cache'
            /\ cache # Cold =>
                  \A k \in Key : call[c].kind = "list" \/ k # call[c].key =>
                                    (k \in cache' <=> k \in cache),
         mishaps = {} => LiveKeys = Latest /\ cache' = Latest
  PROVE  KVOwn'
  <1> call \in [Caller -> CallType]
    BY DEF KVCore, TypeOK, CallType
  <1>1. call'[c] = Idle /\ call' = [call EXCEPT ![c] = Idle] /\ mishaps' = mishaps
    BY DEF Return
  <1>2. PayloadFits(c)' /\ UsesCache(c)' /\ ColdKnowsNothing'
    BY <1>1, IdleIsACall DEF PayloadFits, UsesCache, ColdKnowsNothing
  <1>3. ASSUME "overlap" \notin mishaps, NEW k \in ours'
        PROVE  Agrees(k, cache)'
    <2> told \in [Key -> {"nothing", "put", "del"}] /\ ours \subseteq Key
      BY DEF KVCore, TypeOK
    <2>1. CASE call[c].kind # "list" /\ k = call[c].key
      <3>1. call[c].kind \in {"put", "del"} /\ call[c].key \in Key
        BY <2>1, IdleIsACall DEF KVCore, CallFits, CallType
      <3>2. told'[k] = call[c].kind
        BY <2>1, <3>1 DEF Return
      <3> QED
        BY <1>3, <2>1, <3>1, <3>2 DEF Agrees
    <2>2. CASE ~(call[c].kind # "list" /\ k = call[c].key)
      <3>1. told'[k] = told[k] /\ k \in ours
        BY <2>2 DEF Return
      <3>2. cache # Cold
        BY <3>1 DEF KVOwn, ColdKnowsNothing
      <3> QED
        BY <1>3, <2>2, <3>1, <3>2 DEF KVOwn, OwnKeysAgree, Agrees
    <2> QED
      BY <2>1, <2>2
  <1>4. "overlap" \notin mishaps' => OwnKeysAgree'
    BY <1>1, <1>3 DEF OwnKeysAgree, Agrees
  <1>5. mishaps' = {} => Settled'
    BY <1>1 DEF Settled, Latest, LiveKeys, IndexAt
  <1> QED
    BY <1>1, <1>2, <1>4, <1>5, BusyCall, IdleIsACall, OneOwnCall

\* The list a call uses, cached or just downloaded, is what readers get.
LEMMA UsedListIsLatest ==
  ASSUME KVCore, KVOwn, NEW c \in Caller,
         call[c].stage \in {"valueAccepted", "downloaded"},
         cache' # Cold,
         cache' = cache \/ (call[c].stage = "downloaded" /\ cache' = call[c].keys),
         "overlap" \notin mishaps
  PROVE  /\ call[c].stage = "downloaded" => cache = Cold
         /\ cache # Cold => cache' = cache
         /\ mishaps = {} => Smooth(c) /\ cache' = Latest
  <1>1. call[c] # Idle
    BY IdleIsACall
  <1>2. UsesCache(c) /\ (mishaps = {} => Smooth(c))
    BY <1>1, BusyCall
  <1> QED
    BY <1>2 DEF UsesCache, Smooth

LEMMA WriteIndexOwn ==
  ASSUME KVCore, KVOwn, NEW c \in Caller, call[c].kind \in {"put", "del"},
         call[c].stage \in {"valueAccepted", "downloaded"},
         NEW keys \in SUBSET Key,
         call[c].kind = "put" => keys = cache' \cup {call[c].key},
         call[c].kind = "del" => keys = cache' \ {call[c].key},
         WriteIndex(c, keys),
         UNCHANGED <<feed, index, shown>>,
         cache' # Cold,
         cache' = cache \/ (call[c].stage = "downloaded" /\ cache' = call[c].keys)
  PROVE  KVOwn'
  <1> call \in [Caller -> CallType]
    BY DEF KVCore, TypeOK, CallType
  <1>1. call[c] # Idle
    BY IdleIsACall
  <1>2. CASE Throws(c)
    BY <1>1, <1>2, ThrowOwn
  <1>3. CASE /\ Fits(keys)
             /\ call' = [call EXCEPT ![c] = [@ EXCEPT !.stage = "index", !.keys = keys]]
             /\ UNCHANGED <<told, ours, mishaps>>
    <2> DEFINE new == [call[c] EXCEPT !.stage = "index", !.keys = keys]
    <2>1. /\ new \in CallType /\ new.kind = call[c].kind /\ new.key = call[c].key
          /\ new.payload = call[c].payload /\ new.stage = "index" /\ new.keys = keys
      BY DEF CallType, Stage
    <2>2. call' = [call EXCEPT ![c] = new] /\ call'[c] = new
      BY <1>3
    <2> HIDE DEF new
    <2>3. new # Idle
      BY <2>1, IdleIsACall
    <2>4. PayloadFits(c)' /\ ColdKnowsNothing'
      BY <2>1, <2>2 DEF KVOwn, PayloadFits, ColdKnowsNothing
    <2>5. UsesCache(c)'
      BY <2>1, <2>2 DEF UsesCache
    <2>6. ASSUME "overlap" \notin mishaps PROVE OwnKeysAgree'
      <3>1. CASE cache = Cold
        BY <1>3, <3>1 DEF KVOwn, ColdKnowsNothing, OwnKeysAgree, Agrees
      <3>2. CASE cache # Cold
        BY <1>3, <2>6, <3>2, UsedListIsLatest DEF KVOwn, OwnKeysAgree, Agrees
      <3> QED
        BY <3>1, <3>2
    <2>7. ASSUME mishaps = {} PROVE Smooth(c)'
      <3>1. Smooth(c) /\ cache' = Latest
        BY <2>7, UsedListIsLatest
      <3>2. Recorded(c) /\ Recorded(c)'
        BY <2>1, <2>2 DEF Recorded
      <3>3. Latest' = Latest /\ LiveKeys' = LiveKeys
        BY DEF Latest, LiveKeys, IndexAt
      <3>4. keys = LiveKeys
        BY <3>1, <3>2 DEF Smooth
      <3> QED
        BY <2>1, <2>2, <3>1, <3>2, <3>3, <3>4 DEF Smooth
    <2> QED
      BY <1>1, <1>3, <2>1, <2>2, <2>3, <2>4, <2>5, <2>6, <2>7, BusyCall, OneOwnCall
  <1> QED
    BY <1>2, <1>3 DEF WriteIndex, Throws

LEMMA UseListOwn ==
  ASSUME KVCore, KVOwn, NEW c \in Caller,
         call[c].stage \in {"valueAccepted", "downloaded"},
         NEW keys \in SUBSET Key, keys = cache',
         UseList(c, keys),
         UNCHANGED <<feed, index, shown>>,
         cache' # Cold,
         cache' = cache \/ (call[c].stage = "downloaded" /\ cache' = call[c].keys)
  PROVE  KVOwn'
  <1> call \in [Caller -> CallType]
    BY DEF KVCore, TypeOK, CallType
  <1>1. call[c] # Idle /\ CallFits(c)
    BY IdleIsACall DEF KVCore
  <1>2. CASE /\ Return(c)
             /\ call[c].kind = "put" => call[c].key \in keys
             /\ call[c].kind = "del" => call[c].key \notin keys
    <2>1. "overlap" \notin mishaps /\ cache # Cold => cache' = cache
      BY UsedListIsLatest
    <2>2. ASSUME mishaps = {} PROVE LiveKeys = Latest /\ cache' = Latest
      <3>1. Smooth(c) /\ cache' = Latest
        BY <2>2, UsedListIsLatest
      <3>2. CASE ~Recorded(c)
        BY <3>1, <3>2 DEF Smooth
      <3>3. CASE Recorded(c)
        <4>1. call[c].key \in Latest <=> call[c].key \in LiveKeys
          BY <1>2, <3>1, <3>3 DEF Smooth, Recorded
        <4>2. Latest \ {call[c].key} = LiveKeys \ {call[c].key}
          BY <3>1, <3>3 DEF Smooth
        <4> QED
          BY <3>1, <4>1, <4>2
      <3> QED
        BY <3>2, <3>3
    <2> QED
      BY <1>1, <1>2, <2>1, <2>2, ReturnOwn
  <1>3. CASE call[c].kind = "put" /\ WriteIndex(c, keys \cup {call[c].key})
    <2>1. keys \cup {call[c].key} \in SUBSET Key
      BY <1>1, <1>3 DEF CallFits
    <2> QED
      BY <1>3, <2>1, WriteIndexOwn
  <1>4. CASE call[c].kind = "del" /\ WriteIndex(c, keys \ {call[c].key})
    BY <1>4, WriteIndexOwn
  <1> QED
    BY <1>2, <1>3, <1>4 DEF UseList, AddToIndex, RemoveFromIndex

\* The stages between the requests of one call.
LEMMA AcceptValueOwn ==
  ASSUME KVCore, KVOwn, NEW c \in Caller, AcceptValue(c) PROVE KVOwn'
  <1> call \in [Caller -> CallType] /\ feed \in [Key -> Value \cup {Tombstone, Unwritten}]
    BY DEF KVCore, TypeOK, CallType
  <1> DEFINE new == [call[c] EXCEPT !.stage = "valueAccepted"]
  <1>1. /\ new \in CallType /\ new.kind = call[c].kind /\ new.key = call[c].key
        /\ new.payload = call[c].payload /\ new.stage = "valueAccepted"
    BY DEF CallType, Stage
  <1>2. call' = [call EXCEPT ![c] = new] /\ call'[c] = new
    BY DEF AcceptValue
  <1> HIDE DEF new
  <1>3. call[c] # Idle /\ new # Idle
    BY <1>1, IdleIsACall DEF AcceptValue
  <1>4. PayloadFits(c)' /\ ColdKnowsNothing'
    BY <1>1, <1>2 DEF AcceptValue, KVOwn, PayloadFits, ColdKnowsNothing
  <1>5. UsesCache(c)' /\ ("overlap" \notin mishaps' => OwnKeysAgree')
    BY <1>1, <1>2 DEF AcceptValue, UsesCache, KVOwn, OwnKeysAgree, Agrees
  <1>6. ASSUME mishaps = {} PROVE Smooth(c)'
    <2>1. Smooth(c) /\ ~Recorded(c)
      BY <1>3, <1>6, BusyCall DEF AcceptValue, Recorded
    <2>2. call[c].kind \in {"put", "del"} /\ call[c].key \in Key
      BY DEF AcceptValue, KVCore, CallFits
    <2>3. Latest' = Latest
      BY DEF AcceptValue, Latest, IndexAt
    <2>4. /\ LiveKeys' \ {call[c].key} = LiveKeys \ {call[c].key}
          /\ call[c].key \in LiveKeys' <=> call[c].kind = "put"
      BY <2>2, KVAssumption DEF AcceptValue, LiveKeys, KVOwn, PayloadFits
    <2>5. cache' = cache /\ (cache # Cold => cache = Latest) /\ Latest = LiveKeys
      BY <2>1 DEF AcceptValue, Smooth
    <2> QED
      BY <1>1, <1>2, <2>2, <2>3, <2>4, <2>5 DEF Smooth, Recorded
  <1> QED
    BY <1>1, <1>2, <1>3, <1>4, <1>5, <1>6, BusyCall, OneOwnCall DEF AcceptValue

LEMMA ValueWrittenOwn ==
  ASSUME KVCore, KVOwn, NEW c \in Caller, ValueWritten(c) PROVE KVOwn'
  <1> call \in [Caller -> CallType]
    BY DEF KVCore, TypeOK, CallType
  <1> call[c].stage = "valueAccepted" /\ UNCHANGED <<feed, index, shown, cache>>
    BY DEF ValueWritten
  <1>1. CASE cache # Cold /\ UseList(c, cache)
    <2>1. PICK keys \in SUBSET Key : keys = cache
      BY <1>1 DEF KVCore, TypeOK
    <2>2. UseList(c, keys)
      BY <1>1, <2>1 DEF UseList, AddToIndex, RemoveFromIndex, WriteIndex, Return, Throw
    <2> QED
      BY <1>1, <2>1, <2>2, UseListOwn
  <1>2. CASE /\ cache = Cold
             /\ call' = [call EXCEPT ![c].stage = "download"]
             /\ UNCHANGED <<told, ours, mishaps>>
    <2> DEFINE new == [call[c] EXCEPT !.stage = "download"]
    <2>1. /\ new \in CallType /\ new.kind = call[c].kind /\ new.key = call[c].key
          /\ new.payload = call[c].payload /\ new.stage = "download"
      BY DEF CallType, Stage
    <2>2. call' = [call EXCEPT ![c] = new] /\ call'[c] = new
      BY <1>2
    <2> HIDE DEF new
    <2>3. call[c] # Idle /\ new # Idle
      BY <2>1, IdleIsACall
    <2>4. PayloadFits(c)' /\ ColdKnowsNothing'
      BY <1>2, <2>1, <2>2 DEF KVOwn, PayloadFits, ColdKnowsNothing
    <2>5. UsesCache(c)' /\ ("overlap" \notin mishaps' => OwnKeysAgree')
      BY <1>2, <2>1, <2>2 DEF UsesCache, KVOwn, OwnKeysAgree, Agrees
    <2>6. ASSUME mishaps = {} PROVE Smooth(c)'
      <3>1. Smooth(c)
        BY <2>3, <2>6, BusyCall
      <3>2. Latest' = Latest /\ LiveKeys' = LiveKeys /\ (Recorded(c)' <=> Recorded(c))
        BY <2>1, <2>2 DEF Latest, LiveKeys, IndexAt, Recorded
      <3> QED
        BY <1>2, <2>1, <2>2, <3>1, <3>2 DEF Smooth
    <2> QED
      BY <1>2, <2>1, <2>2, <2>3, <2>4, <2>5, <2>6, BusyCall, OneOwnCall
  <1> QED
    BY <1>1, <1>2 DEF ValueWritten

LEMMA LookUpOwn ==
  ASSUME KVCore, KVOwn, NEW c \in Caller, LookUpIndex(c) PROVE KVOwn'
  <1> call \in [Caller -> CallType]
    BY DEF KVCore, TypeOK, CallType
  <1> call[c].stage = "download" /\ UNCHANGED <<feed, index, shown, cache, told, ours>>
    BY DEF LookUpIndex
  <1>1. PICK i \in shown .. Len(index) :
          /\ call' = [call EXCEPT ![c] = [@ EXCEPT !.stage = "downloaded", !.keys = IndexAt(i)]]
          /\ mishaps' = IF i = Len(index) THEN mishaps ELSE mishaps \cup {"lag"}
    BY DEF LookUpIndex, Downloads
  <1>2. IndexAt(i) \in SUBSET Key
    BY DEF KVCore, TypeOK, IndexAt
  <1> DEFINE new == [call[c] EXCEPT !.stage = "downloaded", !.keys = IndexAt(i)]
  <1>3. /\ new \in CallType /\ new.kind = call[c].kind /\ new.key = call[c].key
        /\ new.payload = call[c].payload /\ new.stage = "downloaded" /\ new.keys = IndexAt(i)
    BY <1>2 DEF CallType, Stage
  <1>4. call' = [call EXCEPT ![c] = new] /\ call'[c] = new
    BY <1>1
  <1> HIDE DEF new
  <1>5. call[c] # Idle /\ new # Idle
    BY <1>3, IdleIsACall
  <1>6. /\ mishaps \subseteq mishaps'
        /\ "overlap" \notin mishaps' => "overlap" \notin mishaps
        /\ mishaps' = {} => i = Len(index) /\ mishaps = {}
    BY <1>1
  <1>7. PayloadFits(c)' /\ ColdKnowsNothing'
    BY <1>3, <1>4 DEF KVOwn, PayloadFits, ColdKnowsNothing
  <1>8. ASSUME "overlap" \notin mishaps' PROVE UsesCache(c)' /\ OwnKeysAgree'
    <2>1. UsesCache(c)
      BY <1>5, <1>6, <1>8, BusyCall
    <2> QED
      BY <1>3, <1>4, <1>6, <1>8, <2>1 DEF UsesCache, KVOwn, OwnKeysAgree, Agrees
  <1>9. ASSUME mishaps' = {} PROVE Smooth(c)'
    <2>1. Smooth(c) /\ UsesCache(c)
      BY <1>5, <1>6, <1>9, BusyCall
    <2>2. Latest' = Latest /\ LiveKeys' = LiveKeys /\ (Recorded(c)' <=> Recorded(c))
      BY <1>3, <1>4 DEF Latest, LiveKeys, IndexAt, Recorded
    <2>3. new.keys = Latest
      BY <1>3, <1>6, <1>9 DEF Latest
    <2> QED
      BY <1>3, <1>4, <2>1, <2>2, <2>3 DEF Smooth, UsesCache
  <1> QED
    BY <1>3, <1>4, <1>5, <1>6, <1>7, <1>8, <1>9, BusyCall, OneOwnCall

LEMMA IndexReadOwn ==
  ASSUME KVCore, KVOwn, NEW c \in Caller, IndexRead(c) PROVE KVOwn'
  <1>1. call[c].keys \in SUBSET Key
    BY DEF KVCore, TypeOK
  <1> QED
    BY <1>1, KVAssumption, UseListOwn DEF IndexRead

LEMMA AcceptIndexOwn ==
  ASSUME KVCore, KVOwn, NEW c \in Caller, AcceptIndex(c) PROVE KVOwn'
  <1> /\ call \in [Caller -> CallType] /\ index \in Seq(SUBSET Key)
      /\ call[c].keys \in SUBSET Key
    BY DEF KVCore, TypeOK, CallType
  <1> call[c].stage = "index" /\ UNCHANGED <<feed, shown, cache, told, ours, mishaps>>
    BY DEF AcceptIndex
  <1> DEFINE new == [call[c] EXCEPT !.stage = "indexAccepted"]
  <1>1. /\ new \in CallType /\ new.kind = call[c].kind /\ new.key = call[c].key
        /\ new.payload = call[c].payload /\ new.stage = "indexAccepted"
        /\ new.keys = call[c].keys
    BY DEF CallType, Stage
  <1>2. call' = [call EXCEPT ![c] = new] /\ call'[c] = new
    BY DEF AcceptIndex
  <1> HIDE DEF new
  <1>3. call[c] # Idle /\ new # Idle
    BY <1>1, IdleIsACall
  <1>4. PayloadFits(c)' /\ ColdKnowsNothing'
    BY <1>1, <1>2 DEF KVOwn, PayloadFits, ColdKnowsNothing
  <1>5. ASSUME "overlap" \notin mishaps PROVE UsesCache(c)' /\ OwnKeysAgree'
    <2>1. UsesCache(c)
      BY <1>3, <1>5, BusyCall
    <2> QED
      BY <1>1, <1>2, <2>1 DEF UsesCache, KVOwn, OwnKeysAgree, Agrees
  <1>6. ASSUME mishaps = {} PROVE Smooth(c)'
    <2>1. Smooth(c)
      BY <1>3, <1>6, BusyCall
    <2>2. LiveKeys' = LiveKeys /\ Recorded(c) /\ Recorded(c)'
      BY <1>1, <1>2 DEF AcceptIndex, LiveKeys, Recorded, KVCore, CallFits
    <2>3. Latest' = call[c].keys
      <3>1. Len(index') = Len(index) + 1 /\ index'[Len(index')] = call[c].keys
        BY DEF AcceptIndex
      <3>2. Len(index) \in Nat
        OBVIOUS
      <3> QED
        BY <3>1, <3>2 DEF Latest, IndexAt
    <2> QED
      BY <1>1, <1>2, <2>1, <2>2, <2>3 DEF Smooth
  <1> QED
    BY <1>1, <1>2, <1>3, <1>4, <1>5, <1>6, BusyCall, OneOwnCall

LEMMA IndexWrittenOwn ==
  ASSUME KVCore, KVOwn, NEW c \in Caller, IndexWritten(c) PROVE KVOwn'
  <1> call[c].stage = "indexAccepted" /\ cache' = call[c].keys
      /\ Return(c) /\ UNCHANGED <<feed, index, shown>>
    BY DEF IndexWritten
  <1>1. call[c] # Idle /\ call[c].kind \in {"put", "del"} /\ cache' # Cold
    BY IdleIsACall, KVAssumption DEF KVCore, TypeOK, CallFits
  <1>2. ASSUME "overlap" \notin mishaps PROVE UsesCache(c)
    BY <1>1, <1>2, BusyCall
  <1>3. ASSUME mishaps = {} PROVE LiveKeys = Latest /\ cache' = Latest
    <2>1. Smooth(c)
      BY <1>1, <1>3, BusyCall
    <2> QED
      BY <2>1 DEF Smooth
  <1>4. "overlap" \notin mishaps =>
            /\ call[c].kind = "put" => call[c].key \in cache'
            /\ call[c].kind = "del" => call[c].key \notin cache'
            /\ cache # Cold =>
                  \A k \in Key : call[c].kind = "list" \/ k # call[c].key =>
                                    (k \in cache' <=> k \in cache)
    BY <1>1, <1>2 DEF UsesCache
  <1> QED
    BY <1>1, <1>3, <1>4, ReturnOwn

LEMMA AnsweredOwn ==
  ASSUME KVCore, KVOwn, NEW c \in Caller, Answered(c) \/ RequestFails(c) PROVE KVOwn'
  <1>1. CASE RequestFails(c)
    BY <1>1, ThrowOwn DEF RequestFails, Throws
  <1> QED
    BY <1>1, AcceptValueOwn, ValueWrittenOwn, LookUpOwn, IndexReadOwn, AcceptIndexOwn,
       IndexWrittenOwn
    DEF Answered

LEMMA RestartOwn == KVCore /\ KVOwn /\ Restart => KVOwn'
  <1> SUFFICES ASSUME KVCore, KVOwn, Restart PROVE KVOwn'
    OBVIOUS
  <1>1. \A c \in Caller : call'[c] = Idle
    BY DEF Restart
  <1>2. Busy' = {}
    BY <1>1 DEF Busy
  <1>3. \A c \in Caller : PayloadFits(c)'
    BY <1>1, IdleIsACall DEF PayloadFits
  <1>4. ColdKnowsNothing' /\ OwnKeysAgree'
    BY DEF Restart, ColdKnowsNothing, OwnKeysAgree, Agrees
  <1>5. ASSUME mishaps' = {} PROVE Settled'
    <2>1. mishaps = {} /\ Busy = {}
      BY <1>5 DEF Restart
    <2>2. Latest = LiveKeys
      BY <2>1 DEF KVOwn, Settled
    <2> QED
      BY <2>2 DEF Restart, Settled, Latest, LiveKeys, IndexAt
  <1> QED
    BY <1>2, <1>3, <1>4, <1>5 DEF KVOwn

LEMMA ConvergeOwn == KVOwn /\ UNCHANGED <<feed, index, cache, call, told, ours, mishaps>> => KVOwn'
  BY DEF KVOwn, Busy, PayloadFits, ColdKnowsNothing, UsesCache, OwnKeysAgree, Agrees, Settled,
         Smooth, Recorded, Latest, LiveKeys, IndexAt

LEMMA KVNextOwn == KVCore /\ KVOwn /\ [Next]_kvVars => KVOwn'
  <1> SUFFICES ASSUME KVCore, KVOwn, [Next]_kvVars PROVE KVOwn'
    OBVIOUS
  <1>1. CASE Converge \/ UNCHANGED kvVars
    BY <1>1, ConvergeOwn DEF Converge, kvVars
  <1>2. ASSUME NEW c \in Caller, NEW k \in Key, Del(c, k) \/ \E v \in Value : Put(c, k, v)
        PROVE  KVOwn'
    BY <1>2, CallsBeginOwn
  <1>3. ASSUME NEW c \in Caller, List(c) PROVE KVOwn'
    BY <1>3, ListBeginsOwn
  <1> QED
    BY <1>1, <1>2, <1>3, AnsweredOwn, RestartOwn DEF Next

(***************************************************************************)
(* What earlier processes were told.  It is in the latest list, which the  *)
(* next process fetches and goes on from, as long as it can be trusted.    *)
(***************************************************************************)
Untroubled == mishaps \cap {"overlap", "lag", "lost"} = {}

\* A call in progress between the gateway's acceptance of its list and the answer.
Answering == {c \in Busy : call[c].stage = "indexAccepted"}

KVKept ==
    Untroubled =>
      /\ \A k \in Key : Agrees(k, Latest)
      /\ \A c \in Busy : /\ call[c].kind \in {"put", "del"} => told[call[c].key] = "nothing"
                         /\ call[c].stage \in {"downloaded", "indexAccepted"} => call[c].keys = Latest
      /\ cache # Cold => cache = Latest \/ Answering # {}

\* What has to be shown of a step of one call, which is alone as long as all is well.
LEMMA OneKeptCall ==
  ASSUME KVCore, NEW c \in Caller, NEW new \in CallType,
         call' = [call EXCEPT ![c] = new],
         Untroubled' =>
           /\ Busy \subseteq {c}
           /\ \A k \in Key : Agrees(k, Latest)'
           /\ new.kind \in {"put", "del"} => told'[new.key] = "nothing"
           /\ new.stage \in {"downloaded", "indexAccepted"} => new.keys = Latest'
           /\ cache' # Cold => cache' = Latest' \/ new.stage = "indexAccepted"
  PROVE  KVKept'
  <1> call \in [Caller -> CallType]
    BY DEF KVCore, TypeOK, CallType
  <1>1. call'[c] = new /\ \A d \in Caller \ {c} : call'[d] = call[d]
    OBVIOUS
  <1> SUFFICES ASSUME Untroubled'
               PROVE  /\ \A d \in Busy' :
                           /\ call'[d].kind \in {"put", "del"} => told'[call'[d].key] = "nothing"
                           /\ call'[d].stage \in {"downloaded", "indexAccepted"} =>
                                 call'[d].keys = Latest'
                      /\ cache' # Cold => cache' = Latest' \/ Answering' # {}
    BY DEF KVKept
  <1>2. Busy' \subseteq {c} /\ (c \in Busy' <=> new # Idle)
    BY <1>1 DEF Busy
  <1>3. new.stage = "indexAccepted" => Answering' # {}
    BY <1>1, <1>2, IdleIsACall DEF Answering
  <1> QED
    BY <1>1, <1>2, <1>3

\* What the invariants say of the only call in progress.
LEMMA KeptCall ==
  ASSUME KVCore, KVOwn, KVKept, Untroubled, NEW c \in Caller, call[c] # Idle
  PROVE  /\ Busy = {c} /\ UsesCache(c)
         /\ \A k \in Key : Agrees(k, Latest)
         /\ call[c].kind \in {"put", "del"} => told[call[c].key] = "nothing"
         /\ call[c].stage \in {"downloaded", "indexAccepted"} => call[c].keys = Latest
         /\ cache # Cold /\ call[c].stage # "indexAccepted" => cache = Latest
  <1>1. "overlap" \notin mishaps
    BY DEF Untroubled
  <1>2. Busy = {c} /\ UsesCache(c)
    BY <1>1, BusyCall
  <1> QED
    BY <1>2 DEF KVKept, Answering

LEMMA BeginKept ==
  ASSUME KVCore, KVOwn, KVKept, NEW c \in Caller, NEW new \in CallType, Begin(c, new),
         new.stage \in {"value", "download"},
         new.kind \in {"put", "del"} => told'[new.key] = "nothing",
         \A k \in Key : told'[k] = told[k] \/ told'[k] = "nothing",
         UNCHANGED <<feed, index, shown, cache>>
  PROVE  KVKept'
  <1>1. call' = [call EXCEPT ![c] = new]
    BY DEF Begin
  <1>2. Latest' = Latest
    BY DEF Latest, IndexAt
  <1>3. Untroubled' => Busy = {} /\ Untroubled
    BY DEF Begin, Untroubled
  <1>4. Untroubled' => \A k \in Key : Agrees(k, Latest)'
    BY <1>2, <1>3 DEF KVKept, Agrees
  <1>5. Untroubled' => (cache' # Cold => cache' = Latest')
    BY <1>2, <1>3 DEF KVKept, Answering
  <1> QED
    BY <1>1, <1>3, <1>4, <1>5, OneKeptCall

LEMMA CallsBeginKept ==
  ASSUME KVCore, KVOwn, KVKept, NEW c \in Caller, NEW k \in Key,
         Del(c, k) \/ \E v \in Value : Put(c, k, v)
  PROVE  KVKept'
  <1> told \in [Key -> {"nothing", "put", "del"}]
    BY DEF KVCore, TypeOK
  <1>1. CASE Del(c, k)
    <2> DEFINE new == Calling("del", k, Tombstone, "value")
    <2>1. new \in CallType /\ new.kind = "del" /\ new.stage = "value" /\ new.key = k
      BY DEF CallType, Calling, Stage
    <2> HIDE DEF new
    <2> QED
      BY <1>1, <2>1, BeginKept DEF Del, Untell, new
  <1>2. ASSUME NEW v \in Value, Put(c, k, v) PROVE KVKept'
    <2> DEFINE new == Calling("put", k, v, "value")
    <2>1. new \in CallType /\ new.kind = "put" /\ new.stage = "value" /\ new.key = k
      BY DEF CallType, Calling, Stage
    <2> HIDE DEF new
    <2> QED
      BY <1>2, <2>1, BeginKept DEF Put, Untell, new
  <1> QED
    BY <1>1, <1>2

LEMMA ListBeginsKept ==
  ASSUME KVCore, KVOwn, KVKept, NEW c \in Caller, List(c) PROVE KVKept'
  <1> DEFINE new == Calling("list", NoKey, Unwritten, "download")
  <1>1. new \in CallType /\ new.kind = "list" /\ new.stage = "download"
    BY DEF CallType, Calling, Stage
  <1> HIDE DEF new
  <1> QED
    BY <1>1, BeginKept DEF List, new

\* A call that ends, short of an answer that was lost, has told no lie.
LEMMA EndKept ==
  ASSUME KVCore, KVOwn, KVKept, NEW c \in Caller, call[c] # Idle,
         UNCHANGED <<feed, index, shown>>,
         \/ Return(c)
         \/ Throw(c, "failure") /\ call[c].stage # "indexAccepted"
         \/ Throw(c, "lost"),
         Untroubled /\ cache' # Cold => cache' = Latest \/ Throw(c, "lost"),
         Untroubled /\ told' # told =>
           /\ call[c].kind = "put" => call[c].key \in Latest
           /\ call[c].kind = "del" => call[c].key \notin Latest
  PROVE  KVKept'
  <1> told \in [Key -> {"nothing", "put", "del"}]
    BY DEF KVCore, TypeOK
  <1>1. call' = [call EXCEPT ![c] = Idle]
    BY DEF Return, Throw
  <1>2. Latest' = Latest
    BY DEF Latest, IndexAt
  <1>3. CASE Throw(c, "lost")
    <2>1. ~Untroubled'
      BY <1>3 DEF Throw, Untroubled
    <2> QED
      BY <2>1 DEF KVKept
  <1>4. CASE ~Throw(c, "lost")
    <2>1. Untroubled' => Untroubled
      BY DEF Return, Throw, Untroubled
    <2>2. ASSUME Untroubled, NEW k \in Key PROVE Agrees(k, Latest)'
      <3>1. Agrees(k, Latest)
        BY <2>2 DEF KVKept
      <3>2. CASE told'[k] = told[k]
        BY <1>2, <3>1, <3>2 DEF Agrees
      <3>3. CASE told'[k] # told[k]
        <4>1. k = call[c].key /\ told'[k] = call[c].kind
          BY <1>4, <3>3 DEF Return, Throw
        <4> QED
          BY <1>2, <2>2, <3>3, <4>1 DEF Agrees
      <3> QED
        BY <3>2, <3>3
    <2>3. Untroubled => Busy \subseteq {c}
      BY KeptCall
    <2> QED
      BY <1>1, <1>2, <1>4, <2>1, <2>2, <2>3, IdleIsACall, OneKeptCall
  <1> QED
    BY <1>3, <1>4

\* A call that goes on to its next stage: what it was told of its key stays nothing.
LEMMA GoesOnKept ==
  ASSUME KVCore, KVOwn, KVKept, NEW c \in Caller, call[c] # Idle, NEW new \in CallType,
         call' = [call EXCEPT ![c] = new], new.kind = call[c].kind, new.key = call[c].key,
         UNCHANGED <<index, told>>, Untroubled' => Untroubled,
         Untroubled' /\ new.stage \in {"downloaded", "indexAccepted"} => new.keys = Latest,
         Untroubled /\ cache' # Cold => cache' = Latest
  PROVE  KVKept'
  <1>1. Latest' = Latest
    BY DEF Latest, IndexAt
  <1>2. \A k \in Key : Agrees(k, Latest) => Agrees(k, Latest)'
    BY <1>1 DEF Agrees
  <1> QED
    BY <1>1, <1>2, KeptCall, OneKeptCall

\* A call that has the latest list returns, fails, or sends another.
LEMMA UseListKept ==
  ASSUME KVCore, KVOwn, KVKept, NEW c \in Caller,
         call[c].stage \in {"valueAccepted", "downloaded"},
         NEW keys \in SUBSET Key, UseList(c, keys),
         UNCHANGED <<feed, index, shown>>,
         Untroubled => keys = Latest /\ cache' = Latest
  PROVE  KVKept'
  <1> call \in [Caller -> CallType]
    BY DEF KVCore, TypeOK, CallType
  <1>1. call[c] # Idle
    BY IdleIsACall
  <1>2. CASE Throw(c, "failure")
    <2>1. told' = told
      BY <1>2 DEF Throw
    <2> QED
      BY <1>1, <1>2, <2>1, EndKept
  <1>3. CASE Return(c) /\ (call[c].kind = "put" => call[c].key \in keys)
                      /\ (call[c].kind = "del" => call[c].key \notin keys)
    BY <1>1, <1>3, EndKept
  <1>4. ASSUME NEW sent \in SUBSET Key,
               call' = [call EXCEPT ![c] = [@ EXCEPT !.stage = "index", !.keys = sent]],
               UNCHANGED <<told, ours, mishaps>>
        PROVE  KVKept'
    <2> DEFINE new == [call[c] EXCEPT !.stage = "index", !.keys = sent]
    <2>1. /\ new \in CallType /\ new.kind = call[c].kind /\ new.key = call[c].key
          /\ new.stage = "index"
      BY DEF CallType, Stage
    <2>2. call' = [call EXCEPT ![c] = new]
      BY <1>4
    <2> HIDE DEF new
    <2> QED
      BY <1>1, <1>4, <2>1, <2>2, GoesOnKept DEF Untroubled
  <1>5. CASE call[c].kind = "put" /\ WriteIndex(c, keys \cup {call[c].key})
    <2>1. keys \cup {call[c].key} \in SUBSET Key
      BY <1>5 DEF KVCore, CallFits
    <2> QED
      BY <1>2, <1>4, <1>5, <2>1 DEF WriteIndex
  <1>6. CASE call[c].kind = "del" /\ WriteIndex(c, keys \ {call[c].key})
    <2>1. keys \ {call[c].key} \in SUBSET Key
      OBVIOUS
    <2> QED
      BY <1>2, <1>4, <1>6, <2>1 DEF WriteIndex
  <1> QED
    BY <1>3, <1>5, <1>6 DEF UseList, AddToIndex, RemoveFromIndex

LEMMA AcceptValueKept ==
  ASSUME KVCore, KVOwn, KVKept, NEW c \in Caller, AcceptValue(c) PROVE KVKept'
  <1> call \in [Caller -> CallType]
    BY DEF KVCore, TypeOK, CallType
  <1> DEFINE new == [call[c] EXCEPT !.stage = "valueAccepted"]
  <1>1. /\ new \in CallType /\ new.kind = call[c].kind /\ new.key = call[c].key
        /\ new.stage = "valueAccepted"
    BY DEF CallType, Stage
  <1>2. call' = [call EXCEPT ![c] = new]
    BY DEF AcceptValue
  <1> HIDE DEF new
  <1>3. call[c] # Idle /\ call[c].stage = "value"
    BY IdleIsACall DEF AcceptValue
  <1> QED
    BY <1>1, <1>2, <1>3, KeptCall, GoesOnKept DEF AcceptValue, Untroubled

LEMMA ValueWrittenKept ==
  ASSUME KVCore, KVOwn, KVKept, NEW c \in Caller, ValueWritten(c) PROVE KVKept'
  <1> call \in [Caller -> CallType]
    BY DEF KVCore, TypeOK, CallType
  <1>1. call[c] # Idle /\ call[c].stage = "valueAccepted"
        /\ UNCHANGED <<feed, index, shown, cache>>
    BY IdleIsACall DEF ValueWritten
  <1>2. CASE cache # Cold /\ UseList(c, cache)
    <2>1. PICK keys \in SUBSET Key : keys = cache
      BY <1>2 DEF KVCore, TypeOK
    <2>2. UseList(c, keys)
      BY <1>2, <2>1 DEF UseList, AddToIndex, RemoveFromIndex, WriteIndex, Return, Throw
    <2>3. Untroubled => keys = Latest /\ cache' = Latest
      BY <1>1, <1>2, <2>1, KeptCall
    <2> QED
      BY <1>1, <2>2, <2>3, UseListKept
  <1>3. CASE /\ cache = Cold
             /\ call' = [call EXCEPT ![c].stage = "download"]
             /\ UNCHANGED <<told, ours, mishaps>>
    <2> DEFINE new == [call[c] EXCEPT !.stage = "download"]
    <2>1. /\ new \in CallType /\ new.kind = call[c].kind /\ new.key = call[c].key
          /\ new.stage = "download"
      BY DEF CallType, Stage
    <2>2. call' = [call EXCEPT ![c] = new]
      BY <1>3
    <2> HIDE DEF new
    <2> QED
      BY <1>1, <1>3, <2>1, <2>2, GoesOnKept DEF Untroubled
  <1> QED
    BY <1>2, <1>3 DEF ValueWritten

LEMMA LookUpKept ==
  ASSUME KVCore, KVOwn, KVKept, NEW c \in Caller, LookUpIndex(c) PROVE KVKept'
  <1> call \in [Caller -> CallType]
    BY DEF KVCore, TypeOK, CallType
  <1>1. call[c].stage = "download" /\ UNCHANGED <<feed, index, shown, cache, told, ours>>
    BY DEF LookUpIndex
  <1>2. PICK i \in shown .. Len(index) :
          /\ call' = [call EXCEPT ![c] = [@ EXCEPT !.stage = "downloaded", !.keys = IndexAt(i)]]
          /\ mishaps' = IF i = Len(index) THEN mishaps ELSE mishaps \cup {"lag"}
    BY DEF LookUpIndex, Downloads
  <1>3. IndexAt(i) \in SUBSET Key
    BY DEF KVCore, TypeOK, IndexAt
  <1> DEFINE new == [call[c] EXCEPT !.stage = "downloaded", !.keys = IndexAt(i)]
  <1>4. /\ new \in CallType /\ new.kind = call[c].kind /\ new.key = call[c].key
        /\ new.stage = "downloaded" /\ new.keys = IndexAt(i)
    BY <1>3 DEF CallType, Stage
  <1>5. call' = [call EXCEPT ![c] = new]
    BY <1>2
  <1> HIDE DEF new
  <1>6. call[c] # Idle
    BY <1>1, IdleIsACall
  <1>7. Untroubled' => Untroubled /\ i = Len(index)
    BY <1>2 DEF Untroubled
  <1>8. Untroubled' => new.keys = Latest
    BY <1>4, <1>7 DEF Latest
  <1> QED
    BY <1>1, <1>4, <1>5, <1>6, <1>7, <1>8, KeptCall, GoesOnKept

LEMMA IndexReadKept ==
  ASSUME KVCore, KVOwn, KVKept, NEW c \in Caller, IndexRead(c) PROVE KVKept'
  <1>1. call[c].stage = "downloaded" /\ call[c] # Idle /\ call[c].keys \in SUBSET Key
    BY IdleIsACall DEF IndexRead, KVCore, TypeOK
  <1>2. Untroubled => call[c].keys = Latest /\ cache' = Latest
    BY <1>1, KeptCall DEF IndexRead
  <1> QED
    BY <1>1, <1>2, UseListKept DEF IndexRead

LEMMA AcceptIndexKept ==
  ASSUME KVCore, KVOwn, KVKept, NEW c \in Caller, AcceptIndex(c) PROVE KVKept'
  <1> /\ call \in [Caller -> CallType] /\ index \in Seq(SUBSET Key)
      /\ call[c].keys \in SUBSET Key
    BY DEF KVCore, TypeOK, CallType
  <1>1. call[c].stage = "index" /\ UNCHANGED <<feed, shown, cache, told, ours, mishaps>>
    BY DEF AcceptIndex
  <1> DEFINE new == [call[c] EXCEPT !.stage = "indexAccepted"]
  <1>2. /\ new \in CallType /\ new.kind = call[c].kind /\ new.key = call[c].key
        /\ new.stage = "indexAccepted" /\ new.keys = call[c].keys
    BY DEF CallType, Stage
  <1>3. call' = [call EXCEPT ![c] = new]
    BY DEF AcceptIndex
  <1> HIDE DEF new
  <1>4. call[c] # Idle /\ call[c].kind \in {"put", "del"}
    BY <1>1, IdleIsACall DEF KVCore, CallFits
  <1>5. Latest' = call[c].keys
    <2>1. Len(index') = Len(index) + 1 /\ index'[Len(index')] = call[c].keys
      BY DEF AcceptIndex
    <2>2. Len(index) \in Nat
      OBVIOUS
    <2> QED
      BY <2>1, <2>2 DEF Latest, IndexAt
  <1>6. Untroubled' <=> Untroubled
    BY <1>1 DEF Untroubled
  <1>7. ASSUME Untroubled, NEW k \in Key PROVE Agrees(k, Latest)'
    <2>1. /\ UsesCache(c) /\ Agrees(k, Latest)
          /\ told[call[c].key] = "nothing" /\ (cache # Cold => cache = Latest)
      BY <1>1, <1>4, <1>7, KeptCall
    <2>2. k # call[c].key => (k \in call[c].keys <=> k \in Latest)
      BY <1>1, <1>4, <2>1 DEF UsesCache
    <2> QED
      BY <1>1, <1>5, <2>1, <2>2 DEF Agrees
  <1>8. Untroubled => Busy \subseteq {c} /\ told[call[c].key] = "nothing"
    BY <1>4, KeptCall
  <1> QED
    BY <1>1, <1>2, <1>3, <1>5, <1>6, <1>7, <1>8, OneKeptCall

LEMMA IndexWrittenKept ==
  ASSUME KVCore, KVOwn, KVKept, NEW c \in Caller, IndexWritten(c) PROVE KVKept'
  <1>1. /\ call[c].stage = "indexAccepted" /\ cache' = call[c].keys
        /\ Return(c) /\ UNCHANGED <<feed, index, shown>>
    BY DEF IndexWritten
  <1>2. call[c] # Idle
    BY <1>1, IdleIsACall
  <1>3. Untroubled => UsesCache(c) /\ call[c].keys = Latest
    BY <1>1, <1>2, KeptCall
  <1> QED
    BY <1>1, <1>2, <1>3, EndKept DEF UsesCache

LEMMA RequestFailsKept ==
  ASSUME KVCore, KVOwn, KVKept, NEW c \in Caller, RequestFails(c) PROVE KVKept'
  <1>1. CASE call[c].stage = "indexAccepted"
    <2>1. call[c] # Idle /\ Throw(c, "lost") /\ UNCHANGED <<feed, index, shown, cache>>
      BY <1>1 DEF RequestFails
    <2>2. told' = told
      BY <2>1 DEF Throw
    <2> QED
      BY <2>1, <2>2, EndKept
  <1>2. CASE call[c].stage # "indexAccepted"
    <2>1. call[c] # Idle /\ Throw(c, "failure") /\ UNCHANGED <<feed, index, shown, cache>>
      BY <1>2 DEF RequestFails
    <2>2. Untroubled /\ cache' # Cold => cache' = Latest
      BY <1>2, <2>1, KeptCall
    <2>3. told' = told
      BY <2>1 DEF Throw
    <2> QED
      BY <1>2, <2>1, <2>2, <2>3, EndKept
  <1> QED
    BY <1>1, <1>2

LEMMA KVNextKept == KVCore /\ KVOwn /\ KVKept /\ [Next]_kvVars => KVKept'
  <1> SUFFICES ASSUME KVCore, KVOwn, KVKept, [Next]_kvVars PROVE KVKept'
    OBVIOUS
  <1>1. CASE Converge \/ UNCHANGED kvVars
    BY <1>1 DEF Converge, kvVars, KVKept, Untroubled, Agrees, Answering, Busy, Latest, IndexAt
  <1>2. CASE Restart
    <2>1. Busy' = {}
      BY <1>2 DEF Restart, Busy
    <2>2. Untroubled' => Untroubled
      BY <1>2 DEF Restart, Untroubled
    <2>3. Latest' = Latest
      BY <1>2 DEF Restart, Latest, IndexAt
    <2> QED
      BY <1>2, <2>1, <2>2, <2>3 DEF Restart, KVKept, Agrees
  <1>3. ASSUME NEW c \in Caller, NEW k \in Key, Del(c, k) \/ \E v \in Value : Put(c, k, v)
        PROVE  KVKept'
    BY <1>3, CallsBeginKept
  <1>4. ASSUME NEW c \in Caller, List(c) \/ Answered(c) \/ RequestFails(c) PROVE KVKept'
    BY <1>4, ListBeginsKept, AcceptValueKept, ValueWrittenKept, LookUpKept, IndexReadKept,
       AcceptIndexKept, IndexWrittenKept, RequestFailsKept
    DEF Answered
  <1> QED
    BY <1>1, <1>2, <1>3, <1>4 DEF Next

\* The lists of the writer and of its readers are part of the invariant.
THEOREM KVListInvariant == Spec => [](KVCore /\ KVOwn /\ KVKept)
  <1>1. Init => KVOwn /\ KVKept
    <2>1. Init => KVKept
      BY DEF Init, KVKept, Agrees, Busy, Answering
    <2> QED
      BY <2>1, KVInitOwn
  <1>2. KVCore /\ KVOwn /\ KVKept /\ [Next]_kvVars => KVOwn' /\ KVKept'
    BY KVNextOwn, KVNextKept
  <1> QED
    BY <1>1, <1>2, KVInvariant, PTL DEF Spec

\* While its calls do not overlap, the writer's list agrees with every call that has
\* returned: in this process whatever the gateway loses, delays or serves stale, and in
\* earlier ones unless a lookup was stale or the answer to an index update was lost.
THEOREM OwnListAgrees == Spec => []OwnListIsAuthoritative
  <1>1. KVCore /\ KVOwn /\ KVKept => OwnListIsAuthoritative
    <2> SUFFICES ASSUME KVCore, KVOwn, KVKept, "overlap" \notin mishaps, cache # Cold,
                        NEW k \in Key, k \in ours \/ mishaps \cap {"lag", "lost"} = {}
                 PROVE  Agrees(k, cache)
      BY DEF OwnListIsAuthoritative
    <2>1. CASE k \in ours
      BY <2>1 DEF KVOwn, OwnKeysAgree
    <2>2. CASE mishaps \cap {"lag", "lost"} = {}
      <3>1. Untroubled
        BY <2>2 DEF Untroubled
      <3>2. CASE cache = Latest
        BY <3>1, <3>2 DEF KVKept
      <3>3. CASE Answering # {}
        <4>1. PICK c \in Caller : call[c] # Idle /\ call[c].stage = "indexAccepted"
          BY <3>3 DEF Answering, Busy
        <4>2. /\ UsesCache(c) /\ Agrees(k, Latest) /\ call[c].keys = Latest
              /\ call[c].kind \in {"put", "del"} => told[call[c].key] = "nothing"
          BY <3>1, <4>1, KeptCall
        <4>3. call[c].kind \in {"put", "del"}
          BY <4>1 DEF KVCore, CallFits
        <4>4. k # call[c].key => (k \in cache <=> k \in Latest)
          BY <4>1, <4>2, <4>3 DEF UsesCache
        <4> QED
          BY <4>2, <4>3, <4>4 DEF Agrees
      <3> QED
        BY <3>1, <3>2, <3>3 DEF KVKept
    <2> QED
      BY <2>1, <2>2
  <1> QED
    BY <1>1, KVListInvariant, PTL

\* If nothing has gone wrong, every reader of a converged gateway gets exactly
\* the live keys between the writer's calls.
THEOREM ReadersSeeLiveKeys == Spec => []LiveKeysAreListed
  <1>1. KVCore /\ KVOwn => LiveKeysAreListed
    <2> SUFFICES ASSUME KVCore, KVOwn, mishaps = {}, Busy = {}, shown = Len(index)
                 PROVE  ReaderLists = {LiveKeys}
      BY DEF LiveKeysAreListed
    <2>1. Latest = LiveKeys
      BY DEF KVOwn, Settled
    <2>2. shown .. Len(index) = {Len(index)}
      BY DEF KVCore, TypeOK
    <2> QED
      BY <2>1, <2>2 DEF ReaderLists, Latest
  <1> QED
    BY <1>1, KVListInvariant, PTL

(***************************************************************************)
(* Verified reads.                                                         *)
(***************************************************************************)
\* Inductive as it stands: a step adds to what was pinned and signed, or reads.
FetchInv == FetchTypeOK /\ VerifiedIsAuthentic

\* A chunk that recovers to a key is one that its holder signed: a forged one recovers to
\* Nobody, who owns no single-owner address.
LEMMA RecoveredSigned ==
    ASSUME NEW c \in Chunk, Recovered(c) # Nobody
    PROVE  \E s \in signed : /\ s.payload = c.payload
                             /\ s.identifier = c.identifier
                             /\ s.by = Recovered(c)
  <1>1. c.signature \in signed
    BY DEF Chunk
  <1>2. /\ c.signature.identifier = c.identifier
        /\ c.signature.payload = c.payload
        /\ Recovered(c) = c.signature.by
    BY DEF Recovered
  <1> QED
    BY <1>1, <1>2

\* A content-addressed read returns pinned bytes under the root asked for.
LEMMA CacReads ==
    ASSUME FetchInv, NEW sp \in Spelling, NEW p \in pinned, NEW b \in Payload,
           NEW json \in BOOLEAN, verifyAndFetch(sp, p, b, json)
    PROVE  FetchInv'
  <1>1. UNCHANGED <<pinned, signed>>
    BY DEF verifyAndFetch
  <1>2. CASE read' = NoResult
    BY <1>1, <1>2 DEF FetchInv, FetchTypeOK, VerifiedIsAuthentic
  <1>3. CASE read' # NoResult
    <2>1. /\ read' = [kind |-> "cac", asked |-> Root(p), payload |-> b]
          /\ VerifyCac(parseBzzRef(sp, Root(p)), b)
          /\ parseBzzRef(sp, Root(p)) # NoResult
      BY <1>3 DEF verifyAndFetch
    <2>2. Root(b) = Root(p)
      BY <2>1 DEF VerifyCac, parseBzzRef
    <2>3. b = p
      BY <2>2 DEF Root
    <2> QED
      BY <1>1, <2>1, <2>2, <2>3 DEF FetchInv, FetchTypeOK, VerifiedIsAuthentic
  <1> QED
    BY <1>2, <1>3

\* A single-owner read returns what the owner signed for the identifier.
LEMMA SocReads ==
    ASSUME FetchInv, NEW o \in Owner, NEW i \in Identifier, NEW c \in Chunk,
           NEW json \in BOOLEAN, verifyAndFetchSoc(o, i, c, json)
    PROVE  FetchInv'
  <1>1. UNCHANGED <<pinned, signed>>
    BY DEF verifyAndFetchSoc
  <1>2. CASE read' = NoResult
    BY <1>1, <1>2 DEF FetchInv, FetchTypeOK, VerifiedIsAuthentic
  <1>3. CASE read' # NoResult
    <2>1. /\ read' = [kind |-> "soc", asked |-> SocAddress(i, o), payload |-> c.payload]
          /\ verifySocChunk(c, SocAddress(i, o))
      BY <1>3 DEF verifyAndFetchSoc
    <2>2. c.identifier = i /\ Recovered(c) = o
      BY <2>1 DEF verifySocChunk, SocAddress
    <2>3. Recovered(c) # Nobody
      BY <2>2, FetchAssumption
    <2>4. PICK s \in signed : /\ s.payload = c.payload
                              /\ s.identifier = i
                              /\ s.by = o
      BY <2>2, <2>3, RecoveredSigned DEF FetchInv
    <2>5. c.payload \in Payload
      BY DEF Chunk
    <2>6. read'.kind = "soc" /\ read'.payload = c.payload
          /\ read'.asked = SocAddress(s.identifier, s.by)
      BY <2>1, <2>4
    <2>7. FetchTypeOK'
      BY <1>1, <2>5, <2>6 DEF FetchInv, FetchTypeOK
    <2>8. VerifiedIsAuthentic'
      BY <1>1, <2>4, <2>6 DEF VerifiedIsAuthentic, SocAddress
    <2> QED
      BY <2>7, <2>8 DEF FetchInv
  <1> QED
    BY <1>2, <1>3

LEMMA FetchStep == FetchInv /\ [FetchNext]_fetchVars => FetchInv'
  <1> SUFFICES ASSUME FetchInv, [FetchNext]_fetchVars PROVE FetchInv'
    OBVIOUS
  <1>1. ASSUME NEW p \in Payload, pinImmutable(p) PROVE FetchInv'
    BY <1>1 DEF FetchInv, FetchTypeOK, VerifiedIsAuthentic, pinImmutable
  <1>2. ASSUME NEW o \in Owner, NEW i \in Identifier, NEW p \in Payload, pinSoc(o, i, p)
        PROVE  FetchInv'
    <2>1. /\ signed' = signed \cup {[by |-> o, identifier |-> i, payload |-> p]}
          /\ UNCHANGED <<pinned, read>>
      BY <1>2 DEF pinSoc
    <2>2. FetchTypeOK'
      BY <2>1 DEF FetchInv, FetchTypeOK
    <2>3. VerifiedIsAuthentic'
      BY <2>1 DEF FetchInv, VerifiedIsAuthentic
    <2> QED
      BY <2>2, <2>3 DEF FetchInv
  <1>3. CASE GatewayFails
    BY <1>3 DEF FetchInv, FetchTypeOK, VerifiedIsAuthentic, GatewayFails
  <1>4. CASE UNCHANGED fetchVars
    BY <1>4 DEF FetchInv, FetchTypeOK, VerifiedIsAuthentic, fetchVars
  <1> QED
    BY <1>1, <1>2, <1>3, <1>4, CacReads, SocReads DEF FetchNext

\* The inductive invariant holds from the start: nothing has been read.
THEOREM FetchInvariant == FetchSpec => []FetchInv
  <1>1. FetchInit => FetchInv
    BY DEF FetchInit, FetchInv, FetchTypeOK, VerifiedIsAuthentic
  <1> QED
    BY <1>1, FetchStep, PTL DEF FetchSpec

\* A verified read of index.js returns nothing but the bytes of the reference asked
\* for or a payload its owner signed for the identifier, whatever the gateway answers
\* and however many owners, identifiers and contents there are.
THEOREM ReadsAreAuthentic == FetchSpec => []VerifiedIsAuthentic
  <1>1. FetchInv => VerifiedIsAuthentic
    BY DEF FetchInv
  <1> QED
    BY <1>1, FetchInvariant, PTL
=============================================================================
