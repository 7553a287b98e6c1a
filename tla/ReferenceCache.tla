---------------------------- MODULE ReferenceCache ----------------------------
(***************************************************************************)
(* The Redis caches of parameters (internal/service/config.go) and of      *)
(* dictionaries (internal/service/dict.go) before the database: reads that *)
(* fill the cache, writes that invalidate it after their commit, and the   *)
(* refresh that clears all of it.  A revision counter keeps a reader from  *)
(* filling in what it read before an invalidation (configcache.go).        *)
(*                                                                         *)
(* The two caches share no key, lock or counter, so one of them is checked *)
(* at a time: kind says which.  They differ in how a write clears several  *)
(* keys and in what a cached value that cannot be parsed does.             *)
(*                                                                         *)
(* The value of a key is its number of changes.  An entry may expire at    *)
(* any time, or never; any Redis call may fail, with or without effect.    *)
(***************************************************************************)
EXTENDS Integers, FiniteSets

CONSTANTS
    Keys,         \* parameter keys, or dictionary types
    Readers,
    None,
    Corrupt,      \* a cached value that json.Unmarshal refuses
    MaxVersion,   \* bound: changes of one key
    MaxRevision   \* bound: no write or clearing starts from that revision

ASSUME MarkersAssumption == None \notin Int /\ Corrupt \notin Int /\ None # Corrupt

VARIABLES
    kind,         \* "config" or "dict"
    database,     \* key -> its version in the database
    cache,        \* key -> cached version, Corrupt or None
    revision,     \* the internal revision counter of the cache
    reader,       \* the readers' local state
    writer,       \* the write that holds configWriteMu or dictWriteMu
    clearer,      \* the clearing of the whole cache
    settled       \* key -> version that a successful write or clearing settled (history)

vars == <<kind, database, cache, revision, reader, writer, clearer, settled>>
redis == <<cache, revision>>

Reader == [pc: {"idle", "invalidate", "revision", "database", "store"}, key: Keys \cup {None},
           revision: Nat \cup {None}, value: Nat, floor: Nat]
Clearer == [pc: {"idle", "scan", "delete"}, left: SUBSET Keys, seen: [Keys -> Nat]]
NoReader == [pc |-> "idle", key |-> None, revision |-> None, value |-> 0, floor |-> 0]
NoWriter == [pc |-> "idle", keys |-> {}, left |-> {}]
NoClearer == [pc |-> "idle", left |-> {}, seen |-> [k \in Keys |-> 0]]

TypeOK ==
    /\ kind \in {"config", "dict"}
    /\ database \in [Keys -> Nat]
    /\ cache \in [Keys -> Nat \cup {None, Corrupt}]
    /\ kind = "config" => \A k \in Keys : cache[k] # Corrupt
    /\ revision \in Nat
    /\ reader \in [Readers -> Reader]
    /\ writer \in [pc: {"idle", "clear"}, keys: SUBSET Keys, left: SUBSET Keys]
    /\ clearer \in Clearer
    /\ settled \in [Keys -> Nat]

\* The cache is warm, cold or, for a dictionary, holds what another program wrote.
Init ==
    /\ kind \in {"config", "dict"}
    /\ database = [k \in Keys |-> 0]
    /\ cache \in [Keys -> {0, None} \cup IF kind = "dict" THEN {Corrupt} ELSE {}]
    /\ revision = 0
    /\ reader = [r \in Readers |-> NoReader]
    /\ writer = NoWriter
    /\ clearer = NoClearer
    /\ settled = [k \in Keys |-> 0]

-----------------------------------------------------------------------------
(* The scripts of pkg/redisx/configcache.go.                               *)

\* configCacheInvalidateScript
Invalidate(ks) ==
    /\ revision' = revision + 1
    /\ cache' = [k \in Keys |-> IF k \in ks THEN None ELSE cache[k]]

\* Mutant: the revision is not compared.
StoreAnyway(k, version, atRevision) ==
    /\ cache' = [cache EXCEPT ![k] = IF @ = None THEN version ELSE @]
    /\ UNCHANGED revision

\* configCacheStoreScript: only at the revision the reader saw, and never over
\* an entry.
Store(k, version, atRevision) ==
    /\ cache' = [cache EXCEPT ![k] = IF revision = atRevision /\ @ = None THEN version ELSE @]
    /\ UNCHANGED revision

-----------------------------------------------------------------------------
(* GetConfigValueByKey, GetDictDataByType.                                 *)

Step(r, pc) == reader' = [reader EXCEPT ![r] = [@ EXCEPT !.pc = pc]]
Answer(r, version, floor) ==
    reader' = [reader EXCEPT ![r] = [NoReader EXCEPT !.value = version, !.floor = floor]]

\* Mutant: whatever the entry holds is an answer.
ReadCacheUnparsed(r, k) ==
    /\ reader[r].pc = "idle"
    /\ cache[k] # None
    /\ Answer(r, cache[k], settled[k])
    /\ UNCHANGED <<kind, database, redis, writer, clearer, settled>>

\* A hit answers; a miss asks for the revision; a failing Redis leaves the
\* database only (revision None: nothing is filled in).
ReadCache(r, k) ==
    /\ reader[r].pc = "idle"
    /\ \/ /\ cache[k] \in Nat
          /\ Answer(r, cache[k], settled[k])
       \/ \E pc \in {"invalidate", "revision", "database"} :
            /\ pc = "invalidate" => cache[k] = Corrupt
            /\ pc = "revision" => cache[k] = None
            /\ reader' = [reader EXCEPT ![r] =
                 [pc |-> pc, key |-> k, revision |-> None, value |-> 0, floor |-> settled[k]]]
    /\ UNCHANGED <<kind, database, redis, writer, clearer, settled>>

\* A dictionary entry that cannot be parsed is invalidated before the fill.
InvalidateCorrupt(r) ==
    /\ reader[r].pc = "invalidate"
    /\ \/ Invalidate({reader[r].key}) /\ Step(r, "revision")
       \/ (Invalidate({reader[r].key}) \/ UNCHANGED redis) /\ Step(r, "database")
    /\ UNCHANGED <<kind, database, writer, clearer, settled>>

ReadRevision(r) ==
    /\ reader[r].pc = "revision"
    /\ \E v \in {revision, None} :
         reader' = [reader EXCEPT ![r] = [@ EXCEPT !.pc = "database", !.revision = v]]
    /\ UNCHANGED <<kind, database, redis, writer, clearer, settled>>

\* A failing query ends the read with an error.
ReadDatabase(r) ==
    LET version == database[reader[r].key] IN
    /\ reader[r].pc = "database"
    /\ \/ /\ reader[r].revision # None
          /\ reader' = [reader EXCEPT ![r] = [@ EXCEPT !.pc = "store", !.value = version]]
       \/ reader[r].revision = None /\ Answer(r, version, reader[r].floor)
       \/ Answer(r, 0, 0)
    /\ UNCHANGED <<kind, database, redis, writer, clearer, settled>>

StoreCache(r) ==
    /\ reader[r].pc = "store"
    /\ Store(reader[r].key, reader[r].value, reader[r].revision) \/ UNCHANGED redis
    /\ Answer(r, reader[r].value, reader[r].floor)
    /\ UNCHANGED <<kind, database, writer, clearer, settled>>

-----------------------------------------------------------------------------
(* Writes, under configWriteMu or dictWriteMu until they return.           *)

\* Create, update, rename or delete: the values of one or more keys change.
\* The commit may be hidden by an error; then nothing is cleared.
Write(ks) ==
    /\ writer.pc = "idle" /\ revision < MaxRevision
    /\ \A k \in ks : database[k] < MaxVersion
    /\ database' = [k \in Keys |-> IF k \in ks THEN database[k] + 1 ELSE database[k]]
    /\ writer' \in {[pc |-> "clear", keys |-> ks, left |-> ks], NoWriter}
    /\ UNCHANGED <<kind, redis, reader, clearer, settled>>

\* Mutant: an update clears the first of its keys only.
ClearWrittenFirst(ks) ==
    /\ writer.pc = "clear" /\ ks \subseteq writer.left /\ Cardinality(ks) = 1
    /\ \/ /\ Invalidate(ks)
          /\ writer' = NoWriter
          /\ settled' = [k \in Keys |-> IF k \in writer.keys THEN database[k] ELSE settled[k]]
       \/ /\ Invalidate(ks) \/ UNCHANGED redis
          /\ writer' = NoWriter
          /\ UNCHANGED settled
    /\ UNCHANGED <<kind, database, reader, clearer>>

\* After the commit: a parameter write clears all its keys in one script, a
\* dictionary write one after the other, and stops at the first failure.
ClearWritten(ks) ==
    /\ writer.pc = "clear" /\ ks \subseteq writer.left
    /\ IF kind = "config" THEN ks = writer.left ELSE Cardinality(ks) = 1
    /\ \/ /\ Invalidate(ks)
          /\ IF ks = writer.left
             THEN /\ writer' = NoWriter
                  /\ settled' = [k \in Keys |->
                                   IF k \in writer.keys THEN database[k] ELSE settled[k]]
             ELSE /\ writer' = [writer EXCEPT !.left = @ \ ks]
                  /\ UNCHANGED settled
       \/ /\ Invalidate(ks) \/ UNCHANGED redis
          /\ writer' = NoWriter
          /\ UNCHANGED settled
    /\ UNCHANGED <<kind, database, reader, clearer>>

-----------------------------------------------------------------------------
(* Clearing by hand, under no lock: of one key ...                         *)

Newer(versions, k) == IF settled[k] < versions[k] THEN versions[k] ELSE settled[k]

ClearKey(k) ==
    /\ revision < MaxRevision
    /\ Invalidate({k})
    /\ settled' \in {settled, [settled EXCEPT ![k] = Newer(database, k)]}
    /\ UNCHANGED <<kind, database, reader, writer, clearer>>

(* ... or of all, ClearConfigCache("") and ClearDictCache("").             *)

\* The new revision comes first ...
ClearAll ==
    /\ clearer.pc = "idle" /\ revision < MaxRevision
    /\ \/ Invalidate({}) /\ clearer' = [pc |-> "scan", left |-> {}, seen |-> database]
       \/ (Invalidate({}) \/ UNCHANGED redis) /\ UNCHANGED clearer
    /\ UNCHANGED <<kind, database, reader, writer, settled>>

\* ... then SCAN finds every entry there is now, and perhaps later ones ...
Scan ==
    /\ clearer.pc = "scan"
    /\ \E found \in SUBSET Keys :
         /\ {k \in Keys : cache[k] # None} \subseteq found
         /\ clearer' = [clearer EXCEPT !.pc = "delete", !.left = found]
    /\ UNCHANGED <<kind, database, redis, reader, writer, settled>>

\* ... which are deleted one by one, until one fails.
DeleteScanned(k) ==
    /\ clearer.pc = "delete" /\ k \in clearer.left
    /\ \/ cache' = [cache EXCEPT ![k] = None] /\ clearer' = [clearer EXCEPT !.left = @ \ {k}]
       \/ (cache' = [cache EXCEPT ![k] = None] \/ UNCHANGED cache) /\ clearer' = NoClearer
    /\ UNCHANGED <<kind, database, revision, reader, writer, settled>>

ClearedAll ==
    /\ clearer.pc = "delete" /\ clearer.left = {}
    /\ settled' = [k \in Keys |-> Newer(clearer.seen, k)]
    /\ clearer' = NoClearer
    /\ UNCHANGED <<kind, database, redis, reader, writer>>

-----------------------------------------------------------------------------
\* The TTL of thirty minutes.
Expire(k) ==
    /\ cache[k] # None
    /\ cache' = [cache EXCEPT ![k] = None]
    /\ UNCHANGED <<kind, database, revision, reader, writer, clearer, settled>>

\* The process stops and starts again: Redis and the database stay.
Crash ==
    /\ reader' = [r \in Readers |-> NoReader]
    /\ writer' = NoWriter
    /\ clearer' = NoClearer
    /\ UNCHANGED <<kind, database, redis, settled>>

Read(r) ==
    \/ \E k \in Keys : ReadCache(r, k)
    \/ InvalidateCorrupt(r) \/ ReadRevision(r) \/ ReadDatabase(r) \/ StoreCache(r)

Next ==
    \/ \E r \in Readers : Read(r)
    \/ \E ks \in (SUBSET Keys) \ {{}} : Write(ks) \/ ClearWritten(ks)
    \/ ClearAll \/ Scan \/ ClearedAll
    \/ \E k \in Keys : DeleteScanned(k) \/ ClearKey(k) \/ Expire(k)
    \/ Crash

Spec == Init /\ [][Next]_vars

-----------------------------------------------------------------------------
(* Properties.                                                             *)

\* Once a write has reported success, or the refresh of the whole cache has, no
\* entry is older than what it left in the database, although readers hold older
\* values from the database (configcache.go:68-69).  A write that reported a
\* failure, or a process that stopped, may leave an older entry until it expires.
CacheCoherent == \A k \in Keys : cache[k] \in Nat => cache[k] >= settled[k]

\* A read that begins after such a success answers with that value or a later
\* one, from the cache or from the database.
ReadsSettled == \A r \in Readers : reader[r].pc = "idle" => reader[r].value >= reader[r].floor

=============================================================================
