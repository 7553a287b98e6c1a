---------------------------- MODULE CacheMonitor ----------------------------
(***************************************************************************)
(* The cache monitor (internal/service/cache.go): an operator browses and  *)
(* clears what Redis holds, by the name of a cache or by a key that the    *)
(* request spells out.  The same Redis holds what it must not touch: the   *)
(* sessions, and the revisions by which ReferenceCache keeps old values    *)
(* out; clearing an entry of those caches takes a new revision first.      *)
(*                                                                         *)
(* A key is its prefix, up to the first colon, and the rest.               *)
(***************************************************************************)
EXTENDS Naturals, FiniteSets

CONSTANTS
    Allowed,        \* cacheNames, some of which are ...
    Versioned,      \* ... "sys_config:" and "sys_dict:"
    Foreign,        \* other prefixes, such as "login_tokens:"
    MaxKeys,        \* maxCacheKeys
    MaxClears       \* bound: revisions of a cache

ASSUME CacheMonitorAssumption ==
    /\ MaxClears \in Nat
    /\ Versioned \subseteq Allowed /\ Allowed \cap Foreign = {}

VARIABLES
    entries,        \* the keys there are, but for the revisions
    revisions,      \* prefix -> the value of its revision key, 0 when there is none
    toClear         \* the caches that a clearing of all has yet to come to

monitorVars == <<entries, revisions, toClear>>

Rests == {"", "revision", "x", "y"}
MonitorKey == [prefix: Allowed \cup Foreign, rest: Rests]
IsCacheMetadataKey(key) == key.prefix \in Versioned /\ key.rest = "revision"
Present == entries \cup {key \in MonitorKey : IsCacheMetadataKey(key) /\ revisions[key.prefix] > 0}
Under(name) == {key \in Present : key.prefix = name}

MonitorInit == entries = {} /\ revisions = [v \in Versioned |-> 0] /\ toClear = {}

\* Requests, logins and fills of the caches.
Appear(key) ==
    /\ key.rest # "" /\ ~IsCacheMetadataKey(key)
    /\ entries' = entries \cup {key}
    /\ UNCHANGED <<revisions, toClear>>

-----------------------------------------------------------------------------
DeleteKeys(keys) ==
    /\ entries' = entries \ keys
    /\ revisions' = [v \in Versioned |-> IF [prefix |-> v, rest |-> "revision"] \in keys THEN 0 ELSE revisions[v]]

\* ScanKeys deletes one after the other, until a call fails.
DeleteUnder(name) == \E done \in SUBSET Under(name) : DeleteKeys(done)

\* ClearConfigCache and ClearDictCache: of all entries, a new revision and then
\* one entry after the other; of one key, both in one script.
ClearVersioned(name, rest) ==
    /\ revisions[name] < MaxClears
    /\ revisions' = [revisions EXCEPT ![name] = @ + 1]
    /\ IF rest = ""
       THEN \E done \in SUBSET {key \in Under(name) : ~IsCacheMetadataKey(key)} : entries' = entries \ done
       ELSE entries' = entries \ {[prefix |-> name, rest |-> rest]}

ClearCacheByName(name) ==
    /\ name \in Allowed
    /\ IF name \in Versioned THEN ClearVersioned(name, "") ELSE DeleteUnder(name)

\* A key that is the prefix alone clears all of a reference cache.
ClearCacheByKey(key) ==
    /\ key.prefix \in Allowed
    /\ ~IsCacheMetadataKey(key)
    /\ IF key.prefix \in Versioned THEN ClearVersioned(key.prefix, key.rest) ELSE DeleteKeys({key})

\* Cache after cache, until a call fails.
ClearCacheAll ==
    \/ toClear = {} /\ toClear' = Allowed /\ UNCHANGED <<entries, revisions>>
    \/ \E name \in toClear : ClearCacheByName(name) /\ toClear' \in {toClear \ {name}, {}}

MonitorNext ==
    \/ \E key \in MonitorKey : Appear(key) \/ (ClearCacheByKey(key) /\ UNCHANGED toClear)
    \/ \E name \in Allowed \cup Foreign : ClearCacheByName(name) /\ UNCHANGED toClear
    \/ ClearCacheAll

MonitorSpec == MonitorInit /\ [][MonitorNext]_monitorVars

-----------------------------------------------------------------------------
\* What the monitor shows: the keys of a cache, the first of them when there
\* are many, and the value of one.
CacheKeys(name) ==
    LET keys == IF name \in Allowed THEN {key \in Under(name) : ~IsCacheMetadataKey(key)} ELSE {}
    IN {shown \in SUBSET keys : shown = keys \/ Cardinality(shown) = MaxKeys}

CacheValue(name, rest) ==
    LET key == [prefix |-> name, rest |-> rest]
    IN IF name \in Allowed /\ ~IsCacheMetadataKey(key) THEN {key} \cap Present ELSE {}

-----------------------------------------------------------------------------
MonitorTypeOK ==
    /\ entries \subseteq MonitorKey
    /\ revisions \in [Versioned -> 0..MaxClears]
    /\ toClear \subseteq Allowed

\* Whatever is cleared, by name, by any key or all at once: a session stays, a
\* revision never goes back, no entry goes from a reference cache without a new
\* one, and neither sessions nor revisions are shown (cache.go:22, cache.go:185).
MonitorHarmless ==
    /\ \A v \in Versioned :
         /\ revisions'[v] >= revisions[v]
         /\ (\E key \in entries \ entries' : key.prefix = v) => revisions'[v] > revisions[v]
    /\ \A key \in entries \ entries' : key.prefix \notin Foreign
    /\ \A name \in Allowed \cup Foreign :
         LET seen == (UNION CacheKeys(name)) \cup UNION {CacheValue(name, rest) : rest \in Rests}
         IN seen \subseteq {key \in entries : key.prefix = name /\ name \notin Foreign}

=============================================================================
