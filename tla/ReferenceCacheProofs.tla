------------------------- MODULE ReferenceCacheProofs -------------------------
(***************************************************************************)
(* ReferenceCache keeps its promise for any number of keys and readers,    *)
(* and so do the tables behind it and the monitor that clears it by hand,  *)
(* whose proofs follow its own.                                            *)
(*                                                                         *)
(* Call n a floor of key k when no entry of k is below n and no reader     *)
(* that may still fill k in, because it saw the current revision, holds a  *)
(* value below n.  No step breaks a floor that is not above the database   *)
(* (FillsKept, EntryKept): readers fetch what the database holds and every *)
(* invalidation makes the fills under way harmless.  What is settled, what *)
(* a write has cleared so far, and what the clearing of all has passed are *)
(* floors (Floors); that is the inductive invariant.                       *)
(***************************************************************************)
EXTENDS ReferenceCache, ReferenceTables, CacheMonitor, FiniteSetTheorems, TLAPS

EntryAtLeast(entry, n) == entry \in Nat => entry >= n
FillsAtLeast(rd, rev, k, n) ==
    \A r \in Readers :
        rd[r].pc = "store" /\ rd[r].key = k /\ rd[r].revision = rev => rd[r].value >= n

\* What a reader knows: its revision is not from the future, its value not newer
\* than the database, and neither is what it must not go back behind.
ReaderOK(q, db, rev) ==
    /\ q.pc # "idle" => q.key \in Keys /\ q.floor <= db[q.key]
    /\ q.pc \in {"database", "store"} /\ q.revision # None => q.revision <= rev
    /\ q.pc = "invalidate" => q.revision = None
    /\ q.pc = "store" => q.revision # None /\ q.floor <= q.value /\ q.value <= db[q.key]
    /\ q.pc = "idle" => q.floor <= q.value
ReadersOK == \A r \in Readers : ReaderOK(reader[r], database, revision)

WriterOK == writer.pc = "idle" => writer.keys = {}

SettledFloors ==
    \A k \in Keys : /\ settled[k] <= database[k]
                    /\ EntryAtLeast(cache[k], settled[k])
                    /\ FillsAtLeast(reader, revision, k, settled[k])
WrittenFloors ==
    \A k \in writer.keys \ writer.left :
        EntryAtLeast(cache[k], database[k]) /\ FillsAtLeast(reader, revision, k, database[k])
ClearedFloors ==
    clearer.pc # "idle" =>
        \A k \in Keys : /\ clearer.seen[k] <= database[k]
                        /\ FillsAtLeast(reader, revision, k, clearer.seen[k])
                        /\ clearer.pc = "delete" /\ k \notin clearer.left
                             => EntryAtLeast(cache[k], clearer.seen[k])
Floors == SettledFloors /\ WrittenFloors /\ ClearedFloors

IInv == TypeOK /\ ReadersOK /\ WriterOK /\ Floors

\* A reader's step leaves a record of its type.
LEMMA ReaderStep ==
    ASSUME TypeOK, ReadersOK, NEW r \in Readers, Read(r)
    PROVE  \E x \in Reader : reader' = [reader EXCEPT ![r] = x]
<1> DEFINE q == reader[r]
<1>1. q \in Reader /\ (q.pc # "idle" => q.key \in Keys /\ database[q.key] \in Nat)
  BY DEF TypeOK, ReadersOK, ReaderOK, Reader
<1>2. \A k \in Keys : settled[k] \in Nat /\ revision \in Nat
  BY DEF TypeOK
<1>3. ASSUME NEW k \in Keys, ReadCache(r, k)
      PROVE  \E x \in Reader : reader' = [reader EXCEPT ![r] = x]
  BY <1>2, <1>3 DEF ReadCache, Answer, NoReader, Reader
<1>4. CASE InvalidateCorrupt(r)
  <2>1. \E pc \in {"revision", "database"} : reader' = [reader EXCEPT ![r] = [q EXCEPT !.pc = pc]]
    BY <1>4 DEF InvalidateCorrupt, Step
  <2>2. \A pc \in {"revision", "database"} : [q EXCEPT !.pc = pc] \in Reader
    BY <1>1 DEF Reader
  <2>3. QED
    BY <2>1, <2>2
<1>5. CASE ReadRevision(r)
  <2>1. \E v \in {revision, None} :
          reader' = [reader EXCEPT ![r] = [q EXCEPT !.pc = "database", !.revision = v]]
    BY <1>5 DEF ReadRevision
  <2>2. \A v \in {revision, None} : [q EXCEPT !.pc = "database", !.revision = v] \in Reader
    BY <1>1, <1>2 DEF Reader, TypeOK
  <2>3. QED
    BY <2>1, <2>2
<1>6. CASE ReadDatabase(r)
  <2>1. q.pc = "database"
    BY <1>6 DEF ReadDatabase
  <2> DEFINE v == database[q.key]
  <2>2. v \in Nat
    BY <1>1, <2>1
  <2>3. \/ reader' = [reader EXCEPT ![r] = [q EXCEPT !.pc = "store", !.value = v]]
        \/ reader' = [reader EXCEPT ![r] = [NoReader EXCEPT !.value = v, !.floor = q.floor]]
        \/ reader' = [reader EXCEPT ![r] = [NoReader EXCEPT !.value = 0, !.floor = 0]]
    BY <1>6 DEF ReadDatabase, Answer
  <2> HIDE DEF v
  <2>4. QED
    BY <1>1, <2>2, <2>3 DEF Reader, NoReader
<1>7. CASE StoreCache(r)
  BY <1>1, <1>7 DEF StoreCache, Answer, NoReader, Reader
<1>8. QED
  BY <1>3, <1>4, <1>5, <1>6, <1>7 DEF Read

\* Types, for every step.
LEMMA TypeStep == ASSUME TypeOK, ReadersOK, [Next]_vars PROVE TypeOK'
<1> USE MarkersAssumption
<1>1. CASE UNCHANGED vars
  BY <1>1 DEF TypeOK, vars
<1>2. ASSUME NEW r \in Readers, Read(r) PROVE TypeOK'
  <2>1. reader' \in [Readers -> Reader]
    BY <1>2, ReaderStep DEF TypeOK
  <2>2. /\ cache' \in [Keys -> Nat \cup {None, Corrupt}] /\ revision' \in Nat
        /\ kind = "config" => \A k \in Keys : cache'[k] # Corrupt
    <3>1. CASE InvalidateCorrupt(r)
      BY <3>1 DEF TypeOK, InvalidateCorrupt, Invalidate, redis
    <3>2. CASE StoreCache(r)
      <4>1. reader[r].value \in Nat
        BY DEF TypeOK, Reader
      <4> DEFINE v == reader[r].value
      <4>2. revision' = revision
            /\ (UNCHANGED cache \/ cache' = [cache EXCEPT ![reader[r].key] =
                  IF revision = reader[r].revision /\ @ = None THEN v ELSE @])
        BY <3>2 DEF StoreCache, Store, redis
      <4> HIDE DEF v
      <4>3. v \in Nat
        BY <4>1 DEF v
      <4>4. QED
        BY <4>2, <4>3 DEF TypeOK
    <3>3. CASE UNCHANGED redis
      BY <3>3 DEF TypeOK, redis
    <3>4. QED
      BY <1>2, <3>1, <3>2, <3>3 DEF Read, ReadCache, ReadRevision, ReadDatabase
  <2>3. UNCHANGED <<kind, database, writer, clearer, settled>>
    BY <1>2 DEF Read, ReadCache, InvalidateCorrupt, ReadRevision, ReadDatabase, StoreCache
  <2>4. QED
    BY <2>1, <2>2, <2>3 DEF TypeOK
<1>3. ASSUME NEW ks \in SUBSET Keys, Write(ks) PROVE TypeOK'
  BY <1>3 DEF TypeOK, Write, NoWriter, redis
<1>4. ASSUME NEW ks \in SUBSET Keys, ClearWritten(ks) PROVE TypeOK'
  BY <1>4 DEF TypeOK, ClearWritten, Invalidate, NoWriter, redis
<1>5. ASSUME ClearAll \/ Scan PROVE TypeOK'
  <2>1. \/ UNCHANGED clearer
        \/ clearer' = [pc |-> "scan", left |-> {}, seen |-> database]
        \/ \E found \in SUBSET Keys : clearer' = [clearer EXCEPT !.pc = "delete", !.left = found]
    BY <1>5 DEF ClearAll, Scan
  <2>2. clearer' \in Clearer
    <3> DEFINE S == [Keys -> Nat]
    <3>1. clearer \in [pc: {"idle", "scan", "delete"}, left: SUBSET Keys, seen: S] /\ database \in S
      BY DEF TypeOK, Clearer
    <3> HIDE DEF S
    <3> DEFINE R == [pc: {"idle", "scan", "delete"}, left: SUBSET Keys, seen: S]
    <3>2. \A c \in R, found \in SUBSET Keys : [c EXCEPT !.pc = "delete", !.left = found] \in R
      OBVIOUS
    <3>3. \A db \in S : [pc |-> "scan", left |-> {}, seen |-> db] \in R
      OBVIOUS
    <3>4. clearer' \in R
      <4> HIDE DEF R
      <4>1. clearer \in R /\ database \in S
        BY <3>1 DEF R
      <4>2. QED
        BY <2>1, <3>2, <3>3, <4>1
    <3>5. QED
      BY <3>4 DEF S, Clearer
  <2>3. cache' \in [Keys -> Nat \cup {None, Corrupt}] /\ (\A k \in Keys : cache'[k] = cache[k])
    <3>1. cache \in [Keys -> Nat \cup {None, Corrupt}]
      BY DEF TypeOK
    <3>2. cache' = cache \/ cache' = [k \in Keys |-> cache[k]]
      <4>1. cache' = cache \/ cache' = [k \in Keys |-> IF k \in {} THEN None ELSE cache[k]]
        BY <1>5 DEF ClearAll, Scan, Invalidate, redis
      <4>2. QED
        BY <4>1
    <3>3. QED
      BY <3>1, <3>2
  <2>4. revision' \in Nat /\ UNCHANGED <<kind, database, reader, writer, settled>>
    <3>1. CASE ClearAll
      BY <3>1 DEF TypeOK, ClearAll, Invalidate, redis
    <3>2. CASE Scan
      BY <3>2 DEF TypeOK, Scan, redis
    <3>3. QED
      BY <1>5, <3>1, <3>2
  <2>5. kind = "config" => \A k \in Keys : cache'[k] # Corrupt
    BY <2>3 DEF TypeOK
  <2>6. QED
    BY <2>2, <2>3, <2>4, <2>5, Zenon DEF TypeOK
<1>6. ASSUME ClearedAll PROVE TypeOK'
  <2>1. \A k \in Keys : Newer(clearer.seen, k) \in Nat
    BY DEF TypeOK, Newer, Clearer
  <2>2. QED
    BY <1>6, <2>1 DEF TypeOK, ClearedAll, NoClearer, Clearer, redis
<1>7. ASSUME NEW k \in Keys, DeleteScanned(k) PROVE TypeOK'
  BY <1>7 DEF TypeOK, DeleteScanned, NoClearer, Clearer
<1>8. ASSUME NEW k \in Keys, ClearKey(k) PROVE TypeOK'
  <2>1. Newer(database, k) \in Nat
    BY DEF TypeOK, Newer, Clearer
  <2>2. QED
    BY <1>8, <2>1 DEF TypeOK, ClearKey, Invalidate
<1>9. ASSUME NEW k \in Keys, Expire(k) PROVE TypeOK'
  BY <1>9 DEF TypeOK, Expire
<1>10. CASE Crash
  BY <1>10 DEF TypeOK, Crash, NoReader, NoWriter, NoClearer, Clearer, Reader, redis
<1>11. QED
  BY <1>1, <1>2, <1>3, <1>4, <1>5, <1>6, <1>7, <1>8, <1>9, <1>10 DEF Next

\* The database and the revision only grow.
LEMMA Monotone ==
    ASSUME TypeOK, [Next]_vars
    PROVE  /\ \A k \in Keys : database'[k] \in Nat /\ database'[k] >= database[k]
           /\ revision' \in Nat /\ revision' >= revision
<1>1. \A k \in Keys : database[k] \in Nat
  BY DEF TypeOK
<1>2. \/ UNCHANGED database
      \/ \E ks \in SUBSET Keys :
           database' = [k \in Keys |-> IF k \in ks THEN database[k] + 1 ELSE database[k]]
  BY DEF Next, vars, Read, ReadCache, InvalidateCorrupt, ReadRevision, ReadDatabase, StoreCache,
         Write, ClearWritten, ClearAll, Scan, ClearedAll, DeleteScanned, ClearKey, Expire, Crash
<1>3. revision' \in {revision, revision + 1}
  BY DEF Next, vars, redis, Read, ReadCache, InvalidateCorrupt, ReadRevision, ReadDatabase,
         StoreCache, Store, Invalidate, Write, ClearWritten, ClearAll, Scan, ClearedAll,
         DeleteScanned, ClearKey, Expire, Crash
<1>4. revision \in Nat
  BY DEF TypeOK
<1>5. QED
  BY <1>1, <1>2, <1>3, <1>4

\* Who is not reading keeps its records.
LEMMA ReadersFrame ==
    ASSUME [Next]_vars
    PROVE  \/ UNCHANGED reader
           \/ \E r \in Readers : Read(r)
           \/ Crash
BY DEF Next, vars, Write, ClearWritten, ClearAll, Scan, ClearedAll, DeleteScanned, ClearKey, Expire

LEMMA ReadersStep ==
    ASSUME TypeOK, ReadersOK, SettledFloors, [Next]_vars
    PROVE  ReadersOK'
<1> USE MarkersAssumption
<1>1. ASSUME NEW x \in Reader, ReaderOK(x, database, revision) PROVE ReaderOK(x, database', revision')
  <2>1. x.key \in Keys => /\ database[x.key] \in Nat /\ database'[x.key] \in Nat
                          /\ database[x.key] <= database'[x.key]
    BY Monotone DEF TypeOK
  <2>2. /\ revision \in Nat /\ revision' \in Nat /\ revision <= revision'
        /\ x.floor \in Nat /\ x.value \in Nat /\ x.revision \in Nat \cup {None}
    BY Monotone DEF TypeOK, Reader
  <2>3. QED
    BY <1>1, <2>1, <2>2 DEF ReaderOK
<1>2. \A r \in Readers : /\ reader[r] \in Reader
                         /\ ReaderOK(reader[r], database, revision)
                         /\ ReaderOK(reader[r], database', revision')
  BY <1>1 DEF TypeOK, ReadersOK
<1>3. CASE UNCHANGED reader
  BY <1>2, <1>3 DEF ReadersOK
<1>4. CASE Crash
  BY <1>4 DEF Crash, ReadersOK, ReaderOK, NoReader
<1>5. ASSUME NEW r \in Readers, Read(r) PROVE ReadersOK'
  <2> DEFINE q == reader[r]
             x == reader'[r]
  <2>1. q \in Reader /\ ReaderOK(q, database, revision)
    BY <1>2
  <2>2. \E y : reader' = [reader EXCEPT ![r] = y]
    BY <1>5, ReaderStep
  <2>3. SUFFICES ReaderOK(x, database', revision')
    BY <1>2, <2>2 DEF ReadersOK, TypeOK
  <2>4. \A k \in Keys : settled[k] \in Nat /\ database[k] \in Nat
    BY DEF TypeOK
  <2>5. UNCHANGED database /\ revision \in Nat
    BY <1>5 DEF Read, ReadCache, InvalidateCorrupt, ReadRevision, ReadDatabase, StoreCache, TypeOK
  <2>6. ASSUME NEW k \in Keys, ReadCache(r, k) PROVE ReaderOK(x, database', revision')
    <3> DEFINE c == cache[k]
               f == settled[k]
    <3>1. \/ c \in Nat /\ x = [NoReader EXCEPT !.value = c, !.floor = f]
          \/ \E pc \in {"invalidate", "revision", "database"} :
               x = [pc |-> pc, key |-> k, revision |-> None, value |-> 0, floor |-> f]
      BY <2>6 DEF ReadCache, Answer, TypeOK
    <3>2. f \in Nat /\ (c \in Nat => f <= c) /\ f <= database[k]
      BY <2>4 DEF SettledFloors, EntryAtLeast
    <3> HIDE DEF c, f
    <3>3. \/ x.pc = "idle" /\ x.value = c /\ x.floor = f /\ c \in Nat
          \/ /\ x.pc \in {"invalidate", "revision", "database"}
             /\ x.key = k /\ x.revision = None /\ x.floor = f
      <4>1. CASE c \in Nat /\ x = [NoReader EXCEPT !.value = c, !.floor = f]
        BY <4>1 DEF NoReader
      <4>2. ASSUME NEW pc \in {"invalidate", "revision", "database"},
                   x = [pc |-> pc, key |-> k, revision |-> None, value |-> 0, floor |-> f]
            PROVE  x.pc = pc /\ x.key = k /\ x.revision = None /\ x.floor = f
        BY <4>2
      <4>3. QED
        BY <3>1, <4>1, <4>2
    <3>4. QED
      BY <2>4, <2>5, <3>2, <3>3 DEF ReaderOK
  <2>7. CASE InvalidateCorrupt(r)
    <3>1. x.pc \in {"revision", "database"} /\ x.key = q.key /\ x.revision = q.revision /\ x.floor = q.floor
      <4>1. \E pc \in {"revision", "database"} : reader' = [reader EXCEPT ![r] = [q EXCEPT !.pc = pc]]
        BY <2>7 DEF InvalidateCorrupt, Step
      <4>2. QED
        BY <2>1, <4>1 DEF Reader, TypeOK
    <3>2. q.pc = "invalidate" /\ q.revision = None
      BY <2>1, <2>7 DEF InvalidateCorrupt, ReaderOK
    <3>3. QED
      BY <2>1, <2>5, <3>1, <3>2 DEF ReaderOK
  <2>8. CASE ReadRevision(r)
    <3>1. /\ q.pc = "revision" /\ revision' = revision
          /\ x.pc = "database" /\ x.key = q.key /\ x.floor = q.floor /\ x.revision \in {revision, None}
      BY <2>1, <2>8 DEF ReadRevision, redis, TypeOK, Reader
    <3>2. QED
      BY <2>1, <2>5, <3>1 DEF ReaderOK
  <2>9. CASE ReadDatabase(r)
    <3> DEFINE v == database[q.key]
    <3>1. q.pc = "database" /\ revision' = revision
      BY <2>9 DEF ReadDatabase, redis
    <3>2. v \in Nat /\ q.floor <= v /\ q.key \in Keys
      BY <2>1, <2>4, <3>1 DEF ReaderOK
    <3>3. \/ q.revision # None /\ x = [q EXCEPT !.pc = "store", !.value = v]
          \/ x = [NoReader EXCEPT !.value = v, !.floor = q.floor]
          \/ x = [NoReader EXCEPT !.value = 0, !.floor = 0]
      BY <2>9 DEF ReadDatabase, Answer, TypeOK
    <3> HIDE DEF v
    <3>4. \/ /\ q.revision # None /\ x.pc = "store" /\ x.value = v
             /\ x.key = q.key /\ x.floor = q.floor /\ x.revision = q.revision
          \/ x.pc = "idle" /\ x.value = v /\ x.floor = q.floor
          \/ x.pc = "idle" /\ x.value = 0 /\ x.floor = 0
      BY <2>1, <3>3 DEF Reader, NoReader
    <3>5. database'[q.key] = v
      BY <2>5 DEF v
    <3>6. q.revision # None => q.revision <= revision'
      BY <2>1, <3>1 DEF ReaderOK
    <3>7. QED
      BY <3>2, <3>4, <3>5, <3>6 DEF ReaderOK
  <2>10. CASE StoreCache(r)
    <3>1. q.pc = "store" /\ x = [NoReader EXCEPT !.value = q.value, !.floor = q.floor]
      BY <2>10 DEF StoreCache, Answer, TypeOK
    <3>2. QED
      BY <2>1, <3>1 DEF ReaderOK, NoReader
  <2>11. QED
    BY <1>5, <2>6, <2>7, <2>8, <2>9, <2>10 DEF Read
<1>6. QED
  BY <1>3, <1>4, <1>5, ReadersFrame

\* Every step leaves the cache and the revision alone, makes a new revision and
\* at most deletes entries, or fills in what a reader holds at this revision.
LEMMA CacheMoves ==
    ASSUME TypeOK, [Next]_vars
    PROVE  \/ UNCHANGED <<cache, revision>>
           \/ /\ revision' \in {revision, revision + 1}
              /\ revision' = revision => UNCHANGED reader \/ Crash
              /\ \A k \in Keys : cache'[k] \in {cache[k], None}
           \/ \E r \in Readers :
                /\ reader[r].pc = "store" /\ StoreCache(r) /\ revision' = revision
                /\ \A k \in Keys : \/ cache'[k] = cache[k]
                                   \/ /\ k = reader[r].key /\ revision = reader[r].revision
                                      /\ cache'[k] = reader[r].value
<1>1. CASE UNCHANGED vars
  BY <1>1 DEF vars
<1>2. ASSUME NEW r \in Readers, Read(r)
      PROVE  \/ UNCHANGED <<cache, revision>>
             \/ /\ revision' = revision + 1
                /\ \A k \in Keys : cache'[k] \in {cache[k], None}
             \/ /\ reader[r].pc = "store" /\ StoreCache(r) /\ revision' = revision
                /\ \A k \in Keys : \/ cache'[k] = cache[k]
                                   \/ /\ k = reader[r].key /\ revision = reader[r].revision
                                      /\ cache'[k] = reader[r].value
  <2>1. CASE InvalidateCorrupt(r)
    BY <2>1 DEF InvalidateCorrupt, Invalidate, redis
  <2>2. CASE StoreCache(r)
    <3> DEFINE v == reader[r].value
               n == reader[r].key
               g == reader[r].revision
    <3>1. /\ reader[r].pc = "store" /\ revision' = revision
          /\ \/ UNCHANGED cache
             \/ cache' = [cache EXCEPT ![n] = IF revision = g /\ @ = None THEN v ELSE @]
      BY <2>2 DEF StoreCache, Store, redis
    <3> HIDE DEF v, n, g
    <3>2. \A k \in Keys : \/ cache'[k] = cache[k]
                          \/ k = n /\ revision = g /\ cache'[k] = v
      BY <3>1 DEF TypeOK
    <3>3. QED
      BY <2>2, <3>1, <3>2 DEF v, n, g
  <2>3. QED
    BY <1>2, <2>1, <2>2 DEF Read, ReadCache, ReadRevision, ReadDatabase, redis
<1>3. ASSUME NEW ks \in SUBSET Keys, Write(ks) \/ ClearWritten(ks)
      PROVE  \/ UNCHANGED <<cache, revision>>
             \/ revision' = revision + 1 /\ \A k \in Keys : cache'[k] \in {cache[k], None}
  BY <1>3 DEF Write, ClearWritten, Invalidate, redis
<1>4. ASSUME ClearAll \/ Scan \/ ClearedAll
      PROVE  \/ UNCHANGED <<cache, revision>>
             \/ revision' = revision + 1 /\ \A k \in Keys : cache'[k] \in {cache[k], None}
  BY <1>4 DEF ClearAll, Scan, ClearedAll, Invalidate, redis
<1>5. ASSUME NEW k \in Keys, ClearKey(k)
      PROVE  revision' = revision + 1 /\ \A o \in Keys : cache'[o] \in {cache[o], None}
  BY <1>5 DEF ClearKey, Invalidate
<1>6. ASSUME NEW k \in Keys, DeleteScanned(k) \/ Expire(k)
      PROVE  revision' = revision /\ UNCHANGED reader
             /\ \A o \in Keys : cache'[o] \in {cache[o], None}
  BY <1>6 DEF DeleteScanned, Expire, TypeOK
<1>7. CASE Crash
  BY <1>7 DEF Crash, redis
<1>8. revision + 1 # revision
  BY DEF TypeOK
<1>9. QED
  BY <1>1, <1>2, <1>3, <1>4, <1>5, <1>6, <1>7, <1>8 DEF Next

LEMMA Answered ==
    ASSUME TypeOK, NEW r \in Readers, NEW a, NEW b, Answer(r, a, b)
    PROVE  reader'[r].pc = "idle"
BY DEF TypeOK, Answer, NoReader

\* A reader is about to fill in what the database held when it read it.
LEMMA Fetched ==
    ASSUME TypeOK, ReadersOK, NEW r \in Readers, Read(r), reader'[r].pc = "store"
    PROVE  reader'[r].value = database[reader'[r].key]
<1> DEFINE q == reader[r]
           x == reader'[r]
<1>1. q \in Reader
  BY DEF TypeOK
<1>2. CASE ReadDatabase(r)
  <2> DEFINE v == database[q.key]
  <2>1. reader' = [reader EXCEPT ![r] = [q EXCEPT !.pc = "store", !.value = v]] \/ x.pc = "idle"
    BY <1>2, Answered DEF ReadDatabase
  <2> HIDE DEF v
  <2>2. x = [q EXCEPT !.pc = "store", !.value = v] \/ x.pc = "idle"
    BY <2>1 DEF TypeOK
  <2>3. (x.value = v /\ x.key = q.key) \/ x.pc = "idle"
    <3> HIDE DEF x, q
    <3>1. QED
      BY <1>1, <2>2 DEF Reader
  <2>4. QED
    BY <2>3 DEF v
<1>3. CASE InvalidateCorrupt(r)
  <2>1. \E pc \in {"revision", "database"} : reader' = [reader EXCEPT ![r] = [q EXCEPT !.pc = pc]]
    BY <1>3 DEF InvalidateCorrupt, Step
  <2>2. x.pc \in {"revision", "database"}
    BY <1>1, <2>1 DEF Reader, TypeOK
  <2>3. QED
    BY <2>2
<1>4. CASE ReadRevision(r)
  <2>1. \E v \in {revision, None} :
          reader' = [reader EXCEPT ![r] = [q EXCEPT !.pc = "database", !.revision = v]]
    BY <1>4 DEF ReadRevision
  <2>2. x.pc = "database"
    BY <1>1, <2>1 DEF Reader, TypeOK
  <2>3. QED
    BY <2>2
<1>5. CASE (\E k \in Keys : ReadCache(r, k)) \/ StoreCache(r)
  <2>1. \/ x.pc = "idle"
        \/ \E k \in Keys, pc \in {"invalidate", "revision", "database"} :
             reader' = [reader EXCEPT ![r] =
               [pc |-> pc, key |-> k, revision |-> None, value |-> 0, floor |-> settled[k]]]
    BY <1>5, Answered DEF ReadCache, StoreCache
  <2>2. x.pc # "store"
    BY <2>1 DEF TypeOK
  <2>3. QED
    BY <2>2
<1>6. QED
  BY <1>2, <1>3, <1>4, <1>5 DEF Read

\* No step breaks a floor that is not above the database: first for the readers
\* that may still fill in, ...
LEMMA FillsKept ==
    ASSUME TypeOK, ReadersOK, [Next]_vars,
           NEW k \in Keys, NEW n \in Nat, n <= database[k], FillsAtLeast(reader, revision, k, n)
    PROVE  FillsAtLeast(reader', revision', k, n)
<1> USE MarkersAssumption
<1>1. SUFFICES ASSUME NEW o \in Readers,
                      reader'[o].pc = "store", reader'[o].key = k, reader'[o].revision = revision'
               PROVE  reader'[o].value >= n
  BY DEF FillsAtLeast
<1>2. CASE reader'[o] = reader[o]
  <2>1. reader[o].revision <= revision
    BY <1>1, <1>2 DEF ReadersOK, ReaderOK
  <2>2. revision' = revision
    BY <1>1, <1>2, <2>1, Monotone DEF TypeOK
  <2>3. QED
    BY <1>1, <1>2, <2>2 DEF FillsAtLeast
<1>3. CASE reader'[o] # reader[o]
  <2>1. CASE Crash
    BY <1>1, <2>1 DEF Crash, NoReader
  <2>2. ASSUME NEW r \in Readers, Read(r) PROVE reader'[o].value >= n
    <3>1. o = r
      BY <1>3, <2>2, ReaderStep DEF TypeOK
    <3>2. reader'[o].value = database[k]
      BY <1>1, <2>2, <3>1, Fetched
    <3>3. QED
      BY <3>2 DEF TypeOK
  <2>3. QED
    BY <1>3, <2>1, <2>2, ReadersFrame
<1>4. QED
  BY <1>2, <1>3

\* ... and so for the entry.
LEMMA EntryKept ==
    ASSUME TypeOK, [Next]_vars,
           NEW k \in Keys, NEW n \in Nat, EntryAtLeast(cache[k], n), FillsAtLeast(reader, revision, k, n)
    PROVE  EntryAtLeast(cache'[k], n)
<1> USE MarkersAssumption
<1>1. CASE cache'[k] \in {cache[k], None}
  BY <1>1 DEF EntryAtLeast
<1>2. ASSUME NEW r \in Readers, reader[r].pc = "store", k = reader[r].key,
             revision = reader[r].revision, cache'[k] = reader[r].value
      PROVE  EntryAtLeast(cache'[k], n)
  BY <1>2 DEF FillsAtLeast, EntryAtLeast
<1>3. QED
  BY <1>1, <1>2, CacheMoves

\* A new revision makes every number a floor for the fills under way.
LEMMA NewRevision ==
    ASSUME TypeOK, ReadersOK, revision' = revision + 1, UNCHANGED reader, NEW k \in Keys, NEW n
    PROVE  FillsAtLeast(reader', revision', k, n)
<1> USE MarkersAssumption
<1>1. ASSUME NEW o \in Readers, reader[o].pc = "store" PROVE reader[o].revision # revision + 1
  <2>1. reader[o].revision <= revision /\ reader[o].revision \in Nat
    BY <1>1 DEF TypeOK, ReadersOK, ReaderOK, Reader
  <2>2. QED
    BY <2>1 DEF TypeOK
<1>2. QED
  BY <1>1 DEF FillsAtLeast

LEMMA SettledStep ==
    ASSUME TypeOK, ReadersOK, Floors, [Next]_vars
    PROVE  SettledFloors'
<1> USE MarkersAssumption
<1>1. SUFFICES ASSUME NEW k \in Keys
               PROVE  /\ settled'[k] <= database'[k]
                      /\ EntryAtLeast(cache'[k], settled'[k])
                      /\ FillsAtLeast(reader', revision', k, settled'[k])
  BY DEF SettledFloors
<1>2. /\ settled[k] \in Nat /\ database[k] \in Nat /\ database'[k] \in Nat
      /\ settled[k] <= database[k] /\ database[k] <= database'[k]
      /\ EntryAtLeast(cache[k], settled[k]) /\ FillsAtLeast(reader, revision, k, settled[k])
  BY Monotone DEF TypeOK, Floors, SettledFloors
\* A key whose settled version stays keeps its floor; a key that is deleted at a
\* new revision may settle at any version.
<1>3. CASE settled'[k] = settled[k]
  <2>1. EntryAtLeast(cache'[k], settled[k]) /\ FillsAtLeast(reader', revision', k, settled[k])
    BY <1>2, EntryKept, FillsKept
  <2>2. QED
    BY <1>2, <1>3, <2>1 DEF EntryAtLeast, FillsAtLeast
<1>4. ASSUME revision' = revision + 1, UNCHANGED reader, settled'[k] <= database'[k],
             EntryAtLeast(cache'[k], settled'[k])
      PROVE  /\ settled'[k] <= database'[k]
             /\ EntryAtLeast(cache'[k], settled'[k])
             /\ FillsAtLeast(reader', revision', k, settled'[k])
  <2> DEFINE n == settled'[k]
  <2>1. \A m : FillsAtLeast(reader', revision', k, m)
    BY <1>4, NewRevision
  <2>2. QED
    BY <1>4, <2>1 DEF FillsAtLeast
<1>5. ASSUME NEW ks \in SUBSET Keys, ClearWritten(ks), settled'[k] # settled[k]
      PROVE  /\ revision' = revision + 1 /\ UNCHANGED reader /\ settled'[k] <= database'[k]
             /\ EntryAtLeast(cache'[k], settled'[k])
  <2>1. /\ ks = writer.left /\ k \in writer.keys /\ settled'[k] = database[k]
        /\ UNCHANGED <<database, reader>> /\ Invalidate(ks)
    BY <1>5 DEF ClearWritten, TypeOK
  <2>2. CASE k \in ks
    BY <1>2, <2>1, <2>2 DEF Invalidate, EntryAtLeast
  <2>3. CASE k \notin ks
    <3>1. EntryAtLeast(cache[k], database[k])
      BY <2>1, <2>3 DEF Floors, WrittenFloors
    <3>2. QED
      BY <1>2, <2>1, <2>3, <3>1 DEF Invalidate, EntryAtLeast
  <2>4. QED
    BY <2>2, <2>3
<1>6. ASSUME NEW o \in Keys, ClearKey(o), settled'[k] # settled[k]
      PROVE  /\ revision' = revision + 1 /\ UNCHANGED reader /\ settled'[k] <= database'[k]
             /\ EntryAtLeast(cache'[k], settled'[k])
  <2>1. /\ k = o /\ settled'[k] = Newer(database, k)
        /\ UNCHANGED <<database, reader>> /\ Invalidate({k})
    <3>1. settled' = [settled EXCEPT ![o] = Newer(database, o)]
      BY <1>6 DEF ClearKey
    <3>2. QED
      BY <1>6, <3>1 DEF ClearKey, TypeOK
  <2>2. QED
    BY <1>2, <2>1 DEF Newer, Invalidate, EntryAtLeast
<1>7. ASSUME ClearedAll, settled'[k] # settled[k]
      PROVE  /\ settled'[k] <= database'[k]
             /\ EntryAtLeast(cache'[k], settled'[k])
             /\ FillsAtLeast(reader', revision', k, settled'[k])
  <2> DEFINE n == clearer.seen[k]
  <2>1. /\ settled'[k] = n /\ clearer.pc = "delete" /\ clearer.left = {}
        /\ UNCHANGED <<database, cache, revision, reader>>
    BY <1>7 DEF ClearedAll, Newer, redis
  <2>2. n <= database[k] /\ EntryAtLeast(cache[k], n)
                         /\ FillsAtLeast(reader, revision, k, n)
    BY <2>1 DEF Floors, ClearedFloors
  <2>3. QED
    BY <2>1, <2>2 DEF EntryAtLeast, FillsAtLeast
<1>8. \/ settled' = settled
      \/ \E ks \in SUBSET Keys : ClearWritten(ks)
      \/ \E o \in Keys : ClearKey(o)
      \/ ClearedAll
  BY DEF Next, vars, Read, ReadCache, InvalidateCorrupt, ReadRevision, ReadDatabase, StoreCache,
         Write, ClearAll, Scan, DeleteScanned, Expire, Crash
<1>9. CASE settled'[k] # settled[k]
  BY <1>4, <1>5, <1>6, <1>7, <1>8, <1>9
<1>10. QED
  BY <1>3, <1>9

LEMMA WrittenStep ==
    ASSUME TypeOK, ReadersOK, WriterOK, Floors, [Next]_vars
    PROVE  WrittenFloors' /\ WriterOK'
<1> USE MarkersAssumption
<1>1. \/ UNCHANGED writer /\ (UNCHANGED database \/ writer.pc = "idle")
      \/ writer' = NoWriter
      \/ \E ks \in SUBSET Keys : writer' = [pc |-> "clear", keys |-> ks, left |-> ks]
      \/ \E ks \in SUBSET Keys : /\ writer' = [writer EXCEPT !.left = @ \ ks] /\ writer.pc = "clear"
                                 /\ UNCHANGED <<database, reader>> /\ Invalidate(ks)
  BY DEF Next, vars, Read, ReadCache, InvalidateCorrupt, ReadRevision, ReadDatabase, StoreCache,
         Write, ClearWritten, ClearAll, Scan, ClearedAll, DeleteScanned, ClearKey, Expire, Crash
<1>2. \A k \in Keys : database[k] \in Nat
  BY DEF TypeOK
<1>3. ASSUME NEW k \in writer.keys \ writer.left, UNCHANGED database
      PROVE  /\ EntryAtLeast(cache'[k], database'[k])
             /\ FillsAtLeast(reader', revision', k, database'[k])
  <2>1. k \in Keys
    BY DEF TypeOK
  <2>2. EntryAtLeast(cache'[k], database[k]) /\ FillsAtLeast(reader', revision', k, database[k])
    <3> DEFINE n == database[k]
    <3>1. n \in Nat /\ n <= database[k] /\ EntryAtLeast(cache[k], n)
                                        /\ FillsAtLeast(reader, revision, k, n)
      BY <1>2, <2>1 DEF Floors, WrittenFloors
    <3> HIDE DEF n
    <3>2. EntryAtLeast(cache'[k], n) /\ FillsAtLeast(reader', revision', k, n)
      BY <2>1, <3>1, EntryKept, FillsKept
    <3>3. n' = n
      BY <1>3 DEF n
    <3>4. QED
      BY <1>3, <3>2, <3>3 DEF n, EntryAtLeast, FillsAtLeast
  <2>3. QED
    BY <1>3, <2>2 DEF EntryAtLeast, FillsAtLeast
<1>4. CASE UNCHANGED writer /\ (UNCHANGED database \/ writer.pc = "idle")
  BY <1>3, <1>4 DEF WrittenFloors, WriterOK
<1>5. CASE writer' = NoWriter
  BY <1>5 DEF WrittenFloors, WriterOK, NoWriter
<1>6. ASSUME NEW ks \in SUBSET Keys, writer' = [pc |-> "clear", keys |-> ks, left |-> ks]
      PROVE  WrittenFloors' /\ WriterOK'
  BY <1>6 DEF WrittenFloors, WriterOK
<1>7. ASSUME NEW ks \in SUBSET Keys, writer' = [writer EXCEPT !.left = @ \ ks], writer.pc = "clear",
             UNCHANGED <<database, reader>>, Invalidate(ks)
      PROVE  WrittenFloors' /\ WriterOK'
  <2>1. writer'.pc = "clear" /\ writer'.keys = writer.keys /\ writer'.left = writer.left \ ks
    BY <1>7 DEF TypeOK
  <2>2. ASSUME NEW k \in ks PROVE /\ EntryAtLeast(cache'[k], database'[k])
                                  /\ FillsAtLeast(reader', revision', k, database'[k])
    <3>1. \A n : FillsAtLeast(reader', revision', k, n)
      BY <1>7, NewRevision DEF Invalidate
    <3>2. EntryAtLeast(cache'[k], database'[k])
      BY <1>7 DEF Invalidate, EntryAtLeast
    <3>3. QED
      BY <3>1, <3>2 DEF FillsAtLeast
  <2>3. QED
    BY <1>3, <1>7, <2>1, <2>2 DEF WrittenFloors, WriterOK
<1>8. QED
  BY <1>1, <1>4, <1>5, <1>6, <1>7

LEMMA ClearedStep ==
    ASSUME TypeOK, ReadersOK, Floors, [Next]_vars
    PROVE  ClearedFloors'
<1> USE MarkersAssumption
<1> DEFINE Passed(c, k, db, entry, rd, rev) ==
             /\ c.seen[k] <= db[k]
             /\ FillsAtLeast(rd, rev, k, c.seen[k])
             /\ c.pc = "delete" /\ k \notin c.left => EntryAtLeast(entry[k], c.seen[k])
<1>1. SUFFICES ASSUME NEW k \in Keys, clearer'.pc # "idle"
               PROVE  Passed(clearer', k, database', cache', reader', revision')
  BY DEF ClearedFloors
<1>2. database[k] \in Nat /\ database'[k] \in Nat /\ database[k] <= database'[k]
  BY Monotone DEF TypeOK
\* What was passed before the step is passed after it.
<1>3. ASSUME clearer.pc # "idle"
      PROVE  /\ clearer.seen[k] <= database'[k]
             /\ FillsAtLeast(reader', revision', k, clearer.seen[k])
             /\ clearer.pc = "delete" /\ k \notin clearer.left
                  => EntryAtLeast(cache'[k], clearer.seen[k])
  <2> DEFINE n == clearer.seen[k]
  <2>1. /\ n \in Nat /\ n <= database[k] /\ FillsAtLeast(reader, revision, k, n)
        /\ clearer.pc = "delete" /\ k \notin clearer.left => EntryAtLeast(cache[k], n)
    BY <1>3 DEF TypeOK, Clearer, Floors, ClearedFloors
  <2> HIDE DEF n
  <2>2. FillsAtLeast(reader', revision', k, n) /\ n <= database'[k]
    BY <1>2, <2>1, FillsKept
  <2>3. clearer.pc = "delete" /\ k \notin clearer.left => EntryAtLeast(cache'[k], n)
    BY <2>1, EntryKept
  <2>4. QED
    BY <2>2, <2>3 DEF n
<1>4. CASE UNCHANGED clearer
  BY <1>1, <1>3, <1>4
<1>5. CASE ClearAll
  <2>1. /\ clearer' = [pc |-> "scan", left |-> {}, seen |-> database] \/ UNCHANGED clearer
        /\ UNCHANGED <<database, reader>>
    BY <1>5 DEF ClearAll
  <2>2. CASE clearer' = [pc |-> "scan", left |-> {}, seen |-> database] /\ Invalidate({})
    <3>1. \A n : FillsAtLeast(reader', revision', k, n)
      BY <2>1, <2>2, NewRevision DEF Invalidate
    <3>2. QED
      BY <1>2, <2>2, <3>1
  <2>3. QED
    BY <1>4, <1>5, <2>2 DEF ClearAll
<1>6. CASE Scan
  <2>1. PICK found \in SUBSET Keys :
          /\ {o \in Keys : cache[o] # None} \subseteq found
          /\ clearer' = [clearer EXCEPT !.pc = "delete", !.left = found]
          /\ clearer.pc = "scan" /\ UNCHANGED cache
    BY <1>6 DEF Scan, redis
  <2>2. clearer'.seen = clearer.seen /\ clearer'.pc = "delete" /\ clearer'.left = found
    BY <2>1 DEF TypeOK, Clearer
  <2>3. k \notin found => cache'[k] = None
    BY <2>1
  <2>4. QED
    BY <1>3, <2>1, <2>2, <2>3 DEF EntryAtLeast
<1>7. ASSUME NEW o \in Keys, DeleteScanned(o)
      PROVE  Passed(clearer', k, database', cache', reader', revision')
  <2>1. clearer.pc = "delete" /\ (clearer' = NoClearer
          \/ /\ cache' = [cache EXCEPT ![o] = None]
             /\ clearer' = [clearer EXCEPT !.left = @ \ {o}])
    BY <1>7 DEF DeleteScanned
  <2>2. CASE clearer' = NoClearer
    BY <1>1, <2>2 DEF NoClearer
  <2>3. CASE /\ cache' = [cache EXCEPT ![o] = None]
             /\ clearer' = [clearer EXCEPT !.left = @ \ {o}]
    <3>1. /\ clearer'.seen = clearer.seen /\ clearer'.pc = "delete"
          /\ clearer'.left = clearer.left \ {o}
      BY <2>1, <2>3 DEF TypeOK, Clearer
    <3>2. cache'[o] = None
      BY <2>3 DEF TypeOK
    <3>3. QED
      BY <1>3, <2>1, <3>1, <3>2 DEF EntryAtLeast
  <2>4. QED
    BY <2>1, <2>2, <2>3
<1>8. CASE clearer' = NoClearer
  BY <1>1, <1>8 DEF NoClearer
<1>9. \/ UNCHANGED clearer \/ ClearAll \/ Scan \/ clearer' = NoClearer
      \/ \E o \in Keys : DeleteScanned(o)
  BY DEF Next, vars, Read, ReadCache, InvalidateCorrupt, ReadRevision, ReadDatabase, StoreCache,
         Write, ClearWritten, ClearedAll, ClearKey, Expire, Crash
<1>10. QED
  BY <1>4, <1>5, <1>6, <1>7, <1>8, <1>9

LEMMA InitIInv == Init => IInv
<1> SUFFICES ASSUME Init PROVE IInv
  OBVIOUS
<1> USE MarkersAssumption DEF Init
<1>1. TypeOK
  BY DEF TypeOK, NoReader, NoWriter, NoClearer, Reader, Clearer
<1>2. ReadersOK /\ WriterOK
  BY DEF ReadersOK, ReaderOK, WriterOK, NoReader, NoWriter
<1>3. SettledFloors
  BY <1>1 DEF TypeOK, SettledFloors, EntryAtLeast, FillsAtLeast, NoReader
<1>4. WrittenFloors /\ ClearedFloors
  BY DEF WrittenFloors, ClearedFloors, NoWriter, NoClearer
<1>5. QED
  BY <1>1, <1>2, <1>3, <1>4 DEF IInv, Floors

LEMMA NextIInv == IInv /\ [Next]_vars => IInv'
<1> SUFFICES ASSUME IInv, [Next]_vars PROVE IInv'
  OBVIOUS
<1>1. TypeOK' /\ ReadersOK'
  BY TypeStep, ReadersStep DEF IInv, Floors
<1>2. Floors' /\ WriterOK'
  BY SettledStep, WrittenStep, ClearedStep DEF IInv, Floors
<1>3. QED
  BY <1>1, <1>2 DEF IInv

THEOREM Invariance == Spec => []IInv
BY InitIInv, NextIInv, PTL DEF Spec

\* Type correctness of both caches, their readers, writers and the clearing, for
\* any number of keys, readers and changes (config.go, dict.go).
THEOREM CacheTypeOK == Spec => []TypeOK
<1>1. IInv => TypeOK
  BY DEF IInv
<1>2. QED
  BY <1>1, Invariance, PTL

\* No entry is ever older than what the last reported success left in the
\* database (configcache.go: InvalidateConfigCache, StoreConfigCacheIfRevision).
THEOREM CacheCoherentAlways == Spec => []CacheCoherent
<1>1. IInv => CacheCoherent
  BY DEF IInv, Floors, SettledFloors, EntryAtLeast, CacheCoherent
<1>2. QED
  BY <1>1, Invariance, PTL

\* No read that begins after a reported success answers with something older,
\* from the cache or from the database (GetConfigValueByKey, GetDictDataByType).
THEOREM ReadsSettledAlways == Spec => []ReadsSettled
<1>1. IInv => ReadsSettled
  <2>1. ASSUME NEW r \in Readers, IInv, reader[r].pc = "idle"
        PROVE  reader[r].value >= reader[r].floor
    BY <2>1 DEF IInv, TypeOK, ReadersOK, ReaderOK, Reader
  <2>2. QED
    BY <2>1 DEF ReadsSettled
<1>2. QED
  BY <1>1, Invariance, PTL

-----------------------------------------------------------------------------
(***************************************************************************)
(* The tables behind the caches.  The invariant is that names and keys are *)
(* distinct, and that a contract parameter is built in and has a sensible  *)
(* value: a count of 0 means that nobody else has the name.                *)
(***************************************************************************)
TypesNamed == DOMAIN dictTypes \subseteq RefIds /\ \A i \in DOMAIN dictTypes : dictTypes[i] \in RefNames
DataRows == DOMAIN dictData \subseteq DataCodes /\ \A c \in DOMAIN dictData : dictData[c] \in Data
ParamRows == DOMAIN params \subseteq RefIds /\ \A i \in DOMAIN params : params[i] \in Param
Replied == reply \in [ok: BOOLEAN, cleared: SUBSET RefNames]

TypesDistinct == \A i, j \in DOMAIN dictTypes : dictTypes[i] = dictTypes[j] => i = j
KeysDistinct == \A i, j \in DOMAIN params : params[i].key = params[j].key => i = j
ContractSensible ==
    \A i \in DOMAIN params : params[i].key \in Contract => params[i].builtin /\ params[i].value \in Sensible

RefInv ==
    /\ TypesNamed /\ DataRows /\ ParamRows /\ Replied
    /\ TypesDistinct /\ KeysDistinct /\ ContractSensible

LEMMA RefStart ==
    ASSUME RefInit
    PROVE  RefInv
<1> USE DEF RefInit, Replied
<1>1. TypesNamed /\ TypesDistinct
  <2>1. CASE dictTypes = [i \in {} |-> 0]
    BY <2>1 DEF TypesNamed, TypesDistinct
  <2>2. ASSUME NEW id \in RefIds, NEW n \in Contract, dictTypes = [i \in {id} |-> n]
        PROVE  TypesNamed /\ TypesDistinct
    BY <2>2, RefTablesAssumption DEF TypesNamed, TypesDistinct
  <2> QED
    BY <2>1, <2>2 DEF DictInit
<1>2. DataRows
  BY DEF DictInit, DataRows
<1>3. ParamRows /\ KeysDistinct /\ ContractSensible
  <2>1. CASE params = [i \in {} |-> 0]
    BY <2>1 DEF ParamRows, KeysDistinct, ContractSensible
  <2>2. ASSUME NEW id \in RefIds, NEW n \in Contract, NEW v \in Sensible,
               params = [i \in {id} |-> [key |-> n, builtin |-> TRUE, value |-> v]]
        PROVE  ParamRows /\ KeysDistinct /\ ContractSensible
    BY <2>2, RefTablesAssumption DEF ParamRows, KeysDistinct, ContractSensible, Param
  <2> QED
    BY <2>1, <2>2 DEF ParamsInit
<1> QED
  BY <1>1, <1>2, <1>3 DEF RefInv

LEMMA ReplyOf ==
    ASSUME NEW names \in SUBSET RefNames, runPostCommit(names)
    PROVE  Replied' /\ (reply'.ok => reply'.cleared = names)
<1>1. \/ reply' = [ok |-> TRUE, cleared |-> names]
      \/ reply' = [ok |-> FALSE, cleared |-> {}]
  BY DEF runPostCommit
<1>2. Replied'
  <2>1. [ok |-> TRUE, cleared |-> names] \in [ok: BOOLEAN, cleared: SUBSET RefNames]
    OBVIOUS
  <2>2. [ok |-> FALSE, cleared |-> {}] \in [ok: BOOLEAN, cleared: SUBSET RefNames]
    OBVIOUS
  <2> QED
    BY <1>1, <2>1, <2>2, Zenon DEF Replied
<1>3. CASE reply' = [ok |-> TRUE, cleared |-> names]
  <2>1. reply'.cleared = names
    BY <1>3
  <2> QED
    BY <1>2, <2>1
<1>4. CASE reply' = [ok |-> FALSE, cleared |-> {}]
  <2>1. reply'.ok = FALSE
    BY <1>4
  <2> QED
    BY <1>2, <2>1
<1> QED
  BY <1>1, <1>3, <1>4

\* Nobody else has a name that is counted 0 times.
LEMMA NobodyElse ==
    ASSUME NEW table, NEW id, NEW Q, DOMAIN table \subseteq RefIds,
           Cardinality({i \in DOMAIN table \ {id} : table[i] = Q}) = 0
    PROVE  \A i \in DOMAIN table : table[i] = Q => i = id
<1>1. IsFiniteSet({i \in DOMAIN table \ {id} : table[i] = Q})
  BY RefTablesAssumption, FS_Subset
<1> QED
  BY <1>1, FS_EmptySet

\* What a request on types keeps, and what it clears.
TypesStep == TypesNamed' /\ TypesDistinct' /\ DataRows' /\ Replied' /\ ChangesCleared /\ TypesKeepData
ContractTypesKept ==
    \A i \in DOMAIN dictTypes : dictTypes[i] \in Contract => i \in DOMAIN dictTypes' /\ dictTypes'[i] = dictTypes[i]

LEMMA CreateDictTypeStep ==
    ASSUME RefInv, NEW id \in RefIds, NEW name \in RefNames, CreateDictType(id, name)
    PROVE  TypesStep /\ ContractTypesKept
<1> USE DEF RefInv, CreateDictType, Put
<1>1. dictData' = dictData /\ params' = params
  OBVIOUS
<1>2. DOMAIN dictTypes' = DOMAIN dictTypes \cup {id}
      /\ \A i \in DOMAIN dictTypes' : dictTypes'[i] = IF i = id THEN name ELSE dictTypes[i]
  OBVIOUS
<1>3. TypesNamed' /\ TypesDistinct' /\ ContractTypesKept
  BY <1>2 DEF TypesNamed, TypesDistinct, ContractTypesKept
<1>4. Replied' /\ DataRows'
  BY <1>1, ReplyOf DEF DataRows
<1>5. ChangesCleared
  BY <1>1 DEF ChangesCleared, SelectDictDataByType, SelectConfigValueByKey
<1>6. Orphans' \subseteq Orphans
  BY <1>1, <1>2 DEF Orphans
<1> QED
  BY <1>1, <1>3, <1>4, <1>5, <1>6 DEF TypesStep, TypesKeepData

LEMMA UpdateDictTypeStep ==
    ASSUME RefInv, NEW id \in RefIds, NEW name \in RefNames, UpdateDictType(id, name)
    PROVE  TypesStep /\ ContractTypesKept
<1> USE DEF RefInv, UpdateDictType, Put
<1> DEFINE old == dictTypes[id]
<1>1. params' = params /\ old \in RefNames
  BY DEF TypesNamed
<1>2. DOMAIN dictTypes' = DOMAIN dictTypes
      /\ \A i \in DOMAIN dictTypes' : dictTypes'[i] = IF i = id THEN name ELSE dictTypes[i]
  OBVIOUS
<1>3. \A i \in DOMAIN dictTypes : dictTypes[i] = name => i = id
  BY NobodyElse DEF TypesNamed, CountDictTypeByType
<1>4. DOMAIN dictData' = DOMAIN dictData /\ \A c \in DOMAIN dictData :
         dictData'[c] = IF dictData[c].type = old THEN [dictData[c] EXCEPT !.type = name] ELSE dictData[c]
  BY DEF Renamed
<1>5. TypesNamed' /\ TypesDistinct' /\ ContractTypesKept
  BY <1>2, <1>3 DEF TypesNamed, TypesDistinct, ContractTypesKept
<1>6. DataRows'
  BY <1>4 DEF DataRows, Data
<1>7. Replied' /\ (reply'.ok => reply'.cleared = {old, name})
  BY <1>1, ReplyOf
<1>8. ChangesCleared
  <2>1. SUFFICES ASSUME NEW n \in RefNames, n # old, n # name
                 PROVE  SelectDictDataByType(n)' = SelectDictDataByType(n)
    BY <1>1, <1>7 DEF ChangesCleared, SelectConfigValueByKey
  <2>2. \A c \in DOMAIN dictData : dictData'[c].type = n <=> dictData[c].type = n
    BY <1>4, <2>1 DEF DataRows, Data
  <2>3. \A c \in DOMAIN dictData : dictData[c].type = n => dictData'[c] = dictData[c]
    BY <1>4, <2>1
  <2> QED
    BY <1>4, <2>2, <2>3 DEF SelectDictDataByType
<1>9. Orphans' \subseteq Orphans
  <2>1. SUFFICES ASSUME NEW c \in DOMAIN dictData, NEW i \in DOMAIN dictTypes, dictTypes[i] = dictData[c].type
                 PROVE  \E j \in DOMAIN dictTypes' : dictTypes'[j] = dictData'[c].type
    BY <1>4 DEF Orphans
  <2>2. CASE i = id
    <3>1. dictData'[c].type = name /\ dictTypes'[id] = name
      BY <1>2, <1>4, <2>1, <2>2 DEF DataRows, Data
    <3> QED
      BY <1>2, <2>2, <3>1
  <2>3. CASE i # id
    <3>1. dictData[c].type # old
      BY <2>1, <2>3 DEF TypesDistinct
    <3> QED
      BY <1>2, <1>4, <2>1, <2>3, <3>1
  <2> QED
    BY <2>2, <2>3
<1> QED
  BY <1>4, <1>5, <1>6, <1>7, <1>8, <1>9 DEF TypesStep, TypesKeepData

LEMMA DeleteDictTypesStep ==
    ASSUME RefInv, NEW ids \in SUBSET RefIds, DeleteDictTypes(ids)
    PROVE  TypesStep /\ ContractTypesKept
<1> USE DEF RefInv, DeleteDictTypes, Without
<1> DEFINE names == {dictTypes[i] : i \in ids \cap DOMAIN dictTypes}
<1>1. dictData' = dictData /\ params' = params /\ names \in SUBSET RefNames
  BY DEF TypesNamed
<1>2. DOMAIN dictTypes' = DOMAIN dictTypes \ ids
      /\ \A i \in DOMAIN dictTypes' : dictTypes'[i] = dictTypes[i]
  OBVIOUS
<1>3. TypesNamed' /\ TypesDistinct' /\ ContractTypesKept
  BY <1>2 DEF TypesNamed, TypesDistinct, ContractTypesKept
<1>4. Replied' /\ DataRows'
  BY <1>1, ReplyOf DEF DataRows
<1>5. ChangesCleared
  BY <1>1 DEF ChangesCleared, SelectDictDataByType, SelectConfigValueByKey
<1>6. Orphans' \subseteq Orphans
  BY <1>1, <1>2 DEF Orphans, DataOf
<1> QED
  BY <1>1, <1>3, <1>4, <1>5, <1>6 DEF TypesStep, TypesKeepData

LEMMA TypesRequest ==
    ASSUME RefInv, DictTypeNext
    PROVE  RefInv' /\ RefTablesSound
<1>1. TypesStep /\ ContractTypesKept /\ params' = params
  <2>1. ASSUME NEW id \in RefIds, NEW name \in RefNames, CreateDictType(id, name)
        PROVE  TypesStep /\ ContractTypesKept /\ params' = params
    BY <2>1, CreateDictTypeStep DEF CreateDictType
  <2>2. ASSUME NEW id \in RefIds, NEW name \in RefNames, UpdateDictType(id, name)
        PROVE  TypesStep /\ ContractTypesKept /\ params' = params
    BY <2>2, UpdateDictTypeStep DEF UpdateDictType
  <2>3. ASSUME NEW ids \in SUBSET RefIds, DeleteDictTypes(ids)
        PROVE  TypesStep /\ ContractTypesKept /\ params' = params
    BY <2>3, DeleteDictTypesStep DEF DeleteDictTypes
  <2> QED
    BY <2>1, <2>2, <2>3 DEF DictTypeNext
<1>2. RefInv'
  BY <1>1 DEF RefInv, TypesStep, ParamRows, KeysDistinct, ContractSensible
<1>3. ContractKept
  BY <1>1, <1>2 DEF RefInv, ContractKept, ContractTypesKept, TypesDistinct, KeysDistinct, ContractSensible
<1> QED
  BY <1>1, <1>2, <1>3 DEF RefTablesSound, TypesStep

-----------------------------------------------------------------------------
\* The data of a type that is not among these is the data it was.
DataUntouched(names) == \A n \in RefNames \ names : SelectDictDataByType(n)' = SelectDictDataByType(n)

LEMMA DataRequest ==
    ASSUME RefInv, DictDataNext
    PROVE  RefInv' /\ RefTablesSound
<1> USE DEF RefInv
<1>1. DataRows' /\ Replied' /\ dictTypes' = dictTypes /\ params' = params
      /\ (reply'.ok => DataUntouched(reply'.cleared))
  <2>1. ASSUME NEW code \in DataCodes, NEW row \in Data, CreateDictData(code, row)
        PROVE  DataRows' /\ Replied' /\ dictTypes' = dictTypes /\ params' = params
               /\ (reply'.ok => DataUntouched(reply'.cleared))
    <3> USE <2>1 DEF CreateDictData, Put
    <3>1. row.type \in RefNames
      BY DEF Data
    <3>2. Replied' /\ (reply'.ok => reply'.cleared = {row.type})
      BY <3>1, ReplyOf
    <3>3. DOMAIN dictData' = DOMAIN dictData \cup {code} /\ dictData'[code] = row
          /\ \A c \in DOMAIN dictData : dictData'[c] = dictData[c]
      OBVIOUS
    <3>4. DataUntouched({row.type})
      BY <3>3 DEF DataUntouched, SelectDictDataByType
    <3> QED
      BY <3>2, <3>3, <3>4 DEF DataRows
  <2>2. ASSUME NEW code \in DataCodes, NEW row \in Data, UpdateDictData(code, row)
        PROVE  DataRows' /\ Replied' /\ dictTypes' = dictTypes /\ params' = params
               /\ (reply'.ok => DataUntouched(reply'.cleared))
    <3> USE <2>2 DEF UpdateDictData, Put, TypesOfUpdate
    <3>1. row.type \in RefNames /\ dictData[code].type \in RefNames
      BY DEF Data, DataRows
    <3>2. Replied' /\ (reply'.ok => reply'.cleared = {dictData[code].type, row.type})
      BY <3>1, ReplyOf
    <3>3. DOMAIN dictData' = DOMAIN dictData /\ dictData'[code] = row
          /\ \A c \in DOMAIN dictData : c # code => dictData'[c] = dictData[c]
      OBVIOUS
    <3>4. DataUntouched({dictData[code].type, row.type})
      BY <3>3 DEF DataUntouched, SelectDictDataByType
    <3> QED
      BY <3>2, <3>3, <3>4 DEF DataRows
  <2>3. ASSUME NEW codes \in SUBSET DataCodes, DeleteDictData(codes)
        PROVE  DataRows' /\ Replied' /\ dictTypes' = dictTypes /\ params' = params
               /\ (reply'.ok => DataUntouched(reply'.cleared))
    <3> USE <2>3 DEF DeleteDictData, Without
    <3> DEFINE names == {dictData[c].type : c \in codes \cap DOMAIN dictData}
    <3>1. names \in SUBSET RefNames
      BY DEF Data, DataRows
    <3>2. Replied' /\ (reply'.ok => reply'.cleared = names)
      BY <3>1, ReplyOf
    <3>3. DOMAIN dictData' = DOMAIN dictData \ codes /\ \A c \in DOMAIN dictData' : dictData'[c] = dictData[c]
      OBVIOUS
    <3>4. DataUntouched(names)
      BY <3>3 DEF DataUntouched, SelectDictDataByType
    <3> QED
      BY <3>2, <3>3, <3>4 DEF DataRows
  <2> QED
    BY <2>1, <2>2, <2>3 DEF DictDataNext
<1>2. RefInv'
  BY <1>1 DEF TypesNamed, ParamRows, TypesDistinct, KeysDistinct, ContractSensible
<1>3. ContractKept
  BY <1>1, <1>2 DEF ContractKept, TypesDistinct, KeysDistinct, ContractSensible
<1>4. ChangesCleared
  BY <1>1 DEF ChangesCleared, DataUntouched, SelectConfigValueByKey
<1> QED
  BY <1>1, <1>2, <1>3, <1>4 DEF RefTablesSound, TypesKeepData

-----------------------------------------------------------------------------
ParamsUntouched(names) == \A n \in RefNames \ names : SelectConfigValueByKey(n)' = SelectConfigValueByKey(n)
ContractParamsKept ==
    \A i \in DOMAIN params : params[i].key \in Contract => i \in DOMAIN params' /\ params'[i].key = params[i].key
ParamsStep == ParamRows' /\ KeysDistinct' /\ ContractSensible' /\ Replied' /\ ContractParamsKept
              /\ (reply'.ok => ParamsUntouched(reply'.cleared))

LEMMA CreateConfigStep ==
    ASSUME RefInv, NEW id \in RefIds, NEW row \in Param, CreateConfig(id, row)
    PROVE  ParamsStep
<1> USE DEF RefInv, CreateConfig, Put
<1>1. row.key \in RefNames
  BY DEF Param
<1>2. Replied' /\ (reply'.ok => reply'.cleared = {row.key})
  BY <1>1, ReplyOf
<1>3. DOMAIN params' = DOMAIN params \cup {id} /\ params'[id] = row
      /\ \A i \in DOMAIN params : params'[i] = params[i]
  OBVIOUS
<1>4. ParamRows' /\ KeysDistinct' /\ ContractParamsKept
  BY <1>3 DEF ParamRows, KeysDistinct, ContractParamsKept
<1>5. ContractSensible'
  BY <1>3 DEF ContractSensible, validateConfigCreate, validateContractConfigValue
<1>6. ParamsUntouched({row.key})
  BY <1>3 DEF ParamsUntouched, SelectConfigValueByKey
<1> QED
  BY <1>2, <1>4, <1>5, <1>6 DEF ParamsStep

LEMMA UpdateConfigStep ==
    ASSUME RefInv, NEW id \in RefIds, NEW row \in Param, UpdateConfig(id, row)
    PROVE  ParamsStep
<1> USE DEF RefInv, UpdateConfig, Put
<1>1. row.key \in RefNames /\ params[id].key \in RefNames
  BY DEF Param, ParamRows
<1>2. Replied' /\ (reply'.ok => reply'.cleared = {params[id].key, row.key})
  BY <1>1, ReplyOf
<1>3. DOMAIN params' = DOMAIN params /\ params'[id] = row
      /\ \A i \in DOMAIN params : i # id => params'[i] = params[i]
  OBVIOUS
<1>4. \A i \in DOMAIN params \ {id} : params[i].key # row.key
  <2>1. IsFiniteSet({i \in DOMAIN params \ {id} : params[i].key = row.key})
    BY RefTablesAssumption, FS_Subset DEF ParamRows
  <2> QED
    BY <2>1, FS_EmptySet DEF CountConfigByKey
<1>5. ParamRows' /\ KeysDistinct'
  BY <1>3, <1>4 DEF ParamRows, KeysDistinct
<1>6. ContractSensible' /\ ContractParamsKept
  BY <1>3 DEF ContractSensible, ContractParamsKept, validateConfigUpdate, validateContractConfigValue
<1>7. ParamsUntouched({params[id].key, row.key})
  BY <1>3 DEF ParamsUntouched, SelectConfigValueByKey
<1> QED
  BY <1>2, <1>5, <1>6, <1>7 DEF ParamsStep

LEMMA DeleteConfigsStep ==
    ASSUME RefInv, NEW ids \in SUBSET RefIds, DeleteConfigs(ids)
    PROVE  ParamsStep
<1> USE DEF RefInv, DeleteConfigs, Without
<1> DEFINE names == {row.key : row \in {params[i] : i \in ids \cap DOMAIN params}}
<1>1. names \in SUBSET RefNames
  BY DEF Param, ParamRows
<1>2. Replied' /\ (reply'.ok => reply'.cleared = names)
  BY <1>1, ReplyOf
<1>3. DOMAIN params' = DOMAIN params \ ids /\ \A i \in DOMAIN params' : params'[i] = params[i]
  OBVIOUS
<1>4. ParamRows' /\ KeysDistinct' /\ ContractSensible' /\ ContractParamsKept
  BY <1>3 DEF ParamRows, KeysDistinct, ContractSensible, ContractParamsKept
<1>5. ParamsUntouched(names)
  BY <1>3 DEF ParamsUntouched, SelectConfigValueByKey
<1> QED
  BY <1>2, <1>4, <1>5 DEF ParamsStep

LEMMA ParamsRequest ==
    ASSUME RefInv, ParamsNext
    PROVE  RefInv' /\ RefTablesSound
<1>1. ParamsStep /\ dictTypes' = dictTypes /\ dictData' = dictData
  <2>1. ASSUME NEW id \in RefIds, NEW row \in Param, CreateConfig(id, row)
        PROVE  ParamsStep /\ dictTypes' = dictTypes /\ dictData' = dictData
    BY <2>1, CreateConfigStep DEF CreateConfig
  <2>2. ASSUME NEW id \in RefIds, NEW row \in Param, UpdateConfig(id, row)
        PROVE  ParamsStep /\ dictTypes' = dictTypes /\ dictData' = dictData
    BY <2>2, UpdateConfigStep DEF UpdateConfig
  <2>3. ASSUME NEW ids \in SUBSET RefIds, DeleteConfigs(ids)
        PROVE  ParamsStep /\ dictTypes' = dictTypes /\ dictData' = dictData
    BY <2>3, DeleteConfigsStep DEF DeleteConfigs
  <2> QED
    BY <2>1, <2>2, <2>3 DEF ParamsNext
<1>2. RefInv'
  BY <1>1 DEF RefInv, ParamsStep, TypesNamed, DataRows, TypesDistinct
<1>3. ContractKept
  BY <1>1, <1>2 DEF RefInv, ContractKept, ContractParamsKept, ParamsStep, TypesDistinct, KeysDistinct, ContractSensible
<1>4. ChangesCleared
  BY <1>1 DEF ChangesCleared, ParamsStep, ParamsUntouched, SelectDictDataByType
<1> QED
  BY <1>1, <1>2, <1>3, <1>4 DEF RefTablesSound, TypesKeepData

LEMMA RefNext ==
    ASSUME RefInv, [DictNext \/ ParamsNext]_refVars
    PROVE  RefInv' /\ (refVars' # refVars => RefTablesSound)
<1>1. CASE UNCHANGED refVars
  BY <1>1 DEF refVars, RefInv, TypesNamed, DataRows, ParamRows, Replied, TypesDistinct, KeysDistinct, ContractSensible
<1> QED
  BY <1>1, TypesRequest, DataRequest, ParamsRequest DEF DictNext

\* The tables of types, data and parameters keep their types whatever is requested
\* (config.go, dict.go).
THEOREM TablesTypeCorrect == RefSpec => []RefTypeOK
<1>1. RefInv => RefTypeOK
  BY DEF RefInv, RefTypeOK, TypesNamed, DataRows, ParamRows, Replied
<1> QED
  BY <1>1, RefStart, RefNext, PTL DEF RefSpec

\* A change clears what it changed, types keep their data, no two types or
\* parameters share a name, and the parameters the program needs stay, with a
\* sensible value (config.go, dict.go).
THEOREM TablesAlwaysKept == RefSpec => [][RefTablesSound]_refVars
<1>1. RefInv /\ [DictNext \/ ParamsNext]_refVars => [RefTablesSound]_refVars
  BY RefNext
<1> QED
  BY <1>1, RefStart, RefNext, PTL DEF RefSpec

-----------------------------------------------------------------------------
(***************************************************************************)
(* Clearing by hand.                                                       *)
(***************************************************************************)

\* A step that clears takes entries of these caches only, with a new revision
\* where there is one.
EntriesCleared ==
    /\ \A v \in Versioned :
         /\ revisions'[v] >= revisions[v]
         /\ (\E key \in entries \ entries' : key.prefix = v) => revisions'[v] > revisions[v]
    /\ \A key \in entries \ entries' : key.prefix \notin Foreign
    /\ entries' \subseteq MonitorKey /\ revisions' \in [Versioned -> 0..MaxClears]

LEMMA UnderName ==
    ASSUME NEW name, MonitorTypeOK
    PROVE  \A key \in Under(name) : key \in MonitorKey /\ key.prefix = name
BY DEF Under, Present, MonitorTypeOK

\* Keys of a cache without revisions are deleted.
LEMMA KeysDeleted ==
    ASSUME MonitorTypeOK, NEW name \in Allowed \ Versioned, NEW keys, DeleteKeys(keys),
           \A key \in keys : key.prefix = name
    PROVE  EntriesCleared
<1>1. \A v \in Versioned : [prefix |-> v, rest |-> "revision"] \notin keys
  <2>1. SUFFICES ASSUME NEW v \in Versioned, [prefix |-> v, rest |-> "revision"] \in keys
                 PROVE  FALSE
    OBVIOUS
  <2>2. [prefix |-> v, rest |-> "revision"].prefix = name
    BY <2>1
  <2> QED
    BY <2>2
<1>2. \A v \in Versioned : revisions'[v] = revisions[v] /\ revisions[v] \in 0..MaxClears
  BY <1>1 DEF DeleteKeys, MonitorTypeOK
<1>3. revisions' \in [Versioned -> 0..MaxClears]
  BY <1>2 DEF DeleteKeys
<1>4. \A key \in entries \ entries' : key.prefix = name
  BY DEF DeleteKeys
<1>5. name \notin Foreign /\ entries' \subseteq MonitorKey
  BY CacheMonitorAssumption DEF DeleteKeys, MonitorTypeOK
<1> QED
  BY <1>2, <1>3, <1>4, <1>5, CacheMonitorAssumption DEF EntriesCleared

LEMMA VersionedCleared ==
    ASSUME MonitorTypeOK, NEW name \in Versioned, NEW rest, ClearVersioned(name, rest)
    PROVE  EntriesCleared
<1>1. \A key \in entries \ entries' : key.prefix = name
  <2>1. CASE rest = ""
    BY <2>1, UnderName DEF ClearVersioned
  <2>2. CASE rest # ""
    <3>1. entries' = entries \ {[prefix |-> name, rest |-> rest]}
      BY <2>2 DEF ClearVersioned
    <3> QED
      BY <3>1
  <2> QED
    BY <2>1, <2>2
<1>2. entries' \subseteq entries
  BY DEF ClearVersioned
<1>3. revisions' = [revisions EXCEPT ![name] = @ + 1] /\ revisions[name] < MaxClears
  BY DEF ClearVersioned
<1>4. \A v \in Versioned : revisions[v] \in 0..MaxClears
  BY DEF MonitorTypeOK
<1>5. revisions'[name] = revisions[name] + 1 /\ \A v \in Versioned : v # name => revisions'[v] = revisions[v]
  BY <1>3 DEF MonitorTypeOK
<1>6. revisions' \in [Versioned -> 0..MaxClears]
  BY <1>3, <1>4, <1>5, CacheMonitorAssumption DEF MonitorTypeOK
<1>7. name \notin Foreign /\ entries' \subseteq MonitorKey
  BY <1>2, CacheMonitorAssumption DEF MonitorTypeOK
<1> QED
  BY <1>1, <1>4, <1>5, <1>6, <1>7, CacheMonitorAssumption DEF EntriesCleared

LEMMA NameCleared ==
    ASSUME MonitorTypeOK, NEW name, ClearCacheByName(name)
    PROVE  EntriesCleared
<1>1. CASE name \in Versioned
  BY <1>1, VersionedCleared DEF ClearCacheByName
<1>2. CASE name \notin Versioned
  <2>1. PICK done \in SUBSET Under(name) : DeleteKeys(done)
    BY <1>2 DEF ClearCacheByName, DeleteUnder
  <2>2. \A key \in done : key.prefix = name
    BY <2>1, UnderName
  <2> QED
    BY <1>2, <2>1, <2>2, KeysDeleted DEF ClearCacheByName
<1> QED
  BY <1>1, <1>2

LEMMA KeyCleared ==
    ASSUME MonitorTypeOK, NEW key, ClearCacheByKey(key)
    PROVE  EntriesCleared
<1>1. CASE key.prefix \in Versioned
  BY <1>1, VersionedCleared DEF ClearCacheByKey
<1>2. CASE key.prefix \notin Versioned
  BY <1>2, KeysDeleted DEF ClearCacheByKey
<1> QED
  BY <1>1, <1>2

LEMMA MonitorStep ==
    ASSUME MonitorTypeOK, MonitorNext
    PROVE  EntriesCleared /\ MonitorTypeOK'
<1>1. EntriesCleared /\ toClear' \subseteq Allowed
  <2>1. ASSUME NEW key \in MonitorKey, Appear(key)
        PROVE  EntriesCleared /\ toClear' \subseteq Allowed
    <3>1. entries' = entries \cup {key} /\ revisions' = revisions /\ toClear' = toClear
      BY <2>1 DEF Appear
    <3>2. entries \ entries' = {} /\ \A v \in Versioned : revisions[v] \in 0..MaxClears
      BY <3>1 DEF MonitorTypeOK
    <3> QED
      BY <3>1, <3>2, CacheMonitorAssumption DEF EntriesCleared, MonitorTypeOK
  <2>2. ASSUME NEW key \in MonitorKey, ClearCacheByKey(key), UNCHANGED toClear
        PROVE  EntriesCleared /\ toClear' \subseteq Allowed
    BY <2>2, KeyCleared DEF MonitorTypeOK
  <2>3. ASSUME NEW name \in Allowed \cup Foreign, ClearCacheByName(name), UNCHANGED toClear
        PROVE  EntriesCleared /\ toClear' \subseteq Allowed
    BY <2>3, NameCleared DEF MonitorTypeOK
  <2>4. ASSUME toClear' = Allowed, UNCHANGED <<entries, revisions>>
        PROVE  EntriesCleared /\ toClear' \subseteq Allowed
    <3>1. \A v \in Versioned : revisions[v] \in 0..MaxClears
      BY DEF MonitorTypeOK
    <3> QED
      BY <2>4, <3>1, CacheMonitorAssumption DEF EntriesCleared, MonitorTypeOK
  <2>5. ASSUME NEW name \in toClear, ClearCacheByName(name), toClear' \in {toClear \ {name}, {}}
        PROVE  EntriesCleared /\ toClear' \subseteq Allowed
    BY <2>5, NameCleared DEF MonitorTypeOK
  <2> QED
    BY <2>1, <2>2, <2>3, <2>4, <2>5 DEF MonitorNext, ClearCacheAll
<1> QED
  BY <1>1 DEF EntriesCleared, MonitorTypeOK

\* What the monitor shows of a cache, whatever it picks when there is too much.
Own(name) == {key \in entries : key.prefix = name /\ name \notin Foreign}

LEMMA ShownAllowed ==
    ASSUME NEW name \in Allowed \cup Foreign
    PROVE  (UNION CacheKeys(name)) \cup UNION {CacheValue(name, rest) : rest \in Rests}
               \subseteq Own(name)
<1>1. ASSUME name \in Allowed, NEW key \in Present, key.prefix = name, ~IsCacheMetadataKey(key)
      PROVE  key \in Own(name)
  BY <1>1, CacheMonitorAssumption DEF Present, Own
<1>2. ASSUME NEW shown \in CacheKeys(name), NEW key \in shown
      PROVE  key \in Own(name)
  <2>1. name \in Allowed /\ key \in Under(name) /\ ~IsCacheMetadataKey(key)
    BY <1>2 DEF CacheKeys
  <2> QED
    BY <1>1, <2>1 DEF Under
<1>3. ASSUME NEW rest \in Rests, NEW key \in CacheValue(name, rest)
      PROVE  key \in Own(name)
  <2>1. name \in Allowed /\ key = [prefix |-> name, rest |-> rest] /\ key \in Present /\ ~IsCacheMetadataKey(key)
    BY <1>3, Zenon DEF CacheValue
  <2> QED
    BY <1>1, <2>1
<1>4. UNION CacheKeys(name) \subseteq Own(name)
  BY <1>2
<1>5. UNION {CacheValue(name, rest) : rest \in Rests} \subseteq Own(name)
  BY <1>3, Zenon
<1> QED
  BY <1>4, <1>5

LEMMA MonitorStart ==
    ASSUME MonitorInit
    PROVE  MonitorTypeOK
BY CacheMonitorAssumption DEF MonitorInit, MonitorTypeOK

\* The entries that the monitor's pages show keep their types (cache.go).
THEOREM MonitorTypeCorrect == MonitorSpec => []MonitorTypeOK
<1>1. MonitorTypeOK /\ [MonitorNext]_monitorVars => MonitorTypeOK'
  <2>1. CASE UNCHANGED monitorVars
    BY <2>1 DEF monitorVars, MonitorTypeOK
  <2> QED
    BY <2>1, MonitorStep
<1> QED
  BY <1>1, MonitorStart, PTL DEF MonitorSpec

\* Whatever is cleared from the monitor's pages, sessions stay, revisions never go
\* back, and what is shown is neither (cache.go).
THEOREM MonitorAlwaysHarmless == MonitorSpec => [][MonitorHarmless]_monitorVars
<1>1. MonitorTypeOK /\ [MonitorNext]_monitorVars => [MonitorHarmless]_monitorVars
  <2>1. ASSUME MonitorTypeOK, MonitorNext
        PROVE  MonitorHarmless
    BY <2>1, MonitorStep, ShownAllowed DEF EntriesCleared, MonitorHarmless, Own
  <2> QED
    BY <2>1
<1> QED
  BY <1>1, MonitorTypeCorrect, PTL DEF MonitorSpec

===============================================================================
